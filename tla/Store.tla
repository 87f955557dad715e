-------------------------------- MODULE Store --------------------------------
(***************************************************************************)
(* The main thread of the language server and its document store: the      *)
(* handlers of server/mod.rs, server/notifications.rs, server/files.rs and *)
(* server/files/events.rs, as they change which documents are known, with  *)
(* which text, parsed or not, and with which includes.                     *)
(*                                                                         *)
(* The main thread handles one message at a time, so a handler is one      *)
(* action; a handler that loops over files while the disk may change has   *)
(* one action per iteration, and `main` says that the thread is inside it. *)
(* The disk, the client and the configuration are the environment.         *)
(***************************************************************************)
EXTENDS Includes, FiniteSets

CONSTANTS
    WorkspaceDirs,      \* the workspace folders of the initialize request
    InitialDisks,       \* what may be on disk when the server starts
    Configurations,     \* the options the client may have
    OtherFiles,         \* directories that exist whatever happens to our files
    TextsOf,            \* TextsOf[f]: the texts file f may be given
    PullConfiguration,  \* has_pull_configuration_support
    MaxEvents,          \* bound on the events waiting in the internal channel
    MaxMissed           \* bound on the files that change without a watcher

VARIABLES
    disk,           \* file system: partial function from File to Text
    watcher,        \* whether Store::watcher holds one
    watched,        \* directories a watcher watches, registered or not yet
    to_watch,       \* directories left to the loop of register_file_watching
    events,         \* FileEvent messages in the internal channel
    documents,      \* Store::documents
    options,        \* Store::environment.options
    config_pulled,  \* Server::config_pulled
    first_parse,    \* Store::first_parse
    indexing,       \* Server::indexing
    main,           \* what the main thread is doing
    todo,           \* files left to the loop of handle_file_event
    reverted,       \* history: documents did_open replaced by unparsed ones
    missed          \* history: files changed while there was no watcher

watching == <<watcher, watched, to_watch>>
vars == <<disk, watching, events, documents, options, config_pulled,
          first_parse, indexing, main, todo, reverted, missed>>
server == <<watching, documents, options, config_pulled, first_parse, indexing,
            main, todo, reverted>>

ASSUME StoreAssumption ==
    /\ WorkspaceDirs \subseteq Dir
    /\ OtherFiles \subseteq Dir
    /\ \A d \in InitialDisks : DOMAIN d \subseteq File /\ d \in [DOMAIN d -> Text]
    /\ Configurations \subseteq Options
    /\ TextsOf \in [File -> SUBSET Text]
    /\ PullConfiguration \in BOOLEAN
    /\ MaxEvents \in Nat /\ MaxMissed \in Nat

Known == DOMAIN documents

\* Default::default() of Options.
DefaultOptions == [includes_directories |-> <<>>, main_path |-> NoMain]

FileEvent(kind, f) == [kind |-> kind, path |-> f]
FileKinds == {"create", "data", "name", "remove"}
Event == [kind : FileKinds, path : File] \cup [kind : {"name_dir"}, path : Dir]

\* A recursive watch reports what happens below the watched directories.
Watched(d) == \E w \in watched : d \in Below[w]
IsDir(d) == d \in OtherFiles \/ \E f \in DOMAIN disk : DirOf(f) \in Below[d]

-----------------------------------------------------------------------------
\* Server::new and Server::initialize, up to the spawn of pull_config: the
\* workspace folders are scanned, nothing is parsed, nothing is watched.
Init ==
    /\ disk \in InitialDisks
    /\ watcher = FALSE
    /\ watched = {}
    /\ to_watch = <<>>
    /\ events = <<>>
    /\ documents = FindDocuments(<<>>, disk, WorkspaceDirs)
    /\ options = DefaultOptions
    /\ config_pulled = FALSE
    /\ first_parse = TRUE
    /\ indexing = FALSE
    /\ main = "idle"
    /\ todo = {}
    /\ reverted = {}
    /\ missed = {}

-----------------------------------------------------------------------------
(* The file system.  An event is queued for a change below a watched       *)
(* directory, and is read after any number of later changes.               *)

Emit(es) ==
    /\ Len(events) + Len(es) <= MaxEvents
    /\ events' = events \o es

EmitFor(f, kind) == Emit(IF Watched(DirOf(f)) THEN <<FileEvent(kind, f)>> ELSE <<>>)

\* Of the files fs that change, those nobody reports for want of a watcher and no
\* scan will make up for: a file is read by the scan of the next reparse_all only
\* if it is not known, and its older events may still be waiting.  Nothing is
\* ever watched, nor said of it, for a client without pull support.
Unreported(f) ==
    /\ PullConfiguration /\ ~watcher /\ ~Watched(DirOf(f))
    /\ \/ f \in Known
       \/ config_pulled /\ main = "idle"
       \/ \E i \in DOMAIN events : events[i].path = f

Miss(fs) ==
    /\ missed' = missed \cup {f \in fs : Unreported(f)}
    /\ Cardinality(missed') <= MaxMissed

FsWrite(f, t) ==
    /\ t \in TextsOf[f]
    /\ f \in DOMAIN disk => disk[f] # t
    /\ disk' = [g \in DOMAIN disk \cup {f} |-> IF g = f THEN t ELSE disk[g]]
    /\ EmitFor(f, IF f \in DOMAIN disk THEN "data" ELSE "create")
    /\ Miss({f})
    /\ UNCHANGED server

FsDelete(f) ==
    /\ f \in DOMAIN disk
    /\ disk' = [g \in DOMAIN disk \ {f} |-> disk[g]]
    /\ EmitFor(f, "remove")
    /\ Miss({f})
    /\ UNCHANGED server

\* A file is renamed, over an existing one or not.  The events name the old
\* path, then the new one; a backend that sees both ends reports the pair as
\* well, of which only the first path is used.
FsRename(f, g, both) ==
    /\ f \in DOMAIN disk /\ g # f
    /\ both => Watched(DirOf(f)) /\ Watched(DirOf(g))
    /\ disk' = [h \in (DOMAIN disk \ {f}) \cup {g} |-> IF h = g THEN disk[f] ELSE disk[h]]
    /\ Emit((IF Watched(DirOf(f)) THEN <<FileEvent("name", f)>> ELSE <<>>)
             \o (IF Watched(DirOf(g)) THEN <<FileEvent("name", g)>> ELSE <<>>)
             \o (IF both THEN <<FileEvent("name", f)>> ELSE <<>>))
    /\ Miss({f, g})
    /\ UNCHANGED server

\* A directory without sub-directories is renamed to one that does not exist.
FsRenameDir(d, e) ==
    LET moved == {f \in DOMAIN disk : DirOf(f) = d}
        image == {<<e, NameOf(f)>> : f \in moved}
    IN  /\ moved # {} /\ d \notin OtherFiles /\ ~IsDir(e) /\ e \notin Below[d] /\ image \subseteq File
        /\ \A f \in DOMAIN disk : DirOf(f) \in Below[d] => f \in moved
        /\ disk' = [f \in (DOMAIN disk \ moved) \cup image |->
                        IF f \in image THEN disk[<<d, NameOf(f)>>] ELSE disk[f]]
        /\ Emit((IF Watched(d) THEN <<FileEvent("name_dir", d)>> ELSE <<>>)
                 \o (IF Watched(e) THEN <<FileEvent("name_dir", e)>> ELSE <<>>))
        /\ Miss(moved \cup image)
        /\ UNCHANGED server

-----------------------------------------------------------------------------
(* Messages of the client.                                                 *)

\* Server::did_open.  Before the configuration the document replaces the one
\* known, parsed or not; after it, a parsed document is kept as it is.
DidOpen(f, t) ==
    /\ main = "idle"
    /\ IF ~config_pulled
       THEN /\ documents' = [g \in Known \cup {f} |->
                                IF g = f THEN Unparsed(t) ELSE documents[g]]
            /\ reverted' = reverted \cup {g \in Known : g = f /\ documents[g].parsed}
       ELSE /\ documents' = IF f \in Known /\ documents[f].parsed
                            THEN documents
                            ELSE HandleOpenDocument(documents, disk, options, f, t)
            /\ UNCHANGED reverted
    /\ UNCHANGED <<disk, watching, events, options, config_pulled, first_parse,
                   indexing, main, todo, missed>>

\* Server::did_change.  The edit is applied to the known text and gives t; an
\* unknown file is loaded from disk and the edit forgotten.
DidChange(f, t) ==
    /\ main = "idle"
    /\ documents' = IF f \in Known
                    THEN HandleOpenDocument(documents, disk, options, f, t)
                    ELSE Load(documents, disk, options, f)
    /\ UNCHANGED <<disk, watching, events, options, config_pulled, first_parse,
                   indexing, main, todo, reverted, missed>>

\* Server::did_change_watched_files, one change per notification.
DidChangeWatchedFiles(f, typ) ==
    /\ main = "idle"
    /\ documents' = CASE typ = "CHANGED" -> Reload(documents, disk, options, f)
                      [] typ = "DELETED" -> Remove(documents, disk, options, f)
                      [] typ = "CREATED" -> Load(documents, disk, options, f)
    /\ UNCHANGED <<disk, watching, events, options, config_pulled, first_parse,
                   indexing, main, todo, reverted, missed>>

\* The part of a feature request that runs in the main thread: definition,
\* hover, completion, ... on file f.
FeatureRequest(f) ==
    /\ main = "idle"
    /\ documents' = ReadUnscannedDocument(documents, disk, options, f)
    /\ UNCHANGED <<disk, watching, events, options, config_pulled, first_parse,
                   indexing, main, todo, reverted, missed>>

-----------------------------------------------------------------------------
(* The configuration, and reparse_all.                                     *)

\* A wrong SetOptions, that registers the watcher before it takes the options.
SetOptionsWatchingOld(o) ==
    /\ main = "idle" /\ PullConfiguration
    /\ config_pulled' = TRUE
    /\ options' = o
    /\ watcher' = FALSE
    /\ watched' = {}
    /\ to_watch' = options.includes_directories
    /\ main' = "watching"
    /\ UNCHANGED <<disk, events, documents, first_parse, indexing, todo, reverted, missed>>

\* InternalMessage::SetOptions: the options are taken, and the old watcher is
\* dropped before the new one is made.
SetOptions(o) ==
    /\ main = "idle" /\ PullConfiguration
    /\ config_pulled' = TRUE
    /\ options' = o
    /\ watcher' = FALSE
    /\ watched' = {}
    /\ to_watch' = o.includes_directories
    /\ main' = "watching"
    /\ UNCHANGED <<disk, events, documents, first_parse, indexing, todo, reverted, missed>>

\* What register_file_watching leaves alone once the old watcher is gone.
registering == <<disk, events, documents, options, config_pulled, first_parse,
                 indexing, todo, reverted, missed>>

\* One iteration of its loop: the include directories that exist are watched,
\* and changes below them reported from then on.
WatchDirectory ==
    /\ main = "watching" /\ to_watch # <<>>
    /\ watched' = IF IsDir(Head(to_watch)) THEN watched \cup {Head(to_watch)} ELSE watched
    /\ to_watch' = Tail(to_watch)
    /\ UNCHANGED <<registering, watcher, main>>

\* A directory cannot be watched: `?` takes the error out of process_messages,
\* and the server is gone.
WatchFails ==
    /\ main = "watching" /\ to_watch # <<>> /\ IsDir(Head(to_watch))
    /\ watched' = {}
    /\ main' = "failed"
    /\ UNCHANGED <<registering, watcher, to_watch>>

\* The watcher is registered; or it could not be made in the first place, and
\* the server goes on without.
RegisterWatcher ==
    /\ main = "watching"
    /\ \/ to_watch = <<>> /\ watcher' = TRUE
       \/ to_watch = options.includes_directories /\ watched = {} /\ UNCHANGED watcher
    /\ to_watch' = <<>>
    /\ main' = "reparse"
    /\ UNCHANGED <<registering, watched>>

\* Server::did_change_configuration of a client without pull support: the
\* options come with the notification and nothing is watched.
DidChangeConfiguration(o) ==
    /\ main = "idle" /\ ~PullConfiguration
    /\ config_pulled' = TRUE
    /\ options' = o
    /\ main' = "reparse"
    /\ UNCHANGED <<disk, watching, events, documents, first_parse, indexing, todo,
                   reverted, missed>>

\* parse_directories.
Scanned == FindDocuments(documents, disk, {options.includes_directories[i] :
                                              i \in DOMAIN options.includes_directories})

ReparseEnds(D) ==
    /\ documents' = D
    /\ first_parse' = FALSE
    /\ indexing' = FALSE
    /\ main' = "idle"
    /\ UNCHANGED <<disk, watching, events, config_pulled, todo, reverted, missed>>

\* The main path is set and known, or one of the candidates is taken for it:
\* only that document is opened again.
ReparseMain ==
    /\ main = "reparse"
    /\ \E m \in IF options.main_path = NoMain
                THEN MainCandidates(Scanned, options)
                ELSE MainUri(disk, options) \cap DOMAIN Scanned :
          LET o == [options EXCEPT !.main_path = m]
          IN  /\ options' = o
              /\ ReparseEnds(ReopenAll(Scanned, disk, o, {m}))

\* The main path is invalid, or not set and none can be inferred: every
\* document is opened again.
ReparseWithoutMain ==
    /\ main = "reparse"
    /\ \/ InvalidMain(disk, options)
       \/ options.main_path = NoMain /\ MainCandidates(Scanned, options) = {}
    /\ ReparseEnds(ReopenAll(Scanned, disk, options, DOMAIN Scanned))
    /\ UNCHANGED options

\* The main path exists but is in no scanned directory: reparse_all fails in
\* the middle, which SetOptions does not survive and did_change_configuration
\* ignores.
ReparseFails ==
    /\ main = "reparse"
    /\ MainUri(disk, options) \ DOMAIN Scanned # {}
    /\ documents' = Scanned
    /\ indexing' = TRUE
    /\ main' = IF PullConfiguration THEN "panicked" ELSE "idle"
    /\ UNCHANGED <<disk, watching, events, options, config_pulled, first_parse,
                   todo, reverted, missed>>

-----------------------------------------------------------------------------
(* Server::handle_file_event.                                              *)

TakeEvent(kinds) ==
    /\ main = "idle"
    /\ events # <<>> /\ Head(events).kind \in kinds
    /\ events' = Tail(events)
    /\ UNCHANGED <<disk, watcher, to_watch, options, config_pulled, first_parse,
                   indexing, reverted, missed>>

\* A known file is taken for one that went away, an unknown one for a new one.
Flip(D, f) == IF f \in DOMAIN D THEN Remove(D, disk, options, f)
                                ELSE Load(D, disk, options, f)

HandleFileEvent ==
    /\ TakeEvent(FileKinds)
    /\ LET e == Head(events)
           D == documents
       IN  documents' =
             CASE e.kind = "create" -> Load(D, disk, options, e.path)
               [] e.kind = "remove" -> Remove(D, disk, options, e.path)
               [] e.kind = "name"   -> Flip(D, e.path)
               [] e.kind = "data"   -> IF e.path \in DOMAIN D
                                       THEN Reload(D, disk, options, e.path)
                                       ELSE D
    /\ UNCHANGED <<watched, main, todo>>

\* A directory above an include directory is unwatched and nothing else is
\* done; for any other the known files below it (by the text of the path) are
\* removed, or the files on disk loaded when there are none.
HandleDirEvent ==
    /\ TakeEvent({"name_dir"})
    /\ LET d == Head(events).path
           known == {f \in Known : DirOf(f) \in Covers[d]}
       IN  IF IsDir(d) /\ \E i \in DOMAIN options.includes_directories :
                             options.includes_directories[i] \in Below[d]
           THEN /\ watched' = watched \ {d}
                /\ UNCHANGED <<main, todo>>
           ELSE /\ todo' = IF known # {}
                           THEN known
                           ELSE {f \in DOMAIN disk : DirOf(f) \in Below[d]}
                /\ main' = IF todo' = {} THEN "idle" ELSE "files"
                /\ UNCHANGED watched
    /\ UNCHANGED documents

\* One iteration of the loop over the files of a renamed directory.
HandleDirFile ==
    /\ main = "files"
    /\ \E f \in todo :
          /\ documents' = Flip(documents, f)
          /\ todo' = todo \ {f}
          /\ main' = IF todo' = {} THEN "idle" ELSE "files"
    /\ UNCHANGED <<disk, watching, events, options, config_pulled, first_parse,
                   indexing, reverted, missed>>

-----------------------------------------------------------------------------
Client ==
    \/ \E f \in File : \E t \in TextsOf[f] : DidOpen(f, t) \/ DidChange(f, t)
    \/ \E f \in File : FeatureRequest(f)
    \/ \E f \in File, typ \in {"CHANGED", "DELETED", "CREATED"} :
          DidChangeWatchedFiles(f, typ)

Configure ==
    \/ \E o \in Configurations : SetOptions(o) \/ DidChangeConfiguration(o)
    \/ WatchDirectory
    \/ WatchFails
    \/ RegisterWatcher
    \/ ReparseMain
    \/ ReparseWithoutMain
    \/ ReparseFails

Edit ==
    \/ \E f \in File : \E t \in TextsOf[f] : FsWrite(f, t)
    \/ \E f \in File : FsDelete(f)

Move ==
    \/ \E f, g \in File, both \in BOOLEAN : FsRename(f, g, both)
    \/ \E d, e \in Dir : FsRenameDir(d, e)

Handle == HandleFileEvent \/ HandleDirEvent \/ HandleDirFile

Next == Client \/ Configure \/ Edit \/ Move \/ Handle

Spec == Init /\ [][Next]_vars

\* The client and the configuration, on a disk that changes.
ClientSpec == Init /\ [][Client \/ Configure \/ Edit]_vars

\* Without the client: what the disk does is all there is to follow.
DiskSpec == Init /\ [][Configure \/ Edit \/ HandleFileEvent]_vars
MoveSpec == Init /\ [][Configure \/ Edit \/ Move \/ Handle]_vars

-----------------------------------------------------------------------------
(* Properties.                                                             *)

\* Every variable has its type; in particular missing includes are recorded by
\* the name the directive gives, never by the URI it was bound to (store.rs:72-74).
TypeOK ==
    /\ DOMAIN disk \subseteq File /\ disk \in [DOMAIN disk -> Text]
    /\ watcher \in BOOLEAN
    /\ watched \subseteq Dir
    /\ to_watch \in Seq(Dir)
    /\ events \in Seq(Event) /\ Len(events) <= MaxEvents
    /\ DOMAIN documents \subseteq File
    /\ documents \in [DOMAIN documents -> Document]
    /\ options \in Options
    /\ config_pulled \in BOOLEAN /\ first_parse \in BOOLEAN /\ indexing \in BOOLEAN
    /\ main \in {"idle", "watching", "reparse", "files", "panicked", "failed"}
    /\ todo \subseteq File
    /\ reverted \subseteq File
    /\ missed \subseteq File

\* What a document includes is in the store, whatever was removed, renamed or
\* reloaded since: read_unscanned_imports relies on it when it expects
\* "Include does not exist." never to happen.
IncludesClosed == \A f \in Known : documents[f].includes \subseteq Known

\* No include directive of a parsed document is lost: it is bound to a file of
\* that name or recorded as missing, so that loading the file brings it back.
IncludesAccounted ==
    \A f \in Known : documents[f].parsed =>
        \A d \in Directives[documents[f].text] :
            \/ d.name \in documents[f].missing_includes
            \/ \E g \in documents[f].includes : NameOf(g) = d.name

\* What a parsed document includes is parsed, so that its symbols are known;
\* the one exception is a document opened again before the configuration came.
ParsedClosed ==
    \A f \in Known : documents[f].parsed =>
        \A g \in documents[f].includes : documents[g].parsed \/ g \in reverted

\* When a file is loaded or reloaded, no document keeps among its missing
\* includes one that can now be resolved (resolve_missing_includes), provided
\* that its name can be read in the URI of some document.
Resolvable(K, dk, o, f, d) == Resolve(K, dk, o, f, d.name, d.quoted) # {}

RelinkedWhenLoaded ==
    [][\A f \in File, typ \in {"CREATED", "CHANGED"} :
          /\ DidChangeWatchedFiles(f, typ)
          /\ documents' # documents
          => \A g \in DOMAIN documents' : documents'[g].parsed =>
                \A d \in Directives[documents'[g].text] :
                    d.name \in documents'[g].missing_includes
                        => \/ ~Resolvable(DOMAIN documents', disk, options, g, d)
                           \/ ~\E h \in DOMAIN documents' : d.name \in Mentions[h]
                           \/ \E e \in Directives[documents'[g].text] :
                                 e.name = d.name /\ e.quoted # d.quoted]_vars

\* A scan of directories (a new configuration, a feature request on an unknown
\* file) adds documents; it never drops one nor replaces the text the editor
\* gave by the one on disk.
RescanKeepsTexts ==
    [][main = "reparse" \/ (\E f \in File : FeatureRequest(f))
       => \A g \in Known : g \in DOMAIN documents'
                           /\ documents'[g].text = documents[g].text]_vars

\* Once every event is handled, what the store knows of the include directories
\* is what is on disk, with the text that is on disk, however the changes and
\* the (late) reads of their events interleaved.  Only a file that changed
\* while there was no watcher may be left behind: between the old watcher and
\* the new, when it was known already, or when none could be made.
InIncludeDirs(f) ==
    \E i \in DOMAIN options.includes_directories :
        DirOf(f) \in Below[options.includes_directories[i]]

StoreFollowsDisk ==
    config_pulled /\ main = "idle" /\ events = <<>> =>
        \A f \in File \ missed : InIncludeDirs(f) =>
            /\ f \in Known <=> f \in DOMAIN disk
            /\ f \in Known => documents[f].text = disk[f]

-----------------------------------------------------------------------------
(* What an assertion says, and the code does not do: refuted by a run, as  *)
(* StoreFollowsDisk is when files are renamed.                             *)

\* server/mod.rs expects that reparse_all never fails.
ReparseNeverFails == main # "panicked"
=============================================================================
