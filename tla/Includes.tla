------------------------------ MODULE Includes ------------------------------
(***************************************************************************)
(* The include graph of the document store: how `#include` directives are  *)
(* resolved to known documents, and what opening, loading, reloading and   *)
(* removing one document does to all the others (store.rs,                 *)
(* parser/include_parser.rs, options.rs).                                  *)
(*                                                                         *)
(* A file is a pair <<directory, name>>; it stands for its path and for    *)
(* its URI.  `documents` is a partial function from files to documents,    *)
(* `disk` a partial function from files to texts.  A text is known by its  *)
(* include directives only, and an include text by the file name it ends   *)
(* in once add_include_extension has completed it.  Operators are pure:    *)
(* they take the documents D, the disk dk and the options o.               *)
(***************************************************************************)
EXTENDS Integers, Sequences

CONSTANTS
    Dir,            \* directories
    NoDir,          \* what IncludeDir maps a directory without "include" to
    IncludeDir,     \* IncludeDir[d]: the sub-directory "include" of d
    Below,          \* Below[d]: the directories of the tree rooted at d
    Covers,         \* Covers[d]: directories whose path contains d's as text
    Name,           \* file names; include texts are file names
    SourcemodName,  \* "sourcemod.inc"
    PluginName,     \* the names with extension .sp
    File,           \* the SourcePawn files there may be: a set of pairs
    Mentions,       \* Mentions[f]: the names that occur as text in f's URI, where a
                    \* name with a space or an accent is percent-encoded
    Text,           \* contents of a file
    EmptyText,      \* ""
    Directives,     \* Directives[t]: the include directives of text t
    PluginText,     \* the texts that contain "OnPluginStart()"
    NoMain          \* the empty mainPath

Directive == [name : Name, quoted : BOOLEAN]
Document  == [text : Text, parsed : BOOLEAN,
              includes : SUBSET File, missing_includes : SUBSET Name]
Options   == [includes_directories : Seq(Dir), main_path : File \cup {NoMain}]

ASSUME FilesAssumption ==
    /\ File \subseteq Dir \X Name
    /\ NoDir \notin Dir
    /\ IncludeDir \in [Dir -> Dir \cup {NoDir}]
    /\ Below \in [Dir -> SUBSET Dir]
    /\ Covers \in [Dir -> SUBSET Dir]
    /\ NoMain \notin File

ASSUME TextsAssumption ==
    /\ SourcemodName \in Name
    /\ PluginName \subseteq Name
    /\ Mentions \in [File -> SUBSET Name]
    /\ EmptyText \in Text
    /\ Directives \in [Text -> SUBSET Directive]
    /\ Directives[EmptyText] = {}
    /\ PluginText \subseteq Text

DirOf(f)  == f[1]
NameOf(f) == f[2]

-----------------------------------------------------------------------------
\* Options::get_main_path_uri: {} for Ok(None) and for Err, told apart by
\* InvalidMain.
MainUri(dk, o) == {o.main_path} \cap DOMAIN dk
InvalidMain(dk, o) == o.main_path # NoMain /\ o.main_path \notin DOMAIN dk

\* Where a directory is searched: the file itself if it exists on disk, else
\* the file of that name in the sub-directory "include".
Beside(dk, d, n) == IF <<d, n>> \in DOMAIN dk THEN <<d, n>> ELSE <<IncludeDir[d], n>>

\* Store::resolve_import, as the set of at most one file it returns.  K is the
\* set of known files.  A quoted include is looked for beside the main file
\* and nowhere else when there is one; any other beside the document, then in
\* the include directories in order.
Resolve(K, dk, o, f, n, quoted) ==
    LET main == MainUri(dk, o)
        near == {Beside(dk, DirOf(f), n)} \cap K
        hits == {i \in DOMAIN o.includes_directories :
                    <<o.includes_directories[i], n>> \in K}
        first == {i \in hits : \A j \in hits : i <= j}
    IN  CASE quoted /\ main # {} -> {Beside(dk, DirOf(m), n) : m \in main} \cap K
          [] ~(quoted /\ main # {}) /\ near # {} -> near
          [] OTHER -> {<<o.includes_directories[i], n>> : i \in first}

Resolved(K, dk, o, f, t) ==
    UNION {Resolve(K, dk, o, f, d.name, d.quoted) : d \in Directives[t]}
Unresolved(K, dk, o, f, t) ==
    {d.name : d \in {e \in Directives[t] :
                        Resolve(K, dk, o, f, e.name, e.quoted) = {}}}

\* Document::new: known but not parsed.
Unparsed(t) == [text |-> t, parsed |-> FALSE, includes |-> {}, missing_includes |-> {}]

\* The document Store::parse builds for text t of file f when K is known:
\* sourcemod is included without being asked for, and an include that cannot
\* be resolved is recorded as missing, except that one.
Parsed(K, dk, o, f, t) ==
    [text |-> t, parsed |-> TRUE,
     includes |-> Resolved(K, dk, o, f, t)
                    \cup Resolve(K, dk, o, f, SourcemodName, FALSE),
     missing_includes |-> Unresolved(K, dk, o, f, t)]

-----------------------------------------------------------------------------
UnparsedIn(D) == {f \in DOMAIN D : ~D[f].parsed}

\* Store::read_unscanned_imports: the unparsed files that the documents of
\* Roots, just parsed, include directly or through other unparsed files: the
\* least set S closed under the recursion.
Fresh(D, dk, o, Roots) ==
    LET U == UnparsedIn(D)
        K == DOMAIN D
        Closed(S) ==
            /\ \A f \in Roots : D[f].includes \cap U \subseteq S
            /\ \A f \in S : Parsed(K, dk, o, f, D[f].text).includes \cap U \subseteq S
    IN  {f \in U : \A S \in SUBSET U : Closed(S) => f \in S}

\* A wrong read_unscanned_imports, that does not follow what it parses.
ReadDirectImports(D, dk, o, Roots) ==
    [f \in DOMAIN D |-> IF f \in UnparsedIn(D) /\ \E r \in Roots : f \in D[r].includes
                        THEN Parsed(DOMAIN D, dk, o, f, D[f].text)
                        ELSE D[f]]

ReadUnscannedImports(D, dk, o, Roots) ==
    LET fresh == Fresh(D, dk, o, Roots)
    IN  [f \in DOMAIN D |-> IF f \in fresh
                            THEN Parsed(DOMAIN D, dk, o, f, D[f].text)
                            ELSE D[f]]

\* Store::handle_open_document: f is resolved against the documents known
\* before it is inserted, the unparsed files it pulls in after.
HandleOpenDocument(D, dk, o, f, t) ==
    LET doc == Parsed(DOMAIN D, dk, o, f, t)
        D1  == [g \in DOMAIN D \cup {f} |-> IF g = f THEN doc ELSE D[g]]
    IN  ReadUnscannedImports(D1, dk, o, {f})

\* handle_open_document on every document of Fs, with the text it has.  The
\* set of known files does not change, so the order does not matter.
ReopenAll(D, dk, o, Fs) ==
    LET D1 == [g \in DOMAIN D |-> IF g \in Fs
                                  THEN Parsed(DOMAIN D, dk, o, g, D[g].text)
                                  ELSE D[g]]
    IN  ReadUnscannedImports(D1, dk, o, Fs)

\* Store::resolve_missing_includes: re-open each document of which a missing
\* include occurs as text in the URI of a known one, whatever its name is: the
\* URI of a file does not mention a name that its encoding changes.
ResolveMissingIncludes(D, dk, o) ==
    ReopenAll(D, dk, o,
              {f \in DOMAIN D : \E g \in DOMAIN D :
                                    D[f].missing_includes \cap Mentions[g] # {}})

\* A wrong load, after which missing includes are not looked at.
LoadAlone(D, dk, o, f) ==
    IF f \in DOMAIN D \/ f \notin DOMAIN dk THEN D ELSE HandleOpenDocument(D, dk, o, f, dk[f])

\* Store::load: a known file is left alone, one that cannot be read as well.
Load(D, dk, o, f) ==
    IF f \in DOMAIN D \/ f \notin DOMAIN dk
    THEN D
    ELSE ResolveMissingIncludes(HandleOpenDocument(D, dk, o, f, dk[f]), dk, o)

\* Store::reload: the text is read again whether or not the file was known.
Reload(D, dk, o, f) ==
    IF f \notin DOMAIN dk
    THEN D
    ELSE ResolveMissingIncludes(HandleOpenDocument(D, dk, o, f, dk[f]), dk, o)

\* Wrong removals: the includes are left as they were; the missing include is
\* not recorded; it is recorded by its URI.
RemoveKeepingIncludes(D, dk, o, f) ==
    LET D1 == HandleOpenDocument(D, dk, o, f, EmptyText)
    IN  [g \in DOMAIN D1 \ {f} |-> D1[g]]
RemoveForgettingMissing(D, dk, o, f) ==
    LET D1 == HandleOpenDocument(D, dk, o, f, EmptyText)
    IN  [g \in DOMAIN D1 \ {f} |-> [D1[g] EXCEPT !.includes = @ \ {f}]]
RemoveRecordingUri(D, dk, o, f) ==
    LET D1 == HandleOpenDocument(D, dk, o, f, EmptyText)
    IN  [g \in DOMAIN D1 \ {f} |->
            [D1[g] EXCEPT
                !.includes = @ \ {f},
                !.missing_includes = IF f \in D1[g].includes THEN @ \cup {f} ELSE @]]

\* Store::remove: the file is opened as empty, dropped, and becomes a missing
\* include of the documents that included it.
Remove(D, dk, o, f) ==
    LET D1 == HandleOpenDocument(D, dk, o, f, EmptyText)
    IN  [g \in DOMAIN D1 \ {f} |->
            [D1[g] EXCEPT
                !.includes = @ \ {f},
                !.missing_includes = IF f \in D1[g].includes THEN @ \cup {NameOf(f)} ELSE @]]

\* A wrong find_documents, that reads known files again.
FindDocumentsAfresh(D, dk, Ds) ==
    LET found == {f \in DOMAIN dk : \E d \in Ds : DirOf(f) \in Below[d]}
    IN  [f \in DOMAIN D \cup found |-> IF f \in found THEN Unparsed(dk[f]) ELSE D[f]]

\* Store::find_documents on each directory of Ds: what is on disk below them
\* and not known yet is added, not parsed.
FindDocuments(D, dk, Ds) ==
    LET found == {f \in DOMAIN dk \ DOMAIN D : \E d \in Ds : DirOf(f) \in Below[d]}
    IN  [f \in DOMAIN D \cup found |-> IF f \in DOMAIN D THEN D[f] ELSE Unparsed(dk[f])]

\* Server::read_unscanned_document: nothing for a known file, else the folder
\* of the file is scanned and every unparsed document opened.
ReadUnscannedDocument(D, dk, o, f) ==
    IF f \in DOMAIN D
    THEN D
    ELSE LET D1 == FindDocuments(D, dk, {DirOf(f)})
         IN  ReopenAll(D1, dk, o, UnparsedIn(D1))

\* Store::is_main_heuristic: the documents that may be taken for the main file.
MainCandidates(D, o) ==
    {f \in DOMAIN D :
        /\ \A i \in DOMAIN o.includes_directories :
              DirOf(f) \notin Covers[o.includes_directories[i]]
        /\ NameOf(f) \in PluginName
        /\ D[f].text \in PluginText}
=============================================================================
