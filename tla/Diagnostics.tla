----------------------------- MODULE Diagnostics -----------------------------
(***************************************************************************)
(* The diagnostics of the documents: what spcomp and the linter say, how   *)
(* server/diagnostics.rs and linter/ keep it in the store, and what the    *)
(* client was last told (textDocument/publishDiagnostics).                 *)
(*                                                                         *)
(* The workspace has one plugin, Main, which includes the other documents, *)
(* all in one include directory.  The diagnostics of a document are two:   *)
(* whether spcomp found errors in it, and how often the hint of its one    *)
(* deprecated declaration is listed.  spcomp runs on worker threads and    *)
(* reads the disk, which is changed behind the server's back: the client   *)
(* watches it, and so does the server once it has its configuration, each  *)
(* with a queue of its own.  A handler is one step (Store takes it apart). *)
(*                                                                         *)
(* File renames are in Store; here a file is written and deleted.          *)
(***************************************************************************)
EXTENDS Naturals, Sequences

CONSTANTS
    Doc,            \* URIs of documents
    Main,           \* the plugin main_path names
    Deprecating,    \* the documents, none an .inc, that declare a deprecated item
    Run,            \* jobs of reload_diagnostics that may be under way
    MaxReports,     \* bound on the file changes not yet handled in each queue
    MaxResults,     \* bound on the results not yet ingested
    MaxHints        \* a list of MaxHints hints stands for any longer one

ASSUME DiagnosticsAssumption ==
    /\ Main \in Doc
    /\ Deprecating \subseteq Doc
    /\ MaxReports \in [{"client", "server"} -> Nat] /\ MaxResults \in Nat
    /\ MaxHints \in Nat \ {0}

VARIABLES
    disk,           \* file system: partial function from Doc to Code
    reports,        \* reports[ch]: file changes waiting to be handled
    documents,      \* Store::documents
    edited,         \* documents the client edited, or opened with a text of its
                    \* own, since the server last read them
    unsaved,        \* history: documents the client opened while they were not on
                    \* disk, and that were not seen on disk since
    config_pulled,  \* Server::config_pulled
    runs,           \* runs[r]: how far the job r is
    latest,         \* history: the job spawned last
    failed,         \* history: ... has failed
    results,        \* Diagnostics messages in the internal channel
    shown,          \* shown[d]: the diagnostics the client has for d
    status          \* SpcompStatusParams::quiescent the client was last sent

spawned == <<runs, latest, failed>>
vars == <<disk, reports, documents, edited, unsaved, config_pulled, spawned, results, shown,
          status>>

Code == {"ok", "bad"}
Part == Doc \ {Main}
Known == DOMAIN documents

Document == [parsed : BOOLEAN, includes : SUBSET Part, spcomp : BOOLEAN, hints : 0 .. MaxHints]
Channel == {"client", "server"}
Report == [kind : {"created", "changed", "deleted"}, doc : Doc]

\* A job: waiting for a worker, not compiling yet, done with the documents
\* spcomp found errors in, or failed.
Job == [at : {"idle", "spawned", "started", "done", "failed"}, found : SUBSET Doc]
NoRun == [at |-> "idle", found |-> {}]

NoDiagnostics == [spcomp |-> FALSE, hints |-> 0]

\* Document::new, and the document Store::parse builds when K is known.
Unparsed == [parsed |-> FALSE, includes |-> {}, spcomp |-> FALSE, hints |-> 0]
Parsed(K, d) == [parsed |-> TRUE, includes |-> IF d = Main THEN Part \cap K ELSE {},
                 spcomp |-> FALSE, hints |-> 0]

-----------------------------------------------------------------------------
(* The store.  A document that is opened is built anew, without the        *)
(* diagnostics it had.                                                     *)

\* Store::handle_open_document: d, and the unparsed documents it includes.
HandleOpenDocument(D, d) ==
    LET doc   == Parsed(DOMAIN D, d)
        fresh == {e \in doc.includes : ~D[e].parsed}
    IN  [e \in DOMAIN D \cup {d} |->
            IF e = d THEN doc
            ELSE IF e \in fresh THEN Parsed(DOMAIN D, e) ELSE D[e]]

\* Store::resolve_missing_includes: only Main includes others.
ResolveMissingIncludes(D) ==
    IF Main \in DOMAIN D /\ D[Main].parsed /\ (Part \cap DOMAIN D) \ D[Main].includes # {}
    THEN HandleOpenDocument(D, Main)
    ELSE D

Load(D, dk, d) ==
    IF d \in DOMAIN D \/ d \notin DOMAIN dk
    THEN D
    ELSE ResolveMissingIncludes(HandleOpenDocument(D, d))

Reload(D, dk, d) ==
    IF d \in DOMAIN dk THEN ResolveMissingIncludes(HandleOpenDocument(D, d)) ELSE D

\* A wrong removal, that leaves the document among the includes.
RemoveKeepingIncludes(D, d) == [e \in DOMAIN D \ {d} |-> D[e]]

Remove(D, d) == [e \in DOMAIN D \ {d} |-> [D[e] EXCEPT !.includes = @ \ {d}]]

-----------------------------------------------------------------------------
(* linter/mod.rs and server/diagnostics.rs.                                *)

\* Store::get_all_items: the documents whose items are linted.
Linted(D, dk) ==
    IF Main \in DOMAIN dk
    THEN IF Main \in DOMAIN D THEN {Main} \cup D[Main].includes ELSE {}
    ELSE DOMAIN D

\* Store::clear_all_diagnostics: local diagnostics are not cleared.
ClearAllDiagnostics(D) == [d \in DOMAIN D |-> [D[d] EXCEPT !.spcomp = FALSE]]

\* Store::get_deprecated_diagnostics: each hint is pushed once more.
GetDeprecatedDiagnostics(D, dk) ==
    [d \in DOMAIN D |->
        IF d \in Deprecating \cap Linted(D, dk) /\ D[d].parsed /\ D[d].hints < MaxHints
        THEN [D[d] EXCEPT !.hints = @ + 1]
        ELSE D[d]]

\* Server::publish_diagnostics: a notification for each known document.
PublishDiagnostics(D) ==
    shown' = [d \in Doc |-> IF d \in DOMAIN D
                            THEN [spcomp |-> D[d].spcomp, hints |-> D[d].hints]
                            ELSE shown[d]]

\* Server::lint_all_documents, on the documents D of the handler.
LintAllDocuments(D) ==
    LET linted == GetDeprecatedDiagnostics(D, disk)
    IN  documents' = linted /\ PublishDiagnostics(linted)

\* Server::reload_diagnostics: a run of spcomp is spawned if Main is a file.
ReloadDiagnostics(D) ==
    /\ LintAllDocuments(ClearAllDiagnostics(D))
    /\ IF Main \in DOMAIN disk
       THEN \E r \in Run : /\ runs[r].at = "idle"
                           /\ runs' = [runs EXCEPT ![r].at = "spawned"]
                           /\ latest' = r /\ failed' = FALSE
       ELSE UNCHANGED spawned

-----------------------------------------------------------------------------
\* Server::initialize has found what is on disk; nothing is parsed.
Init ==
    /\ disk \in UNION {[S -> Code] : S \in SUBSET Doc}
    /\ reports = [ch \in Channel |-> <<>>]
    /\ documents = [d \in DOMAIN disk |-> Unparsed]
    /\ edited = {} /\ unsaved = {}
    /\ config_pulled = FALSE
    /\ runs = [r \in Run |-> NoRun]
    /\ latest \in Run /\ failed = FALSE
    /\ results = <<>>
    /\ shown = [d \in Doc |-> NoDiagnostics]
    /\ status = TRUE

-----------------------------------------------------------------------------
(* The file system, watched by the client and by the server.               *)

Changes(dk, kind, d) ==
    LET told == IF config_pulled THEN Channel ELSE {"client"}
    IN  /\ \A ch \in told : Len(reports[ch]) < MaxReports[ch]
        /\ disk' = dk
        /\ reports' = [ch \in Channel |->
                          IF ch \in told
                          THEN Append(reports[ch], [kind |-> kind, doc |-> d])
                          ELSE reports[ch]]
        /\ UNCHANGED <<documents, edited, unsaved, config_pulled, spawned, results, shown,
                       status>>

FsWrite(d, code) ==
    /\ d \in DOMAIN disk => disk[d] # code
    /\ Changes([e \in DOMAIN disk \cup {d} |-> IF e = d THEN code ELSE disk[e]],
               IF d \in DOMAIN disk THEN "changed" ELSE "created", d)

FsDelete(d) ==
    /\ d \in DOMAIN disk
    /\ Changes([e \in DOMAIN disk \ {d} |-> disk[e]], "deleted", d)

-----------------------------------------------------------------------------
(* The main thread.                                                        *)

Reported(ch, d, kind) ==
    /\ reports[ch] # <<>> /\ Head(reports[ch]) = [kind |-> kind, doc |-> d]
    /\ reports' = [reports EXCEPT ![ch] = Tail(@)]
    /\ unsaved' = IF kind = "deleted" \/ d \in DOMAIN disk THEN unsaved \ {d} ELSE unsaved
    /\ UNCHANGED <<disk, config_pulled, results, status>>

\* FileChangeType::CREATED, or notify's Create.
Created(ch, d) ==
    /\ Reported(ch, d, "created")
    /\ edited' = IF d \in Known THEN edited ELSE edited \ {d}
    /\ ReloadDiagnostics(Load(documents, disk, d))

\* FileChangeType::CHANGED reloads a file that is not known as well,
Changed(d) ==
    /\ Reported("client", d, "changed")
    /\ edited' = IF d \in DOMAIN disk THEN edited \ {d} ELSE edited
    /\ ReloadDiagnostics(Reload(documents, disk, d))

\* notify's Modify does not.
Modified(d) ==
    /\ Reported("server", d, "changed")
    /\ edited' = IF d \in Known \cap DOMAIN disk THEN edited \ {d} ELSE edited
    /\ ReloadDiagnostics(IF d \in Known THEN Reload(documents, disk, d) ELSE documents)

\* FileChangeType::DELETED, or notify's Remove.
Deleted(ch, d) ==
    /\ Reported(ch, d, "deleted")
    /\ edited' = edited \ {d}
    /\ ReloadDiagnostics(Remove(documents, d))

\* Server::did_open: of a file, of a buffer that was never saved, or of a file
\* that is gone by now.  A document that is parsed keeps its text.
DidOpen(d) ==
    /\ ~(config_pulled /\ d \in Known /\ documents[d].parsed)
    /\ documents' = IF ~config_pulled
                    THEN [e \in Known \cup {d} |-> IF e = d THEN Unparsed ELSE documents[e]]
                    ELSE HandleOpenDocument(documents, d)
    /\ \/ edited' = edited \cup {d}
       \/ ~config_pulled /\ d \in DOMAIN disk /\ edited' = edited \ {d}
    /\ unsaved' = IF d \in DOMAIN disk THEN unsaved ELSE unsaved \cup {d}
    /\ UNCHANGED <<disk, reports, config_pulled, spawned, results, shown, status>>

\* Server::did_change: an unknown document is loaded instead, and nothing is
\* linted if it is not on disk.
DidChange(d) ==
    /\ d \in Known \cup DOMAIN disk
    /\ edited' = edited \cup {d}
    /\ LintAllDocuments(IF d \in Known
                        THEN HandleOpenDocument(documents, d)
                        ELSE Load(documents, disk, d))
    /\ UNCHANGED <<disk, reports, unsaved, config_pulled, spawned, results, status>>

\* Server::reparse_all, when the options are set: the include directory is
\* searched, then Main is opened or, if it is no file, every document.
ReparseAll ==
    LET found  == [d \in Known \cup DOMAIN disk |->
                        IF d \in Known THEN documents[d] ELSE Unparsed]
        opened == IF Main \in DOMAIN disk
                  THEN HandleOpenDocument(found, Main)
                  ELSE [d \in DOMAIN found |-> Parsed(DOMAIN found, d)]
    IN  /\ config_pulled' = TRUE
        /\ ReloadDiagnostics(opened)
        /\ UNCHANGED <<disk, reports, edited, unsaved, results, status>>

\* Wrong ingestions: a document spcomp is silent about is cleared; one that
\* is no longer known is put back.
IngestClearing(D, found) == [d \in DOMAIN D |-> [D[d] EXCEPT !.spcomp = d \in found]]
IngestInserting(D, found) ==
    [d \in DOMAIN D \cup found |->
        IF d \in found THEN [(IF d \in DOMAIN D THEN D[d] ELSE Unparsed) EXCEPT !.spcomp = TRUE]
        ELSE D[d]]

\* Store::ingest_spcomp_diagnostics: found has the documents with errors.
IngestSpcompDiagnostics(D, found) ==
    [d \in DOMAIN D |-> IF d \in found THEN [D[d] EXCEPT !.spcomp = TRUE] ELSE D[d]]

Ingest ==
    /\ results # <<>>
    /\ LET ingested == IngestSpcompDiagnostics(documents, Head(results))
       IN  documents' = ingested /\ PublishDiagnostics(ingested)
    /\ results' = Tail(results)
    /\ UNCHANGED <<disk, reports, edited, unsaved, config_pulled, spawned, status>>

-----------------------------------------------------------------------------
(* A job of reload_diagnostics, on a worker.                               *)

StartRun(r) ==
    /\ runs[r].at = "spawned"
    /\ runs' = [runs EXCEPT ![r].at = "started"]
    /\ status' = FALSE
    /\ UNCHANGED <<disk, reports, documents, edited, unsaved, config_pulled, latest, failed,
                   results, shown>>

\* spcomp reads Main and what it includes; without Main it says what it may.
Compile(r) ==
    /\ runs[r].at = "started"
    /\ \E found \in IF Main \in DOMAIN disk THEN {{d \in DOMAIN disk : disk[d] = "bad"}}
                                            ELSE SUBSET {Main} :
          runs' = [runs EXCEPT ![r] = [at |-> "done", found |-> found]]
    /\ UNCHANGED <<disk, reports, documents, edited, unsaved, config_pulled, latest, failed,
                   results, shown, status>>

\* get_spcomp_diagnostics returns an error at any time: spcomp cannot be run,
\* has no arguments, or writes to its error output.
FailRun(r) ==
    /\ runs[r].at = "started"
    /\ runs' = [runs EXCEPT ![r] = [at |-> "failed", found |-> {}]]
    /\ failed' = (failed \/ r = latest)
    /\ UNCHANGED <<disk, reports, documents, edited, unsaved, config_pulled, latest, results,
                   shown, status>>

\* A wrong end of a run, that says nothing when spcomp failed.
FinishRunSilently(r) ==
    /\ runs[r].at \in {"done", "failed"} /\ Len(results) < MaxResults
    /\ runs' = [runs EXCEPT ![r] = NoRun]
    /\ results' = IF runs[r].at = "failed" THEN results ELSE Append(results, runs[r].found)
    /\ status' = (status \/ runs[r].at = "done")
    /\ UNCHANGED <<disk, reports, documents, edited, unsaved, config_pulled, latest, failed,
                   shown>>

FinishRun(r) ==
    /\ runs[r].at \in {"done", "failed"} /\ Len(results) < MaxResults
    /\ runs' = [runs EXCEPT ![r] = NoRun]
    /\ results' = IF runs[r].at = "failed" THEN results ELSE Append(results, runs[r].found)
    /\ status' = TRUE
    /\ UNCHANGED <<disk, reports, documents, edited, unsaved, config_pulled, latest, failed,
                   shown>>

-----------------------------------------------------------------------------
FileSystem == \E d \in Doc : FsDelete(d) \/ \E code \in Code : FsWrite(d, code)

MainThread ==
    \/ \E d \in Doc : \/ \E ch \in Channel : Created(ch, d) \/ Deleted(ch, d)
                      \/ Changed(d)
                      \/ Modified(d)
                      \/ DidOpen(d)
                      \/ DidChange(d)
    \/ ReparseAll
    \/ Ingest

Workers == \E r \in Run : StartRun(r) \/ Compile(r) \/ FailRun(r) \/ FinishRun(r)

Next == FileSystem \/ MainThread \/ Workers

Spec == Init /\ [][Next]_vars

-----------------------------------------------------------------------------
(* Properties.                                                             *)

\* Every variable has its type, and a document includes known ones only: the
\* linter asks for the items of each (spitem/mod.rs:86).
TypeOK ==
    /\ DOMAIN disk \subseteq Doc /\ disk \in [DOMAIN disk -> Code]
    /\ reports \in [Channel -> Seq(Report)]
    /\ Known \subseteq Doc /\ documents \in [Known -> Document]
    /\ \A d \in Known : documents[d].includes \subseteq Known
    /\ edited \subseteq Known /\ unsaved \subseteq Known
    /\ config_pulled \in BOOLEAN
    /\ runs \in [Run -> Job] /\ latest \in Run /\ failed \in BOOLEAN
    /\ results \in Seq(SUBSET Doc)
    /\ shown \in [Doc -> [spcomp : BOOLEAN, hints : 0 .. MaxHints]]
    /\ status \in BOOLEAN

\* Nothing that happened is still on its way to the client.
Settled ==
    /\ config_pulled
    /\ \A ch \in Channel : reports[ch] = <<>>
    /\ \A r \in Run : runs[r].at = "idle"
    /\ results = <<>>

\* When all is settled and the run spawned last did not fail, the client
\* shows the errors of every document that has them on disk and was not edited
\* since: however the runs of spcomp overtake each other, whichever of the
\* others fail, and whatever is opened anew in the meantime, no error is lost
\* (diagnostics.rs:12-37, spcomp.rs:182-192).  When the last run fails the
\* errors are lost: they were cleared before it was spawned.
ErrorsReported ==
    Settled /\ Main \in DOMAIN disk /\ ~failed =>
        \A d \in (Known \cap DOMAIN disk) \ edited : disk[d] = "bad" => shown[d].spcomp

\* When all is settled, what is known but not on disk is what the client
\* opened without a file: neither the result of a run that saw a file which
\* was then deleted (spcomp.rs:187), nor a creation that one queue reports
\* after the other has reported the deletion, brings a document back.
DeletedStaysForgotten == Settled => Known \subseteq DOMAIN disk \cup unsaved

\* With no run under way the client has been told that spcomp is quiescent,
\* also when the last run failed (diagnostics.rs:20-34).
StatusSettles == (\A r \in Run : runs[r].at = "idle") => status

\* "Fixed diagnostics not disappearing." (CHANGELOG.md:233): when all is
\* settled, no error is shown for a document that has none on disk.
\* Refuted: the result of a run that read the old file is ingested after the
\* diagnostics were cleared for the new one, and the next result, in which
\* the document does not occur, does not clear it (spcomp.rs:183-192).
ErrorsDisappear ==
    Settled /\ Main \in DOMAIN disk =>
        \A d \in (Known \cap DOMAIN disk) \ edited : disk[d] = "ok" => ~shown[d].spcomp

\* "This will override all diagnostics that have already been sent to the
\* client." (server/diagnostics.rs:47-48): when all is settled, nothing is
\* shown for a document that is not known.
\* Refuted: a document is removed before the diagnostics are published, and
\* publish_diagnostics says nothing of documents that are not known.
PublishOverridesAll == Settled => \A d \in Doc \ Known : shown[d] = NoDiagnostics

\* "Clear all diagnostics from the documents in the store."
\* (linter/mod.rs:13): linting again what was linted does not change what is
\* listed, so a deprecated declaration has one hint.
\* Refuted: the hints are local diagnostics, which clear_all_diagnostics
\* keeps, and each lint pushes them once more.
HintsCleared == \A d \in Doc : shown[d].hints <= 1
=============================================================================
