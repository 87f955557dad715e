-------------------------- MODULE Diagnostics_proofs --------------------------
(***************************************************************************)
(* Proofs about Diagnostics, for any number of documents and runs:         *)
(* that the module is typed, that a deleted file stays forgotten, that the *)
(* status of spcomp settles, and that no error is lost.                    *)
(*                                                                         *)
(* The last one needs an invariant that says where an error is while all   *)
(* is not settled: an error on disk that is not shown is still to be       *)
(* compiled by the run spawned last, or is in a result that is not         *)
(* ingested, or its file is still to be handled; and what is opened anew meanwhile had no errors to lose,       *)
(* because every known document was parsed before.                         *)
(***************************************************************************)
EXTENDS Diagnostics, TLAPS

WellFormed(D) ==
    /\ DOMAIN D \subseteq Doc
    /\ D \in [DOMAIN D -> Document]
    /\ \A d \in DOMAIN D : D[d].includes \subseteq DOMAIN D

AllParsedIn(D) == \A d \in DOMAIN D : D[d].parsed = TRUE

-----------------------------------------------------------------------------
(* The operators on documents.                                             *)

\* A document that is opened is parsed, and has its type.
LEMMA ParsedTyped ==
    ASSUME DiagnosticsAssumption, NEW K, NEW d
    PROVE  /\ Parsed(K, d) \in Document
           /\ Parsed(K, d).parsed = TRUE
           /\ Parsed(K, d).includes \subseteq K
BY DEF DiagnosticsAssumption, Parsed, Part, Document

\* So has one that is only found.
LEMMA UnparsedTyped ==
    ASSUME DiagnosticsAssumption
    PROVE  Unparsed \in Document /\ Unparsed.includes = {}
BY DEF DiagnosticsAssumption, Unparsed, Document

\* handle_open_document adds the document, parsed, and leaves a parsed one
\* that is another alone.
LEMMA HandleOpenDocumentTyped ==
    ASSUME DiagnosticsAssumption, NEW D, WellFormed(D), NEW d \in Doc
    PROVE  /\ WellFormed(HandleOpenDocument(D, d))
           /\ DOMAIN HandleOpenDocument(D, d) = DOMAIN D \cup {d}
           /\ AllParsedIn(D) => AllParsedIn(HandleOpenDocument(D, d))
           /\ HandleOpenDocument(D, d)[d].parsed = TRUE
           /\ \A e \in DOMAIN D \ {d} :
                 D[e].parsed = TRUE => HandleOpenDocument(D, d)[e] = D[e]
<1> DEFINE fresh == {e \in Parsed(DOMAIN D, d).includes : ~D[e].parsed}
           X == HandleOpenDocument(D, d)
<1>1. X = [e \in DOMAIN D \cup {d} |->
             IF e = d THEN Parsed(DOMAIN D, d)
             ELSE IF e \in fresh THEN Parsed(DOMAIN D, e) ELSE D[e]]
  BY DEF HandleOpenDocument
<1>2. DOMAIN X = DOMAIN D \cup {d}
  BY <1>1
<1> DEFINE new(e) == Parsed(DOMAIN D, e)
<1>3. \A e \in DOMAIN X : X[e] = new(e) \/ (e \in DOMAIN D \ {d} /\ X[e] = D[e])
  BY <1>1
<1>4. X[d] = new(d) /\ \A e \in DOMAIN D \ {d} : D[e].parsed = TRUE => X[e] = D[e]
  BY <1>1
<1>5. \A e : new(e) \in Document /\ new(e).parsed = TRUE /\ new(e).includes \subseteq DOMAIN D
  BY ParsedTyped
<1>6. X = [e \in DOMAIN X |-> X[e]]
  BY <1>1, <1>2
<1> HIDE DEF X, new
<1>7. \A e \in DOMAIN X : X[e] \in Document /\ X[e].includes \subseteq DOMAIN X
  BY <1>2, <1>3, <1>5 DEF WellFormed
<1>8. X \in [DOMAIN X -> Document]
  BY <1>6, <1>7
<1>9. WellFormed(X)
  BY <1>2, <1>7, <1>8 DEF WellFormed
<1>10. AllParsedIn(D) => AllParsedIn(X)
  BY <1>3, <1>5 DEF AllParsedIn
<1> QED
  BY <1>2, <1>4, <1>5, <1>9, <1>10 DEF X

\* resolve_missing_includes adds no document.
LEMMA ResolveMissingIncludesTyped ==
    ASSUME DiagnosticsAssumption, NEW D, WellFormed(D)
    PROVE  /\ WellFormed(ResolveMissingIncludes(D))
           /\ DOMAIN ResolveMissingIncludes(D) = DOMAIN D
           /\ AllParsedIn(D) => AllParsedIn(ResolveMissingIncludes(D))
<1>1. CASE ResolveMissingIncludes(D) = D
  BY <1>1
<1>2. CASE Main \in DOMAIN D /\ ResolveMissingIncludes(D) = HandleOpenDocument(D, Main)
  <2>1. Main \in Doc
    BY DEF DiagnosticsAssumption
  <2>2. /\ WellFormed(HandleOpenDocument(D, Main))
        /\ DOMAIN HandleOpenDocument(D, Main) = DOMAIN D \cup {Main}
        /\ AllParsedIn(D) => AllParsedIn(HandleOpenDocument(D, Main))
    BY <2>1, HandleOpenDocumentTyped
  <2>3. DOMAIN D = DOMAIN D \cup {Main}
    BY <1>2
  <2> QED
    BY <1>2, <2>2, <2>3
<1> QED
  BY <1>1, <1>2 DEF ResolveMissingIncludes

\* load adds the file if it is on disk, and only then.
LEMMA LoadTyped ==
    ASSUME DiagnosticsAssumption, NEW D, WellFormed(D), NEW dk, NEW d \in Doc
    PROVE  /\ WellFormed(Load(D, dk, d))
           /\ DOMAIN Load(D, dk, d) = DOMAIN D \cup ({d} \cap DOMAIN dk)
           /\ AllParsedIn(D) => AllParsedIn(Load(D, dk, d))
<1>1. CASE d \in DOMAIN D \/ d \notin DOMAIN dk
  BY <1>1 DEF Load
<1>2. CASE ~(d \in DOMAIN D \/ d \notin DOMAIN dk)
  <2> DEFINE opened == HandleOpenDocument(D, d)
  <2>1. Load(D, dk, d) = ResolveMissingIncludes(opened)
    BY <1>2 DEF Load
  <2>2. /\ WellFormed(opened)
        /\ DOMAIN opened = DOMAIN D \cup {d}
        /\ AllParsedIn(D) => AllParsedIn(opened)
    BY HandleOpenDocumentTyped
  <2>3. {d} = {d} \cap DOMAIN dk
    BY <1>2
  <2> HIDE DEF opened
  <2> QED
    BY <2>1, <2>2, <2>3, ResolveMissingIncludesTyped
<1> QED
  BY <1>1, <1>2

\* So does reload.
LEMMA ReloadTyped ==
    ASSUME DiagnosticsAssumption, NEW D, WellFormed(D), NEW dk, NEW d \in Doc
    PROVE  /\ WellFormed(Reload(D, dk, d))
           /\ DOMAIN Reload(D, dk, d) = DOMAIN D \cup ({d} \cap DOMAIN dk)
           /\ AllParsedIn(D) => AllParsedIn(Reload(D, dk, d))
<1>1. CASE d \notin DOMAIN dk
  BY <1>1 DEF Reload
<1>2. CASE d \in DOMAIN dk
  <2> DEFINE opened == HandleOpenDocument(D, d)
  <2>1. Reload(D, dk, d) = ResolveMissingIncludes(opened)
    BY <1>2 DEF Reload
  <2>2. /\ WellFormed(opened)
        /\ DOMAIN opened = DOMAIN D \cup {d}
        /\ AllParsedIn(D) => AllParsedIn(opened)
    BY HandleOpenDocumentTyped
  <2>3. {d} = {d} \cap DOMAIN dk
    BY <1>2
  <2> HIDE DEF opened
  <2> QED
    BY <2>1, <2>2, <2>3, ResolveMissingIncludesTyped
<1> QED
  BY <1>1, <1>2

\* remove takes the document away, from the includes as well.
LEMMA RemoveTyped ==
    ASSUME NEW D, WellFormed(D), NEW d
    PROVE  /\ WellFormed(Remove(D, d))
           /\ DOMAIN Remove(D, d) = DOMAIN D \ {d}
           /\ AllParsedIn(D) => AllParsedIn(Remove(D, d))
<1>1. Remove(D, d) = [e \in DOMAIN D \ {d} |-> [D[e] EXCEPT !.includes = @ \ {d}]]
  BY DEF Remove
<1>2. \A e \in DOMAIN D \ {d} :
         /\ Remove(D, d)[e] \in Document
         /\ Remove(D, d)[e].includes = D[e].includes \ {d}
         /\ Remove(D, d)[e].parsed = D[e].parsed
  BY <1>1 DEF WellFormed, Document
<1>3. DOMAIN Remove(D, d) = DOMAIN D \ {d}
  BY <1>1
<1>4. WellFormed(Remove(D, d))
  <2>1. Remove(D, d) \in [DOMAIN D \ {d} -> Document]
    BY <1>1, <1>2
  <2> QED BY <1>2, <1>3, <2>1 DEF WellFormed
<1>5. AllParsedIn(D) => AllParsedIn(Remove(D, d))
  BY <1>2, <1>3 DEF AllParsedIn
<1> QED BY <1>3, <1>4, <1>5

\* clear_all_diagnostics touches nothing but the errors.
LEMMA ClearTyped ==
    ASSUME NEW D, WellFormed(D)
    PROVE  /\ WellFormed(ClearAllDiagnostics(D))
           /\ DOMAIN ClearAllDiagnostics(D) = DOMAIN D
           /\ AllParsedIn(D) => AllParsedIn(ClearAllDiagnostics(D))
<1>1. \A d \in DOMAIN D :
         /\ ClearAllDiagnostics(D)[d] \in Document
         /\ ClearAllDiagnostics(D)[d].includes = D[d].includes
         /\ ClearAllDiagnostics(D)[d].parsed = D[d].parsed
  BY DEF ClearAllDiagnostics, WellFormed, Document
<1> QED
  BY <1>1 DEF ClearAllDiagnostics, WellFormed, AllParsedIn

\* get_deprecated_diagnostics touches nothing but the hints.
LEMMA DeprecatedTyped ==
    ASSUME DiagnosticsAssumption, NEW D, WellFormed(D), NEW dk
    PROVE  /\ WellFormed(GetDeprecatedDiagnostics(D, dk))
           /\ DOMAIN GetDeprecatedDiagnostics(D, dk) = DOMAIN D
           /\ AllParsedIn(D) => AllParsedIn(GetDeprecatedDiagnostics(D, dk))
           /\ \A d \in DOMAIN D : GetDeprecatedDiagnostics(D, dk)[d].spcomp = D[d].spcomp
<1> DEFINE X == GetDeprecatedDiagnostics(D, dk)
<1>1. \A d \in DOMAIN D :
         X[d] = D[d] \/ (D[d].hints < MaxHints /\ X[d] = [D[d] EXCEPT !.hints = @ + 1])
  BY DEF GetDeprecatedDiagnostics
<1>2. \A d \in DOMAIN D : D[d].hints < MaxHints => [D[d] EXCEPT !.hints = @ + 1] \in Document
  BY DEF WellFormed, Document, DiagnosticsAssumption
<1>3. \A d \in DOMAIN D : /\ X[d] \in Document
                          /\ X[d].includes = D[d].includes
                          /\ X[d].parsed = D[d].parsed
                          /\ X[d].spcomp = D[d].spcomp
  BY <1>1, <1>2 DEF WellFormed, Document
<1> HIDE DEF X
<1>4. DOMAIN X = DOMAIN D /\ X = [d \in DOMAIN D |-> X[d]]
  BY DEF X, GetDeprecatedDiagnostics
<1>5. WellFormed(X) /\ (AllParsedIn(D) => AllParsedIn(X))
  BY <1>3, <1>4 DEF WellFormed, AllParsedIn
<1> QED
  BY <1>3, <1>4, <1>5 DEF X

\* ingest_spcomp_diagnostics adds errors and nothing else.
LEMMA IngestTyped ==
    ASSUME NEW D, WellFormed(D), NEW found
    PROVE  /\ WellFormed(IngestSpcompDiagnostics(D, found))
           /\ DOMAIN IngestSpcompDiagnostics(D, found) = DOMAIN D
           /\ AllParsedIn(D) => AllParsedIn(IngestSpcompDiagnostics(D, found))
           /\ \A d \in DOMAIN D :
                 IngestSpcompDiagnostics(D, found)[d].spcomp
                    = IF d \in found THEN TRUE ELSE D[d].spcomp
<1> DEFINE X == IngestSpcompDiagnostics(D, found)
<1>1. \A d \in DOMAIN D : /\ X[d] \in Document
                          /\ X[d].includes = D[d].includes
                          /\ X[d].parsed = D[d].parsed
                          /\ X[d].spcomp = IF d \in found THEN TRUE ELSE D[d].spcomp
  BY DEF IngestSpcompDiagnostics, WellFormed, Document
<1> HIDE DEF X
<1>2. DOMAIN X = DOMAIN D /\ X = [d \in DOMAIN D |-> X[d]]
  BY DEF X, IngestSpcompDiagnostics
<1>3. WellFormed(X) /\ (AllParsedIn(D) => AllParsedIn(X))
  BY <1>1, <1>2 DEF WellFormed, AllParsedIn
<1> QED
  BY <1>1, <1>2, <1>3 DEF X

-----------------------------------------------------------------------------
(* What a handler leaves behind.                                           *)

Shown == [Doc -> [spcomp : BOOLEAN, hints : 0 .. MaxHints]]

\* publish_diagnostics shows what the documents have.
LEMMA PublishTyped ==
    ASSUME DiagnosticsAssumption, NEW D, WellFormed(D), shown \in Shown, PublishDiagnostics(D)
    PROVE  /\ shown' \in Shown
           /\ \A d \in DOMAIN D : shown'[d].spcomp = D[d].spcomp
BY DEF WellFormed, Document, Shown, PublishDiagnostics

\* lint_all_documents leaves the documents with the errors they had, shown.
LEMMA LintTyped ==
    ASSUME DiagnosticsAssumption, NEW D, WellFormed(D), shown \in Shown, LintAllDocuments(D)
    PROVE  /\ WellFormed(documents')
           /\ DOMAIN documents' = DOMAIN D
           /\ AllParsedIn(D) => AllParsedIn(documents')
           /\ shown' \in Shown
           /\ \A d \in DOMAIN D : /\ documents'[d].spcomp = D[d].spcomp
                                  /\ shown'[d].spcomp = D[d].spcomp
<1>1. documents' = GetDeprecatedDiagnostics(D, disk) /\ PublishDiagnostics(documents')
  BY DEF LintAllDocuments
<1> QED
  BY <1>1, DeprecatedTyped, PublishTyped

SpawnedTyped == runs \in [Run -> Job] /\ latest \in Run /\ failed \in BOOLEAN

\* reload_diagnostics spawns a run if Main is a file.
LEMMA ReloadDiagnosticsTyped ==
    ASSUME DiagnosticsAssumption, NEW D, WellFormed(D), shown \in Shown,
           SpawnedTyped, ReloadDiagnostics(D)
    PROVE  /\ WellFormed(documents')
           /\ DOMAIN documents' = DOMAIN D
           /\ AllParsedIn(D) => AllParsedIn(documents')
           /\ shown' \in Shown
           /\ SpawnedTyped'
           /\ Main \in DOMAIN disk => runs'[latest'].at = "spawned"
           /\ (\A r \in Run : runs'[r].at = "idle") => \A r \in Run : runs[r].at = "idle"
<1>1. /\ WellFormed(documents') /\ shown' \in Shown
      /\ DOMAIN documents' = DOMAIN D
      /\ AllParsedIn(D) => AllParsedIn(documents')
  BY ClearTyped, LintTyped DEF ReloadDiagnostics
<1>2. CASE Main \in DOMAIN disk
  <2>1. PICK r \in Run : /\ runs' = [runs EXCEPT ![r].at = "spawned"]
                         /\ latest' = r /\ failed' = FALSE
    BY <1>2 DEF ReloadDiagnostics
  <2>2. runs' \in [Run -> Job] /\ runs'[r].at = "spawned"
    BY <2>1 DEF Job, SpawnedTyped
  <2> QED
    BY <1>1, <2>1, <2>2 DEF SpawnedTyped
<1>3. CASE Main \notin DOMAIN disk
  BY <1>1, <1>3 DEF ReloadDiagnostics, SpawnedTyped, spawned
<1> QED
  BY <1>2, <1>3

\* Opening Main opens every document that was not parsed.
LEMMA OpenMainParsesAll ==
    ASSUME DiagnosticsAssumption, NEW D, WellFormed(D)
    PROVE  AllParsedIn(HandleOpenDocument(D, Main))
<1> DEFINE X == HandleOpenDocument(D, Main)
           fresh == {e \in Parsed(DOMAIN D, Main).includes : ~D[e].parsed}
           new(e) == Parsed(DOMAIN D, e)
<1>1. X = [e \in DOMAIN D \cup {Main} |->
             IF e = Main THEN new(Main) ELSE IF e \in fresh THEN new(e) ELSE D[e]]
  BY DEF HandleOpenDocument
<1>2. \A e : new(e).parsed = TRUE
  BY ParsedTyped
<1>3. \A e \in DOMAIN D : e # Main /\ e \notin fresh => D[e].parsed = TRUE
  <2>1. new(Main).includes = Part \cap DOMAIN D
    BY DEF Parsed
  <2>2. \A e \in DOMAIN D : e # Main => e \in new(Main).includes
    BY <2>1 DEF WellFormed, Part
  <2>3. \A e \in DOMAIN D : D[e].parsed \in BOOLEAN
    BY DEF WellFormed, Document
  <2> QED
    BY <2>2, <2>3
<1> HIDE DEF fresh, new
<1> QED
  BY <1>1, <1>2, <1>3 DEF AllParsedIn

\* Opening every document does.
LEMMA OpenAllTyped ==
    ASSUME DiagnosticsAssumption, NEW K, K \subseteq Doc
    PROVE  /\ WellFormed([d \in K |-> Parsed(K, d)])
           /\ AllParsedIn([d \in K |-> Parsed(K, d)])
<1> DEFINE new(d) == Parsed(K, d)
           X == [d \in K |-> new(d)]
<1>1. \A d : new(d) \in Document /\ new(d).parsed = TRUE /\ new(d).includes \subseteq K
  BY ParsedTyped
<1> HIDE DEF new
<1>2. DOMAIN X = K /\ X \in [K -> Document]
  BY <1>1
<1>3. \A d \in K : X[d].parsed = TRUE /\ X[d].includes \subseteq K
  BY <1>1
<1> HIDE DEF X
<1>4. WellFormed(X) /\ AllParsedIn(X)
  BY <1>2, <1>3 DEF WellFormed, AllParsedIn
<1> QED
  BY <1>4 DEF X, new

\* The documents K are known anew.
Anew(D, K) == [d \in DOMAIN D \cup K |-> IF d \in K THEN Unparsed ELSE D[d]]

\* Finding documents adds unparsed ones.
LEMMA FoundTyped ==
    ASSUME DiagnosticsAssumption, NEW D, WellFormed(D), NEW K, K \subseteq Doc
    PROVE  /\ WellFormed([d \in DOMAIN D \cup K |-> IF d \in DOMAIN D THEN D[d] ELSE Unparsed])
           /\ WellFormed(Anew(D, K))
<1> DEFINE X == [d \in DOMAIN D \cup K |-> IF d \in DOMAIN D THEN D[d] ELSE Unparsed]
           Y == [d \in DOMAIN D \cup K |-> IF d \in K THEN Unparsed ELSE D[d]]
<1>1. /\ DOMAIN X = DOMAIN D \cup K /\ X \in [DOMAIN D \cup K -> Document]
      /\ DOMAIN Y = DOMAIN D \cup K /\ Y \in [DOMAIN D \cup K -> Document]
  BY UnparsedTyped DEF WellFormed
<1>2. \A d \in DOMAIN D \cup K : X[d].includes \subseteq DOMAIN D \cup K
  BY UnparsedTyped DEF WellFormed
<1>3. \A d \in DOMAIN D \cup K : Y[d].includes \subseteq DOMAIN D \cup K
  BY UnparsedTyped DEF WellFormed
<1>4. DOMAIN D \cup K \subseteq Doc
  BY DEF WellFormed
<1> HIDE DEF X, Y
<1>5. WellFormed(X) /\ WellFormed(Y)
  BY <1>1, <1>2, <1>3, <1>4 DEF WellFormed
<1> QED
  BY <1>5 DEF X, Y, Anew

-----------------------------------------------------------------------------
(* Type correctness.                                                       *)

Rest ==
    /\ DOMAIN disk \subseteq Doc /\ disk \in [DOMAIN disk -> Code]
    /\ reports \in [Channel -> Seq(Report)]
    /\ edited \subseteq Known /\ unsaved \subseteq Known
    /\ config_pulled \in BOOLEAN
    /\ SpawnedTyped
    /\ results \in Seq(SUBSET Doc)
    /\ shown \in Shown
    /\ status \in BOOLEAN

\* The type invariant is that of the documents and that of the rest.
LEMMA TypeParts == TypeOK <=> WellFormed(documents) /\ Rest
BY DEF TypeOK, Rest, WellFormed, Known, Shown, SpawnedTyped

\* The same of the next state.
LEMMA TypePartsNext == TypeOK' <=> WellFormed(documents') /\ Rest'
BY DEF TypeOK, Rest, WellFormed, Known, Shown, SpawnedTyped

AllIdle == \A r \in Run : runs[r].at = "idle"

\* A report from the queue ch is handled.
Handled(ch, d) ==
    \/ Created(ch, d) \/ Deleted(ch, d)
    \/ ch = "client" /\ Changed(d)
    \/ ch = "server" /\ Modified(d)

\* What handling a report leaves: the document it names is known as the report
\* says, and a run is spawned.
LEMMA ReportHandled ==
    ASSUME DiagnosticsAssumption, TypeOK, NEW ch \in Channel, NEW d \in Doc, Handled(ch, d)
    PROVE  /\ WellFormed(documents') /\ shown' \in Shown /\ SpawnedTyped'
           /\ AllParsedIn(documents) => AllParsedIn(documents')
           /\ Main \in DOMAIN disk => runs'[latest'].at = "spawned"
           /\ AllIdle' => AllIdle
           /\ reports[ch] # <<>> /\ Head(reports[ch]).doc = d
           /\ reports' = [reports EXCEPT ![ch] = Tail(@)]
           /\ UNCHANGED <<disk, config_pulled, results, status>>
           /\ edited' \subseteq Known' /\ unsaved' \subseteq Known'
           /\ unsaved \ unsaved' \subseteq DOMAIN disk \cup (Doc \ Known')
           /\ \/ Head(reports[ch]).kind = "created" /\ Known' = Known \cup ({d} \cap DOMAIN disk)
              \/ /\ Head(reports[ch]).kind = "changed"
                 /\ Known' = Known \/ Known' = Known \cup ({d} \cap DOMAIN disk)
              \/ Head(reports[ch]).kind = "deleted" /\ Known' = Known \ {d}
<1> USE TypeParts
<1>1. /\ WellFormed(documents) /\ shown \in Shown /\ SpawnedTyped
      /\ edited \subseteq Known /\ unsaved \subseteq Known
  BY DEF Rest
<1>2. ASSUME NEW D, WellFormed(D), ReloadDiagnostics(D),
             AllParsedIn(documents) => AllParsedIn(D)
      PROVE  /\ WellFormed(documents') /\ shown' \in Shown /\ SpawnedTyped'
             /\ AllParsedIn(documents) => AllParsedIn(documents')
             /\ Main \in DOMAIN disk => runs'[latest'].at = "spawned"
             /\ AllIdle' => AllIdle
             /\ Known' = DOMAIN D
  BY <1>1, <1>2, ReloadDiagnosticsTyped DEF AllIdle, Known
<1>3. ASSUME NEW kind, Reported(ch, d, kind)
      PROVE  /\ reports[ch] # <<>> /\ Head(reports[ch]).doc = d /\ Head(reports[ch]).kind = kind
             /\ reports' = [reports EXCEPT ![ch] = Tail(@)]
             /\ UNCHANGED <<disk, config_pulled, results, status>>
             /\ unsaved' \subseteq unsaved
             /\ kind = "deleted" => unsaved' = unsaved \ {d}
             /\ kind # "deleted" => unsaved \ unsaved' \subseteq DOMAIN disk
  BY <1>3 DEF Reported
<1>4. CASE Created(ch, d)
  <2>1. /\ ReloadDiagnostics(Load(documents, disk, d)) /\ Reported(ch, d, "created")
        /\ edited' = IF d \in Known THEN edited ELSE edited \ {d}
    BY <1>4 DEF Created
  <2>2. /\ WellFormed(Load(documents, disk, d))
        /\ DOMAIN Load(documents, disk, d) = Known \cup ({d} \cap DOMAIN disk)
        /\ AllParsedIn(documents) => AllParsedIn(Load(documents, disk, d))
    BY <1>1, LoadTyped DEF Known
  <2>3. edited' \subseteq Known \cup ({d} \cap DOMAIN disk)
    BY <1>1, <2>1
  <2> QED
    BY <1>1, <1>2, <1>3, <2>1, <2>2, <2>3
<1>5. CASE ch = "client" /\ Changed(d)
  <2>1. /\ ReloadDiagnostics(Reload(documents, disk, d)) /\ Reported(ch, d, "changed")
        /\ edited' = IF d \in DOMAIN disk THEN edited \ {d} ELSE edited
    BY <1>5 DEF Changed
  <2>2. /\ WellFormed(Reload(documents, disk, d))
        /\ DOMAIN Reload(documents, disk, d) = Known \cup ({d} \cap DOMAIN disk)
        /\ AllParsedIn(documents) => AllParsedIn(Reload(documents, disk, d))
    BY <1>1, ReloadTyped DEF Known
  <2>3. edited' \subseteq Known \cup ({d} \cap DOMAIN disk)
    BY <1>1, <2>1
  <2> QED
    BY <1>1, <1>2, <1>3, <2>1, <2>2, <2>3
<1>6. CASE ch = "server" /\ Modified(d)
  <2> DEFINE D == IF d \in Known THEN Reload(documents, disk, d) ELSE documents
  <2>1. /\ ReloadDiagnostics(D) /\ Reported(ch, d, "changed")
        /\ edited' = IF d \in Known \cap DOMAIN disk THEN edited \ {d} ELSE edited
    BY <1>6 DEF Modified
  <2>2. /\ WellFormed(D)
        /\ DOMAIN D = Known \/ DOMAIN D = Known \cup ({d} \cap DOMAIN disk)
        /\ AllParsedIn(documents) => AllParsedIn(D)
    <3>1. CASE d \in Known
      BY <1>1, <3>1, ReloadTyped DEF Known
    <3>2. CASE d \notin Known
      BY <1>1, <3>2 DEF Known
    <3> QED
      BY <3>1, <3>2
  <2>3. edited' \subseteq Known
    BY <1>1, <2>1
  <2> HIDE DEF D
  <2> QED
    BY <1>1, <1>2, <1>3, <2>1, <2>2, <2>3
<1>7. CASE Deleted(ch, d)
  <2>1. /\ ReloadDiagnostics(Remove(documents, d)) /\ Reported(ch, d, "deleted")
        /\ edited' = edited \ {d}
    BY <1>7 DEF Deleted
  <2>2. /\ WellFormed(Remove(documents, d))
        /\ DOMAIN Remove(documents, d) = Known \ {d}
        /\ AllParsedIn(documents) => AllParsedIn(Remove(documents, d))
    BY <1>1, RemoveTyped DEF Known
  <2>3. edited' \subseteq Known \ {d}
    BY <1>1, <2>1
  <2> QED
    BY <1>1, <1>2, <1>3, <2>1, <2>2, <2>3
<1> QED
  BY <1>4, <1>5, <1>6, <1>7 DEF Handled

\* What the client's opening a document leaves: only the document is new, and
\* those that were parsed are as they were.
LEMMA OpenHandled ==
    ASSUME DiagnosticsAssumption, TypeOK, NEW d \in Doc, DidOpen(d)
    PROVE  /\ WellFormed(documents')
           /\ edited' \subseteq Known' /\ unsaved' \subseteq Known'
           /\ Known' = Known \cup {d}
           /\ unsaved \subseteq unsaved' /\ d \in DOMAIN disk \cup unsaved'
           /\ config_pulled /\ AllParsedIn(documents) =>
                 /\ AllParsedIn(documents')
                 /\ d \notin Known /\ edited' = edited \cup {d}
                 /\ \A e \in Known : documents'[e] = documents[e]
<1>1. /\ WellFormed(documents) /\ edited \subseteq Known /\ unsaved \subseteq Known
      /\ edited' \subseteq edited \cup {d}
      /\ config_pulled => edited' = edited \cup {d}
      /\ unsaved' = IF d \in DOMAIN disk THEN unsaved ELSE unsaved \cup {d}
  BY TypeParts DEF Rest, DidOpen
<1>2. CASE ~config_pulled
  <2>1. documents' = [e \in DOMAIN documents \cup {d} |->
                         IF e \in {d} THEN Unparsed ELSE documents[e]]
    BY <1>2 DEF DidOpen, Known
  <2>2. WellFormed(documents')
    <3>1. {d} \subseteq Doc
      OBVIOUS
    <3>2. WellFormed(Anew(documents, {d}))
      BY <1>1, <3>1, FoundTyped
    <3> QED
      BY <2>1, <3>2 DEF Anew
  <2>3. Known' = Known \cup {d}
    BY <2>1 DEF Known
  <2> QED
    BY <1>1, <1>2, <2>2, <2>3
<1>3. CASE config_pulled
  <2>1. /\ documents' = HandleOpenDocument(documents, d)
        /\ ~(d \in Known /\ documents[d].parsed)
    BY <1>3 DEF DidOpen
  <2>2. /\ WellFormed(documents') /\ Known' = Known \cup {d}
        /\ AllParsedIn(documents) => AllParsedIn(documents')
        /\ \A e \in Known \ {d} : documents[e].parsed = TRUE => documents'[e] = documents[e]
    BY <1>1, <2>1, HandleOpenDocumentTyped DEF Known
  <2>3. AllParsedIn(documents) =>
           d \notin Known /\ \A e \in Known : documents'[e] = documents[e]
    BY <2>1, <2>2 DEF AllParsedIn, Known
  <2> QED
    BY <1>1, <1>3, <2>2, <2>3
<1> QED
  BY <1>2, <1>3

\* What the client's editing a document leaves: the others have the errors
\* they had if they were parsed.
LEMMA ChangeHandled ==
    ASSUME DiagnosticsAssumption, TypeOK, NEW d \in Doc, DidChange(d)
    PROVE  /\ WellFormed(documents') /\ shown' \in Shown
           /\ edited' \subseteq Known' /\ edited' = edited \cup {d}
           /\ Known \subseteq Known' /\ Known' \subseteq Known \cup DOMAIN disk
           /\ AllParsedIn(documents) => AllParsedIn(documents')
           /\ d \in Known /\ AllParsedIn(documents) =>
                 \A e \in Known \ {d} : /\ documents'[e].spcomp = documents[e].spcomp
                                        /\ shown'[e].spcomp = documents[e].spcomp
<1>1. /\ WellFormed(documents) /\ edited \subseteq Known /\ shown \in Shown
      /\ d \in Known \cup DOMAIN disk
      /\ edited' = edited \cup {d}
  BY TypeParts DEF Rest, DidChange
<1>2. CASE d \in Known
  <2> DEFINE D == HandleOpenDocument(documents, d)
  <2>1. LintAllDocuments(D)
    BY <1>2 DEF DidChange
  <2>2. /\ WellFormed(D) /\ DOMAIN D = Known \cup {d}
        /\ AllParsedIn(documents) => AllParsedIn(D)
        /\ \A e \in Known \ {d} : documents[e].parsed = TRUE => D[e] = documents[e]
    BY <1>1, HandleOpenDocumentTyped DEF Known
  <2> HIDE DEF D
  <2>3. /\ WellFormed(documents') /\ shown' \in Shown /\ Known' = DOMAIN D
        /\ AllParsedIn(D) => AllParsedIn(documents')
        /\ \A e \in DOMAIN D : /\ documents'[e].spcomp = D[e].spcomp
                               /\ shown'[e].spcomp = D[e].spcomp
    BY <1>1, <2>1, <2>2, LintTyped DEF Known
  <2>4. Known' = Known
    BY <1>2, <2>2, <2>3
  <2>5. AllParsedIn(documents) => \A e \in Known \ {d} : D[e] = documents[e]
    BY <2>2 DEF AllParsedIn, Known
  <2>6. edited' = edited \cup {d} /\ edited' \subseteq Known'
    BY <1>1, <1>2, <2>4
  <2> QED
    BY <1>2, <2>2, <2>3, <2>4, <2>5, <2>6
<1>3. CASE d \notin Known
  <2> DEFINE D == Load(documents, disk, d)
  <2>1. LintAllDocuments(D)
    BY <1>3 DEF DidChange
  <2>2. /\ WellFormed(D) /\ DOMAIN D = Known \cup ({d} \cap DOMAIN disk)
        /\ AllParsedIn(documents) => AllParsedIn(D)
    BY <1>1, LoadTyped DEF Known
  <2> HIDE DEF D
  <2>3. /\ WellFormed(documents') /\ shown' \in Shown /\ Known' = DOMAIN D
        /\ AllParsedIn(D) => AllParsedIn(documents')
    BY <1>1, <2>1, <2>2, LintTyped DEF Known
  <2> QED
    BY <1>1, <1>3, <2>2, <2>3
<1> QED
  BY <1>2, <1>3

\* What reparse_all leaves: everything known is parsed.
LEMMA ReparseHandled ==
    ASSUME DiagnosticsAssumption, TypeOK, ReparseAll
    PROVE  /\ WellFormed(documents') /\ shown' \in Shown /\ SpawnedTyped'
           /\ edited' \subseteq Known' /\ unsaved' = unsaved
           /\ Known' = Known \cup DOMAIN disk
           /\ AllParsedIn(documents')
           /\ Main \in DOMAIN disk => runs'[latest'].at = "spawned"
           /\ AllIdle' => AllIdle
<1>1. /\ WellFormed(documents) /\ edited \subseteq Known /\ shown \in Shown
      /\ SpawnedTyped /\ DOMAIN disk \subseteq Doc /\ edited' = edited /\ unsaved' = unsaved
  BY TypeParts DEF Rest, ReparseAll
<1> DEFINE found == [d \in DOMAIN documents \cup DOMAIN disk |->
                       IF d \in DOMAIN documents THEN documents[d] ELSE Unparsed]
           all == [d \in DOMAIN found |-> Parsed(DOMAIN found, d)]
           D == IF Main \in DOMAIN disk THEN HandleOpenDocument(found, Main) ELSE all
<1>2. WellFormed(found)
  BY <1>1, FoundTyped
<1>3. DOMAIN found = Known \cup DOMAIN disk
  BY DEF Known
<1>4. ReloadDiagnostics(D)
  BY DEF ReparseAll, Known
<1> HIDE DEF found
<1>5. WellFormed(D) /\ AllParsedIn(D) /\ DOMAIN D = Known \cup DOMAIN disk
  <2>1. CASE Main \in DOMAIN disk
    <3>1. /\ WellFormed(HandleOpenDocument(found, Main))
          /\ DOMAIN HandleOpenDocument(found, Main) = DOMAIN found \cup {Main}
      BY <1>1, <1>2, <2>1, HandleOpenDocumentTyped
    <3>2. AllParsedIn(HandleOpenDocument(found, Main))
      BY <1>2, OpenMainParsesAll
    <3>3. D = HandleOpenDocument(found, Main) /\ DOMAIN found \cup {Main} = DOMAIN found
      BY <1>3, <2>1
    <3> QED
      BY <1>3, <3>1, <3>2, <3>3
  <2>2. CASE Main \notin DOMAIN disk
    <3>1. DOMAIN found \subseteq Doc
      BY <1>2 DEF WellFormed
    <3>2. WellFormed(all) /\ AllParsedIn(all)
      BY <3>1, OpenAllTyped
    <3> QED
      BY <1>3, <2>2, <3>2
  <2> QED
    BY <2>1, <2>2
<1> HIDE DEF D
<1>6. /\ WellFormed(documents') /\ shown' \in Shown /\ SpawnedTyped'
      /\ Known' = DOMAIN D
      /\ AllParsedIn(documents')
      /\ Main \in DOMAIN disk => runs'[latest'].at = "spawned"
      /\ AllIdle' => AllIdle
  BY <1>1, <1>4, <1>5, ReloadDiagnosticsTyped DEF Known, AllIdle
<1> QED
  BY <1>1, <1>5, <1>6

\* What ingesting a result leaves: the errors it has and those there were,
\* shown.
LEMMA IngestHandled ==
    ASSUME DiagnosticsAssumption, TypeOK, Ingest
    PROVE  /\ WellFormed(documents') /\ shown' \in Shown /\ Known' = Known
           /\ results # <<>> /\ results' = Tail(results)
           /\ AllParsedIn(documents) => AllParsedIn(documents')
           /\ \A d \in Known :
                 /\ documents'[d].spcomp
                       = IF d \in Head(results) THEN TRUE ELSE documents[d].spcomp
                 /\ shown'[d].spcomp = documents'[d].spcomp
<1>1. WellFormed(documents) /\ shown \in Shown
  BY TypeParts DEF Rest
<1>2. /\ documents' = IngestSpcompDiagnostics(documents, Head(results))
      /\ PublishDiagnostics(documents')
      /\ results # <<>> /\ results' = Tail(results)
  BY DEF Ingest
<1>3. /\ WellFormed(documents') /\ Known' = Known
      /\ AllParsedIn(documents) => AllParsedIn(documents')
      /\ \A d \in Known :
            documents'[d].spcomp = IF d \in Head(results) THEN TRUE ELSE documents[d].spcomp
  <2> DEFINE X == IngestSpcompDiagnostics(documents, Head(results))
  <2>1. /\ WellFormed(X) /\ DOMAIN X = DOMAIN documents
        /\ AllParsedIn(documents) => AllParsedIn(X)
        /\ \A d \in DOMAIN documents :
              X[d].spcomp = IF d \in Head(results) THEN TRUE ELSE documents[d].spcomp
    BY <1>1, IngestTyped
  <2>2. documents' = X
    BY <1>2
  <2> HIDE DEF X
  <2> QED
    BY <2>1, <2>2 DEF Known
<1>4. shown' \in Shown /\ \A d \in DOMAIN documents' : shown'[d].spcomp = documents'[d].spcomp
  BY <1>1, <1>2, <1>3, PublishTyped
<1> QED
  BY <1>2, <1>3, <1>4 DEF Known

\* The file system reports what it changes.
LEMMA FileSystemTyped ==
    ASSUME TypeOK, FileSystem
    PROVE  TypeOK' /\ reports'["client"] # <<>>
<1>1. PICK d \in Doc : FsDelete(d) \/ \E code \in Code : FsWrite(d, code)
  BY DEF FileSystem
<1>2. ASSUME NEW dk, DOMAIN dk \subseteq Doc, dk \in [DOMAIN dk -> Code],
             NEW kind \in {"created", "changed", "deleted"}, Changes(dk, kind, d)
      PROVE  TypeOK' /\ reports'["client"] # <<>>
  <2> DEFINE new == [kind |-> kind, doc |-> d]
             told == IF config_pulled THEN Channel ELSE {"client"}
  <2>1. /\ disk' = dk
        /\ reports' = [ch \in Channel |->
                         IF ch \in told THEN Append(reports[ch], new) ELSE reports[ch]]
        /\ UNCHANGED <<documents, edited, unsaved, config_pulled, spawned, results, shown, status>>
    BY <1>2 DEF Changes
  <2>2. new \in Report /\ "client" \in Channel \cap told
    BY DEF Report, Channel
  <2> HIDE DEF new, told
  <2>3. \A ch \in Channel : reports[ch] \in Seq(Report)
    BY DEF TypeOK
  <2>4. \A ch \in Channel :
           /\ Append(reports[ch], new) \in Seq(Report)
           /\ Append(reports[ch], new) # <<>>
    BY <2>2, <2>3
  <2>5. reports' \in [Channel -> Seq(Report)] /\ reports'["client"] # <<>>
    BY <2>1, <2>2, <2>3, <2>4
  <2>6. DOMAIN disk' \subseteq Doc /\ disk' \in [DOMAIN disk' -> Code]
    BY <1>2, <2>1
  <2> QED
    BY <2>1, <2>5, <2>6 DEF TypeOK, Known, spawned
<1>3. CASE FsDelete(d)
  BY <1>2, <1>3 DEF FsDelete, TypeOK
<1>4. ASSUME NEW code \in Code, FsWrite(d, code)
      PROVE  TypeOK' /\ reports'["client"] # <<>>
  <2> DEFINE dk == [e \in DOMAIN disk \cup {d} |-> IF e = d THEN code ELSE disk[e]]
  <2>1. DOMAIN dk \subseteq Doc /\ dk \in [DOMAIN dk -> Code]
    BY DEF TypeOK
  <2>2. Changes(dk, IF d \in DOMAIN disk THEN "changed" ELSE "created", d)
    BY <1>4 DEF FsWrite
  <2> HIDE DEF dk
  <2> QED
    BY <1>2, <2>1, <2>2
<1> QED
  BY <1>1, <1>3, <1>4

\* A job changes itself, what it sends, and the status.
LEMMA WorkersTyped ==
    ASSUME DiagnosticsAssumption, TypeOK, Workers
    PROVE  TypeOK'
<1>1. PICK r \in Run : StartRun(r) \/ Compile(r) \/ FailRun(r) \/ FinishRun(r)
  BY DEF Workers
<1>2. /\ runs' \in [Run -> Job] /\ results' \in Seq(SUBSET Doc) /\ status' \in BOOLEAN
      /\ failed' \in BOOLEAN
      /\ UNCHANGED <<disk, reports, documents, edited, unsaved, config_pulled, latest, shown>>
  <2>1. CASE StartRun(r)
    BY <2>1 DEF StartRun, TypeOK, Job
  <2>2. CASE Compile(r)
    <3>1. {d \in DOMAIN disk : disk[d] = "bad"} \in SUBSET Doc /\ SUBSET {Main} \subseteq SUBSET Doc
      BY DEF TypeOK, DiagnosticsAssumption
    <3>2. PICK found \in SUBSET Doc : runs' = [runs EXCEPT ![r] = [at |-> "done", found |-> found]]
      BY <2>2, <3>1 DEF Compile
    <3> QED
      BY <2>2, <3>2 DEF Compile, TypeOK, Job
  <2>4. CASE FailRun(r)
    BY <2>4 DEF FailRun, TypeOK, Job
  <2>3. CASE FinishRun(r)
    <3>1. NoRun \in Job /\ runs[r].found \in SUBSET Doc
      BY DEF NoRun, Job, TypeOK
    <3>2. runs' \in [Run -> Job]
      BY <2>3, <3>1 DEF FinishRun, TypeOK
    <3>3. results' \in Seq(SUBSET Doc)
      BY <2>3, <3>1 DEF FinishRun, TypeOK
    <3>4. failed \in BOOLEAN
      BY DEF TypeOK
    <3> QED
      BY <2>3, <3>2, <3>3, <3>4 DEF FinishRun
  <2> QED
    BY <1>1, <2>1, <2>2, <2>3, <2>4
<1> QED
  BY <1>2 DEF TypeOK, Known

\* So does the main thread keep the types.
LEMMA MainThreadTyped ==
    ASSUME DiagnosticsAssumption, TypeOK, MainThread
    PROVE  TypeOK'
<1> USE TypePartsNext
<1>1. ASSUME NEW ch \in Channel, NEW d \in Doc, Handled(ch, d)
      PROVE  TypeOK'
  <2>1. reports' \in [Channel -> Seq(Report)]
    <3>1. reports[ch] # <<>> /\ reports' = [reports EXCEPT ![ch] = Tail(@)]
      BY <1>1, ReportHandled
    <3>2. Tail(reports[ch]) \in Seq(Report)
      BY <3>1 DEF TypeOK
    <3> QED
      BY <3>1, <3>2 DEF TypeOK
  <2>2. /\ WellFormed(documents') /\ shown' \in Shown /\ SpawnedTyped'
        /\ UNCHANGED <<disk, config_pulled, results, status>>
        /\ edited' \subseteq Known' /\ unsaved' \subseteq Known'
    BY <1>1, ReportHandled
  <2> QED
    BY <2>1, <2>2 DEF Rest, TypeOK
<1>2. ASSUME NEW d \in Doc, DidOpen(d)
      PROVE  TypeOK'
  <2>1. UNCHANGED <<disk, reports, config_pulled, spawned, results, shown, status>>
    BY <1>2 DEF DidOpen
  <2>2. WellFormed(documents') /\ edited' \subseteq Known' /\ unsaved' \subseteq Known'
    BY <1>2, OpenHandled
  <2> QED
    BY <2>1, <2>2 DEF Rest, TypeOK, Shown, spawned, SpawnedTyped
<1>3. ASSUME NEW d \in Doc, DidChange(d)
      PROVE  TypeOK'
  <2>1. UNCHANGED <<disk, reports, unsaved, config_pulled, spawned, results, status>>
    BY <1>3 DEF DidChange
  <2>2. /\ WellFormed(documents') /\ shown' \in Shown /\ edited' \subseteq Known'
        /\ Known \subseteq Known'
    BY <1>3, ChangeHandled
  <2> QED
    BY <2>1, <2>2 DEF Rest, TypeOK, spawned, SpawnedTyped
<1>4. CASE ReparseAll
  <2>1. UNCHANGED <<disk, reports, results, status>> /\ config_pulled' = TRUE
    BY <1>4 DEF ReparseAll
  <2>2. /\ WellFormed(documents') /\ shown' \in Shown /\ SpawnedTyped'
        /\ edited' \subseteq Known' /\ unsaved' = unsaved /\ Known \subseteq Known'
    BY <1>4, ReparseHandled
  <2> QED
    BY <2>1, <2>2 DEF Rest, TypeOK
<1>5. CASE Ingest
  <2>1. UNCHANGED <<disk, reports, edited, unsaved, config_pulled, spawned, status>>
    BY <1>5 DEF Ingest
  <2>2. results' \in Seq(SUBSET Doc)
    BY <1>5 DEF Ingest, TypeOK
  <2>3. WellFormed(documents') /\ shown' \in Shown /\ Known' = Known
    BY <1>5, IngestHandled
  <2> QED
    BY <2>1, <2>2, <2>3 DEF Rest, TypeOK, spawned, SpawnedTyped
<1> QED
  BY <1>1, <1>2, <1>3, <1>4, <1>5 DEF MainThread, Handled, Channel

\* The initial state has its types.
LEMMA InitTyped == DiagnosticsAssumption /\ Init => TypeOK
<1> SUFFICES ASSUME DiagnosticsAssumption, Init PROVE TypeOK
  OBVIOUS
<1>1. DOMAIN disk \subseteq Doc /\ disk \in [DOMAIN disk -> Code]
  BY DEF Init
<1>2. WellFormed(documents) /\ Known = DOMAIN disk
  BY <1>1, UnparsedTyped DEF Init, WellFormed, Known
<1>3. SpawnedTyped /\ shown \in Shown
  <2>1. NoRun \in Job
    BY DEF NoRun, Job
  <2>2. SpawnedTyped
    BY <2>1 DEF Init, SpawnedTyped
  <2>3. NoDiagnostics \in [spcomp : BOOLEAN, hints : 0 .. MaxHints]
    BY DEF NoDiagnostics, DiagnosticsAssumption
  <2> QED
    BY <2>2, <2>3 DEF Init, Shown
<1>4. reports \in [Channel -> Seq(Report)] /\ results \in Seq(SUBSET Doc)
  BY DEF Init
<1>5. edited \subseteq Known /\ unsaved \subseteq Known /\ config_pulled \in BOOLEAN /\ status \in BOOLEAN
  BY DEF Init
<1> QED
  BY <1>1, <1>2, <1>3, <1>4, <1>5, TypeParts DEF Rest

\* A step keeps the types.
LEMMA NextTyped == DiagnosticsAssumption /\ TypeOK /\ [Next]_vars => TypeOK'
<1> SUFFICES ASSUME DiagnosticsAssumption, TypeOK, [Next]_vars PROVE TypeOK'
  OBVIOUS
<1>1. CASE UNCHANGED vars
  BY <1>1 DEF vars, spawned, TypeOK, Known
<1> QED
  BY <1>1, FileSystemTyped, MainThreadTyped, WorkersTyped DEF Next

\* Every reachable state has its types, and what a document includes is known,
\* whatever is loaded, removed, edited or ingested.
THEOREM DiagnosticsTyped == Spec => []TypeOK
<1>1. Init => TypeOK
  BY InitTyped, DiagnosticsAssumption
<1>2. TypeOK /\ [Next]_vars => TypeOK'
  BY NextTyped, DiagnosticsAssumption
<1> QED
  BY <1>1, <1>2, PTL DEF Spec

-----------------------------------------------------------------------------
(* The status of spcomp.                                                   *)

\* A step of the main thread can only spawn a run, and a run ends with the
\* status it owes.
LEMMA StatusKept ==
    ASSUME DiagnosticsAssumption, TypeOK, StatusSettles, [Next]_vars
    PROVE  StatusSettles'
<1> SUFFICES \/ (AllIdle' => AllIdle) /\ status' = status
             \/ ~AllIdle'
             \/ status' = TRUE
  BY DEF StatusSettles, AllIdle, TypeOK
<1>1. CASE UNCHANGED vars \/ FileSystem
  BY <1>1 DEF vars, spawned, FileSystem, FsWrite, FsDelete, Changes, AllIdle
<1>2. CASE MainThread
  <2>1. ASSUME NEW ch \in Channel, NEW d \in Doc, Handled(ch, d)
        PROVE  (AllIdle' => AllIdle) /\ status' = status
    BY <2>1, ReportHandled
  <2>2. ASSUME NEW d \in Doc, DidOpen(d) \/ DidChange(d)
        PROVE  (AllIdle' => AllIdle) /\ status' = status
    BY <2>2 DEF DidOpen, DidChange, spawned, AllIdle
  <2>3. CASE ReparseAll
    BY <2>3, ReparseHandled DEF ReparseAll
  <2>4. CASE Ingest
    BY <2>4 DEF Ingest, spawned, AllIdle
  <2> QED
    BY <1>2, <2>1, <2>2, <2>3, <2>4 DEF MainThread, Handled, Channel
<1>3. ASSUME NEW r \in Run, StartRun(r) \/ Compile(r) \/ FailRun(r)
      PROVE  ~AllIdle'
  <2>1. CASE StartRun(r)
    <3>1. runs'[r].at = "started"
      BY <2>1 DEF StartRun, TypeOK, Job
    <3> QED
      BY <3>1 DEF AllIdle
  <2>2. CASE Compile(r) \/ FailRun(r)
    <3>1. runs'[r].at = "done" \/ runs'[r].at = "failed"
      BY <2>2 DEF Compile, FailRun, TypeOK
    <3> QED
      BY <3>1 DEF AllIdle
  <2> QED
    BY <1>3, <2>1, <2>2
<1>4. ASSUME NEW r \in Run, FinishRun(r)
      PROVE  status' = TRUE
  BY <1>4 DEF FinishRun
<1> QED
  BY <1>1, <1>2, <1>3, <1>4 DEF Next, Workers

\* With no run under way the client has been told that spcomp is quiescent.
THEOREM StatusAlwaysSettles == Spec => []StatusSettles
<1>1. Init => TypeOK /\ StatusSettles
  BY InitTyped, DiagnosticsAssumption DEF Init, StatusSettles
<1>2. TypeOK /\ StatusSettles /\ [Next]_vars => (TypeOK /\ StatusSettles)'
  BY NextTyped, StatusKept, DiagnosticsAssumption
<1> QED
  BY <1>1, <1>2, PTL DEF Spec

-----------------------------------------------------------------------------
(* The reports.  In each queue, the last report of a creation or a         *)
(* deletion agrees with the disk; and where the store does not agree with  *)
(* the disk, there is such a report to come in one of them.                *)

Says(rs, i, kind, d) == i \in 1 .. Len(rs) /\ rs[i].kind = kind /\ rs[i].doc = d
Waiting(rs, kind, d) == \E i \in 1 .. Len(rs) : Says(rs, i, kind, d)

\* What is on disk, and was deleted before, is reported as created again.
Agrees(rs, there) ==
    \A d \in Doc \cap there, i \in 1 .. Len(rs) :
        Says(rs, i, "deleted", d) =>
            \E j \in 1 .. Len(rs) : j > i /\ Says(rs, j, "created", d)

KnownFollows ==
    \A d \in Doc :
        /\ d \in DOMAIN disk \ Known => \E ch \in Channel : Waiting(reports[ch], "created", d)
        /\ d \in Known \ (DOMAIN disk \cup unsaved) =>
              \E ch \in Channel : Waiting(reports[ch], "deleted", d)

Queue ==
    /\ \A ch \in Channel : Agrees(reports[ch], DOMAIN disk)
    /\ ~config_pulled => reports["server"] = <<>>
    /\ KnownFollows

\* Nothing waits in an empty queue.
LEMMA NoneWaiting == \A k, d : ~Waiting(<<>>, k, d)
BY DEF Waiting

Added(rs, more, kind, d) ==
    /\ Len(more) = Len(rs) + 1 /\ Len(rs) \in Nat
    /\ Says(more, Len(rs) + 1, kind, d)
    /\ \A i \in 1 .. Len(rs) : \A k, e : Says(more, i, k, e) <=> Says(rs, i, k, e)
    /\ \A k, e : Says(more, Len(rs) + 1, k, e) => k = kind /\ e = d

\* A report that is appended comes last, and changes none before it.
LEMMA ReportAdded ==
    ASSUME NEW rs \in Seq(Report), NEW kind, NEW d
    PROVE  Added(rs, Append(rs, [kind |-> kind, doc |-> d]), kind, d)
<1> DEFINE more == Append(rs, [kind |-> kind, doc |-> d])
<1>1. /\ Len(more) = Len(rs) + 1 /\ Len(rs) \in Nat
      /\ more[Len(rs) + 1] = [kind |-> kind, doc |-> d]
      /\ \A i \in 1 .. Len(rs) : more[i] = rs[i]
  OBVIOUS
<1> HIDE DEF more
<1>2. Added(rs, more, kind, d)
  BY <1>1 DEF Says, Added
<1> QED
  BY <1>2 DEF more

\* A report that is taken is the first.
LEMMA ReportTaken ==
    ASSUME NEW rs \in Seq(Report), rs # <<>>, NEW less, less = Tail(rs)
    PROVE  /\ Len(less) = Len(rs) - 1 /\ Len(rs) \in Nat /\ Len(rs) > 0
           /\ \A i \in 1 .. Len(rs) : \A k, e :
                 i > 1 => i - 1 \in 1 .. Len(less) /\ (Says(less, i - 1, k, e) <=> Says(rs, i, k, e))
           /\ \A i \in 1 .. Len(less) : \A k, e :
                 i + 1 \in 1 .. Len(rs) /\ (Says(less, i, k, e) <=> Says(rs, i + 1, k, e))
           /\ \A k, e : Says(rs, 1, k, e) <=> Head(rs).kind = k /\ Head(rs).doc = e
<1>1. /\ Len(less) = Len(rs) - 1 /\ Len(rs) \in Nat /\ Len(rs) > 0
      /\ Head(rs) = rs[1]
      /\ \A i \in 1 .. Len(less) : less[i] = rs[i + 1]
  OBVIOUS
<1>2. /\ \A i \in 1 .. Len(rs) : i > 1 => i - 1 \in 1 .. Len(less) /\ (i - 1) + 1 = i
      /\ \A i \in 1 .. Len(less) : i + 1 \in 1 .. Len(rs)
      /\ 1 \in 1 .. Len(rs)
  BY <1>1
<1>3. \A i \in 1 .. Len(less) : \A k, e :
         i + 1 \in 1 .. Len(rs) /\ (Says(less, i, k, e) <=> Says(rs, i + 1, k, e))
  BY <1>1, <1>2 DEF Says
<1>4. \A i \in 1 .. Len(rs) : \A k, e :
         i > 1 => i - 1 \in 1 .. Len(less) /\ (Says(less, i - 1, k, e) <=> Says(rs, i, k, e))
  BY <1>2, <1>3
<1>5. \A k, e : Says(rs, 1, k, e) <=> Head(rs).kind = k /\ Head(rs).doc = e
  BY <1>1, <1>2 DEF Says
<1> QED
  BY <1>1, <1>3, <1>4, <1>5

\* A queue that is told of a change agrees with the disk that is left, and
\* what waited in it still does.
LEMMA AddedAgrees ==
    ASSUME NEW rs \in Seq(Report), NEW kind, NEW d, NEW more, NEW there, NEW left,
           more = Append(rs, [kind |-> kind, doc |-> d]), Agrees(rs, there),
           \/ kind = "created" /\ left = there \cup {d}
           \/ kind = "changed" /\ left = there
           \/ kind = "deleted" /\ left = there \ {d}
    PROVE  /\ Agrees(more, left) /\ Waiting(more, kind, d)
           /\ \A k, e : Waiting(rs, k, e) => Waiting(more, k, e)
<1> DEFINE n == Len(rs)
<1>1. /\ Len(more) = n + 1 /\ n \in Nat
      /\ Says(more, n + 1, kind, d)
      /\ \A i \in 1 .. n : \A k, e : Says(more, i, k, e) <=> Says(rs, i, k, e)
      /\ \A k, e : Says(more, n + 1, k, e) => k = kind /\ e = d
  <2>1. Added(rs, more, kind, d)
    BY ReportAdded
  <2> QED
    BY <2>1 DEF Added
<1>2. /\ 1 .. Len(more) = 1 .. (n + 1) /\ n + 1 \in 1 .. (n + 1)
      /\ \A i \in 1 .. (n + 1) : i = n + 1 \/ (i \in 1 .. n /\ n + 1 > i)
      /\ \A i \in 1 .. n : i \in 1 .. (n + 1)
  BY <1>1
<1>3. Agrees(rs, there) =
         \A e \in Doc \cap there, i \in 1 .. n :
            Says(rs, i, "deleted", e) =>
                \E j \in 1 .. n : j > i /\ Says(rs, j, "created", e)
  BY DEF Agrees
<1>4. \A k, e : Waiting(rs, k, e) => Waiting(more, k, e)
  BY <1>1, <1>2 DEF Waiting
<1>5. Waiting(more, kind, d)
  BY <1>1, <1>2 DEF Waiting
<1> HIDE DEF n
<1>6. /\ \A e : e \in left \ there => Says(more, n + 1, "created", e)
      /\ \A e : Says(more, n + 1, "deleted", e) => e \notin left
  BY <1>1
<1>7. ASSUME NEW e \in Doc \cap left, NEW i \in 1 .. (n + 1), Says(more, i, "deleted", e)
      PROVE  \E j \in 1 .. (n + 1) : j > i /\ Says(more, j, "created", e)
  <2>1. i \in 1 .. n /\ n + 1 > i
    BY <1>2, <1>6, <1>7
  <2>2. CASE e \in there
    BY <1>1, <1>2, <1>3, <1>7, <2>1, <2>2
  <2>3. CASE e \notin there
    BY <1>2, <1>6, <2>1, <2>3
  <2> QED
    BY <2>2, <2>3
<1>8. Agrees(more, left)
  BY <1>2, <1>7 DEF Agrees
<1> QED
  BY <1>4, <1>5, <1>8

\* A queue whose first report is taken still agrees with the disk; what waited
\* in it still does, but for that report; and a deletion of what is there
\* leaves a creation waiting.
LEMMA TakenAgrees ==
    ASSUME NEW rs \in Seq(Report), rs # <<>>, NEW less, less = Tail(rs), NEW there,
           Agrees(rs, there)
    PROVE  /\ Agrees(less, there)
           /\ \A k, e : Waiting(rs, k, e) =>
                 Waiting(less, k, e) \/ (Head(rs).kind = k /\ Head(rs).doc = e)
           /\ Head(rs).kind = "deleted" /\ Head(rs).doc \in Doc \cap there
                 => Waiting(less, "created", Head(rs).doc)
<1>1. /\ Len(less) = Len(rs) - 1 /\ Len(rs) \in Nat /\ Len(rs) > 0
      /\ \A i \in 1 .. Len(rs) : \A k, e :
            i > 1 => i - 1 \in 1 .. Len(less) /\ (Says(less, i - 1, k, e) <=> Says(rs, i, k, e))
      /\ \A i \in 1 .. Len(less) : \A k, e :
            i + 1 \in 1 .. Len(rs) /\ (Says(less, i, k, e) <=> Says(rs, i + 1, k, e))
      /\ \A k, e : Says(rs, 1, k, e) <=> Head(rs).kind = k /\ Head(rs).doc = e
  BY ReportTaken
<1>2. /\ \A i \in 1 .. Len(rs) : i = 1 \/ i > 1
      /\ 1 \in 1 .. Len(rs)
  BY <1>1
<1>3. ASSUME NEW e \in Doc \cap there, NEW i \in 1 .. Len(less), Says(less, i, "deleted", e)
      PROVE  \E j \in 1 .. Len(less) : j > i /\ Says(less, j, "created", e)
  <2>1. i + 1 \in 1 .. Len(rs) /\ Says(rs, i + 1, "deleted", e)
    BY <1>1, <1>3
  <2>2. PICK j \in 1 .. Len(rs) : j > i + 1 /\ Says(rs, j, "created", e)
    BY <2>1 DEF Agrees
  <2>3. j > 1 /\ j - 1 > i
    BY <1>1, <2>2
  <2> QED
    BY <1>1, <2>2, <2>3
<1>4. Agrees(less, there)
  BY <1>3 DEF Agrees
<1>5. ASSUME NEW k, NEW e, Waiting(rs, k, e)
      PROVE  Waiting(less, k, e) \/ (Head(rs).kind = k /\ Head(rs).doc = e)
  BY <1>1, <1>2, <1>5 DEF Waiting
<1>6. ASSUME Head(rs).kind = "deleted", Head(rs).doc \in Doc \cap there
      PROVE  Waiting(less, "created", Head(rs).doc)
  <2>1. Says(rs, 1, "deleted", Head(rs).doc)
    BY <1>1, <1>6
  <2>2. PICK j \in 1 .. Len(rs) : j > 1 /\ Says(rs, j, "created", Head(rs).doc)
    BY <1>2, <1>6, <2>1 DEF Agrees
  <2> QED
    BY <1>1, <2>2 DEF Waiting
<1> QED
  BY <1>4, <1>5, <1>6

\* A change on disk is reported.
LEMMA ChangeQueued ==
    ASSUME TypeOK, Queue, FileSystem
    PROVE  Queue'
<1> DEFINE told == IF config_pulled THEN Channel ELSE {"client"}
<1>1. PICK d \in Doc, kind \in {"created", "changed", "deleted"} :
         /\ reports' = [ch \in Channel |->
                          IF ch \in told THEN Append(reports[ch], [kind |-> kind, doc |-> d])
                          ELSE reports[ch]]
         /\ \/ kind = "created" /\ DOMAIN disk' = DOMAIN disk \cup {d}
            \/ kind = "changed" /\ DOMAIN disk' = DOMAIN disk
            \/ kind = "deleted" /\ DOMAIN disk' = DOMAIN disk \ {d}
  <2>1. PICK d \in Doc : FsDelete(d) \/ \E code \in Code : FsWrite(d, code)
    BY DEF FileSystem
  <2>2. CASE FsDelete(d)
    BY <2>2 DEF FsDelete, Changes
  <2>3. CASE \E code \in Code : FsWrite(d, code)
    <3>1. CASE d \in DOMAIN disk
      BY <2>3, <3>1 DEF FsWrite, Changes
    <3>2. CASE d \notin DOMAIN disk
      BY <2>3, <3>2 DEF FsWrite, Changes
    <3> QED
      BY <3>1, <3>2
  <2> QED
    BY <2>1, <2>2, <2>3
<1>2. /\ Known' = Known /\ unsaved' = unsaved /\ config_pulled' = config_pulled
      /\ \A ch \in Channel : reports[ch] \in Seq(Report)
  BY DEF TypeOK, Known, FileSystem, FsWrite, FsDelete, Changes
<1>3. ASSUME NEW ch \in Channel
      PROVE  /\ Agrees(reports'[ch], DOMAIN disk')
             /\ ch \in told => Waiting(reports'[ch], kind, d)
             /\ \A k, e : Waiting(reports[ch], k, e) => Waiting(reports'[ch], k, e)
  <2>1. reports[ch] \in Seq(Report) /\ Agrees(reports[ch], DOMAIN disk)
    BY <1>2 DEF Queue
  <2>2. CASE ch \in told
    <3>1. reports'[ch] = Append(reports[ch], [kind |-> kind, doc |-> d])
      BY <1>1, <2>2
    <3> QED
      BY <1>1, <2>1, <3>1, AddedAgrees
  <2>3. CASE ch \notin told
    <3>1. reports'[ch] = reports[ch] /\ reports[ch] = <<>>
      BY <1>1, <2>3 DEF Queue, Channel
    <3>2. Agrees(<<>>, DOMAIN disk')
      BY DEF Agrees
    <3> QED
      BY <2>3, <3>1, <3>2
  <2> QED
    BY <2>2, <2>3
<1>4. "client" \in told /\ "client" \in Channel
  BY DEF Channel
<1>5. ~config_pulled' => reports'["server"] = <<>>
  BY <1>1, <1>2 DEF Queue, Channel
<1> HIDE DEF told
<1>6. KnownFollows'
  <2> SUFFICES ASSUME NEW e \in Doc
               PROVE  /\ e \in DOMAIN disk' \ Known
                            => \E ch \in Channel : Waiting(reports'[ch], "created", e)
                      /\ e \in Known \ (DOMAIN disk' \cup unsaved)
                            => \E ch \in Channel : Waiting(reports'[ch], "deleted", e)
    BY <1>2 DEF KnownFollows
  <2>1. /\ e \in DOMAIN disk' => e \in DOMAIN disk \/ (kind = "created" /\ e = d)
        /\ e \notin DOMAIN disk' => e \notin DOMAIN disk \/ (kind = "deleted" /\ e = d)
    BY <1>1
  <2>2. Waiting(reports'["client"], kind, d)
    BY <1>3, <1>4
  <2>3. /\ e \in DOMAIN disk \ Known => \E ch \in Channel : Waiting(reports[ch], "created", e)
        /\ e \in Known \ (DOMAIN disk \cup unsaved)
              => \E ch \in Channel : Waiting(reports[ch], "deleted", e)
    BY DEF Queue, KnownFollows
  <2> QED
    BY <1>3, <1>4, <2>1, <2>2, <2>3
<1> QED
  BY <1>3, <1>5, <1>6 DEF Queue

\* A report that is handled is no longer needed.
LEMMA ReportHandledQueued ==
    ASSUME DiagnosticsAssumption, TypeOK, Queue, NEW c \in Channel, NEW d \in Doc, Handled(c, d)
    PROVE  Queue'
<1> DEFINE kind == Head(reports[c]).kind
<1>1. /\ reports[c] # <<>> /\ Head(reports[c]).doc = d
      /\ reports' = [reports EXCEPT ![c] = Tail(@)]
      /\ disk' = disk /\ config_pulled' = config_pulled
      /\ unsaved \ unsaved' \subseteq DOMAIN disk \cup (Doc \ Known')
      /\ \/ kind = "created" /\ Known' = Known \cup ({d} \cap DOMAIN disk)
         \/ kind = "changed" /\ (Known' = Known \/ Known' = Known \cup ({d} \cap DOMAIN disk))
         \/ kind = "deleted" /\ Known' = Known \ {d}
  BY ReportHandled
<1>2. /\ reports \in [Channel -> Seq(Report)] /\ Agrees(reports[c], DOMAIN disk)
      /\ reports'[c] = Tail(reports[c]) /\ \A ch \in Channel \ {c} : reports'[ch] = reports[ch]
  BY <1>1 DEF TypeOK, Queue
<1>3. /\ Agrees(reports'[c], DOMAIN disk)
      /\ \A k, e : Waiting(reports[c], k, e) => Waiting(reports'[c], k, e) \/ (kind = k /\ d = e)
      /\ kind = "deleted" /\ d \in Doc \cap DOMAIN disk => Waiting(reports'[c], "created", d)
  BY <1>1, <1>2, TakenAgrees
<1> HIDE DEF kind
<1>4. \A ch \in Channel : Agrees(reports'[ch], DOMAIN disk')
  BY <1>1, <1>2, <1>3 DEF Queue
<1>5. ~config_pulled' => reports'["server"] = <<>>
  BY <1>1, <1>2 DEF Queue, Channel
<1>6. \A k, e : (\E ch \in Channel : Waiting(reports[ch], k, e)) /\ ~(kind = k /\ d = e)
                   => \E ch \in Channel : Waiting(reports'[ch], k, e)
  BY <1>2, <1>3
<1>7. KnownFollows'
  <2> SUFFICES ASSUME NEW e \in Doc
               PROVE  /\ e \in DOMAIN disk \ Known'
                            => \E ch \in Channel : Waiting(reports'[ch], "created", e)
                      /\ e \in Known' \ (DOMAIN disk \cup unsaved')
                            => \E ch \in Channel : Waiting(reports'[ch], "deleted", e)
    BY <1>1 DEF KnownFollows
  <2>1. /\ e \in DOMAIN disk \ Known => \E ch \in Channel : Waiting(reports[ch], "created", e)
        /\ e \in Known \ (DOMAIN disk \cup unsaved)
              => \E ch \in Channel : Waiting(reports[ch], "deleted", e)
    BY DEF Queue, KnownFollows
  <2>2. /\ e \in DOMAIN disk \ Known' =>
              \/ e \in DOMAIN disk \ Known /\ ~(kind = "created" /\ d = e)
              \/ kind = "deleted" /\ d = e
        /\ e \in Known' \ (DOMAIN disk \cup unsaved') =>
              e \in Known \ (DOMAIN disk \cup unsaved) /\ ~(kind = "deleted" /\ d = e)
    <3>1. CASE kind = "created" /\ Known' = Known \cup ({d} \cap DOMAIN disk)
      BY <1>1, <3>1
    <3>2. CASE kind = "changed" /\ (Known' = Known \/ Known' = Known \cup ({d} \cap DOMAIN disk))
      BY <1>1, <3>2
    <3>3. CASE kind = "deleted" /\ Known' = Known \ {d}
      BY <1>1, <3>3
    <3> QED
      BY <1>1, <3>1, <3>2, <3>3
  <2> QED
    BY <1>3, <1>6, <2>1, <2>2
<1> QED
  BY <1>4, <1>5, <1>7 DEF Queue

\* What adds to the store only files on disk, or what the client opened
\* without one, keeps the queues as they are.
LEMMA SameQueue ==
    ASSUME Queue, disk' = disk, reports' = reports, config_pulled => config_pulled',
           Known \subseteq Known', Known' \subseteq Known \cup DOMAIN disk \cup unsaved',
           unsaved \subseteq unsaved'
    PROVE  Queue'
<1>1. KnownFollows'
  BY DEF Queue, KnownFollows
<1> QED
  BY <1>1 DEF Queue

\* A step keeps the agreement of the reports with the disk and the store.
LEMMA NextQueued ==
    ASSUME DiagnosticsAssumption, TypeOK, Queue, [Next]_vars
    PROVE  Queue'
<1>1. CASE FileSystem
  BY <1>1, ChangeQueued
<1>2. CASE MainThread
  <2>1. ASSUME NEW ch \in Channel, NEW d \in Doc, Handled(ch, d)
        PROVE  Queue'
    BY <2>1, ReportHandledQueued
  <2>2. ASSUME NEW d \in Doc, DidOpen(d)
        PROVE  Queue'
    <3>1. disk' = disk /\ reports' = reports /\ config_pulled' = config_pulled
      BY <2>2 DEF DidOpen
    <3>2. /\ Known' = Known \cup {d}
          /\ unsaved \subseteq unsaved' /\ d \in DOMAIN disk \cup unsaved'
      BY <2>2, OpenHandled
    <3> QED
      BY <3>1, <3>2, SameQueue
  <2>3. ASSUME NEW d \in Doc, DidChange(d)
        PROVE  Queue'
    <3>1. /\ disk' = disk /\ reports' = reports /\ config_pulled' = config_pulled
          /\ unsaved' = unsaved
      BY <2>3 DEF DidChange
    <3> QED
      BY <2>3, <3>1, ChangeHandled, SameQueue
  <2>4. CASE ReparseAll
    <3>1. disk' = disk /\ reports' = reports /\ config_pulled' = TRUE
      BY <2>4 DEF ReparseAll
    <3>2. Known' = Known \cup DOMAIN disk /\ unsaved' = unsaved
      BY <2>4, ReparseHandled
    <3> QED
      BY <3>1, <3>2, SameQueue
  <2>5. CASE Ingest
    <3>1. /\ disk' = disk /\ reports' = reports /\ config_pulled' = config_pulled
          /\ unsaved' = unsaved
      BY <2>5 DEF Ingest
    <3>2. Known' = Known
      BY <2>5, IngestHandled
    <3> QED
      BY <3>1, <3>2, SameQueue
  <2> QED
    BY <1>2, <2>1, <2>2, <2>3, <2>4, <2>5 DEF MainThread, Handled, Channel
<1>3. CASE Workers \/ UNCHANGED vars
  <2>1. /\ disk' = disk /\ reports' = reports /\ Known' = Known
        /\ unsaved' = unsaved /\ config_pulled' = config_pulled
    BY <1>3 DEF Workers, StartRun, Compile, FailRun, FinishRun, vars, Known
  <2> QED
    BY <2>1, SameQueue
<1> QED
  BY <1>1, <1>2, <1>3 DEF Next

\* At first the store is what is on disk, and there is no report.
LEMMA InitQueued == Init => Queue
<1> SUFFICES ASSUME Init PROVE Queue
  OBVIOUS
<1>1. Known = DOMAIN disk /\ \A ch \in Channel : reports[ch] = <<>>
  BY DEF Init, Known
<1>2. Agrees(<<>>, DOMAIN disk)
  BY DEF Agrees
<1> QED
  BY <1>1, <1>2 DEF Queue, KnownFollows, Channel

\* When all is settled, what is known but not on disk is what the client opened
\* without a file.
THEOREM DeletedAlwaysForgotten == Spec => []DeletedStaysForgotten
<1>1. Init => TypeOK /\ Queue
  BY InitTyped, InitQueued, DiagnosticsAssumption
<1>2. TypeOK /\ Queue /\ [Next]_vars => (TypeOK /\ Queue)'
  BY NextTyped, NextQueued, DiagnosticsAssumption
<1>3. TypeOK /\ Queue => DeletedStaysForgotten
  BY NoneWaiting DEF DeletedStaysForgotten, Settled, TypeOK, Queue, KnownFollows
<1> QED
  BY <1>1, <1>2, <1>3, PTL DEF Spec

-----------------------------------------------------------------------------
(* The errors.  With every report handled, an error on disk is to be       *)
(* found by a run, is in a result, or is in the store and shown.           *)

AllParsed == config_pulled => AllParsedIn(documents)

\* rs are the jobs, l the one spawned last, q the results.
Coming(rs, l, q, d) ==
    \/ rs[l].at \in {"spawned", "started"}
    \/ rs[l].at = "done" /\ d \in rs[l].found
    \/ \E i \in 1 .. Len(q) : d \in q[i]

NoReports == \A ch \in Channel : reports[ch] = <<>>

ErrorsComing ==
    config_pulled /\ Main \in DOMAIN disk /\ NoReports /\ ~failed =>
        \A d \in (Known \cap DOMAIN disk) \ edited : disk[d] = "bad" =>
            \/ Coming(runs, latest, results, d)
            \/ documents[d].spcomp = TRUE /\ shown[d].spcomp = TRUE

ErrorInv == TypeOK /\ Queue /\ AllParsed /\ ErrorsComing

\* What is on disk is known when there is no report.
LEMMA OnDiskKnown ==
    ASSUME TypeOK, Queue, NoReports
    PROVE  DOMAIN disk \subseteq Known
BY NoneWaiting DEF NoReports, Queue, KnownFollows, TypeOK

\* Once the configuration has come, what is known stays parsed.
LEMMA ParsedKept ==
    ASSUME DiagnosticsAssumption, TypeOK, AllParsed, [Next]_vars
    PROVE  AllParsed'
<1>1. CASE MainThread
  <2>1. ASSUME NEW ch \in Channel, NEW d \in Doc, Handled(ch, d)
        PROVE  AllParsed'
    BY <2>1, ReportHandled DEF AllParsed
  <2>2. ASSUME NEW d \in Doc, DidOpen(d)
        PROVE  AllParsed'
    <3>1. config_pulled' = config_pulled
      BY <2>2 DEF DidOpen
    <3> QED
      BY <2>2, <3>1, OpenHandled DEF AllParsed
  <2>3. ASSUME NEW d \in Doc, DidChange(d)
        PROVE  AllParsed'
    <3>1. config_pulled' = config_pulled
      BY <2>3 DEF DidChange
    <3> QED
      BY <2>3, <3>1, ChangeHandled DEF AllParsed
  <2>4. CASE ReparseAll
    BY <2>4, ReparseHandled DEF AllParsed
  <2>5. CASE Ingest
    <3>1. config_pulled' = config_pulled
      BY <2>5 DEF Ingest
    <3> QED
      BY <2>5, <3>1, IngestHandled DEF AllParsed
  <2> QED
    BY <1>1, <2>1, <2>2, <2>3, <2>4, <2>5 DEF MainThread, Handled, Channel
<1>2. CASE ~MainThread
  <2>1. config_pulled' = config_pulled /\ documents' = documents
    BY <1>2 DEF Next, FileSystem, FsDelete, FsWrite, Changes, Workers, StartRun, Compile,
                FailRun, FinishRun, vars
  <2> QED
    BY <2>1 DEF AllParsed, AllParsedIn
<1> QED
  BY <1>1, <1>2

\* The main thread loses no error: it spawns a run when it clears, what it
\* opens anew had been edited, and a result it takes it ingests.
LEMMA MainKeepsErrors ==
    ASSUME DiagnosticsAssumption, ErrorInv, MainThread
    PROVE  ErrorsComing'
<1> SUFFICES ASSUME config_pulled', Main \in DOMAIN disk', NoReports', ~failed',
                    NEW d \in (Known' \cap DOMAIN disk') \ edited', disk'[d] = "bad"
             PROVE  \/ Coming(runs', latest', results', d)
                    \/ documents'[d].spcomp = TRUE /\ shown'[d].spcomp = TRUE
  BY DEF ErrorsComing
<1> USE DEF ErrorInv
<1>1. ASSUME NEW ch \in Channel, NEW c \in Doc, Handled(ch, c)
      PROVE  Coming(runs', latest', results', d)
  BY <1>1, ReportHandled DEF Coming
<1>2. ASSUME NEW c \in Doc, DidOpen(c)
      PROVE  \/ Coming(runs', latest', results', d)
             \/ documents'[d].spcomp = TRUE /\ shown'[d].spcomp = TRUE
  <2>1. /\ config_pulled /\ NoReports /\ ~failed /\ disk' = disk
        /\ UNCHANGED <<spawned, results, shown>>
    BY <1>2 DEF DidOpen, NoReports, spawned
  <2>2. AllParsedIn(documents)
    BY <2>1 DEF AllParsed
  <2>3. /\ Known' = Known \cup {c} /\ edited' = edited \cup {c}
        /\ \A e \in Known : documents'[e] = documents[e]
    BY <1>2, <2>1, <2>2, OpenHandled
  <2>4. d \in (Known \cap DOMAIN disk) \ edited /\ documents'[d] = documents[d]
    BY <2>1, <2>3
  <2>5. \/ Coming(runs, latest, results, d)
        \/ documents[d].spcomp = TRUE /\ shown[d].spcomp = TRUE
    BY <2>1, <2>4 DEF ErrorsComing
  <2> QED
    BY <2>1, <2>4, <2>5 DEF spawned
<1>3. ASSUME NEW c \in Doc, DidChange(c)
      PROVE  \/ Coming(runs', latest', results', d)
             \/ documents'[d].spcomp = TRUE /\ shown'[d].spcomp = TRUE
  <2>1. /\ config_pulled /\ NoReports /\ ~failed /\ disk' = disk /\ runs' = runs
        /\ latest' = latest /\ results' = results /\ c \in Known \cup DOMAIN disk
    BY <1>3 DEF DidChange, spawned, NoReports
  <2>2. c \in Known /\ d \in Known
    BY <2>1, OnDiskKnown
  <2>3. AllParsedIn(documents)
    BY <2>1 DEF AllParsed
  <2>4. /\ edited' = edited \cup {c}
        /\ \A e \in Known \ {c} : /\ documents'[e].spcomp = documents[e].spcomp
                                  /\ shown'[e].spcomp = documents[e].spcomp
    BY <1>3, <2>2, <2>3, ChangeHandled
  <2>5. d \in (Known \cap DOMAIN disk) \ edited /\ d # c
    BY <2>1, <2>2, <2>4
  <2>6. \/ Coming(runs, latest, results, d)
        \/ documents[d].spcomp = TRUE /\ shown[d].spcomp = TRUE
    BY <2>1, <2>5 DEF ErrorsComing
  <2>7. documents'[d].spcomp = documents[d].spcomp /\ shown'[d].spcomp = documents[d].spcomp
    BY <2>4, <2>5
  <2> QED
    BY <2>1, <2>6, <2>7
<1>4. CASE ReparseAll
  <2>1. disk' = disk
    BY <1>4 DEF ReparseAll
  <2> QED
    BY <1>4, <2>1, ReparseHandled DEF Coming
<1>5. CASE Ingest
  <2>1. /\ config_pulled /\ NoReports /\ ~failed /\ disk' = disk
        /\ edited' = edited /\ runs' = runs /\ latest' = latest
    BY <1>5 DEF Ingest, spawned, NoReports
  <2>2. /\ Known' = Known /\ results # <<>> /\ results' = Tail(results)
        /\ \A e \in Known :
              /\ documents'[e].spcomp
                    = IF e \in Head(results) THEN TRUE ELSE documents[e].spcomp
              /\ shown'[e].spcomp = documents'[e].spcomp
    BY <1>5, IngestHandled
  <2>3. d \in (Known \cap DOMAIN disk) \ edited
    BY <2>1, <2>2
  <2>4. CASE d \in Head(results) \/ documents[d].spcomp = TRUE
    <3>1. documents'[d].spcomp = TRUE /\ shown'[d].spcomp = documents'[d].spcomp
      BY <2>2, <2>3, <2>4
    <3> QED
      BY <3>1
  <2>5. CASE d \notin Head(results) /\ Coming(runs, latest, results, d)
    <3>1. ASSUME NEW i \in 1 .. Len(results), d \in results[i]
          PROVE  i - 1 \in 1 .. Len(results') /\ d \in results'[i - 1]
      <4>1. results \in Seq(SUBSET Doc)
        BY DEF TypeOK
      <4>2. /\ Head(results) = results[1] /\ Len(results') = Len(results) - 1
            /\ \A j \in 1 .. Len(results') : results'[j] = results[j + 1]
        BY <2>2, <4>1
      <4>3. i # 1
        BY <2>5, <3>1, <4>2
      <4>4. i - 1 \in 1 .. Len(results') /\ (i - 1) + 1 = i
        BY <4>1, <4>2, <4>3
      <4> QED
        BY <3>1, <4>2, <4>4
    <3> QED
      BY <2>1, <2>5, <3>1 DEF Coming
  <2> QED
    BY <2>1, <2>3, <2>4, <2>5 DEF ErrorsComing
<1> QED
  BY <1>1, <1>2, <1>3, <1>4, <1>5 DEF MainThread, Handled, Channel

\* Nor does a job lose one: it reads the disk as it is, unless a change of
\* it is reported, and sends what it found.
LEMMA WorkersKeepErrors ==
    ASSUME DiagnosticsAssumption, ErrorInv, Workers
    PROVE  ErrorsComing'
<1> SUFFICES ASSUME config_pulled', Main \in DOMAIN disk', NoReports', ~failed',
                    NEW d \in (Known' \cap DOMAIN disk') \ edited', disk'[d] = "bad"
             PROVE  \/ Coming(runs', latest', results', d)
                    \/ documents'[d].spcomp = TRUE /\ shown'[d].spcomp = TRUE
  BY DEF ErrorsComing
<1>1. PICK r \in Run : StartRun(r) \/ Compile(r) \/ FailRun(r) \/ FinishRun(r)
  BY DEF Workers
<1>2. /\ config_pulled' = config_pulled /\ disk' = disk /\ reports' = reports
      /\ documents' = documents /\ edited' = edited /\ shown' = shown
      /\ latest' = latest /\ ~failed
  BY <1>1 DEF StartRun, Compile, FailRun, FinishRun, ErrorInv, TypeOK
<1>3. /\ runs \in [Run -> Job] /\ latest \in Run /\ results \in Seq(SUBSET Doc)
      /\ Main \in DOMAIN disk /\ d \in DOMAIN disk /\ disk[d] = "bad"
  BY <1>2 DEF ErrorInv, TypeOK
<1>4. \/ Coming(runs, latest, results, d)
      \/ documents[d].spcomp = TRUE /\ shown[d].spcomp = TRUE
  BY <1>2 DEF ErrorInv, ErrorsComing, NoReports, Known
<1> SUFFICES ASSUME Coming(runs, latest, results, d)
             PROVE  Coming(runs', latest', results', d)
  BY <1>2, <1>4
<1>5. CASE StartRun(r)
  <2>1. runs'[r].at = "started" /\ \A s \in Run \ {r} : runs'[s] = runs[s]
    BY <1>3, <1>5 DEF StartRun, Job
  <2> QED
    BY <1>2, <1>3, <1>5, <2>1 DEF Coming, StartRun
<1>6. CASE Compile(r)
  <2>1. /\ runs'[r].at = "done" /\ d \in runs'[r].found
        /\ \A s \in Run \ {r} : runs'[s] = runs[s]
    BY <1>3, <1>6 DEF Compile
  <2> QED
    BY <1>2, <1>3, <1>6, <2>1 DEF Coming, Compile
<1>8. CASE FailRun(r)
  <2>1. r # latest /\ runs'[latest] = runs[latest] /\ results' = results
    BY <1>3, <1>8 DEF FailRun
  <2> QED
    BY <1>2, <2>1 DEF Coming
<1>7. CASE FinishRun(r)
  <2>1. /\ runs[r].at \in {"done", "failed"}
        /\ runs' = [runs EXCEPT ![r] = NoRun]
        /\ results' = IF runs[r].at = "failed" THEN results ELSE Append(results, runs[r].found)
    BY <1>7 DEF FinishRun
  <2>2. \A s \in Run \ {r} : runs'[s] = runs[s]
    BY <1>3, <2>1
  <2>3. runs[r].found \in SUBSET Doc
    BY <1>3 DEF Job
  <2>4. /\ \A i \in 1 .. Len(results) : i \in 1 .. Len(results') /\ results'[i] = results[i]
        /\ runs[r].at = "done" => \E i \in 1 .. Len(results') : results'[i] = runs[r].found
    <3>1. CASE runs[r].at = "failed"
      BY <2>1, <3>1
    <3>2. CASE runs[r].at = "done"
      <4>1. results' = Append(results, runs[r].found)
        BY <2>1, <3>2
      <4>2. /\ Len(results) \in Nat /\ Len(results') = Len(results) + 1
            /\ \A i \in 1 .. Len(results) : results'[i] = results[i]
            /\ results'[Len(results) + 1] = runs[r].found
        BY <1>3, <2>3, <4>1
      <4> QED
        BY <4>2
    <3> QED
      BY <2>1, <3>1, <3>2
  <2>5. CASE \E i \in 1 .. Len(results) : d \in results[i]
    BY <2>4, <2>5 DEF Coming
  <2>6. CASE runs[latest].at \in {"spawned", "started"}
    BY <1>2, <1>3, <2>1, <2>2, <2>6 DEF Coming
  <2>7. CASE runs[latest].at = "done" /\ d \in runs[latest].found
    BY <1>2, <1>3, <2>2, <2>4, <2>7 DEF Coming
  <2> QED
    BY <2>5, <2>6, <2>7 DEF Coming
<1> QED
  BY <1>1, <1>5, <1>6, <1>7, <1>8

\* A step keeps the invariant.
LEMMA NextErrors == DiagnosticsAssumption /\ ErrorInv /\ [Next]_vars => ErrorInv'
<1> SUFFICES ASSUME DiagnosticsAssumption, ErrorInv, [Next]_vars PROVE ErrorInv'
  OBVIOUS
<1>1. TypeOK' /\ Queue' /\ AllParsed'
  BY NextTyped, NextQueued, ParsedKept DEF ErrorInv
<1>2. CASE FileSystem
  BY <1>1, <1>2, FileSystemTyped DEF ErrorInv, ErrorsComing, NoReports, Channel
<1>3. CASE UNCHANGED vars
  BY <1>1, <1>3 DEF vars, spawned, ErrorInv, ErrorsComing, NoReports, Coming, Known
<1>4. CASE MainThread \/ Workers
  BY <1>1, <1>4, MainKeepsErrors, WorkersKeepErrors DEF ErrorInv
<1> QED
  BY <1>2, <1>3, <1>4 DEF Next

\* When all is settled and the run spawned last did not fail, no error is lost:
\* the client shows the errors of every document that has them on disk and was
\* not edited since, whichever of the other runs failed.
THEOREM ErrorsAlwaysReported == Spec => []ErrorsReported
<1>1. Init => ErrorInv
  <2>1. Init => AllParsed /\ ErrorsComing
    BY DEF Init, AllParsed, ErrorsComing
  <2> QED
    BY <2>1, InitTyped, InitQueued, DiagnosticsAssumption DEF ErrorInv
<1>2. ErrorInv /\ [Next]_vars => ErrorInv'
  BY NextErrors, DiagnosticsAssumption
<1>3. ErrorInv => ErrorsReported
  <2> SUFFICES ASSUME ErrorInv, Settled, Main \in DOMAIN disk, ~failed,
                      NEW d \in (Known \cap DOMAIN disk) \ edited, disk[d] = "bad"
               PROVE  shown[d].spcomp = TRUE
    BY DEF ErrorsReported
  <2>1. 1 .. Len(results) = {}
    BY DEF Settled
  <2>2. ~Coming(runs, latest, results, d)
    BY <2>1 DEF Coming, Settled, ErrorInv, TypeOK
  <2> QED
    BY <2>2 DEF ErrorInv, ErrorsComing, NoReports, Settled
<1> QED
  BY <1>1, <1>2, <1>3, PTL DEF Spec
=============================================================================
