---------------------------- MODULE Store_proofs ----------------------------
(***************************************************************************)
(* Proofs about Store, for every set of files, texts, directives and       *)
(* configurations: the store is well-typed, what a document includes is in *)
(* the store, and parsed when the document is, no include directive is     *)
(* lost, and what is loaded is linked to the documents that missed it.     *)
(*                                                                         *)
(* The argument is about one operator at a time: each operation of the     *)
(* store takes good documents to good documents.  The last part is about   *)
(* the disk, the watcher and the store: each difference between the store  *)
(* and the disk waits in the channel as the event that will undo it.       *)
(***************************************************************************)
EXTENDS Store, TLAPS

Typed(D) == DOMAIN D \subseteq File /\ D \in [DOMAIN D -> Document]

Closed(D) == \A f \in DOMAIN D : D[f].includes \subseteq DOMAIN D

AccountsFor(doc) ==
    doc.parsed => \A d \in Directives[doc.text] :
        \/ d.name \in doc.missing_includes
        \/ \E g \in doc.includes : NameOf(g) = d.name

Good(D) == Typed(D) /\ Closed(D) /\ \A f \in DOMAIN D : AccountsFor(D[f])

OnDisk(dk) == DOMAIN dk \subseteq File /\ dk \in [DOMAIN dk -> Text]

-----------------------------------------------------------------------------
(* Resolution.                                                             *)

\* resolve_import returns a known file only.
LEMMA ResolveKnown ==
    ASSUME NEW K, NEW dk, NEW o, NEW f, NEW n, NEW q
    PROVE  Resolve(K, dk, o, f, n, q) \subseteq K
  BY DEF Resolve

\* The file it returns has the name that was asked for.
LEMMA ResolveName ==
    ASSUME NEW K, NEW dk, NEW o, NEW f, NEW n, NEW q \in BOOLEAN,
           NEW g \in Resolve(K, dk, o, f, n, q)
    PROVE  NameOf(g) = n
<1> DEFINE mains == MainUri(dk, o)
           near == {Beside(dk, DirOf(f), n)} \cap K
           hits == {i \in DOMAIN o.includes_directories :
                       <<o.includes_directories[i], n>> \in K}
           first == {i \in hits : \A j \in hits : i <= j}
<1>1. \A d : NameOf(Beside(dk, d, n)) = n
  BY DEF Beside, NameOf
<1>2. CASE q /\ mains # {}
  <2>1. g \in {Beside(dk, DirOf(m), n) : m \in mains}
    BY <1>2 DEF Resolve
  <2> QED BY <2>1, <1>1
<1>3. CASE ~(q /\ mains # {}) /\ near # {}
  <2>1. g \in near
    BY <1>3 DEF Resolve
  <2> QED BY <2>1, <1>1
<1>4. CASE ~(q /\ mains # {}) /\ near = {}
  <2>1. g \in {<<o.includes_directories[i], n>> : i \in first}
    BY <1>4 DEF Resolve
  <2> HIDE DEF first
  <2>2. PICK i \in first : g = <<o.includes_directories[i], n>>
    BY <2>1
  <2> QED BY <2>2 DEF NameOf
<1> HIDE DEF mains, near, first
<1> QED BY <1>2, <1>3, <1>4

\* A document that was just parsed includes known files only, and accounts for
\* every directive of its text.
LEMMA ParsedGood ==
    ASSUME NEW K \in SUBSET File, NEW dk, NEW o, NEW f, NEW t \in Text
    PROVE  /\ Parsed(K, dk, o, f, t) \in Document
           /\ Parsed(K, dk, o, f, t).includes \subseteq K
           /\ Parsed(K, dk, o, f, t).parsed
           /\ Parsed(K, dk, o, f, t).text = t
           /\ AccountsFor(Parsed(K, dk, o, f, t))
<1>1. Resolved(K, dk, o, f, t) \subseteq K
  BY ResolveKnown DEF Resolved
<1>2. Resolve(K, dk, o, f, SourcemodName, FALSE) \subseteq K
  BY ResolveKnown
<1>3. Directives[t] \subseteq Directive
  BY TextsAssumption
<1>4. Unresolved(K, dk, o, f, t) \subseteq Name
  BY <1>3 DEF Unresolved, Directive
<1>5. ASSUME NEW d \in Directives[t]
      PROVE  \/ d.name \in Unresolved(K, dk, o, f, t)
             \/ \E g \in Resolved(K, dk, o, f, t) : NameOf(g) = d.name
  <2>1. CASE Resolve(K, dk, o, f, d.name, d.quoted) = {}
    BY <2>1 DEF Unresolved
  <2>2. CASE Resolve(K, dk, o, f, d.name, d.quoted) # {}
    <3>1. PICK g \in Resolve(K, dk, o, f, d.name, d.quoted) : TRUE
      BY <2>2
    <3>2. NameOf(g) = d.name
      <4>1. d.quoted \in BOOLEAN
        BY <1>3 DEF Directive
      <4> QED BY <3>1, <4>1, ResolveName
    <3>3. g \in Resolved(K, dk, o, f, t)
      BY <3>1 DEF Resolved
    <3> QED BY <3>2, <3>3
  <2> QED BY <2>1, <2>2
<1> DEFINE doc == Parsed(K, dk, o, f, t)
<1>6. /\ doc \in Document
      /\ doc.includes \subseteq K
      /\ doc.parsed
      /\ doc.text = t
  BY <1>1, <1>2, <1>4 DEF Parsed, Document
<1>7. AccountsFor(doc)
  BY <1>5 DEF AccountsFor, Parsed
<1> QED BY <1>6, <1>7

\* A document of find_documents or of an early did_open has nothing to account for.
LEMMA UnparsedGood ==
    ASSUME NEW t \in Text
    PROVE  /\ Unparsed(t) \in Document
           /\ Unparsed(t).includes = {}
           /\ Unparsed(t).text = t
           /\ AccountsFor(Unparsed(t))
  BY DEF Unparsed, Document, AccountsFor

-----------------------------------------------------------------------------
(* The operations of the store.                                            *)

\* read_unscanned_imports parses some documents and adds none.
LEMMA ReadUnscannedImportsGood ==
    ASSUME NEW D, Good(D), NEW dk, NEW o, NEW Roots
    PROVE  /\ Good(ReadUnscannedImports(D, dk, o, Roots))
           /\ DOMAIN ReadUnscannedImports(D, dk, o, Roots) = DOMAIN D
           /\ \A f \in DOMAIN D : ReadUnscannedImports(D, dk, o, Roots)[f].text = D[f].text
<1> DEFINE E == ReadUnscannedImports(D, dk, o, Roots)
           fresh == Fresh(D, dk, o, Roots)
           new(f) == Parsed(DOMAIN D, dk, o, f, D[f].text)
<1>1. E = [f \in DOMAIN D |-> IF f \in fresh THEN new(f) ELSE D[f]]
  BY DEF ReadUnscannedImports
<1>2. ASSUME NEW f \in DOMAIN D
      PROVE  /\ D[f] \in Document /\ D[f].text \in Text
             /\ D[f].includes \subseteq DOMAIN D /\ AccountsFor(D[f])
  BY DEF Good, Typed, Closed, Document
<1>3. ASSUME NEW f \in DOMAIN D
      PROVE  /\ new(f) \in Document /\ new(f).text = D[f].text
             /\ new(f).includes \subseteq DOMAIN D /\ AccountsFor(new(f))
  <2>1. D[f].text \in Text /\ DOMAIN D \in SUBSET File
    BY <1>2 DEF Good, Typed
  <2> QED BY <2>1, ParsedGood
<1> HIDE DEF E, fresh, new
<1>4. DOMAIN E = DOMAIN D
  BY <1>1
<1>5. ASSUME NEW f \in DOMAIN D
      PROVE  /\ E[f] \in Document /\ E[f].text = D[f].text
             /\ E[f].includes \subseteq DOMAIN D /\ AccountsFor(E[f])
  <2>1. CASE f \in fresh
    <3>1. E[f] = new(f) BY <2>1, <1>1
    <3> QED BY <3>1, <1>3
  <2>2. CASE f \notin fresh
    <3>1. E[f] = D[f] BY <2>2, <1>1
    <3> QED BY <3>1, <1>2
  <2> QED BY <2>1, <2>2
<1>6. E \in [DOMAIN D -> Document]
  BY <1>1, <1>4, <1>5
<1>7. Good(E)
  BY <1>4, <1>5, <1>6 DEF Good, Typed, Closed
<1> QED BY <1>4, <1>5, <1>7 DEF E

\* Documents that are good stay good when some are replaced by good ones: the
\* shape of handle_open_document and of every loop that opens documents again.
LEMMA ReplaceGood ==
    ASSUME NEW D, Good(D), NEW S \in SUBSET File, DOMAIN D \subseteq S, NEW E,
           E \in [S -> Document],
           \A f \in S : \/ E[f].includes \subseteq S /\ AccountsFor(E[f])
                        \/ f \in DOMAIN D /\ E[f] = D[f]
    PROVE  Good(E)
<1>1. DOMAIN E = S
  OBVIOUS
<1>2. ASSUME NEW f \in S
      PROVE  E[f].includes \subseteq S /\ AccountsFor(E[f])
  BY DEF Good, Closed
<1> QED BY <1>1, <1>2 DEF Good, Typed, Closed

\* handle_open_document makes one document known and keeps the others.
LEMMA HandleOpenDocumentGood ==
    ASSUME NEW D, Good(D), NEW dk, NEW o, NEW f \in File, NEW t \in Text
    PROVE  /\ Good(HandleOpenDocument(D, dk, o, f, t))
           /\ DOMAIN HandleOpenDocument(D, dk, o, f, t) = DOMAIN D \cup {f}
<1> DEFINE doc == Parsed(DOMAIN D, dk, o, f, t)
           D1 == [g \in DOMAIN D \cup {f} |-> IF g = f THEN doc ELSE D[g]]
<1>1. HandleOpenDocument(D, dk, o, f, t) = ReadUnscannedImports(D1, dk, o, {f})
  BY DEF HandleOpenDocument
<1>2. doc \in Document /\ doc.includes \subseteq DOMAIN D /\ AccountsFor(doc)
  <2>1. DOMAIN D \in SUBSET File
    BY DEF Good, Typed
  <2> QED BY <2>1, ParsedGood
<1> HIDE DEF doc
<1>3. /\ DOMAIN D \cup {f} \in SUBSET File
      /\ DOMAIN D1 = DOMAIN D \cup {f}
      /\ D1 \in [DOMAIN D \cup {f} -> Document]
  BY <1>2 DEF Good, Typed
<1>4. \A g \in DOMAIN D \cup {f} :
         \/ D1[g].includes \subseteq DOMAIN D \cup {f} /\ AccountsFor(D1[g])
         \/ g \in DOMAIN D /\ D1[g] = D[g]
  BY <1>2
<1> HIDE DEF D1
<1>5. Good(D1)
  BY <1>3, <1>4, ReplaceGood
<1> QED BY <1>1, <1>3, <1>5, ReadUnscannedImportsGood

\* Opening known documents again changes no text and no set of files.
LEMMA ReopenAllGood ==
    ASSUME NEW D, Good(D), NEW dk, NEW o, NEW Fs
    PROVE  /\ Good(ReopenAll(D, dk, o, Fs))
           /\ DOMAIN ReopenAll(D, dk, o, Fs) = DOMAIN D
           /\ \A f \in DOMAIN D : ReopenAll(D, dk, o, Fs)[f].text = D[f].text
<1> DEFINE new(g) == Parsed(DOMAIN D, dk, o, g, D[g].text)
           D1 == [g \in DOMAIN D |-> IF g \in Fs THEN new(g) ELSE D[g]]
<1>1. ReopenAll(D, dk, o, Fs) = ReadUnscannedImports(D1, dk, o, Fs)
  BY DEF ReopenAll
<1>2. ASSUME NEW g \in DOMAIN D
      PROVE  /\ new(g) \in Document /\ new(g).text = D[g].text
             /\ new(g).includes \subseteq DOMAIN D /\ AccountsFor(new(g))
             /\ D[g] \in Document
  <2>1. D[g].text \in Text /\ DOMAIN D \in SUBSET File /\ D[g] \in Document
    BY DEF Good, Typed, Document
  <2> QED BY <2>1, ParsedGood
<1> HIDE DEF new
<1>3. /\ DOMAIN D \in SUBSET File
      /\ DOMAIN D1 = DOMAIN D
      /\ D1 \in [DOMAIN D -> Document]
      /\ \A g \in DOMAIN D : D1[g].text = D[g].text
  BY <1>2 DEF Good, Typed
<1>4. \A g \in DOMAIN D : \/ D1[g].includes \subseteq DOMAIN D /\ AccountsFor(D1[g])
                          \/ g \in DOMAIN D /\ D1[g] = D[g]
  BY <1>2
<1> HIDE DEF D1
<1>5. Good(D1)
  BY <1>3, <1>4, ReplaceGood
<1> QED BY <1>1, <1>3, <1>5, ReadUnscannedImportsGood

\* load and reload.
LEMMA LoadGood ==
    ASSUME NEW D, Good(D), NEW dk, OnDisk(dk), NEW o, NEW f \in File
    PROVE  Good(Load(D, dk, o, f)) /\ Good(Reload(D, dk, o, f))
<1>1. CASE f \in DOMAIN dk
  <2> DEFINE H == HandleOpenDocument(D, dk, o, f, dk[f])
             R == ResolveMissingIncludes(H, dk, o)
  <2>1. Good(H)
    BY <1>1, HandleOpenDocumentGood DEF OnDisk
  <2>2. Good(R)
    BY <2>1, ReopenAllGood DEF ResolveMissingIncludes
  <2>3. Load(D, dk, o, f) \in {D, R} /\ Reload(D, dk, o, f) = R
    BY <1>1 DEF Load, Reload
  <2> QED BY <2>2, <2>3
<1>2. CASE f \notin DOMAIN dk
  BY <1>2 DEF Load, Reload
<1> QED BY <1>1, <1>2

\* remove: the document goes, and is a missing include wherever it was one.
LEMMA RemoveGood ==
    ASSUME NEW D, Good(D), NEW dk, NEW o, NEW f \in File
    PROVE  Good(Remove(D, dk, o, f))
<1> DEFINE H == HandleOpenDocument(D, dk, o, f, EmptyText)
           S == DOMAIN H \ {f}
           miss(g) == IF f \in H[g].includes THEN H[g].missing_includes \cup {NameOf(f)}
                                             ELSE H[g].missing_includes
           new(g) == [H[g] EXCEPT !.includes = H[g].includes \ {f},
                                  !.missing_includes = miss(g)]
           E == [g \in S |-> new(g)]
<1>1. Remove(D, dk, o, f) = E
  BY DEF Remove
<1>2. EmptyText \in Text
  BY TextsAssumption
<1>3. Good(H)
  BY <1>2, HandleOpenDocumentGood
<1> HIDE DEF H
<1>4. NameOf(f) \in Name
  BY FilesAssumption DEF NameOf
<1>5. ASSUME NEW g \in S
      PROVE  /\ new(g) \in Document /\ new(g).includes \subseteq S /\ AccountsFor(new(g))
  <2>1. /\ H[g] \in Document /\ H[g].includes \subseteq DOMAIN H /\ AccountsFor(H[g])
    BY <1>3 DEF Good, Typed, Closed
  <2>2. miss(g) \in SUBSET Name /\ H[g].missing_includes \subseteq miss(g)
    BY <2>1, <1>4 DEF Document
  <2>3. f \in H[g].includes => NameOf(f) \in miss(g)
    OBVIOUS
  <2> HIDE DEF miss
  <2>4. /\ new(g) \in Document
        /\ new(g).includes = H[g].includes \ {f}
        /\ new(g).missing_includes = miss(g)
        /\ new(g).text = H[g].text /\ new(g).parsed = H[g].parsed
    BY <2>1, <2>2 DEF Document
  <2> HIDE DEF new
  <2>5. AccountsFor(new(g))
    <3> SUFFICES ASSUME new(g).parsed, NEW d \in Directives[new(g).text]
                 PROVE  \/ d.name \in new(g).missing_includes
                        \/ \E h \in new(g).includes : NameOf(h) = d.name
      BY DEF AccountsFor
    <3>1. CASE d.name \in H[g].missing_includes
      BY <3>1, <2>2, <2>4
    <3>2. CASE \E h \in H[g].includes : NameOf(h) = d.name
      <4>1. PICK h \in H[g].includes : NameOf(h) = d.name
        BY <3>2
      <4>2. CASE h = f
        BY <4>1, <4>2, <2>3, <2>4
      <4>3. CASE h # f
        BY <4>1, <4>3, <2>4
      <4> QED BY <4>2, <4>3
    <3> QED BY <2>1, <2>4, <3>1, <3>2 DEF AccountsFor
  <2> QED BY <2>1, <2>4, <2>5
<1> HIDE DEF new, S
<1>6. DOMAIN E = S /\ E \in [S -> Document] /\ \A g \in S : E[g] = new(g)
  BY <1>5
<1>7. S \subseteq File
  BY <1>3 DEF Good, Typed, S
<1> HIDE DEF E
<1>8. Good(E)
  BY <1>5, <1>6, <1>7 DEF Good, Typed, Closed
<1> QED BY <1>1, <1>8

\* find_documents adds documents that are not parsed and touches no other.
LEMMA FindDocumentsGood ==
    ASSUME NEW D, Good(D), NEW dk, OnDisk(dk), NEW Ds
    PROVE  /\ Good(FindDocuments(D, dk, Ds))
           /\ DOMAIN D \subseteq DOMAIN FindDocuments(D, dk, Ds)
           /\ \A f \in DOMAIN D : FindDocuments(D, dk, Ds)[f].text = D[f].text
<1> DEFINE found == {f \in DOMAIN dk \ DOMAIN D : \E d \in Ds : DirOf(f) \in Below[d]}
           S == DOMAIN D \cup found
           E == [f \in S |-> IF f \in DOMAIN D THEN D[f] ELSE Unparsed(dk[f])]
<1>1. FindDocuments(D, dk, Ds) = E
  BY DEF FindDocuments
<1>2. found \subseteq DOMAIN dk
  OBVIOUS
<1> HIDE DEF found
<1>3. ASSUME NEW f \in found
      PROVE  /\ Unparsed(dk[f]) \in Document /\ Unparsed(dk[f]).includes = {}
             /\ AccountsFor(Unparsed(dk[f]))
  <2>1. dk[f] \in Text
    BY <1>2 DEF OnDisk
  <2> QED BY <2>1, UnparsedGood
<1>4. S \in SUBSET File /\ DOMAIN D \subseteq S
  BY <1>2 DEF Good, Typed, OnDisk
<1>5. \A f \in S : \/ E[f].includes \subseteq S /\ AccountsFor(E[f])
                   \/ f \in DOMAIN D /\ E[f] = D[f]
  BY <1>3
<1>6. DOMAIN E = S /\ E \in [S -> Document] /\ \A f \in DOMAIN D : E[f] = D[f]
  BY <1>3 DEF Good, Typed
<1> HIDE DEF E, S
<1>7. Good(E)
  BY <1>4, <1>5, <1>6, ReplaceGood
<1> QED BY <1>1, <1>4, <1>6, <1>7

\* read_unscanned_document.
LEMMA ReadUnscannedDocumentGood ==
    ASSUME NEW D, Good(D), NEW dk, OnDisk(dk), NEW o, NEW f
    PROVE  /\ Good(ReadUnscannedDocument(D, dk, o, f))
           /\ DOMAIN D \subseteq DOMAIN ReadUnscannedDocument(D, dk, o, f)
           /\ \A g \in DOMAIN D : ReadUnscannedDocument(D, dk, o, f)[g].text = D[g].text
<1> DEFINE D1 == FindDocuments(D, dk, {DirOf(f)})
<1>1. /\ Good(D1) /\ DOMAIN D \subseteq DOMAIN D1
      /\ \A g \in DOMAIN D : D1[g].text = D[g].text
  BY FindDocumentsGood
<1> HIDE DEF D1
<1>2. /\ Good(ReopenAll(D1, dk, o, UnparsedIn(D1)))
      /\ DOMAIN ReopenAll(D1, dk, o, UnparsedIn(D1)) = DOMAIN D1
      /\ \A g \in DOMAIN D1 : ReopenAll(D1, dk, o, UnparsedIn(D1))[g].text = D1[g].text
  BY <1>1, ReopenAllGood
<1>3. \/ ReadUnscannedDocument(D, dk, o, f) = D
      \/ ReadUnscannedDocument(D, dk, o, f) = ReopenAll(D1, dk, o, UnparsedIn(D1))
  BY DEF ReadUnscannedDocument, D1
<1> QED BY <1>1, <1>2, <1>3

-----------------------------------------------------------------------------
(* What is parsed brings in, parsed, what it includes: R are the documents  *)
(* that were opened again before the configuration came.                    *)

Followed(D, R) ==
    \A f \in DOMAIN D : D[f].parsed =>
        \A g \in D[f].includes : D[g].parsed \/ g \in R

\* The files read_unscanned_imports parses are closed under its recursion: what
\* a root or one of them includes is parsed already, or is one of them.
LEMMA FreshClosed ==
    ASSUME NEW D, NEW dk, NEW o, NEW Roots
    PROVE  /\ Fresh(D, dk, o, Roots) \subseteq UnparsedIn(D)
           /\ \A f \in Roots : D[f].includes \cap UnparsedIn(D) \subseteq Fresh(D, dk, o, Roots)
           /\ \A f \in Fresh(D, dk, o, Roots) :
                 Parsed(DOMAIN D, dk, o, f, D[f].text).includes \cap UnparsedIn(D)
                    \subseteq Fresh(D, dk, o, Roots)
<1> DEFINE U == UnparsedIn(D)
           new(f) == Parsed(DOMAIN D, dk, o, f, D[f].text).includes
           Cl(S) == /\ \A f \in Roots : D[f].includes \cap U \subseteq S
                    /\ \A f \in S : new(f) \cap U \subseteq S
           F == Fresh(D, dk, o, Roots)
<1>1. F = {f \in U : \A S \in SUBSET U : Cl(S) => f \in S}
  BY DEF Fresh
<1> HIDE DEF F, U, new
<1>2. ASSUME NEW f \in Roots PROVE D[f].includes \cap U \subseteq F
  BY <1>1
<1>3. ASSUME NEW f \in F PROVE new(f) \cap U \subseteq F
  <2> SUFFICES ASSUME NEW g \in new(f) \cap U, NEW S \in SUBSET U, Cl(S) PROVE g \in S
    BY <1>1
  <2>1. f \in S
    BY <1>1
  <2> QED BY <2>1
<1> QED BY <1>1, <1>2, <1>3 DEF F, U, new

\* read_unscanned_imports leaves the documents followed when all but the roots
\* were followed before.
LEMMA ReadUnscannedImportsFollowed ==
    ASSUME NEW D, Good(D), NEW dk, NEW o, NEW Roots, NEW R,
           \A f \in DOMAIN D \ Roots : D[f].parsed =>
               \A g \in D[f].includes : D[g].parsed \/ g \in R
    PROVE  Followed(ReadUnscannedImports(D, dk, o, Roots), R)
<1> DEFINE E == ReadUnscannedImports(D, dk, o, Roots)
           fresh == Fresh(D, dk, o, Roots)
           new(f) == Parsed(DOMAIN D, dk, o, f, D[f].text)
<1>1. E = [f \in DOMAIN D |-> IF f \in fresh THEN new(f) ELSE D[f]]
  BY DEF ReadUnscannedImports
<1>2. /\ fresh \subseteq UnparsedIn(D)
      /\ \A f \in Roots : D[f].includes \cap UnparsedIn(D) \subseteq fresh
      /\ \A f \in fresh : new(f).includes \cap UnparsedIn(D) \subseteq fresh
  BY FreshClosed
<1>3. \A f \in DOMAIN D : new(f).parsed /\ new(f).includes \subseteq DOMAIN D
  <2>1. DOMAIN D \in SUBSET File /\ \A f \in DOMAIN D : D[f].text \in Text
    BY DEF Good, Typed, Document
  <2> QED BY <2>1, ParsedGood
<1>4. \A f \in DOMAIN D : D[f].includes \subseteq DOMAIN D
  BY DEF Good, Closed
<1> HIDE DEF E, fresh, new
<1>5. ASSUME NEW g \in DOMAIN D, g \in UnparsedIn(D) => g \in fresh PROVE E[g].parsed
  BY <1>1, <1>3, <1>5 DEF UnparsedIn
<1>6. ASSUME NEW f \in DOMAIN D, E[f].parsed, NEW g \in E[f].includes
      PROVE  E[g].parsed \/ g \in R
  <2>1. CASE f \in fresh
    <3>1. g \in new(f).includes
      BY <1>1, <1>6, <2>1
    <3> QED BY <1>2, <1>3, <1>5, <2>1, <3>1
  <2>2. CASE f \notin fresh /\ f \in Roots
    <3>1. g \in D[f].includes
      BY <1>1, <1>6, <2>2
    <3> QED BY <1>2, <1>4, <1>5, <2>2, <3>1
  <2>3. CASE f \notin fresh /\ f \notin Roots
    <3>1. g \in D[f].includes /\ D[f].parsed
      BY <1>1, <1>6, <2>3
    <3>2. g \in DOMAIN D /\ (D[g].parsed \/ g \in R)
      BY <1>4, <2>3, <3>1
    <3> QED BY <1>5, <3>2 DEF UnparsedIn
  <2> QED BY <2>1, <2>2, <2>3
<1>7. DOMAIN E = DOMAIN D
  BY <1>1
<1> QED BY <1>6, <1>7 DEF Followed, E

\* So does handle_open_document, of which the opened document is the root.
LEMMA HandleOpenDocumentFollowed ==
    ASSUME NEW D, Good(D), NEW R, Followed(D, R), NEW dk, NEW o,
           NEW f \in File, NEW t \in Text
    PROVE  Followed(HandleOpenDocument(D, dk, o, f, t), R)
<1> DEFINE doc == Parsed(DOMAIN D, dk, o, f, t)
           D1 == [g \in DOMAIN D \cup {f} |-> IF g = f THEN doc ELSE D[g]]
<1>1. HandleOpenDocument(D, dk, o, f, t) = ReadUnscannedImports(D1, dk, o, {f})
  BY DEF HandleOpenDocument
<1>2. doc \in Document /\ doc.includes \subseteq DOMAIN D /\ AccountsFor(doc) /\ doc.parsed
  <2>1. DOMAIN D \in SUBSET File
    BY DEF Good, Typed
  <2> QED BY <2>1, ParsedGood
<1> HIDE DEF doc
<1>3. /\ DOMAIN D \cup {f} \in SUBSET File
      /\ DOMAIN D1 = DOMAIN D \cup {f}
      /\ D1 \in [DOMAIN D \cup {f} -> Document]
      /\ \A g \in DOMAIN D \cup {f} : D1[g] = IF g = f THEN doc ELSE D[g]
  BY <1>2 DEF Good, Typed
<1> HIDE DEF D1
<1>4. \A g \in DOMAIN D \cup {f} :
         \/ D1[g].includes \subseteq DOMAIN D \cup {f} /\ AccountsFor(D1[g])
         \/ g \in DOMAIN D /\ D1[g] = D[g]
  BY <1>2, <1>3
<1>5. Good(D1)
  BY <1>3, <1>4, ReplaceGood
<1>6. ASSUME NEW g \in DOMAIN D1 \ {f}, D1[g].parsed, NEW h \in D1[g].includes
      PROVE  D1[h].parsed \/ h \in R
  <2>1. D1[g] = D[g] /\ g \in DOMAIN D
    BY <1>3
  <2>2. h \in DOMAIN D /\ (D[h].parsed \/ h \in R)
    BY <1>6, <2>1 DEF Good, Closed, Followed
  <2> QED BY <1>2, <1>3, <2>2
<1> QED BY <1>1, <1>5, <1>6, ReadUnscannedImportsFollowed

\* So does opening documents again, which are all roots.
LEMMA ReopenAllFollowed ==
    ASSUME NEW D, Good(D), NEW R, Followed(D, R), NEW dk, NEW o, NEW Fs
    PROVE  Followed(ReopenAll(D, dk, o, Fs), R)
<1> DEFINE new(g) == Parsed(DOMAIN D, dk, o, g, D[g].text)
           D1 == [g \in DOMAIN D |-> IF g \in Fs THEN new(g) ELSE D[g]]
<1>1. ReopenAll(D, dk, o, Fs) = ReadUnscannedImports(D1, dk, o, Fs)
  BY DEF ReopenAll
<1>2. ASSUME NEW g \in DOMAIN D
      PROVE  /\ new(g) \in Document /\ new(g).parsed
             /\ new(g).includes \subseteq DOMAIN D /\ AccountsFor(new(g))
             /\ D[g] \in Document
  <2>1. D[g].text \in Text /\ DOMAIN D \in SUBSET File /\ D[g] \in Document
    BY DEF Good, Typed, Document
  <2> QED BY <2>1, ParsedGood
<1> HIDE DEF new
<1>3. /\ DOMAIN D \in SUBSET File
      /\ DOMAIN D1 = DOMAIN D
      /\ D1 \in [DOMAIN D -> Document]
      /\ \A g \in DOMAIN D : D1[g] = IF g \in Fs THEN new(g) ELSE D[g]
  BY <1>2 DEF Good, Typed
<1> HIDE DEF D1
<1>4. \A g \in DOMAIN D : \/ D1[g].includes \subseteq DOMAIN D /\ AccountsFor(D1[g])
                          \/ g \in DOMAIN D /\ D1[g] = D[g]
  BY <1>2, <1>3
<1>5. Good(D1)
  BY <1>3, <1>4, ReplaceGood
<1>6. ASSUME NEW g \in DOMAIN D1 \ Fs, D1[g].parsed, NEW h \in D1[g].includes
      PROVE  D1[h].parsed \/ h \in R
  <2>1. D1[g] = D[g] /\ g \in DOMAIN D
    BY <1>3
  <2>2. h \in DOMAIN D /\ (D[h].parsed \/ h \in R)
    BY <1>6, <2>1 DEF Good, Closed, Followed
  <2> QED BY <1>2, <1>3, <2>2
<1> QED BY <1>1, <1>5, <1>6, ReadUnscannedImportsFollowed

\* So do load and reload.
LEMMA LoadFollowed ==
    ASSUME NEW D, Good(D), NEW R, Followed(D, R), NEW dk, OnDisk(dk), NEW o, NEW f \in File
    PROVE  Followed(Load(D, dk, o, f), R) /\ Followed(Reload(D, dk, o, f), R)
<1>1. CASE f \in DOMAIN dk
  <2> DEFINE H == HandleOpenDocument(D, dk, o, f, dk[f])
  <2>1. Good(H) /\ Followed(H, R)
    BY <1>1, HandleOpenDocumentGood, HandleOpenDocumentFollowed DEF OnDisk
  <2>2. Followed(ResolveMissingIncludes(H, dk, o), R)
    BY <2>1, ReopenAllFollowed DEF ResolveMissingIncludes
  <2>3. /\ Load(D, dk, o, f) \in {D, ResolveMissingIncludes(H, dk, o)}
        /\ Reload(D, dk, o, f) = ResolveMissingIncludes(H, dk, o)
    BY <1>1 DEF Load, Reload
  <2> QED BY <2>2, <2>3
<1>2. CASE f \notin DOMAIN dk
  BY <1>2 DEF Load, Reload
<1> QED BY <1>1, <1>2

\* So does remove: what is left of the includes was followed.
LEMMA RemoveFollowed ==
    ASSUME NEW D, Good(D), NEW R, Followed(D, R), NEW dk, NEW o, NEW f \in File
    PROVE  Followed(Remove(D, dk, o, f), R)
<1> DEFINE H == HandleOpenDocument(D, dk, o, f, EmptyText)
           E == Remove(D, dk, o, f)
<1>1. Good(H) /\ Followed(H, R)
  BY TextsAssumption, HandleOpenDocumentGood, HandleOpenDocumentFollowed
<1>2. /\ DOMAIN E = DOMAIN H \ {f}
      /\ \A g \in DOMAIN H \ {f} : E[g] = [H[g] EXCEPT
            !.includes = H[g].includes \ {f},
            !.missing_includes = IF f \in H[g].includes THEN H[g].missing_includes \cup {NameOf(f)}
                                                        ELSE H[g].missing_includes]
  BY DEF Remove
<1> HIDE DEF H, E
<1>3. ASSUME NEW g \in DOMAIN H \ {f}
      PROVE  E[g].includes = H[g].includes \ {f} /\ E[g].parsed = H[g].parsed
  <2>1. H[g] \in Document
    BY <1>1 DEF Good, Typed
  <2>2. DOMAIN H[g] = {"text", "parsed", "includes", "missing_includes"}
    BY <2>1 DEF Document
  <2> QED BY <1>2, <2>2
<1>4. \A g \in DOMAIN H : H[g].includes \subseteq DOMAIN H
  BY <1>1 DEF Good, Closed
<1>5. Followed(E, R)
  BY <1>1, <1>2, <1>3, <1>4 DEF Followed
<1> QED BY <1>5 DEF E

\* So does a scan: nothing includes yet what it finds.
LEMMA FindDocumentsFollowed ==
    ASSUME NEW D, Good(D), NEW R, Followed(D, R), NEW dk, NEW Ds
    PROVE  Followed(FindDocuments(D, dk, Ds), R)
<1> DEFINE E == FindDocuments(D, dk, Ds)
<1>1. /\ DOMAIN D \subseteq DOMAIN E
      /\ \A f \in DOMAIN E : E[f] = IF f \in DOMAIN D THEN D[f] ELSE Unparsed(dk[f])
  BY DEF FindDocuments
<1> HIDE DEF E
<1>2. ASSUME NEW f \in DOMAIN E, E[f].parsed, NEW g \in E[f].includes
      PROVE  E[g].parsed \/ g \in R
  <2>1. f \in DOMAIN D
    BY <1>1, <1>2 DEF Unparsed
  <2>2. E[f] = D[f]
    BY <1>1, <2>1
  <2>3. g \in DOMAIN D /\ (D[g].parsed \/ g \in R)
    BY <1>2, <2>1, <2>2 DEF Good, Closed, Followed
  <2> QED BY <1>1, <2>3
<1>3. Followed(E, R)
  BY <1>2 DEF Followed
<1> QED BY <1>3 DEF E

\* So does read_unscanned_document.
LEMMA ReadUnscannedDocumentFollowed ==
    ASSUME NEW D, Good(D), NEW R, Followed(D, R), NEW dk, OnDisk(dk), NEW o, NEW f
    PROVE  Followed(ReadUnscannedDocument(D, dk, o, f), R)
<1> DEFINE D1 == FindDocuments(D, dk, {DirOf(f)})
<1>1. Good(D1) /\ Followed(D1, R)
  BY FindDocumentsGood, FindDocumentsFollowed
<1> HIDE DEF D1
<1>2. Followed(ReopenAll(D1, dk, o, UnparsedIn(D1)), R)
  BY <1>1, ReopenAllFollowed
<1> QED BY <1>2 DEF ReadUnscannedDocument, D1

-----------------------------------------------------------------------------
(* The invariant.  IncludesClosed needs types only; IncludesAccounted is    *)
(* kept by remove because what a document includes is in the store.        *)

Inv == TypeOK /\ IncludesClosed /\ IncludesAccounted

\* What TypeOK says of everything but the documents.
RestOK ==
    /\ OnDisk(disk)
    /\ watcher \in BOOLEAN
    /\ watched \subseteq Dir
    /\ to_watch \in Seq(Dir)
    /\ events \in Seq(Event) /\ Len(events) <= MaxEvents
    /\ options \in Options
    /\ config_pulled \in BOOLEAN /\ first_parse \in BOOLEAN /\ indexing \in BOOLEAN
    /\ main \in {"idle", "watching", "reparse", "files", "panicked", "failed"}
    /\ todo \subseteq File
    /\ reverted \subseteq File
    /\ missed \subseteq File

\* The invariant is that of the documents and that of the rest.
LEMMA InvParts == Inv <=> RestOK /\ Good(documents)
  BY DEF Inv, RestOK, TypeOK, IncludesClosed, IncludesAccounted, Good, Typed,
         Closed, AccountsFor, OnDisk, Known

\* The same of the next state.
LEMMA InvPartsNext == Inv' <=> RestOK' /\ Good(documents')
  BY DEF Inv, RestOK, TypeOK, IncludesClosed, IncludesAccounted, Good, Typed,
         Closed, AccountsFor, OnDisk, Known

\* Documents that are found and not parsed include nothing: Init has the invariant.
LEMMA InitInv == Init => Inv
<1> SUFFICES ASSUME Init PROVE RestOK /\ Good(documents)
  BY InvParts
<1>1. OnDisk(disk)
  BY StoreAssumption DEF Init, OnDisk
<1>2. Good(<<>>)
  BY DEF Good, Typed, Closed
<1>3. Good(documents)
  BY <1>1, <1>2, FindDocumentsGood DEF Init
<1>4. options \in Options
  BY DEF Init, DefaultOptions, Options
<1>5. events \in Seq(Event) /\ Len(events) <= MaxEvents
  BY StoreAssumption DEF Init
<1>6. to_watch \in Seq(Dir)
  BY DEF Init
<1> QED BY <1>1, <1>3, <1>4, <1>5, <1>6 DEF Init, RestOK

\* The events queued by a change are events, and no more than may wait.
LEMMA EmitTyped ==
    ASSUME RestOK, NEW es \in Seq(Event), Emit(es)
    PROVE  events' \in Seq(Event) /\ Len(events') <= MaxEvents
  BY StoreAssumption DEF RestOK, Emit

\* A file that is written or deleted behind the back of the server keeps it.
LEMMA EditInv == Inv /\ Edit => Inv'
<1> SUFFICES ASSUME RestOK, Good(documents), Edit PROVE RestOK' /\ Good(documents')
  BY InvParts, InvPartsNext
<1>1. ASSUME NEW f \in File, NEW k \in FileKinds PROVE <<FileEvent(k, f)>> \in Seq(Event)
  BY DEF FileEvent, Event
<1>2. ASSUME NEW f \in File, NEW k \in FileKinds, EmitFor(f, k)
      PROVE  events' \in Seq(Event) /\ Len(events') <= MaxEvents
  <2>1. <<>> \in Seq(Event)
    OBVIOUS
  <2> QED BY <1>1, <1>2, <2>1, EmitTyped DEF EmitFor
<1>3. ASSUME NEW f \in File, NEW t \in TextsOf[f], FsWrite(f, t)
      PROVE  RestOK' /\ Good(documents')
  <2>1. t \in Text
    BY StoreAssumption
  <2>2. OnDisk(disk')
    BY <1>3, <2>1 DEF FsWrite, OnDisk, RestOK
  <2>3. events' \in Seq(Event) /\ Len(events') <= MaxEvents
    BY <1>2, <1>3 DEF FsWrite, FileKinds
  <2>4. missed' \subseteq File
    BY <1>3 DEF FsWrite, Miss, RestOK
  <2> QED BY <1>3, <2>2, <2>3, <2>4 DEF FsWrite, server, watching, RestOK
<1>4. ASSUME NEW f \in File, FsDelete(f)
      PROVE  RestOK' /\ Good(documents')
  <2>1. OnDisk(disk')
    BY <1>4 DEF FsDelete, OnDisk, RestOK
  <2>2. events' \in Seq(Event) /\ Len(events') <= MaxEvents
    BY <1>2, <1>4 DEF FsDelete, FileKinds
  <2>3. missed' \subseteq File
    BY <1>4 DEF FsDelete, Miss, RestOK
  <2> QED BY <1>4, <2>1, <2>2, <2>3 DEF FsDelete, server, watching, RestOK
<1> QED BY <1>3, <1>4 DEF Edit

\* So does a file or a directory that is renamed.
LEMMA MoveInv == Inv /\ Move => Inv'
<1> SUFFICES ASSUME RestOK, Good(documents), Move PROVE RestOK' /\ Good(documents')
  BY InvParts, InvPartsNext
<1>1. ASSUME NEW f \in File, NEW g \in File, NEW both \in BOOLEAN, FsRename(f, g, both)
      PROVE  RestOK' /\ Good(documents')
  <2>1. OnDisk(disk')
    BY <1>1 DEF FsRename, OnDisk, RestOK
  <2>2. <<FileEvent("name", f)>> \in Seq(Event) /\ <<FileEvent("name", g)>> \in Seq(Event)
        /\ <<>> \in Seq(Event)
    BY DEF FileEvent, Event, FileKinds
  <2>3. events' \in Seq(Event) /\ Len(events') <= MaxEvents
    <3> DEFINE a == IF Watched(DirOf(f)) THEN <<FileEvent("name", f)>> ELSE <<>>
               b == IF Watched(DirOf(g)) THEN <<FileEvent("name", g)>> ELSE <<>>
               c == IF both THEN <<FileEvent("name", f)>> ELSE <<>>
    <3>1. a \in Seq(Event) /\ b \in Seq(Event) /\ c \in Seq(Event)
      BY <2>2
    <3>2. Emit(a \o b \o c)
      BY <1>1 DEF FsRename
    <3> HIDE DEF a, b, c
    <3>3. a \o b \o c \in Seq(Event)
      BY <3>1
    <3> QED BY <3>2, <3>3, EmitTyped
  <2>4. missed' \subseteq File
    BY <1>1 DEF FsRename, Miss, RestOK
  <2> QED BY <1>1, <2>1, <2>3, <2>4 DEF FsRename, server, watching, RestOK
<1>2. ASSUME NEW d \in Dir, NEW e \in Dir, FsRenameDir(d, e)
      PROVE  RestOK' /\ Good(documents')
  <2> DEFINE moved == {f \in DOMAIN disk : DirOf(f) = d}
             image == {<<e, NameOf(f)>> : f \in moved}
  <2>1. /\ image \subseteq File
        /\ disk' = [f \in (DOMAIN disk \ moved) \cup image |->
                        IF f \in image THEN disk[<<d, NameOf(f)>>] ELSE disk[f]]
    BY <1>2 DEF FsRenameDir
  <2>2. ASSUME NEW f \in image PROVE <<d, NameOf(f)>> \in DOMAIN disk
    <3>1. PICK h \in moved : f = <<e, NameOf(h)>>
      OBVIOUS
    <3>2. h \in Dir \X Name /\ h \in DOMAIN disk /\ h[1] = d
      BY FilesAssumption DEF RestOK, OnDisk, DirOf
    <3>3. <<d, NameOf(f)>> = h
      BY <3>1, <3>2 DEF NameOf
    <3> QED BY <3>2, <3>3
  <2> HIDE DEF image, moved
  <2>3. OnDisk(disk')
    BY <2>1, <2>2 DEF OnDisk, RestOK
  <2>4. <<FileEvent("name_dir", d)>> \in Seq(Event) /\ <<FileEvent("name_dir", e)>> \in Seq(Event)
        /\ <<>> \in Seq(Event)
    BY DEF FileEvent, Event
  <2>5. events' \in Seq(Event) /\ Len(events') <= MaxEvents
    <3> DEFINE a == IF Watched(d) THEN <<FileEvent("name_dir", d)>> ELSE <<>>
               b == IF Watched(e) THEN <<FileEvent("name_dir", e)>> ELSE <<>>
    <3>1. a \in Seq(Event) /\ b \in Seq(Event)
      BY <2>4
    <3>2. Emit(a \o b)
      BY <1>2 DEF FsRenameDir
    <3> HIDE DEF a, b
    <3>3. a \o b \in Seq(Event)
      BY <3>1
    <3> QED BY <3>2, <3>3, EmitTyped
  <2>6. missed' \subseteq File
    BY <1>2 DEF FsRenameDir, Miss, RestOK, OnDisk
  <2> QED BY <1>2, <2>3, <2>5, <2>6 DEF FsRenameDir, server, watching, RestOK
<1> QED BY <1>1, <1>2 DEF Move

\* Every message of the client keeps it (notifications.rs, requests.rs).
LEMMA ClientInv == Inv /\ Client => Inv'
<1> SUFFICES ASSUME RestOK, Good(documents), Client PROVE RestOK' /\ Good(documents')
  BY InvParts, InvPartsNext
<1>1. OnDisk(disk)
  BY DEF RestOK
<1>2. ASSUME NEW f \in File, NEW t \in TextsOf[f], DidOpen(f, t)
      PROVE  RestOK' /\ Good(documents')
  <2>1. t \in Text
    BY StoreAssumption
  <2>2. CASE ~config_pulled
    <3> DEFINE E == [g \in Known \cup {f} |-> IF g = f THEN Unparsed(t) ELSE documents[g]]
    <3>1. /\ E \in [Known \cup {f} -> Document]
          /\ Known \cup {f} \in SUBSET File
      BY <2>1, UnparsedGood DEF Known, Good, Typed
    <3>2. \A g \in Known \cup {f} :
             \/ E[g].includes \subseteq Known \cup {f} /\ AccountsFor(E[g])
             \/ g \in Known /\ E[g] = documents[g]
      BY <2>1, UnparsedGood
    <3>3. documents' = E /\ reverted' \subseteq File
      BY <1>2, <2>2 DEF DidOpen, watching, RestOK
    <3> HIDE DEF E
    <3>4. Good(E)
      BY <3>1, <3>2, ReplaceGood DEF Known
    <3> QED BY <1>2, <3>3, <3>4 DEF DidOpen, watching, RestOK
  <2>3. CASE config_pulled
    <3>1. /\ documents' \in {documents, HandleOpenDocument(documents, disk, options, f, t)}
          /\ reverted' = reverted
      BY <1>2, <2>3 DEF DidOpen
    <3>2. Good(HandleOpenDocument(documents, disk, options, f, t))
      BY <2>1, HandleOpenDocumentGood
    <3>3. Good(documents')
      BY <3>1, <3>2
    <3>4. RestOK'
      BY <1>2, <3>1 DEF DidOpen, watching, RestOK
    <3> QED BY <3>3, <3>4
  <2> QED BY <2>2, <2>3
<1>3. ASSUME NEW f \in File, NEW t \in TextsOf[f], DidChange(f, t)
      PROVE  RestOK' /\ Good(documents')
  <2>1. t \in Text
    BY StoreAssumption
  <2>2. Good(documents')
    BY <1>1, <1>3, <2>1, HandleOpenDocumentGood, LoadGood DEF DidChange
  <2> QED BY <1>3, <2>2 DEF DidChange, watching, RestOK
<1>4. ASSUME NEW f \in File, FeatureRequest(f)
      PROVE  RestOK' /\ Good(documents')
  <2>1. Good(documents')
    BY <1>1, <1>4, ReadUnscannedDocumentGood DEF FeatureRequest
  <2> QED BY <1>4, <2>1 DEF FeatureRequest, watching, RestOK
<1>5. ASSUME NEW f \in File, NEW typ \in {"CHANGED", "DELETED", "CREATED"},
             DidChangeWatchedFiles(f, typ)
      PROVE  RestOK' /\ Good(documents')
  <2>1. documents' \in {Reload(documents, disk, options, f),
                        Remove(documents, disk, options, f),
                        Load(documents, disk, options, f)}
    BY <1>5 DEF DidChangeWatchedFiles
  <2>2. Good(documents')
    BY <1>1, <2>1, LoadGood, RemoveGood
  <2> QED BY <1>5, <2>2 DEF DidChangeWatchedFiles, watching, RestOK
<1> QED BY <1>2, <1>3, <1>4, <1>5 DEF Client

\* parse_directories keeps the documents good.
LEMMA ScannedGood ==
    ASSUME RestOK, Good(documents)
    PROVE  /\ Good(Scanned)
           /\ Known \subseteq DOMAIN Scanned
           /\ \A f \in Known : Scanned[f].text = documents[f].text
  BY FindDocumentsGood DEF Scanned, RestOK, Known

\* New options, and each way reparse_all can end, keep it (files.rs:41-131).
LEMMA ConfigureInv == Inv /\ Configure => Inv'
<1> SUFFICES ASSUME RestOK, Good(documents), Configure PROVE RestOK' /\ Good(documents')
  BY InvParts, InvPartsNext
<1>1. ASSUME NEW o \in Configurations, SetOptions(o) \/ DidChangeConfiguration(o)
      PROVE  RestOK' /\ Good(documents')
  <2>1. o \in Options
    BY StoreAssumption
  <2>2. CASE SetOptions(o)
    <3>1. o.includes_directories \in Seq(Dir)
      BY <2>1 DEF Options
    <3> QED BY <2>1, <2>2, <3>1 DEF SetOptions, RestOK
  <2>3. CASE DidChangeConfiguration(o)
    BY <2>1, <2>3 DEF DidChangeConfiguration, watching, RestOK
  <2> QED BY <1>1, <2>2, <2>3
<1>2. CASE ReparseMain
  <2> DEFINE M == IF options.main_path = NoMain
                  THEN MainCandidates(Scanned, options)
                  ELSE MainUri(disk, options) \cap DOMAIN Scanned
  <2>1. PICK m \in M :
           LET o == [options EXCEPT !.main_path = m]
           IN  options' = o /\ ReparseEnds(ReopenAll(Scanned, disk, o, {m}))
    BY <1>2 DEF ReparseMain
  <2>2. m \in File
    BY ScannedGood DEF MainCandidates, Good, Typed
  <2>3. options' \in Options
    BY <2>1, <2>2 DEF RestOK, Options
  <2>4. Good(documents')
    BY <2>1, ScannedGood, ReopenAllGood DEF ReparseEnds
  <2> QED BY <2>1, <2>3, <2>4 DEF ReparseEnds, watching, RestOK
<1>3. CASE ReparseWithoutMain
  <2>1. Good(documents')
    BY <1>3, ScannedGood, ReopenAllGood DEF ReparseWithoutMain, ReparseEnds
  <2> QED BY <1>3, <2>1 DEF ReparseWithoutMain, ReparseEnds, watching, RestOK
<1>4. CASE ReparseFails
  <2>1. Good(documents')
    BY <1>4, ScannedGood DEF ReparseFails
  <2> QED BY <1>4, <2>1 DEF ReparseFails, watching, RestOK
<1>5. CASE WatchDirectory
  <2>1. Head(to_watch) \in Dir /\ Tail(to_watch) \in Seq(Dir)
    BY <1>5 DEF WatchDirectory, RestOK
  <2>2. watched' \subseteq Dir
    BY <1>5, <2>1 DEF WatchDirectory, RestOK
  <2> QED BY <1>5, <2>1, <2>2 DEF WatchDirectory, registering, RestOK
<1>6. CASE WatchFails
  BY <1>6 DEF WatchFails, registering, RestOK
<1>7. CASE RegisterWatcher
  <2>1. to_watch' \in Seq(Dir)
    BY <1>7 DEF RegisterWatcher
  <2>2. watcher' \in BOOLEAN /\ main' = "reparse"
    BY <1>7 DEF RegisterWatcher, RestOK
  <2> QED BY <1>7, <2>1, <2>2 DEF RegisterWatcher, registering, RestOK
<1> QED BY <1>1, <1>2, <1>3, <1>4, <1>5, <1>6, <1>7 DEF Configure

\* Taking an event leaves the queue typed, and gives an event.
LEMMA TakeEventTyped ==
    ASSUME RestOK, NEW kinds, TakeEvent(kinds)
    PROVE  /\ events' \in Seq(Event) /\ Len(events') <= MaxEvents
           /\ Head(events) \in Event /\ Head(events).kind \in kinds
  BY StoreAssumption DEF RestOK, TakeEvent

\* Every file event keeps it (events.rs:8-99), file by file for a directory.
LEMMA HandleInv == Inv /\ Handle => Inv'
<1> SUFFICES ASSUME RestOK, Good(documents), Handle PROVE RestOK' /\ Good(documents')
  BY InvParts, InvPartsNext
<1>1. OnDisk(disk)
  BY DEF RestOK
<1>2. ASSUME NEW f \in File PROVE Good(Flip(documents, f))
  BY <1>1, LoadGood, RemoveGood DEF Flip
<1>3. CASE HandleFileEvent
  <2> DEFINE e == Head(events)
  <2>1. TakeEvent(FileKinds)
    BY <1>3 DEF HandleFileEvent
  <2>2. /\ events' \in Seq(Event) /\ Len(events') <= MaxEvents
        /\ e \in Event /\ e.kind \in FileKinds
    BY <2>1, TakeEventTyped
  <2>3. e.path \in File
    BY <2>2 DEF Event, FileKinds
  <2>4. documents' \in {Load(documents, disk, options, e.path),
                        Remove(documents, disk, options, e.path),
                        Reload(documents, disk, options, e.path),
                        Flip(documents, e.path), documents}
    BY <1>3, <2>2 DEF HandleFileEvent, FileKinds
  <2>5. Good(documents')
    BY <1>1, <1>2, <2>3, <2>4, LoadGood, RemoveGood
  <2> QED BY <1>3, <2>1, <2>2, <2>5 DEF HandleFileEvent, TakeEvent, RestOK
<1>4. CASE HandleDirEvent
  <2>1. TakeEvent({"name_dir"})
    BY <1>4 DEF HandleDirEvent
  <2>2. events' \in Seq(Event) /\ Len(events') <= MaxEvents
    BY <2>1, TakeEventTyped
  <2>3. /\ documents' = documents
        /\ watched' \subseteq Dir
        /\ todo' \subseteq File
    BY <1>4 DEF HandleDirEvent, RestOK, OnDisk, Good, Typed, Known
  <2>4. main' \in {"idle", "files"}
    BY <1>4, <2>1 DEF HandleDirEvent, TakeEvent
  <2> QED BY <2>1, <2>2, <2>3, <2>4 DEF TakeEvent, RestOK
<1>5. CASE HandleDirFile
  <2>1. PICK f \in todo : documents' = Flip(documents, f) /\ todo' = todo \ {f}
    BY <1>5 DEF HandleDirFile
  <2>2. Good(documents')
    BY <1>2, <2>1 DEF RestOK
  <2>3. main' \in {"idle", "files"}
    BY <1>5 DEF HandleDirFile
  <2> QED BY <1>5, <2>1, <2>2, <2>3 DEF HandleDirFile, watching, RestOK
<1> QED BY <1>3, <1>4, <1>5 DEF Handle

\* So does a step that changes nothing.
LEMMA StutterInv == Inv /\ UNCHANGED vars => Inv'
  BY DEF vars, watching, Inv, TypeOK, IncludesClosed, IncludesAccounted, Known

\* The invariant holds of every reachable state.
THEOREM Invariance == Spec => []Inv
<1>1. Inv /\ [Next]_vars => Inv'
  BY EditInv, MoveInv, ClientInv, ConfigureInv, HandleInv, StutterInv DEF Next
<1> QED BY InitInv, <1>1, PTL DEF Spec

-----------------------------------------------------------------------------
(* The theorems.                                                           *)

\* The store is well-typed in every reachable state.
THEOREM TypeCorrect == Spec => []TypeOK
  BY Invariance, PTL DEF Inv

\* read_unscanned_imports never fails with "Include does not exist.".
THEOREM IncludesAlwaysClosed == Spec => []IncludesClosed
  BY Invariance, PTL DEF Inv

\* An include directive of a parsed document is always bound or missing.
THEOREM IncludesAlwaysAccounted == Spec => []IncludesAccounted
  BY Invariance, PTL DEF Inv

\* A scan of directories drops no document and no text of the editor.
THEOREM RescanAlwaysKeepsTexts == Spec => RescanKeepsTexts
<1> DEFINE Keeps == \A g \in Known : g \in DOMAIN documents'
                                    /\ documents'[g].text = documents[g].text
           Scan == main = "reparse" \/ \E f \in File : FeatureRequest(f)
<1>1. ASSUME RestOK, Good(documents), Next, Scan PROVE Keeps
  <2>1. CASE \E f \in File : FeatureRequest(f)
    BY <1>1, <2>1, ReadUnscannedDocumentGood DEF FeatureRequest, RestOK, Known
  <2>2. CASE main = "reparse" /\ (ReparseMain \/ ReparseWithoutMain)
    <3>1. PICK o, Fs : documents' = ReopenAll(Scanned, disk, o, Fs)
      BY <2>2 DEF ReparseMain, ReparseWithoutMain, ReparseEnds
    <3> QED BY <1>1, <3>1, ScannedGood, ReopenAllGood
  <2>3. CASE main = "reparse" /\ ReparseFails
    BY <1>1, <2>3, ScannedGood DEF ReparseFails
  <2>4. CASE main = "reparse" /\ (Edit \/ Move)
    BY <2>4 DEF Edit, Move, FsWrite, FsDelete, FsRename, FsRenameDir, server, Known
  <2>5. main = "reparse" => ReparseMain \/ ReparseWithoutMain \/ ReparseFails \/ Edit \/ Move
    BY <1>1 DEF Next, Client, Configure, Handle, DidOpen, DidChange, FeatureRequest,
             DidChangeWatchedFiles, SetOptions, DidChangeConfiguration, WatchDirectory,
             WatchFails, RegisterWatcher, TakeEvent,
             HandleFileEvent, HandleDirEvent, HandleDirFile
  <2> QED BY <1>1, <2>1, <2>2, <2>3, <2>4, <2>5
<1>2. Inv /\ [Next]_vars => [Scan => Keeps]_vars
  BY <1>1, InvParts
<1> QED BY <1>2, Invariance, PTL DEF Spec, RescanKeepsTexts

-----------------------------------------------------------------------------
(* What a parsed document includes is parsed, and what is loaded is linked  *)
(* to the documents that missed it.                                         *)

\* ParsedClosed is what Followed says of the store.
LEMMA FollowedParts == /\ ParsedClosed <=> Followed(documents, reverted)
                       /\ ParsedClosed' <=> Followed(documents', reverted')
  BY DEF ParsedClosed, Followed, Known

\* did_open keeps it: a document it takes back to unparsed is remembered, and
\* one that was not known is included by none (notifications.rs:60-69).
LEMMA DidOpenFollowed ==
    ASSUME RestOK, Good(documents), Followed(documents, reverted),
           NEW f \in File, NEW t \in Text, DidOpen(f, t)
    PROVE  Followed(documents', reverted')
<1>1. CASE ~config_pulled
  <2>1. /\ documents' = [g \in Known \cup {f} |-> IF g = f THEN Unparsed(t) ELSE documents[g]]
        /\ reverted' = reverted \cup {g \in Known : g = f /\ documents[g].parsed}
    BY <1>1 DEF DidOpen
  <2>2. \A g \in DOMAIN documents' :
           documents'[g] = IF g = f THEN Unparsed(t) ELSE documents[g]
    BY <2>1
  <2> SUFFICES ASSUME NEW g \in DOMAIN documents', documents'[g].parsed,
                      NEW h \in documents'[g].includes
               PROVE  documents'[h].parsed \/ h \in reverted'
    BY DEF Followed
  <2>3. g # f
    BY <2>2 DEF Unparsed
  <2>4. g \in DOMAIN documents /\ documents'[g] = documents[g]
    BY <2>1, <2>2, <2>3 DEF Known
  <2>5. h \in DOMAIN documents /\ (documents[h].parsed \/ h \in reverted)
    BY <2>4 DEF Good, Closed, Followed
  <2> QED BY <2>1, <2>2, <2>5 DEF Known
<1>2. CASE config_pulled
  <2>1. /\ documents' \in {documents, HandleOpenDocument(documents, disk, options, f, t)}
        /\ reverted' = reverted
    BY <1>2 DEF DidOpen
  <2>2. Followed(HandleOpenDocument(documents, disk, options, f, t), reverted)
    BY HandleOpenDocumentFollowed
  <2> QED BY <2>1, <2>2
<1> QED BY <1>1, <1>2

\* Every other action applies one operation of the store, or none.
LEMMA StepFollowed ==
    ASSUME RestOK, Good(documents), Followed(documents, reverted), [Next]_vars
    PROVE  Followed(documents', reverted')
<1>1. OnDisk(disk)
  BY DEF RestOK
<1>2. ASSUME NEW f \in File
      PROVE  /\ Followed(Load(documents, disk, options, f), reverted)
             /\ Followed(Reload(documents, disk, options, f), reverted)
             /\ Followed(Remove(documents, disk, options, f), reverted)
             /\ Followed(Flip(documents, f), reverted)
             /\ Followed(ReadUnscannedDocument(documents, disk, options, f), reverted)
  BY <1>1, LoadFollowed, RemoveFollowed, ReadUnscannedDocumentFollowed DEF Flip
<1>3. CASE Client
  <2>1. ASSUME NEW f \in File, NEW t \in TextsOf[f], DidOpen(f, t) \/ DidChange(f, t)
        PROVE  Followed(documents', reverted')
    <3>1. t \in Text
      BY StoreAssumption
    <3>2. CASE DidOpen(f, t)
      BY <3>1, <3>2, DidOpenFollowed
    <3>3. CASE DidChange(f, t)
      <4>1. documents' \in {HandleOpenDocument(documents, disk, options, f, t),
                            Load(documents, disk, options, f)}
            /\ reverted' = reverted
        BY <3>3 DEF DidChange
      <4> QED BY <1>2, <3>1, <4>1, HandleOpenDocumentFollowed
    <3> QED BY <2>1, <3>2, <3>3
  <2>2. ASSUME NEW f \in File, FeatureRequest(f) PROVE Followed(documents', reverted')
    BY <1>2, <2>2 DEF FeatureRequest
  <2>3. ASSUME NEW f \in File, NEW typ \in {"CHANGED", "DELETED", "CREATED"},
               DidChangeWatchedFiles(f, typ)
        PROVE  Followed(documents', reverted')
    <3>1. documents' \in {Reload(documents, disk, options, f),
                          Remove(documents, disk, options, f),
                          Load(documents, disk, options, f)} /\ reverted' = reverted
      BY <2>3 DEF DidChangeWatchedFiles
    <3> QED BY <1>2, <3>1
  <2> QED BY <1>3, <2>1, <2>2, <2>3 DEF Client
<1>4. CASE Configure
  <2>1. Good(Scanned) /\ Followed(Scanned, reverted)
    BY <1>1, ScannedGood, FindDocumentsFollowed DEF Scanned
  <2>2. CASE \E o \in Configurations : SetOptions(o) \/ DidChangeConfiguration(o)
    BY <2>2 DEF SetOptions, DidChangeConfiguration
  <2>3. CASE ReparseMain \/ ReparseWithoutMain
    <3>1. PICK o, Fs : documents' = ReopenAll(Scanned, disk, o, Fs) /\ reverted' = reverted
      BY <2>3 DEF ReparseMain, ReparseWithoutMain, ReparseEnds
    <3> QED BY <2>1, <3>1, ReopenAllFollowed
  <2>4. CASE ReparseFails
    BY <2>1, <2>4 DEF ReparseFails
  <2>5. CASE WatchDirectory \/ WatchFails \/ RegisterWatcher
    BY <2>5 DEF WatchDirectory, WatchFails, RegisterWatcher, registering
  <2> QED BY <1>4, <2>2, <2>3, <2>4, <2>5 DEF Configure
<1>5. CASE Edit \/ Move
  BY <1>5 DEF Edit, Move, FsWrite, FsDelete, FsRename, FsRenameDir, server
<1>6. CASE HandleFileEvent
  <2> DEFINE e == Head(events)
  <2>1. TakeEvent(FileKinds)
    BY <1>6 DEF HandleFileEvent
  <2>2. e \in Event /\ e.kind \in FileKinds
    BY <2>1, TakeEventTyped
  <2>3. e.path \in File
    BY <2>2 DEF Event, FileKinds
  <2>4. documents' \in {Load(documents, disk, options, e.path),
                        Remove(documents, disk, options, e.path),
                        Reload(documents, disk, options, e.path),
                        Flip(documents, e.path), documents}
    BY <1>6, <2>2 DEF HandleFileEvent, FileKinds
  <2>5. reverted' = reverted
    BY <2>1 DEF TakeEvent
  <2> QED BY <1>2, <2>3, <2>4, <2>5
<1>7. CASE HandleDirEvent
  BY <1>7 DEF HandleDirEvent, TakeEvent
<1>8. CASE HandleDirFile
  <2>1. PICK f \in todo : documents' = Flip(documents, f)
    BY <1>8 DEF HandleDirFile
  <2> QED BY <1>2, <1>8, <2>1 DEF RestOK, HandleDirFile
<1>9. CASE UNCHANGED vars
  BY <1>9 DEF vars
<1> QED BY <1>3, <1>4, <1>5, <1>6, <1>7, <1>8, <1>9 DEF Next, Handle

\* The symbols of what a parsed document includes are always known.
THEOREM ParsedAlwaysClosed == Spec => []ParsedClosed
<1>1. Init => ParsedClosed
  <2> SUFFICES ASSUME Init PROVE Followed(documents, reverted)
    BY FollowedParts
  <2>1. \A f \in DOMAIN documents : ~documents[f].parsed
    BY DEF Init, FindDocuments, Unparsed
  <2> QED BY <2>1 DEF Followed
<1>2. Inv /\ ParsedClosed /\ [Next]_vars => ParsedClosed'
  BY InvParts, FollowedParts, StepFollowed
<1> QED BY <1>1, <1>2, Invariance, PTL DEF Spec

\* resolve_missing_includes: after a load, a document keeps as missing only what
\* cannot be resolved among the documents known then.
LEMMA ResolveMissingRelinks ==
    ASSUME NEW D, Good(D), NEW dk, NEW o,
           NEW E, E = ResolveMissingIncludes(D, dk, o),
           NEW g \in DOMAIN E, E[g].parsed,
           NEW d \in Directives[E[g].text], d.name \in E[g].missing_includes
    PROVE  \/ ~Resolvable(DOMAIN E, dk, o, g, d)
           \/ ~\E h \in DOMAIN E : d.name \in Mentions[h]
           \/ \E e \in Directives[E[g].text] : e.name = d.name /\ e.quoted # d.quoted
<1> DEFINE Fs == {f \in DOMAIN D : \E h \in DOMAIN D :
                                      D[f].missing_includes \cap Mentions[h] # {}}
           new(f) == Parsed(DOMAIN D, dk, o, f, D[f].text)
           D1 == [f \in DOMAIN D |-> IF f \in Fs THEN new(f) ELSE D[f]]
           fresh == Fresh(D1, dk, o, Fs)
<1>1. /\ DOMAIN D1 = DOMAIN D
      /\ \A f \in DOMAIN D : D1[f].text = D[f].text
  BY DEF Parsed
<1>2. E = [f \in DOMAIN D |-> IF f \in fresh THEN new(f) ELSE D1[f]]
  <2>1. E = ReadUnscannedImports(D1, dk, o, Fs)
    BY DEF ResolveMissingIncludes, ReopenAll
  <2> HIDE DEF D1, fresh
  <2>2. E = [f \in DOMAIN D1 |-> IF f \in Fresh(D1, dk, o, Fs)
                                 THEN Parsed(DOMAIN D1, dk, o, f, D1[f].text) ELSE D1[f]]
    BY <2>1 DEF ReadUnscannedImports
  <2> QED BY <1>1, <2>2 DEF fresh
<1>3. DOMAIN E = DOMAIN D /\ g \in DOMAIN D
  BY <1>2
<1>4. E[g] = new(g) \/ (E[g] = D[g] /\ g \notin Fs)
  BY <1>2, <1>3
<1> HIDE DEF D1, fresh
<1>5. CASE E[g] = new(g)
  <2>1. /\ E[g].text = D[g].text
        /\ d.name \in Unresolved(DOMAIN D, dk, o, g, D[g].text)
    BY <1>5 DEF Parsed
  <2>2. PICK e \in Directives[D[g].text] :
           e.name = d.name /\ Resolve(DOMAIN D, dk, o, g, e.name, e.quoted) = {}
    BY <2>1 DEF Unresolved
  <2>3. CASE e.quoted = d.quoted
    BY <1>3, <2>2, <2>3 DEF Resolvable
  <2>4. CASE e.quoted # d.quoted
    BY <2>1, <2>2, <2>4
  <2> QED BY <2>3, <2>4
<1>6. CASE E[g] = D[g] /\ g \notin Fs
  <2> SUFFICES ASSUME NEW h \in DOMAIN E, d.name \in Mentions[h] PROVE FALSE
    OBVIOUS
  <2>1. d.name \in D[g].missing_includes
    BY <1>6
  <2> QED BY <1>3, <1>6, <2>1
<1> QED BY <1>4, <1>5, <1>6

\* Every load of a created or changed file ends with resolve_missing_includes.
THEOREM AlwaysRelinkedWhenLoaded == Spec => RelinkedWhenLoaded
<1> DEFINE Linked(f, typ) ==
               /\ DidChangeWatchedFiles(f, typ)
               /\ documents' # documents
               => \A g \in DOMAIN documents' : documents'[g].parsed =>
                     \A d \in Directives[documents'[g].text] :
                         d.name \in documents'[g].missing_includes
                             => \/ ~Resolvable(DOMAIN documents', disk, options, g, d)
                                \/ ~\E h \in DOMAIN documents' : d.name \in Mentions[h]
                                \/ \E e \in Directives[documents'[g].text] :
                                      e.name = d.name /\ e.quoted # d.quoted
<1>1. ASSUME RestOK, Good(documents), NEW f \in File, NEW typ \in {"CREATED", "CHANGED"}
      PROVE  Linked(f, typ)
  <2> SUFFICES ASSUME DidChangeWatchedFiles(f, typ), documents' # documents,
                      NEW g \in DOMAIN documents', documents'[g].parsed,
                      NEW d \in Directives[documents'[g].text],
                      d.name \in documents'[g].missing_includes
               PROVE  \/ ~Resolvable(DOMAIN documents', disk, options, g, d)
                      \/ ~\E h \in DOMAIN documents' : d.name \in Mentions[h]
                      \/ \E e \in Directives[documents'[g].text] :
                            e.name = d.name /\ e.quoted # d.quoted
    OBVIOUS
  <2>1. documents' \in {Load(documents, disk, options, f), Reload(documents, disk, options, f)}
    BY DEF DidChangeWatchedFiles
  <2>2. f \in DOMAIN disk
    BY <2>1 DEF Load, Reload
  <2> DEFINE H == HandleOpenDocument(documents, disk, options, f, disk[f])
  <2>3. Good(H)
    <3>1. disk[f] \in Text
      BY <1>1, <2>2 DEF RestOK, OnDisk
    <3> QED BY <1>1, <3>1, HandleOpenDocumentGood
  <2>4. documents' = ResolveMissingIncludes(H, disk, options)
    BY <2>1, <2>2 DEF Load, Reload
  <2> HIDE DEF H
  <2> QED BY <2>3, <2>4, ResolveMissingRelinks
<1>2. ASSUME Inv PROVE \A f \in File, typ \in {"CREATED", "CHANGED"} : Linked(f, typ)
  BY <1>1, <1>2, InvParts
<1>3. Inv => [\A f \in File, typ \in {"CREATED", "CHANGED"} : Linked(f, typ)]_vars
  BY <1>2
<1> QED BY <1>3, Invariance, PTL DEF RelinkedWhenLoaded

-----------------------------------------------------------------------------
(* The store follows the disk: every difference between the two is waiting  *)
(* in the channel as an event that will undo it.                            *)

ConfiguredDirs ==
    UNION {{o.includes_directories[i] : i \in DOMAIN o.includes_directories} :
               o \in Configurations}

\* When that can be expected: the options come with SetOptions, which registers
\* the watcher, and the include directories exist and are the same in every
\* configuration.
WatchedDirectories ==
    /\ PullConfiguration
    /\ ConfiguredDirs \subseteq OtherFiles
    /\ \A o, p \in Configurations : o.includes_directories = p.includes_directories

Configured(f) == \E d \in ConfiguredDirs : DirOf(f) \in Below[d]

\* In queue q, f is to be removed; an event of f comes after its last removal.
Removal(q, f) == \E i \in DOMAIN q : q[i] = FileEvent("remove", f)
After(q, kind, f) ==
    \E i \in DOMAIN q : /\ q[i] = FileEvent(kind, f)
                        /\ \A j \in DOMAIN q : q[j] = FileEvent("remove", f) => j < i

\* What the store D, the disk dk and the queue q say of f: a file that is gone is
\* unknown or to be removed; one that is there, and unknown or to be removed, is
\* to be created after that; one with another text is to be read again.
Follows(D, dk, q, f) ==
    /\ f \notin DOMAIN dk /\ f \in DOMAIN D => Removal(q, f)
    /\ f \in DOMAIN dk /\ Removal(q, f) => After(q, "create", f)
    /\ f \in DOMAIN dk /\ ~Removal(q, f) /\ f \in DOMAIN D /\ D[f].text # dk[f]
          => After(q, "data", f)

\* The scan of reparse_all is what makes the unknown files known.
Found(D, dk, q, f) == f \in DOMAIN dk /\ f \notin DOMAIN D => After(q, "create", f)

\* The directories that are watched, or about to be, by the watcher that is made.
Registering ==
    /\ watcher => main # "watching" /\ ConfiguredDirs \subseteq watched
    /\ main = "watching" =>
          \A d \in ConfiguredDirs : d \in watched \/ \E i \in DOMAIN to_watch : to_watch[i] = d

\* What waits for a file that was not missed; and for one that is going to be
\* found by the scan.
DiskInv ==
    /\ \A i \in DOMAIN events : events[i].kind \in {"create", "data", "remove"}
    /\ main # "files"
    /\ Registering
    /\ ~config_pulled => events = <<>> /\ watched = {} /\ main = "idle" /\ ~watcher
    /\ config_pulled => \A f \in File : InIncludeDirs(f) => Configured(f)
    /\ \A f \in File \ missed : Configured(f) =>
          /\ Follows(documents, disk, events, f)
          /\ config_pulled /\ main = "idle" => Found(documents, disk, events, f)

-----------------------------------------------------------------------------
(* What the operations do to the files that are known and to their texts.   *)

\* E is D, with f known and given the text t.
Opened(D, E, f, t) ==
    /\ Good(E) /\ DOMAIN E = DOMAIN D \cup {f}
    /\ E[f].text = t
    /\ \A g \in DOMAIN D \ {f} : E[g].text = D[g].text

\* handle_open_document gives f its text and changes no other.
LEMMA HandleOpenDocumentTexts ==
    ASSUME NEW D, Good(D), NEW dk, NEW o, NEW f \in File, NEW t \in Text
    PROVE  Opened(D, HandleOpenDocument(D, dk, o, f, t), f, t)
<1> DEFINE doc == Parsed(DOMAIN D, dk, o, f, t)
           D1 == [g \in DOMAIN D \cup {f} |-> IF g = f THEN doc ELSE D[g]]
           E == HandleOpenDocument(D, dk, o, f, t)
           fresh == Fresh(D1, dk, o, {f})
<1>1. E = [g \in DOMAIN D1 |-> IF g \in fresh THEN Parsed(DOMAIN D1, dk, o, g, D1[g].text)
                                              ELSE D1[g]]
  BY DEF HandleOpenDocument, ReadUnscannedImports
<1>2. /\ DOMAIN D1 = DOMAIN D \cup {f}
      /\ D1[f] = doc /\ \A g \in DOMAIN D \ {f} : D1[g] = D[g]
  OBVIOUS
<1>3. doc.text = t
  BY DEF Parsed
<1> HIDE DEF doc, D1, E, fresh
<1>4. \A g \in DOMAIN D1 : E[g].text = D1[g].text
  BY <1>1 DEF Parsed
<1>5. Good(E)
  BY HandleOpenDocumentGood DEF E
<1>6. DOMAIN E = DOMAIN D \cup {f}
  BY <1>1, <1>2
<1>7. Opened(D, E, f, t)
  BY <1>2, <1>3, <1>4, <1>5, <1>6 DEF Opened
<1> QED BY <1>7 DEF E

\* E is D, with f read from the disk if it can be, or kept as it was.
ReadAgain(D, E, dk, f) ==
    /\ \A g \in DOMAIN D \ {f} : g \in DOMAIN E /\ E[g].text = D[g].text
    /\ DOMAIN E \subseteq DOMAIN D \cup {f}
    /\ f \notin DOMAIN dk => E = D
    /\ f \in DOMAIN dk => f \in DOMAIN E /\ E[f].text = dk[f]

\* load and reload change what is known of f only, and read it as it is on disk.
LEMMA ReloadTexts ==
    ASSUME NEW D, Good(D), NEW dk, OnDisk(dk), NEW o, NEW f \in File
    PROVE  ReadAgain(D, Reload(D, dk, o, f), dk, f)
<1> DEFINE E == Reload(D, dk, o, f)
           H == HandleOpenDocument(D, dk, o, f, dk[f])
<1>1. CASE f \notin DOMAIN dk
  <2>1. E = D
    BY <1>1 DEF Reload
  <2> HIDE DEF E
  <2>2. ReadAgain(D, E, dk, f)
    BY <1>1, <2>1 DEF ReadAgain
  <2> QED BY <2>2 DEF E
<1>2. CASE f \in DOMAIN dk
  <2>1. dk[f] \in Text
    BY <1>2 DEF OnDisk
  <2>2. Opened(D, H, f, dk[f])
    BY <2>1, HandleOpenDocumentTexts
  <2>3. E = ResolveMissingIncludes(H, dk, o)
    BY <1>2 DEF Reload
  <2> HIDE DEF H, E
  <2>4. DOMAIN E = DOMAIN H /\ \A g \in DOMAIN H : E[g].text = H[g].text
    BY <2>2, <2>3, ReopenAllGood DEF ResolveMissingIncludes, Opened
  <2>5. ReadAgain(D, E, dk, f)
    BY <1>2, <2>2, <2>4 DEF ReadAgain, Opened
  <2> QED BY <2>5 DEF E
<1> QED BY <1>1, <1>2

LEMMA LoadTexts ==
    ASSUME NEW D, Good(D), NEW dk, OnDisk(dk), NEW o, NEW f \in File
    PROVE  IF f \in DOMAIN D THEN Load(D, dk, o, f) = D
                             ELSE ReadAgain(D, Load(D, dk, o, f), dk, f)
<1>1. f \notin DOMAIN D => Load(D, dk, o, f) = Reload(D, dk, o, f)
  BY DEF Load, Reload
<1>2. f \in DOMAIN D => Load(D, dk, o, f) = D
  BY DEF Load
<1> QED BY <1>1, <1>2, ReloadTexts

\* remove forgets f and changes no other text.
Removed(D, E, f) ==
    /\ DOMAIN E = DOMAIN D \ {f}
    /\ \A g \in DOMAIN D \ {f} : E[g].text = D[g].text

LEMMA RemoveTexts ==
    ASSUME NEW D, Good(D), NEW dk, NEW o, NEW f \in File
    PROVE  Removed(D, Remove(D, dk, o, f), f)
<1> DEFINE E == Remove(D, dk, o, f)
           H == HandleOpenDocument(D, dk, o, f, EmptyText)
<1>0. EmptyText \in Text
  BY TextsAssumption
<1>5. Opened(D, H, f, EmptyText)
  BY <1>0, HandleOpenDocumentTexts
<1>2. /\ DOMAIN E = DOMAIN H \ {f}
      /\ \A g \in DOMAIN H \ {f} : E[g] = [H[g] EXCEPT
            !.includes = H[g].includes \ {f},
            !.missing_includes = IF f \in H[g].includes THEN H[g].missing_includes \cup {NameOf(f)}
                                                        ELSE H[g].missing_includes]
  BY DEF Remove
<1> HIDE DEF E, H
<1>1. /\ Good(H) /\ DOMAIN H = DOMAIN D \cup {f}
      /\ \A g \in DOMAIN D \ {f} : H[g].text = D[g].text
  BY <1>5 DEF Opened
<1>3. ASSUME NEW g \in DOMAIN H \ {f} PROVE E[g].text = H[g].text
  <2>1. H[g] \in Document
    BY <1>1 DEF Good, Typed
  <2>2. DOMAIN H[g] = {"text", "parsed", "includes", "missing_includes"}
    BY <2>1 DEF Document
  <2> QED BY <1>2, <2>2
<1>4. Removed(D, E, f)
  BY <1>1, <1>2, <1>3 DEF Removed
<1> QED BY <1>4 DEF E

-----------------------------------------------------------------------------
(* The queue.                                                               *)

\* An event at the end of the queue: what waits for another file is the same;
\* for its own file it comes after the removals.
Queued(q, r, k, h, f) ==
    /\ f # h \/ k # "remove" => (Removal(r, f) <=> Removal(q, f))
    /\ f = h /\ k = "remove" => Removal(r, f)
    /\ f = h /\ k # "remove" => After(r, k, f)
    /\ f # h \/ k # "remove" => \A l \in FileKinds : After(q, l, f) => After(r, l, f)

LEMMA QueueEvent ==
    ASSUME NEW q \in Seq(Event), NEW k \in FileKinds, NEW h \in File, NEW f \in File
    PROVE  Queued(q, q \o <<FileEvent(k, h)>>, k, h, f)
<1> DEFINE r == q \o <<FileEvent(k, h)>>
<1>1. /\ DOMAIN q = 1 .. Len(q) /\ Len(q) \in Nat
      /\ DOMAIN r = 1 .. Len(q) + 1
      /\ \A i \in 1 .. Len(q) : r[i] = q[i]
      /\ r[Len(q) + 1] = FileEvent(k, h)
  BY DEF FileEvent, Event
<1> HIDE DEF r
<1>2. \A a, b \in FileKinds, g \in File : FileEvent(a, f) = FileEvent(b, g) => f = g /\ a = b
  BY DEF FileEvent
<1>3. "remove" \in FileKinds
  BY DEF FileKinds
<1> HIDE DEF FileKinds
<1>4. f # h \/ k # "remove" => r[Len(q) + 1] # FileEvent("remove", f)
  BY <1>1, <1>2, <1>3
<1>5. f # h \/ k # "remove" => (Removal(r, f) <=> Removal(q, f))
  BY <1>1, <1>4 DEF Removal
<1>6. f = h /\ k = "remove" => Removal(r, f)
  BY <1>1 DEF Removal
<1>7. ASSUME f = h, k # "remove" PROVE After(r, k, f)
  <2>1. \A j \in DOMAIN r : r[j] = FileEvent("remove", f) => j < Len(q) + 1
    BY <1>1, <1>4, <1>7
  <2> QED BY <1>1, <1>7, <2>1 DEF After
<1>8. ASSUME f # h \/ k # "remove", NEW l \in FileKinds, After(q, l, f) PROVE After(r, l, f)
  <2>1. PICK i \in DOMAIN q : /\ q[i] = FileEvent(l, f)
                              /\ \A j \in DOMAIN q : q[j] = FileEvent("remove", f) => j < i
    BY <1>8 DEF After
  <2>2. \A j \in DOMAIN r : r[j] = FileEvent("remove", f) => j < i
    BY <1>1, <1>4, <1>8, <2>1
  <2> QED BY <1>1, <2>1, <2>2 DEF After
<1>9. Queued(q, r, k, h, f)
  BY <1>5, <1>6, <1>7, <1>8 DEF Queued
<1> QED BY <1>9 DEF r

\* The event at the head is taken: what waits for another file is the same; of
\* its own, what comes after a removal still does.
Taken(q, r, k, h, f) ==
    /\ Removal(r, f) => Removal(q, f)
    /\ f # h \/ k # "remove" => (Removal(q, f) => Removal(r, f))
    /\ \A l \in FileKinds \ {"remove"} :
          After(q, l, f) /\ (f # h \/ k # l \/ Removal(q, f)) => After(r, l, f)

LEMMA TakeHead ==
    ASSUME NEW q \in Seq(Event), q # <<>>, NEW k \in FileKinds, NEW h \in File,
           Head(q) = FileEvent(k, h), NEW f \in File
    PROVE  Taken(q, Tail(q), k, h, f)
<1> DEFINE r == Tail(q)
<1>1. /\ DOMAIN q = 1 .. Len(q) /\ Len(q) \in Nat \ {0}
      /\ DOMAIN r = 1 .. Len(q) - 1
      /\ \A i \in 1 .. Len(q) - 1 : r[i] = q[i + 1]
      /\ q[1] = FileEvent(k, h)
  OBVIOUS
<1> HIDE DEF r
<1>2. \A a, b \in FileKinds, g \in File : FileEvent(a, f) = FileEvent(b, g) => f = g /\ a = b
  BY DEF FileEvent
<1>3. "remove" \in FileKinds
  BY DEF FileKinds
<1> HIDE DEF FileKinds
<1>4. Removal(r, f) => Removal(q, f)
  BY <1>1 DEF Removal
<1>5. ASSUME NEW i \in DOMAIN q, i # 1 PROVE i - 1 \in DOMAIN r /\ r[i - 1] = q[i]
  BY <1>1, <1>5
<1>6. ASSUME f # h \/ k # "remove", Removal(q, f) PROVE Removal(r, f)
  <2>1. PICK i \in DOMAIN q : q[i] = FileEvent("remove", f)
    BY <1>6 DEF Removal
  <2>2. i # 1
    BY <1>1, <1>2, <1>3, <1>6, <2>1
  <2> QED BY <1>5, <2>1, <2>2 DEF Removal
<1>7. ASSUME NEW l \in FileKinds, After(q, l, f), f # h \/ k # l \/ Removal(q, f), l # "remove"
      PROVE  After(r, l, f)
  <2>1. PICK i \in DOMAIN q : /\ q[i] = FileEvent(l, f)
                              /\ \A j \in DOMAIN q : q[j] = FileEvent("remove", f) => j < i
    BY <1>7 DEF After
  <2>2. i # 1
    <3>1. CASE f # h \/ k # l
      BY <1>1, <1>2, <2>1, <3>1
    <3>2. CASE Removal(q, f)
      BY <1>1, <2>1, <3>2 DEF Removal
    <3> QED BY <1>7, <3>1, <3>2
  <2>3. \A j \in DOMAIN r : r[j] = FileEvent("remove", f) => j < i - 1
    <3> SUFFICES ASSUME NEW j \in DOMAIN r, r[j] = FileEvent("remove", f) PROVE j < i - 1
      OBVIOUS
    <3>1. j \in Nat /\ j + 1 \in DOMAIN q /\ q[j + 1] = r[j]
      BY <1>1
    <3>2. j + 1 < i
      BY <2>1, <3>1
    <3> QED BY <1>1, <3>1, <3>2
  <2> QED BY <1>5, <2>1, <2>2, <2>3 DEF After
<1>8. Taken(q, r, k, h, f)
  BY <1>4, <1>6, <1>7 DEF Taken
<1> QED BY <1>8 DEF r

-----------------------------------------------------------------------------
(* One step at a time, for one file f.                                      *)

\* Follows and Found read the documents for what is known and its texts only.
LEMMA FollowsTexts ==
    ASSUME NEW D, NEW E, NEW dk, NEW q, NEW f, Follows(D, dk, q, f),
           f \in DOMAIN E <=> f \in DOMAIN D,
           f \in DOMAIN D => E[f].text = D[f].text
    PROVE  /\ Follows(E, dk, q, f)
           /\ Found(D, dk, q, f) => Found(E, dk, q, f)
  BY DEF Follows, Found

\* What is said of f goes from disk dk and queue q to disk ek and queue r.
Carried(D, dk, ek, q, r, f) ==
    Follows(D, dk, q, f) => /\ Follows(D, ek, r, f)
                            /\ Found(D, dk, q, f) => Found(D, ek, r, f)

\* A file is written, in a watched directory: its event will bring it in.
LEMMA WriteFollows ==
    ASSUME NEW D, NEW dk, NEW q \in Seq(Event), NEW h \in File, NEW t, NEW f \in File,
           NEW k \in FileKinds, k = IF h \in DOMAIN dk THEN "data" ELSE "create",
           NEW r, r = q \o <<FileEvent(k, h)>>,
           NEW ek, ek = [g \in DOMAIN dk \cup {h} |-> IF g = h THEN t ELSE dk[g]]
    PROVE  Carried(D, dk, ek, q, r, f)
<1> SUFFICES ASSUME Follows(D, dk, q, f)
             PROVE  /\ Follows(D, ek, r, f)
                    /\ Found(D, dk, q, f) => Found(D, ek, r, f)
  BY DEF Carried
<1>1. k # "remove" /\ "create" \in FileKinds /\ "data" \in FileKinds
  BY DEF FileKinds
<1>2. /\ Removal(r, f) <=> Removal(q, f)
      /\ f = h => After(r, k, f)
      /\ After(q, "create", f) => After(r, "create", f)
      /\ After(q, "data", f) => After(r, "data", f)
  <2>1. Queued(q, r, k, h, f)
    BY QueueEvent
  <2> QED BY <1>1, <2>1 DEF Queued
<1>3. CASE f # h
  <2>1. (f \in DOMAIN ek <=> f \in DOMAIN dk) /\ (f \in DOMAIN dk => ek[f] = dk[f])
    BY <1>3
  <2> QED BY <1>2, <2>1 DEF Follows, Found
<1>4. CASE f = h /\ h \in DOMAIN dk
  <2>1. k = "data" /\ f \in DOMAIN ek
    BY <1>4
  <2> QED BY <1>2, <1>4, <2>1 DEF Follows, Found
<1>5. CASE f = h /\ h \notin DOMAIN dk
  <2>1. k = "create" /\ f \in DOMAIN ek
    BY <1>5
  <2> QED BY <1>2, <1>5, <2>1 DEF Follows, Found
<1> QED BY <1>3, <1>4, <1>5

\* A file is deleted, in a watched directory: it is to be removed.
LEMMA DeleteFollows ==
    ASSUME NEW D, NEW dk, NEW q \in Seq(Event), NEW h \in File, NEW f \in File,
           NEW r, r = q \o <<FileEvent("remove", h)>>,
           NEW ek, ek = [g \in DOMAIN dk \ {h} |-> dk[g]]
    PROVE  Carried(D, dk, ek, q, r, f)
<1> SUFFICES ASSUME Follows(D, dk, q, f)
             PROVE  /\ Follows(D, ek, r, f)
                    /\ Found(D, dk, q, f) => Found(D, ek, r, f)
  BY DEF Carried
<1>1. "remove" \in FileKinds /\ "create" \in FileKinds /\ "data" \in FileKinds
  BY DEF FileKinds
<1>4. Queued(q, r, "remove", h, f)
  BY <1>1, QueueEvent
<1>2. CASE f # h
  <2>1. /\ Removal(r, f) <=> Removal(q, f)
        /\ After(q, "create", f) => After(r, "create", f)
        /\ After(q, "data", f) => After(r, "data", f)
    BY <1>1, <1>2, <1>4 DEF Queued
  <2>2. (f \in DOMAIN ek <=> f \in DOMAIN dk) /\ (f \in DOMAIN dk => ek[f] = dk[f])
    BY <1>2
  <2> QED BY <2>1, <2>2 DEF Follows, Found
<1>3. CASE f = h
  <2>1. Removal(r, f) /\ f \notin DOMAIN ek
    BY <1>3, <1>4 DEF Queued
  <2> QED BY <2>1 DEF Follows, Found
<1> QED BY <1>2, <1>3

\* The directories of the configuration are scanned: what is there is known.
LEMMA ScanFollows ==
    ASSUME NEW D, NEW dk, NEW q, NEW Ds, NEW f, Follows(D, dk, q, f),
           \E d \in Ds : DirOf(f) \in Below[d]
    PROVE  /\ Follows(FindDocuments(D, dk, Ds), dk, q, f)
           /\ Found(FindDocuments(D, dk, Ds), dk, q, f)
<1> DEFINE E == FindDocuments(D, dk, Ds)
<1>1. /\ f \in DOMAIN E <=> f \in DOMAIN D \/ f \in DOMAIN dk
      /\ f \in DOMAIN D => E[f] = D[f]
      /\ f \in DOMAIN dk \ DOMAIN D => E[f].text = dk[f]
  BY DEF FindDocuments, Unparsed
<1> HIDE DEF E
<1>2. Follows(E, dk, q, f) /\ Found(E, dk, q, f)
  BY <1>1 DEF Follows, Found
<1> QED BY <1>2 DEF E

\* An event is handled: the file is as the disk has it now, unless it is known
\* already when it is to be created, or was to be removed before.
LEMMA HandleFollows ==
    ASSUME NEW D, Good(D), NEW dk, OnDisk(dk), NEW o,
           NEW q \in Seq(Event), q # <<>>, NEW h \in File, NEW f \in File,
           NEW k \in {"create", "data", "remove"}, Head(q) = FileEvent(k, h),
           NEW E, \/ k = "create" /\ E = Load(D, dk, o, h)
                  \/ k = "remove" /\ E = Remove(D, dk, o, h)
                  \/ k = "data" /\ h \in DOMAIN D /\ E = Reload(D, dk, o, h)
                  \/ k = "data" /\ h \notin DOMAIN D /\ E = D,
           Follows(D, dk, q, f), Found(D, dk, q, f)
    PROVE  Follows(E, dk, Tail(q), f) /\ Found(E, dk, Tail(q), f)
<1> DEFINE r == Tail(q)
<1>1. /\ k \in FileKinds /\ "create" \in FileKinds /\ "data" \in FileKinds
      /\ "create" # "remove" /\ "data" # "remove" /\ "create" # "data"
  BY DEF FileKinds
<1>2. /\ Removal(r, f) => Removal(q, f)
      /\ f # h \/ k # "remove" => (Removal(q, f) => Removal(r, f))
      /\ After(q, "create", f) /\ (f # h \/ k # "create" \/ Removal(q, f)) => After(r, "create", f)
      /\ After(q, "data", f) /\ (f # h \/ k # "data" \/ Removal(q, f)) => After(r, "data", f)
  <2>1. Taken(q, r, k, h, f)
    BY <1>1, TakeHead
  <2> QED BY <1>1, <2>1 DEF Taken
<1> SUFFICES Follows(E, dk, r, f) /\ Found(E, dk, r, f)
  OBVIOUS
<1> HIDE DEF r
<1>3. CASE f # h
  <2>1. (f \in DOMAIN E <=> f \in DOMAIN D) /\ (f \in DOMAIN D => E[f].text = D[f].text)
    <3>1. CASE k = "create"
      <4>1. E = D \/ ReadAgain(D, E, dk, h)
        BY <3>1, LoadTexts
      <4> QED BY <1>3, <4>1 DEF ReadAgain
    <3>2. CASE k = "remove"
      <4>1. Removed(D, E, h)
        BY <3>2, <1>1, RemoveTexts
      <4> QED BY <1>3, <4>1 DEF Removed
    <3>3. CASE k = "data"
      <4>1. E = D \/ ReadAgain(D, E, dk, h)
        BY <3>3, <1>1, ReloadTexts
      <4> QED BY <1>3, <4>1 DEF ReadAgain
    <3> QED BY <3>1, <3>2, <3>3
  <2> QED BY <1>2, <1>3, <2>1 DEF Follows, Found
<1>4. CASE f = h /\ k = "remove"
  <2>1. Removed(D, E, h)
    BY <1>1, <1>4, RemoveTexts
  <2>2. f \notin DOMAIN E
    BY <1>4, <2>1 DEF Removed
  <2>3. After(q, "create", f) => After(r, "create", f)
    BY <1>1, <1>2, <1>4
  <2>4. Head(q) = FileEvent("remove", f) /\ 1 \in DOMAIN q /\ q[1] = Head(q)
    BY <1>4
  <2>5. Removal(q, f)
    BY <2>4 DEF Removal
  <2> QED BY <1>2, <2>2, <2>3, <2>5 DEF Follows, Found
<1>5. CASE f = h /\ k = "create"
  <2>1. IF f \in DOMAIN D THEN E = D ELSE ReadAgain(D, E, dk, f)
    BY <1>5, LoadTexts
  <2>2. /\ Removal(r, f) <=> Removal(q, f)
        /\ Removal(q, f) /\ After(q, "create", f) => After(r, "create", f)
        /\ After(q, "data", f) => After(r, "data", f)
    BY <1>1, <1>2, <1>5
  <2>3. CASE f \notin DOMAIN dk
    <3>1. E = D
      BY <2>1, <2>3 DEF ReadAgain
    <3> QED BY <2>2, <2>3, <3>1 DEF Follows, Found
  <2>4. CASE f \in DOMAIN dk
    <3>1. f \in DOMAIN E /\ (E[f].text = dk[f] \/ (f \in DOMAIN D /\ E = D))
      BY <2>1, <2>4 DEF ReadAgain
    <3> QED BY <2>2, <2>4, <3>1 DEF Follows, Found
  <2> QED BY <2>3, <2>4
<1>6. CASE f = h /\ k = "data"
  <2>1. IF f \in DOMAIN D THEN ReadAgain(D, E, dk, f) ELSE E = D
    BY <1>1, <1>6, ReloadTexts
  <2>2. /\ Removal(r, f) <=> Removal(q, f)
        /\ After(q, "create", f) => After(r, "create", f)
    BY <1>1, <1>2, <1>6
  <2>3. CASE f \notin DOMAIN D \/ f \notin DOMAIN dk
    <3>1. E = D
      BY <2>1, <2>3 DEF ReadAgain
    <3> QED BY <2>2, <2>3, <3>1 DEF Follows, Found
  <2>4. CASE f \in DOMAIN D /\ f \in DOMAIN dk
    <3>2. f \in DOMAIN E /\ E[f].text = dk[f]
      BY <2>1, <2>4 DEF ReadAgain
    <3> QED BY <2>2, <2>4, <3>2 DEF Follows, Found
  <2> QED BY <2>3, <2>4
<1> QED BY <1>3, <1>4, <1>5, <1>6

-----------------------------------------------------------------------------
(* The steps of the disk, the configuration and the watcher.                *)

\* Under WatchedDirectories, what the options of a configuration name is what
\* ConfiguredDirs names.
LEMMA ConfiguredOptions ==
    ASSUME WatchedDirectories, NEW o \in Configurations
    PROVE  {o.includes_directories[i] : i \in DOMAIN o.includes_directories} = ConfiguredDirs
<1> DEFINE dirs(c) == {c.includes_directories[i] : i \in DOMAIN c.includes_directories}
<1>1. \A c \in Configurations : dirs(c) = dirs(o)
  BY DEF WatchedDirectories
<1>2. ConfiguredDirs = UNION {dirs(c) : c \in Configurations}
  BY DEF ConfiguredDirs
<1> QED BY <1>1, <1>2

\* Nothing is watched or waiting at first, and what is known is what is on disk.
LEMMA InitDisk == Init => DiskInv
<1> SUFFICES ASSUME Init PROVE DiskInv
  OBVIOUS
<1>1. events = <<>> /\ watched = {} /\ ~config_pulled /\ ~watcher /\ main = "idle"
  BY DEF Init
<1>2. ASSUME NEW f \in File PROVE Follows(documents, disk, events, f)
  <2>1. f \in DOMAIN documents => f \in DOMAIN disk /\ documents[f].text = disk[f]
    BY DEF Init, FindDocuments, Unparsed
  <2>2. ~Removal(events, f)
    BY <1>1 DEF Removal
  <2> QED BY <2>1, <2>2 DEF Follows
<1> QED BY <1>1, <1>2 DEF DiskInv, Registering

\* The old watcher is dropped, and every directory of the options is to be watched.
LEMMA SetOptionsDisk ==
    ASSUME WatchedDirectories, RestOK, DiskInv, NEW o \in Configurations, SetOptions(o)
    PROVE  DiskInv'
<1>1. /\ options' = o /\ config_pulled' = TRUE /\ main' = "watching"
      /\ watcher' = FALSE /\ to_watch' = o.includes_directories
      /\ UNCHANGED <<disk, events, documents, missed>>
  BY DEF SetOptions
<1>2. {o.includes_directories[i] : i \in DOMAIN o.includes_directories} = ConfiguredDirs
  BY ConfiguredOptions
<1>3. Registering'
  BY <1>1, <1>2 DEF Registering
<1>4. \A f \in File : InIncludeDirs(f)' => Configured(f)
  BY <1>1, <1>2 DEF InIncludeDirs, Configured
<1>5. \A f \in File \ missed : Configured(f) => Follows(documents, disk, events, f)
  BY DEF DiskInv
<1> QED BY <1>1, <1>3, <1>4, <1>5 DEF DiskInv

\* Each is watched, or the server is gone, or goes on without a watcher
\* (watching.rs:17-24).
LEMMA WatchingDisk ==
    ASSUME WatchedDirectories, RestOK, DiskInv,
           WatchDirectory \/ WatchFails \/ RegisterWatcher
    PROVE  DiskInv'
<1>1. main = "watching" /\ ~watcher /\ config_pulled
  BY DEF WatchDirectory, WatchFails, RegisterWatcher, DiskInv, Registering, RestOK
<1>2. /\ UNCHANGED <<disk, events, documents, options, config_pulled, missed>>
      /\ main' \in {"watching", "reparse", "failed"}
  BY <1>1 DEF WatchDirectory, WatchFails, RegisterWatcher, registering
<1>3. Registering'
  <2>1. CASE WatchDirectory
    <3>1. watcher' = watcher /\ main' = main /\ to_watch # <<>> /\ to_watch' = Tail(to_watch)
      BY <2>1 DEF WatchDirectory
    <3>2. ASSUME NEW d \in ConfiguredDirs
          PROVE  d \in watched' \/ \E i \in DOMAIN to_watch' : to_watch'[i] = d
      <4>1. IsDir(d)
        BY DEF WatchedDirectories, IsDir
      <4>2. CASE d \in watched \/ Head(to_watch) = d
        BY <2>1, <4>1, <4>2 DEF WatchDirectory
      <4>3. CASE \E i \in DOMAIN to_watch : to_watch[i] = d /\ i # 1
        <5>1. PICK i \in DOMAIN to_watch : to_watch[i] = d /\ i # 1
          BY <4>3
        <5>2. i - 1 \in DOMAIN to_watch' /\ to_watch'[i - 1] = d
          BY <3>1, <5>1 DEF RestOK
        <5> QED BY <5>2
      <4>4. to_watch[1] = Head(to_watch)
        BY <3>1 DEF RestOK
      <4> QED BY <1>1, <4>2, <4>3, <4>4 DEF DiskInv, Registering
    <3> QED BY <1>1, <3>1, <3>2 DEF Registering
  <2>2. CASE WatchFails
    BY <1>1, <2>2 DEF WatchFails, registering, Registering
  <2>3. CASE RegisterWatcher
    <3>1. main' = "reparse" /\ watched' = watched
      BY <2>3 DEF RegisterWatcher
    <3>2. watcher' => ConfiguredDirs \subseteq watched
      <4> SUFFICES ASSUME watcher' PROVE ConfiguredDirs \subseteq watched
        OBVIOUS
      <4>1. to_watch = <<>>
        BY <1>1, <2>3 DEF RegisterWatcher
      <4> QED BY <1>1, <4>1 DEF DiskInv, Registering
    <3> QED BY <3>1, <3>2 DEF Registering
  <2> QED BY <2>1, <2>2, <2>3
<1>4. \A f \in File : InIncludeDirs(f)' <=> InIncludeDirs(f)
  BY <1>2 DEF InIncludeDirs
<1>5. \A f \in File \ missed : Configured(f) => Follows(documents, disk, events, f)
  BY DEF DiskInv
<1>6. main' # "files" /\ main' # "idle"
  BY <1>2
<1> QED BY <1>1, <1>2, <1>3, <1>4, <1>5, <1>6 DEF DiskInv

\* The scan of reparse_all finds what is on disk; opening documents again
\* changes neither what is known nor its texts.
LEMMA ReparseDisk ==
    ASSUME WatchedDirectories, RestOK, Good(documents), DiskInv,
           config_pulled => {options.includes_directories[i] :
                                i \in DOMAIN options.includes_directories} = ConfiguredDirs,
           ReparseMain \/ ReparseWithoutMain \/ ReparseFails
    PROVE  DiskInv'
<1>1. main = "reparse" /\ config_pulled
  BY DEF ReparseMain, ReparseWithoutMain, ReparseFails, DiskInv, RestOK
<1>2. /\ UNCHANGED <<disk, events, watcher, watched, to_watch, config_pulled, missed>>
      /\ main' \in {"idle", "panicked"}
      /\ options'.includes_directories = options.includes_directories
  BY DEF ReparseMain, ReparseWithoutMain, ReparseFails, ReparseEnds, watching, RestOK, Options
<1>3. /\ DOMAIN documents' = DOMAIN Scanned
      /\ \A f \in DOMAIN Scanned : documents'[f].text = Scanned[f].text
  <2>1. CASE ReparseFails
    BY <2>1 DEF ReparseFails
  <2>2. CASE ReparseMain \/ ReparseWithoutMain
    <3>1. PICK o, Fs : documents' = ReopenAll(Scanned, disk, o, Fs)
      BY <2>2 DEF ReparseMain, ReparseWithoutMain, ReparseEnds
    <3> QED BY <3>1, ScannedGood, ReopenAllGood
  <2> QED BY <2>1, <2>2
<1>4. ASSUME NEW f \in File \ missed, Configured(f)
      PROVE  Follows(documents', disk, events, f) /\ Found(documents', disk, events, f)
  <2>1. \E d \in ConfiguredDirs : DirOf(f) \in Below[d]
    BY <1>4 DEF Configured
  <2>2. Scanned = FindDocuments(documents, disk, ConfiguredDirs)
    BY <1>1 DEF Scanned
  <2>3. Follows(documents, disk, events, f)
    BY <1>1, <1>4 DEF DiskInv
  <2>4. Follows(Scanned, disk, events, f) /\ Found(Scanned, disk, events, f)
    BY <2>1, <2>2, <2>3, ScanFollows
  <2> QED BY <1>3, <2>4, FollowsTexts
<1>5. \A f \in File : InIncludeDirs(f)' <=> InIncludeDirs(f)
  BY <1>2 DEF InIncludeDirs
<1>6. Registering'
  BY <1>1, <1>2 DEF DiskInv, Registering
<1> QED BY <1>1, <1>2, <1>4, <1>5, <1>6 DEF DiskInv

\* What is written or deleted below a configured directory is watched.
LEMMA EditDisk ==
    ASSUME WatchedDirectories, RestOK, DiskInv, Edit PROVE DiskInv'
<1>1. UNCHANGED <<watcher, watched, to_watch, documents, options, config_pulled, main>>
  BY DEF Edit, FsWrite, FsDelete, server, watching
<1>2. PICK h \in File, k \in {"create", "data", "remove"} : EmitFor(h, k) /\ Miss({h}) /\
         \/ \E t \in Text : /\ disk' = [g \in DOMAIN disk \cup {h} |-> IF g = h THEN t ELSE disk[g]]
                            /\ k = IF h \in DOMAIN disk THEN "data" ELSE "create"
         \/ disk' = [g \in DOMAIN disk \ {h} |-> disk[g]] /\ k = "remove"
  <2>1. CASE \E f \in File : \E t \in TextsOf[f] : FsWrite(f, t)
    <3>1. PICK f \in File : \E t \in TextsOf[f] : FsWrite(f, t)
      BY <2>1
    <3>2. PICK t \in TextsOf[f] : FsWrite(f, t)
      BY <3>1
    <3>3. t \in Text
      BY StoreAssumption
    <3> DEFINE k == IF f \in DOMAIN disk THEN "data" ELSE "create"
    <3>4. k \in {"create", "data", "remove"} /\ EmitFor(f, k) /\ Miss({f})
      BY <3>2 DEF FsWrite
    <3>5. disk' = [g \in DOMAIN disk \cup {f} |-> IF g = f THEN t ELSE disk[g]]
      BY <3>2 DEF FsWrite
    <3> QED BY <3>3, <3>4, <3>5
  <2>2. CASE \E f \in File : FsDelete(f)
    BY <2>2 DEF FsDelete
  <2> QED BY <2>1, <2>2 DEF Edit
<1>3. /\ events \in Seq(Event) /\ k \in FileKinds
      /\ <<FileEvent(k, h)>> \in Seq(Event) /\ <<FileEvent(k, h)>> # <<>>
  BY DEF RestOK, FileKinds, FileEvent, Event
<1>4. events' = IF Watched(DirOf(h)) THEN events \o <<FileEvent(k, h)>> ELSE events
  <2>1. events' = events \o (IF Watched(DirOf(h)) THEN <<FileEvent(k, h)>> ELSE <<>>)
    BY <1>2 DEF EmitFor, Emit
  <2> QED BY <1>3, <2>1
<1>5. \A i \in DOMAIN events' : events'[i].kind \in {"create", "data", "remove"}
  <2>1. CASE ~Watched(DirOf(h))
    BY <1>4, <2>1 DEF DiskInv
  <2>2. CASE Watched(DirOf(h))
    <3>1. events' = events \o <<FileEvent(k, h)>>
      BY <1>4, <2>2
    <3>2. \A i \in DOMAIN events' : events'[i] = FileEvent(k, h)
                                    \/ (i \in DOMAIN events /\ events'[i] = events[i])
      BY <1>3, <3>1
    <3>3. FileEvent(k, h).kind = k
      BY DEF FileEvent
    <3> QED BY <3>2, <3>3 DEF DiskInv
  <2> QED BY <2>1, <2>2
<1>6. missed' = missed \cup {f \in {h} : Unreported(f)}
  BY <1>2 DEF Miss
<1>7. ASSUME NEW f \in File \ missed', Configured(f)
      PROVE  /\ Follows(documents, disk', events', f)
             /\ config_pulled /\ main = "idle" => Found(documents, disk', events', f)
  <2>1. /\ f \notin missed /\ Follows(documents, disk, events, f)
        /\ config_pulled /\ main = "idle" => Found(documents, disk, events, f)
    BY <1>6, <1>7 DEF DiskInv
  <2>2. CASE Watched(DirOf(h))
    <3>1. events' = events \o <<FileEvent(k, h)>>
      BY <1>4, <2>2
    <3> SUFFICES Carried(documents, disk, disk', events, events', f)
      BY <2>1 DEF Carried
    <3>2. CASE k = "remove" /\ disk' = [g \in DOMAIN disk \ {h} |-> disk[g]]
      BY <1>3, <3>1, <3>2, DeleteFollows
    <3>3. CASE \E t \in Text : /\ disk' = [g \in DOMAIN disk \cup {h} |-> IF g = h THEN t ELSE disk[g]]
                               /\ k = IF h \in DOMAIN disk THEN "data" ELSE "create"
      <4>1. PICK t : /\ disk' = [g \in DOMAIN disk \cup {h} |-> IF g = h THEN t ELSE disk[g]]
                     /\ k = IF h \in DOMAIN disk THEN "data" ELSE "create"
        BY <3>3
      <4> QED BY <1>3, <3>1, <4>1, WriteFollows
    <3> QED BY <1>2, <3>2, <3>3
  <2>3. CASE ~Watched(DirOf(h)) /\ f # h
    <3>1. events' = events
      BY <1>4, <2>3
    <3>2. (f \in DOMAIN disk' <=> f \in DOMAIN disk) /\ (f \in DOMAIN disk => disk'[f] = disk[f])
      BY <1>2, <2>3
    <3> QED BY <2>1, <3>1, <3>2 DEF Follows, Found
  <2>4. CASE ~Watched(DirOf(h)) /\ f = h
    <3>1. ~watcher
      BY <1>7, <2>4 DEF Configured, Watched, DiskInv, Registering
    <3>2. ~Unreported(f)
      BY <1>6, <1>7, <2>4
    <3>3. /\ f \notin DOMAIN documents /\ ~(config_pulled /\ main = "idle")
          /\ \A i \in DOMAIN events : events[i].path # f
      BY <2>4, <3>1, <3>2 DEF Unreported, WatchedDirectories, Known
    <3>4. events' = events
      BY <1>4, <2>4
    <3>5. ~Removal(events', f)
      BY <3>3, <3>4 DEF Removal, FileEvent
    <3> QED BY <3>3, <3>5 DEF Follows
  <2> QED BY <2>2, <2>3, <2>4
<1>8. \A f \in File : InIncludeDirs(f)' <=> InIncludeDirs(f)
  BY <1>1 DEF InIncludeDirs
<1>11. ASSUME ~config_pulled PROVE events' = <<>>
  <2>1. watched = {} /\ events = <<>>
    BY <1>11 DEF DiskInv
  <2> QED BY <1>4, <2>1 DEF Watched
<1>9. Registering'
  BY <1>1 DEF DiskInv, Registering
<1>10. \A f \in File \ missed' : Configured(f) =>
          /\ Follows(documents', disk', events', f)
          /\ config_pulled' /\ main' = "idle" => Found(documents', disk', events', f)
  BY <1>1, <1>7
<1> QED BY <1>1, <1>5, <1>8, <1>9, <1>10, <1>11 DEF DiskInv

\* An event is handled after any number of later changes, with the disk as it
\* is then.
LEMMA HandleDisk ==
    ASSUME WatchedDirectories, RestOK, Good(documents), DiskInv, HandleFileEvent
    PROVE  DiskInv'
<1>1. /\ TakeEvent(FileKinds) /\ UNCHANGED <<watched, main, todo>>
  BY DEF HandleFileEvent
<1>2. /\ main = "idle" /\ events # <<>> /\ events' = Tail(events)
      /\ UNCHANGED <<disk, watcher, to_watch, options, config_pulled, missed>>
  BY <1>1 DEF TakeEvent
<1> DEFINE e == Head(events)
<1>3. e \in Event /\ e.kind \in FileKinds
  BY <1>1, TakeEventTyped
<1>4. e.kind \in {"create", "data", "remove"} /\ 1 \in DOMAIN events /\ e = events[1]
  BY <1>2 DEF DiskInv, RestOK
<1>5. e.path \in File /\ e = FileEvent(e.kind, e.path)
  BY <1>3 DEF Event, FileEvent, FileKinds
<1>6. \/ e.kind = "create" /\ documents' = Load(documents, disk, options, e.path)
      \/ e.kind = "remove" /\ documents' = Remove(documents, disk, options, e.path)
      \/ e.kind = "data" /\ e.path \in DOMAIN documents
                         /\ documents' = Reload(documents, disk, options, e.path)
      \/ e.kind = "data" /\ e.path \notin DOMAIN documents /\ documents' = documents
  BY <1>4 DEF HandleFileEvent
<1>7. config_pulled
  BY <1>2 DEF DiskInv, RestOK
<1>8. ASSUME NEW f \in File \ missed, Configured(f)
      PROVE  Follows(documents', disk, events', f) /\ Found(documents', disk, events', f)
  <2>1. Follows(documents, disk, events, f) /\ Found(documents, disk, events, f)
    BY <1>2, <1>7, <1>8 DEF DiskInv
  <2>2. OnDisk(disk) /\ events \in Seq(Event)
    BY DEF RestOK
  <2>3. PICK k, h : k = e.kind /\ h = e.path
    OBVIOUS
  <2>4. /\ k \in {"create", "data", "remove"} /\ h \in File
        /\ Head(events) = FileEvent(k, h)
    BY <1>4, <1>5, <2>3
  <2>5. \/ k = "create" /\ documents' = Load(documents, disk, options, h)
        \/ k = "remove" /\ documents' = Remove(documents, disk, options, h)
        \/ k = "data" /\ h \in DOMAIN documents /\ documents' = Reload(documents, disk, options, h)
        \/ k = "data" /\ h \notin DOMAIN documents /\ documents' = documents
    BY <1>6, <2>3
  <2> HIDE DEF e
  <2> QED BY <1>2, <2>1, <2>2, <2>4, <2>5, HandleFollows
<1>9. \A i \in DOMAIN events' : events'[i].kind \in {"create", "data", "remove"}
  <2>1. \A i \in DOMAIN events' : i + 1 \in DOMAIN events /\ events'[i] = events[i + 1]
    BY <1>2 DEF RestOK
  <2> QED BY <2>1 DEF DiskInv
<1>10. \A f \in File : InIncludeDirs(f)' <=> InIncludeDirs(f)
  BY <1>2 DEF InIncludeDirs
<1>11. Registering'
  BY <1>1, <1>2 DEF DiskInv, Registering
<1> QED BY <1>1, <1>2, <1>7, <1>8, <1>9, <1>10, <1>11 DEF DiskInv

\* The directories of the options in use are those of the configurations.
SameDirs ==
    config_pulled => {options.includes_directories[i] :
                         i \in DOMAIN options.includes_directories} = ConfiguredDirs

\* Once every event is handled, the store is what the disk is, but for the files
\* that changed unreported between two watchers, or for want of one.
THEOREM StoreAlwaysFollowsDisk ==
    ASSUME WatchedDirectories
    PROVE  DiskSpec => []StoreFollowsDisk
<1> DEFINE DiskNext == Configure \/ Edit \/ HandleFileEvent
<1>1. Init => Inv /\ DiskInv /\ SameDirs
  BY InitInv, InitDisk DEF Init, SameDirs
<1>2. Inv /\ DiskInv /\ SameDirs /\ [DiskNext]_vars => Inv' /\ DiskInv' /\ SameDirs'
  <2> SUFFICES ASSUME Inv, DiskInv, SameDirs, [DiskNext]_vars
               PROVE  Inv' /\ DiskInv' /\ SameDirs'
    OBVIOUS
  <2>1. RestOK /\ Good(documents)
    BY InvParts
  <2>2. Inv'
    BY EditInv, ConfigureInv, HandleInv, StutterInv DEF Handle
  <2>3. ASSUME NEW o \in Configurations, SetOptions(o) PROVE DiskInv' /\ SameDirs'
    <3>1. options' = o
      BY <2>3 DEF SetOptions
    <3> QED BY <2>1, <2>3, <3>1, SetOptionsDisk, ConfiguredOptions DEF SameDirs
  <2>9. CASE WatchDirectory \/ WatchFails \/ RegisterWatcher
    <3>1. UNCHANGED <<options, config_pulled>>
      BY <2>9 DEF WatchDirectory, WatchFails, RegisterWatcher, registering
    <3> QED BY <2>1, <2>2, <2>9, <3>1, WatchingDisk DEF SameDirs
  <2>4. ASSUME NEW o \in Configurations PROVE ~DidChangeConfiguration(o)
    BY DEF WatchedDirectories, DidChangeConfiguration
  <2>5. CASE ReparseMain \/ ReparseWithoutMain \/ ReparseFails
    <3>1. options'.includes_directories = options.includes_directories
          /\ config_pulled' = config_pulled
      BY <2>1, <2>5 DEF ReparseMain, ReparseWithoutMain, ReparseFails, ReparseEnds, RestOK, Options
    <3> QED BY <2>1, <2>2, <2>5, <3>1, ReparseDisk DEF SameDirs
  <2>6. CASE Edit
    <3>1. UNCHANGED <<options, config_pulled>>
      BY <2>6 DEF Edit, FsWrite, FsDelete, server
    <3> QED BY <2>1, <2>2, <2>6, <3>1, EditDisk DEF SameDirs
  <2>7. CASE HandleFileEvent
    <3>1. UNCHANGED <<options, config_pulled>>
      BY <2>7 DEF HandleFileEvent, TakeEvent
    <3> QED BY <2>1, <2>2, <2>7, <3>1, HandleDisk DEF SameDirs
  <2>8. CASE UNCHANGED vars
    BY <2>2, <2>8 DEF vars, watching, DiskInv, Registering, SameDirs, InIncludeDirs, Known
  <2> QED BY <2>2, <2>3, <2>4, <2>5, <2>6, <2>7, <2>8, <2>9 DEF Configure
<1>3. Inv /\ DiskInv /\ SameDirs => StoreFollowsDisk
  <2> SUFFICES ASSUME DiskInv, SameDirs, config_pulled, main = "idle", events = <<>>,
                      NEW f \in File \ missed, InIncludeDirs(f)
               PROVE  /\ f \in Known <=> f \in DOMAIN disk
                      /\ f \in Known => documents[f].text = disk[f]
    BY DEF StoreFollowsDisk
  <2>1. Follows(documents, disk, events, f) /\ Found(documents, disk, events, f)
    BY DEF DiskInv
  <2>2. ~Removal(events, f) /\ ~After(events, "create", f) /\ ~After(events, "data", f)
    BY DEF Removal, After
  <2> QED BY <2>1, <2>2 DEF Follows, Found, Known
<1> QED BY <1>1, <1>2, <1>3, PTL DEF DiskSpec
=============================================================================
