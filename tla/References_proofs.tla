-------------------------- MODULE References_proofs --------------------------
(***************************************************************************)
(* Proofs about References, for every set of documents, texts and any      *)
(* sequence of openings and removals: that no use of a name is forgotten,  *)
(* that what is declared is linked, that a rename edits the name only,     *)
(* that tokens are looked up in the scopes around them, and that the       *)
(* client is shown each token where it is (module Requests).               *)
(***************************************************************************)
EXTENDS Requests, Induction

AnyText == {Nothing} \cup UNION {Texts[d] : d \in Doc}
AnyToken == UNION {t.uses : t \in UNION {Texts[d] : d \in Doc}}
Id == [doc : Doc, opening : Nat, key : Seq(STRING)]
Use == [doc : Doc, token : AnyToken, v_range : Nat \X Nat]

-----------------------------------------------------------------------------
(* Sequences.                                                              *)

\* What a sequence is.
LEMMA SeqIs ==
    ASSUME NEW S, NEW s \in Seq(S)
    PROVE  /\ Len(s) \in Nat /\ DOMAIN s = 1..Len(s)
           /\ \A i \in DOMAIN s : s[i] \in S
           /\ ToSet(s) \subseteq S
  BY DEF ToSet

\* The places where a sequence has something have a first and a last one.
LEMMA PlacesHaveEnds ==
    ASSUME NEW S, NEW s \in Seq(S), NEW I \in SUBSET DOMAIN s, I # {}
    PROVE  /\ Min(I) \in I /\ \A i \in I : Min(I) <= i
           /\ Max(I) \in I /\ \A i \in I : i <= Max(I)
<1>1. DOMAIN s = 1..Len(s) /\ Len(s) \in Nat /\ I \in SUBSET (0..Len(s)) /\ I \in SUBSET Nat
  BY SeqIs
<1>2. Max(I) \in I /\ \A i \in I : Max(I) >= i
  BY <1>1, GreatestUpTo
<1>3. \E i \in I : \A j \in I : i <= j
  BY <1>1, LeastNat
<1>4. Min(I) \in I /\ \A i \in I : Min(I) <= i
  BY <1>3 DEF Min
<1>5. \A i \in I : i \in Nat /\ Max(I) \in Nat
  BY <1>1, <1>2
<1> QED BY <1>2, <1>4, <1>5

\* SelectInSeq and SelectLastInSeq give a place that passes, or 0.
Selects(s, passing, i) ==
    IF passing = {} THEN i = 0 ELSE i \in passing /\ i \in DOMAIN s /\ i # 0

\* An order of a finite set has all of its elements.
LEMMA OrderHasAll ==
    ASSUME NEW S, IsFiniteSet(S), NEW order \in SetToSeqs(S)
    PROVE  order \in Seq(S) /\ ToSet(order) = S
<1> DEFINE D == 1..Cardinality(S)
<1>1. Cardinality(S) \in Nat
  BY FS_CardinalityType
<1>2. order \in [D -> S] /\ \A i, j \in D : i # j => order[i] # order[j]
  BY DEF SetToSeqs
<1>3. order \in Injection(D, S)
  BY <1>2 DEF Injection, IsInjective
<1>4. Cardinality(D) = Cardinality(S)
  <2>1. 1 \in Int /\ Cardinality(S) \in Int
    BY <1>1
  <2> QED BY <1>1, <2>1, FS_Interval
<1>5. order \in Surjection(D, S)
  BY <1>3, <1>4, FS_Injection
<1> QED BY <1>1, <1>2, <1>5 DEF Surjection, ToSet

\* Two sequences, one behind the other.
LEMMA ConcatIs ==
    ASSUME NEW S, NEW a \in Seq(S), NEW b \in Seq(S)
    PROVE  a \o b \in Seq(S) /\ ToSet(a \o b) = ToSet(a) \cup ToSet(b)
<1>1. /\ Len(a) \in Nat /\ Len(b) \in Nat /\ a \o b \in Seq(S)
      /\ Len(a \o b) = Len(a) + Len(b)
      /\ \A i \in 1..(Len(a) + Len(b)) :
           (a \o b)[i] = IF i <= Len(a) THEN a[i] ELSE b[i - Len(a)]
  OBVIOUS
<1>2. /\ \A i \in 1..Len(a) : i \in 1..(Len(a) + Len(b)) /\ i <= Len(a)
      /\ \A i \in 1..Len(b) : /\ Len(a) + i \in 1..(Len(a) + Len(b)) /\ ~(Len(a) + i <= Len(a))
                              /\ Len(a) + i - Len(a) = i
      /\ \A i \in 1..(Len(a) + Len(b)) : i <= Len(a) => i \in 1..Len(a)
      /\ \A i \in 1..(Len(a) + Len(b)) : ~(i <= Len(a)) => i - Len(a) \in 1..Len(b)
  BY <1>1
<1>3. DOMAIN a = 1..Len(a) /\ DOMAIN b = 1..Len(b) /\ DOMAIN (a \o b) = 1..(Len(a) + Len(b))
  BY <1>1, SeqIs
<1>4. /\ \A i \in DOMAIN a : i \in DOMAIN (a \o b) /\ (a \o b)[i] = a[i]
      /\ \A i \in DOMAIN b : Len(a) + i \in DOMAIN (a \o b) /\ (a \o b)[Len(a) + i] = b[i]
      /\ \A i \in DOMAIN (a \o b) : \/ i \in DOMAIN a /\ (a \o b)[i] = a[i]
                                    \/ i - Len(a) \in DOMAIN b /\ (a \o b)[i] = b[i - Len(a)]
  BY <1>1, <1>2, <1>3
<1>5. ASSUME NEW x \in ToSet(a) \cup ToSet(b) PROVE x \in ToSet(a \o b)
  <2>1. \/ \E i \in DOMAIN a : x = a[i]
        \/ \E i \in DOMAIN b : x = b[i]
    BY <1>5 DEF ToSet
  <2>2. \E i \in DOMAIN (a \o b) : x = (a \o b)[i]
    BY <1>4, <2>1
  <2> QED BY <2>2 DEF ToSet
<1>6. ASSUME NEW x \in ToSet(a \o b) PROVE x \in ToSet(a) \cup ToSet(b)
  <2>1. PICK i \in DOMAIN (a \o b) : x = (a \o b)[i]
    BY <1>6 DEF ToSet
  <2>2. \/ \E j \in DOMAIN a : x = a[j]
        \/ \E j \in DOMAIN b : x = b[j]
    BY <1>4, <2>1
  <2> QED BY <2>2 DEF ToSet
<1> QED BY <1>1, <1>5, <1>6

\* FlattenSeq puts sequences one behind the other: what it does, as a function.
Behind(ss, f, m) == \A i \in 1..m : f[i] = IF i = 1 THEN ss[i] ELSE f[i - 1] \o ss[i]

\* FlattenSeq joins the sequences one after the other.
LEMMA BehindIs ==
    ASSUME NEW S, NEW ss \in Seq(Seq(S)), ss # <<>>
    PROVE  /\ \E f : f = [i \in 1..Len(ss) |-> IF i = 1 THEN ss[i] ELSE f[i - 1] \o ss[i]]
<1> DEFINE n == Len(ss)
           Good == {m \in Nat : m <= n => \E f \in [1..n -> Seq(S)] : Behind(ss, f, m)}
<1>1. n \in Nat /\ n # 0 /\ \A i \in 1..n : ss[i] \in Seq(S)
  BY SeqIs
<1> HIDE DEF n
<1>2. 0 \in Good
  <2>1. [i \in 1..n |-> <<>>] \in [1..n -> Seq(S)]
    OBVIOUS
  <2>2. Behind(ss, [i \in 1..n |-> <<>>], 0)
    BY DEF Behind
  <2> QED BY <2>1, <2>2
<1>3. ASSUME NEW m \in Nat, m \in Good PROVE m + 1 \in Good
  <2> SUFFICES ASSUME m + 1 <= n PROVE \E f \in [1..n -> Seq(S)] : Behind(ss, f, m + 1)
    OBVIOUS
  <2>1. PICK f \in [1..n -> Seq(S)] : Behind(ss, f, m)
    BY <1>1, <1>3
  <2> HIDE DEF Good
  <2> DEFINE e == IF m = 0 THEN ss[1] ELSE f[m] \o ss[m + 1]
             g == [f EXCEPT ![m + 1] = e]
  <2>2. m + 1 \in 1..n /\ 1 \in 1..n /\ (m # 0 => m \in 1..n)
    BY <1>1
  <2>3. e \in Seq(S)
    <3>1. CASE m = 0
      BY <1>1, <2>2, <3>1
    <3>2. CASE m # 0
      <4>1. f[m] \in Seq(S) /\ ss[m + 1] \in Seq(S)
        BY <1>1, <2>2, <3>2
      <4> QED BY <3>2, <4>1, ConcatIs
    <3> QED BY <3>1, <3>2
  <2> HIDE DEF e
  <2>4. g \in [1..n -> Seq(S)] /\ g[m + 1] = e
    BY <2>2, <2>3
  <2>5. \A i \in 1..m : g[i] = f[i]
    BY <1>1, <2>2
  <2> HIDE DEF g
  <2>6. ASSUME NEW i \in 1..(m + 1) PROVE g[i] = IF i = 1 THEN ss[i] ELSE g[i - 1] \o ss[i]
    <3>1. CASE i = m + 1
      <4>1. CASE m = 0
        BY <2>4, <3>1, <4>1 DEF e
      <4>2. CASE m # 0
        <5>1. i - 1 = m /\ m \in 1..m /\ i # 1
          BY <3>1, <4>2
        <5> QED BY <2>4, <2>5, <3>1, <4>2, <5>1 DEF e
      <4> QED BY <4>1, <4>2
    <3>2. CASE i # m + 1
      <4>1. i \in 1..m /\ (i # 1 => i - 1 \in 1..m)
        BY <3>2
      <4>2. f[i] = IF i = 1 THEN ss[i] ELSE f[i - 1] \o ss[i]
        BY <2>1, <4>1 DEF Behind
      <4> QED BY <2>5, <4>1, <4>2
    <3> QED BY <3>1, <3>2
  <2>7. Behind(ss, g, m + 1)
    BY <2>6 DEF Behind
  <2> QED BY <2>4, <2>7
<1>4. Good \in SUBSET Nat
  OBVIOUS
<1>5. n \in Good
  <2> HIDE DEF Good
  <2>1. \A m \in Good : m + 1 \in Good
    BY <1>3, <1>4
  <2> QED BY <1>1, <1>2, <1>4, <2>1, SetInduction
<1>6. PICK f \in [1..n -> Seq(S)] : Behind(ss, f, n)
  BY <1>1, <1>5
<1>7. f = [i \in 1..n |-> IF i = 1 THEN ss[i] ELSE f[i - 1] \o ss[i]]
  BY <1>6 DEF Behind
<1> QED BY <1>7 DEF n

LEMMA FlattenIs ==
    ASSUME NEW S, NEW ss \in Seq(Seq(S))
    PROVE  /\ FlattenSeq(ss) \in Seq(S)
           /\ ToSet(FlattenSeq(ss)) = UNION {ToSet(ss[i]) : i \in DOMAIN ss}
<1> DEFINE n == Len(ss)
           flatten == CHOOSE f : f = [i \in 1..Len(ss) |-> IF i = 1 THEN ss[i] ELSE f[i - 1] \o ss[i]]
           Sets(m) == UNION {ToSet(ss[i]) : i \in 1..m}
           Done == {m \in Nat : m + 1 \in 1..n =>
                      flatten[m + 1] \in Seq(S) /\ ToSet(flatten[m + 1]) = Sets(m + 1)}
<1>1. n \in Nat /\ DOMAIN ss = 1..n /\ \A i \in 1..n : ss[i] \in Seq(S)
  BY SeqIs
<1>2. CASE ss = <<>>
  <2>1. FlattenSeq(ss) = <<>> /\ DOMAIN ss = {} /\ DOMAIN <<>> = {}
    BY <1>2 DEF FlattenSeq
  <2>2. ToSet(<<>>) = {}
    BY <2>1 DEF ToSet
  <2>3. <<>> \in Seq(S) /\ UNION {ToSet(ss[i]) : i \in {}} = {}
    OBVIOUS
  <2> QED BY <2>1, <2>2, <2>3
<1>3. CASE ss # <<>>
  <2>1. flatten = [i \in 1..Len(ss) |-> IF i = 1 THEN ss[i] ELSE flatten[i - 1] \o ss[i]]
    BY <1>3, BehindIs
  <2>2. FlattenSeq(ss) = flatten[n]
    BY <1>3 DEF FlattenSeq
  <2> HIDE DEF flatten
  <2>3. \A i \in 1..n : flatten[i] = IF i = 1 THEN ss[i] ELSE flatten[i - 1] \o ss[i]
    BY <2>1
  <2>4. n # 0
    BY <1>3
  <2> HIDE DEF n
  <2>5. 0 \in Done
    <3>1. 0 + 1 \in 1..n /\ 0 + 1 = 1 /\ 1..1 = {1}
      BY <1>1, <2>4
    <3>2. flatten[1] = ss[1]
      BY <2>3, <3>1
    <3> QED BY <1>1, <3>1, <3>2
  <2>6. ASSUME NEW m \in Nat, m \in Done PROVE m + 1 \in Done
    <3> SUFFICES ASSUME m + 1 + 1 \in 1..n
                 PROVE  flatten[m + 1 + 1] \in Seq(S) /\ ToSet(flatten[m + 1 + 1]) = Sets(m + 1 + 1)
      OBVIOUS
    <3>1. m + 1 \in 1..n /\ m + 1 + 1 # 1 /\ m + 1 + 1 - 1 = m + 1
      BY <1>1
    <3>2. flatten[m + 1] \in Seq(S) /\ ToSet(flatten[m + 1]) = Sets(m + 1)
      BY <2>6, <3>1
    <3> HIDE DEF Done
    <3> HIDE DEF Sets
    <3>3. flatten[m + 1 + 1] = IF m + 1 + 1 = 1 THEN ss[m + 1 + 1] ELSE flatten[m + 1 + 1 - 1] \o ss[m + 1 + 1]
      BY <2>3
    <3>4. flatten[m + 1 + 1] = flatten[m + 1] \o ss[m + 1 + 1] /\ ss[m + 1 + 1] \in Seq(S)
      BY <1>1, <3>1, <3>3
    <3>5. /\ flatten[m + 1 + 1] \in Seq(S)
          /\ ToSet(flatten[m + 1 + 1]) = Sets(m + 1) \cup ToSet(ss[m + 1 + 1])
      BY <3>2, <3>4, ConcatIs
    <3>6. 1..(m + 1 + 1) = (1..(m + 1)) \cup {m + 1 + 1}
      BY <3>1
    <3>7. Sets(m + 1 + 1) = Sets(m + 1) \cup ToSet(ss[m + 1 + 1])
      BY <3>6 DEF Sets
    <3> QED BY <3>5, <3>7
  <2>7. Done \in SUBSET Nat
    OBVIOUS
  <2>8. n - 1 \in Nat /\ n - 1 + 1 = n /\ n \in 1..n
    BY <1>1, <2>4
  <2>9. n - 1 \in Done
    <3> HIDE DEF Done
    <3>1. \A m \in Done : m + 1 \in Done
      BY <2>6, <2>7
    <3> QED BY <2>5, <2>7, <2>8, <3>1, SetInduction
  <2>10. flatten[n] \in Seq(S) /\ ToSet(flatten[n]) = Sets(n)
    BY <2>8, <2>9
  <2> QED BY <1>1, <2>2, <2>10
<1> QED BY <1>2, <1>3

-----------------------------------------------------------------------------
(* Texts and items.                                                        *)

\* Some kinds of items do not overlap, in the order of the file.
Apart(items, kinds) ==
    \A i, j \in DOMAIN items : i < j /\ items[i].kind \in kinds /\ items[j].kind \in kinds =>
        items[i].last < items[j].first
MMEs == {"methodmap", "enum_struct"}

\* What a text of a document is made of.
GoodText(text) ==
    /\ text.uses \subseteq Token /\ text.items \in Seq(SPItem) /\ text.includes \subseteq Doc
    /\ \A i \in DOMAIN text.items :
         LET item == text.items[i]
         IN  /\ item.key \in Seq(STRING) /\ item.key # <<>> /\ Last(item.key) # ""
             /\ item.first \in Nat /\ item.last \in Nat /\ item.first <= item.last
             /\ TokenOf(item) \in text.uses
    /\ text.offsets \in [DOMAIN text.offsets -> Seq(Offset)]
    /\ \A token \in text.uses : token.line \notin DOMAIN text.offsets => token.src = token.col
    /\ Apart(text.items, {"function"}) /\ Apart(text.items, MMEs)

\* The texts documents may have are well-formed: the assumption, by parts.
LEMMA TextIs ==
    ASSUME NEW text \in AnyText
    PROVE  GoodText(text)
<1>1. CASE text = Nothing
  <2>1. text.items = <<>> /\ text.uses = {} /\ text.includes = {} /\ DOMAIN text.items = {}
    BY <1>1 DEF Nothing
  <2>2. text.offsets = NoOffsets /\ NoOffsets \in [DOMAIN NoOffsets -> Seq(Offset)]
    BY <1>1 DEF Nothing, NoOffsets
  <2> QED BY <2>1, <2>2 DEF GoodText, Apart
<1>2. CASE text # Nothing
  <2>1. PICK d \in Doc : text \in Texts[d]
    <3>1. text \in UNION {Texts[d] : d \in Doc}
      BY <1>2 DEF AnyText
    <3> QED BY <3>1
  <2>2. /\ text.includes \subseteq Doc /\ text.uses \subseteq Token /\ text.items \in Seq(SPItem)
        /\ text.offsets \in [DOMAIN text.offsets -> Seq(Offset)]
        /\ \A token \in text.uses : token.line \notin DOMAIN text.offsets => token.src = token.col
        /\ \A item \in ToSet(text.items) :
             /\ item.key # <<>> /\ Last(item.key) # "" /\ item.first <= item.last
             /\ TokenOf(item) \in text.uses
    BY <2>1, TextsAssumption
  <2>3. \A kinds \in {{"function"}, {"methodmap", "enum_struct"}} : Apart(text.items, kinds)
    BY <2>1, TextsAssumption DEF Apart
  <2>4. ASSUME NEW i \in DOMAIN text.items
        PROVE  /\ text.items[i] \in ToSet(text.items)
               /\ text.items[i].key \in Seq(STRING) /\ text.items[i].first \in Nat /\ text.items[i].last \in Nat
    <3>1. text.items[i] \in ToSet(text.items) /\ text.items[i] \in SPItem
      BY <2>2, SeqIs DEF ToSet
    <3> QED BY <3>1 DEF SPItem
  <2> QED BY <2>2, <2>3, <2>4 DEF GoodText, MMEs
<1> QED BY <1>1, <1>2

\* The items of a document have a place in its text.
IdAt(d, doc, i) == [doc |-> d, opening |-> doc.opening, key |-> doc.text.items[i].key]
LEMMA ItemsAre ==
    ASSUME NEW d, NEW doc
    PROVE  /\ DOMAIN ItemsOf(d, doc) = DOMAIN doc.text.items
           /\ \A i \in DOMAIN doc.text.items : ItemsOf(d, doc)[i] = IdAt(d, doc, i)
           /\ ToSet(ItemsOf(d, doc)) = {IdAt(d, doc, i) : i \in DOMAIN doc.text.items}
  BY DEF ItemsOf, ToSet, IdAt

\* They are ids.
LEMMA ItemsAreIds ==
    ASSUME NEW d \in Doc, NEW doc, doc.text \in AnyText, doc.opening \in Nat
    PROVE  ItemsOf(d, doc) \in Seq(Id)
<1> DEFINE items == ItemsOf(d, doc)
<1>1. doc.text.items \in Seq(SPItem) /\ \A i \in DOMAIN doc.text.items : doc.text.items[i].key \in Seq(STRING)
  BY TextIs DEF GoodText
<1>2. Len(doc.text.items) \in Nat /\ DOMAIN doc.text.items = 1..Len(doc.text.items)
  BY <1>1, SeqIs
<1>3. \A i \in DOMAIN doc.text.items : IdAt(d, doc, i) \in Id
  BY <1>1 DEF IdAt, Id
<1>4. items = [i \in 1..Len(doc.text.items) |-> IdAt(d, doc, i)]
  BY <1>2 DEF ItemsOf, IdAt
<1> QED BY <1>2, <1>3, <1>4

\* A document of the store, field by field.
DocOf(text, opening, includes, unresolved, offsets) ==
    [text |-> text, opening |-> opening, includes |-> includes, unresolved |-> unresolved, offsets |-> offsets]
IsDoc(doc) == doc = DocOf(doc.text, doc.opening, doc.includes, doc.unresolved, doc.offsets)

\* The fields of a document, and what it is when one of them changes.
LEMMA DocIs ==
    ASSUME NEW text, NEW opening, NEW includes, NEW unresolved, NEW offsets,
           NEW doc, doc = DocOf(text, opening, includes, unresolved, offsets)
    PROVE  /\ IsDoc(doc) /\ doc.text = text /\ doc.opening = opening
           /\ doc.includes = includes /\ doc.unresolved = unresolved /\ doc.offsets = offsets
  BY DEF IsDoc, DocOf
LEMMA DocChanges ==
    ASSUME NEW doc, IsDoc(doc), NEW x, NEW y, NEW z
    PROVE  /\ [doc EXCEPT !.unresolved = x] = DocOf(doc.text, doc.opening, doc.includes, x, doc.offsets)
           /\ [doc EXCEPT !.includes = y] = DocOf(doc.text, doc.opening, y, doc.unresolved, doc.offsets)
           /\ [doc EXCEPT !.offsets = z] = DocOf(doc.text, doc.opening, doc.includes, doc.unresolved, z)
<1>1. PICK a, b, c, d, e : doc = [text |-> a, opening |-> b, includes |-> c, unresolved |-> d, offsets |-> e]
  BY DEF IsDoc, DocOf
<1>2. doc.text = a /\ doc.opening = b /\ doc.includes = c /\ doc.unresolved = d /\ doc.offsets = e
  BY <1>1
<1>3. [doc EXCEPT !.unresolved = x] = [text |-> a, opening |-> b, includes |-> c, unresolved |-> x, offsets |-> e]
  BY <1>1
<1>4. [doc EXCEPT !.includes = y] = [text |-> a, opening |-> b, includes |-> y, unresolved |-> d, offsets |-> e]
  BY <1>1
<1>5. [doc EXCEPT !.offsets = z] = [text |-> a, opening |-> b, includes |-> c, unresolved |-> d, offsets |-> z]
  BY <1>1
<1> QED BY <1>2, <1>3, <1>4, <1>5 DEF DocOf

\* EndOpen changes two of them, and EndResolve two others.
LEMMA DocEnds ==
    ASSUME NEW doc, IsDoc(doc), NEW x, NEW y
    PROVE  [doc EXCEPT !.unresolved = x, !.includes = y] = DocOf(doc.text, doc.opening, y, x, doc.offsets)
<1>1. ASSUME NEW doc2, doc2 = [doc EXCEPT !.unresolved = x]
      PROVE  [doc2 EXCEPT !.includes = y] = DocOf(doc.text, doc.opening, y, x, doc.offsets)
  <2>1. doc2 = DocOf(doc.text, doc.opening, doc.includes, x, doc.offsets)
    BY <1>1, DocChanges
  <2>2. /\ IsDoc(doc2) /\ doc2.text = doc.text /\ doc2.opening = doc.opening
        /\ doc2.unresolved = x /\ doc2.offsets = doc.offsets
    BY <2>1, DocIs
  <2>3. [doc2 EXCEPT !.includes = y] = DocOf(doc2.text, doc2.opening, y, doc2.unresolved, doc2.offsets)
    BY <2>2, DocChanges
  <2> QED BY <2>2, <2>3
<1>2. [doc EXCEPT !.unresolved = x, !.includes = y] = [[doc EXCEPT !.unresolved = x] EXCEPT !.includes = y]
  OBVIOUS
<1> QED BY <1>1, <1>2
LEMMA DocResolves ==
    ASSUME NEW doc, IsDoc(doc), NEW x, NEW z
    PROVE  [doc EXCEPT !.unresolved = x, !.offsets = z] = DocOf(doc.text, doc.opening, doc.includes, x, z)
<1>1. ASSUME NEW doc2, doc2 = [doc EXCEPT !.unresolved = x]
      PROVE  [doc2 EXCEPT !.offsets = z] = DocOf(doc.text, doc.opening, doc.includes, x, z)
  <2>1. doc2 = DocOf(doc.text, doc.opening, doc.includes, x, doc.offsets)
    BY <1>1, DocChanges
  <2>2. /\ IsDoc(doc2) /\ doc2.text = doc.text /\ doc2.opening = doc.opening
        /\ doc2.includes = doc.includes /\ doc2.unresolved = x
    BY <2>1, DocIs
  <2>3. [doc2 EXCEPT !.offsets = z] = DocOf(doc2.text, doc2.opening, doc2.includes, doc2.unresolved, z)
    BY <2>2, DocChanges
  <2> QED BY <2>2, <2>3
<1>2. [doc EXCEPT !.unresolved = x, !.offsets = z] = [[doc EXCEPT !.unresolved = x] EXCEPT !.offsets = z]
  OBVIOUS
<1> QED BY <1>1, <1>2

-----------------------------------------------------------------------------
(* build_v_range.                                                          *)

\* One expansion undone, and what undoes them one by one.
Undone(col, offset) == IF offset.col < col THEN Max({col - offset.diff, 0}) ELSE col
UndoStep == [p \in Nat \X Offset |-> Undone(p[1], p[2])]
Undo(col, s) ==
    FoldLeft(LAMBDA c, offset : IF offset.col < c THEN Max({c - offset.diff, 0}) ELSE c, col, s)

\* A column never gets below 0 (saturating_sub).
LEMMA UndoTyped ==
    /\ UndoStep \in [Nat \X Offset -> Nat]
    /\ \A col \in Nat, offset \in Offset : UndoStep[<<col, offset>>] = Undone(col, offset)
<1>1. ASSUME NEW col \in Nat, NEW offset \in Offset PROVE Undone(col, offset) \in Nat
  <2>1. offset.diff \in Int
    BY DEF Offset
  <2>2. ASSUME NEW n \in Int PROVE Max({n, 0}) \in Nat
    <3>1. \E x \in {n, 0} : \A y \in {n, 0} : x >= y
      <4>1. CASE n >= 0
        BY <4>1
      <4>2. CASE ~ (n >= 0)
        BY <4>2
      <4> QED BY <4>1, <4>2
    <3>2. Max({n, 0}) \in {n, 0} /\ \A y \in {n, 0} : Max({n, 0}) >= y
      BY <3>1 DEF Max
    <3> QED BY <3>2
  <2>3. Max({col - offset.diff, 0}) \in Nat
    BY <2>1, <2>2
  <2> QED BY <2>3 DEF Undone
<1> QED BY <1>1 DEF UndoStep

\* Undoing the expansions of a line gives a column.
LEMMA UndoIs ==
    ASSUME NEW col \in Nat, NEW s \in Seq(Offset)
    PROVE  Undo(col, s) \in Nat
<1> DEFINE D == SUBSET DOMAIN s
           E(it) == it = [q \in D |->
                            IF q = {} THEN col
                            ELSE IF s[Max(q)].col < it[q \ {Max(q)}]
                                 THEN Max({it[q \ {Max(q)}] - s[Max(q)].diff, 0})
                                 ELSE it[q \ {Max(q)}]]
           fold == CHOOSE it : E(it)
<1>2. /\ UndoStep \in [Nat \X Offset -> Nat]
      /\ \A c \in Nat, offset \in Offset : UndoStep[<<c, offset>>] = Undone(c, offset)
  BY UndoTyped
<1>3. PICK f \in [D -> Nat] : FoldsSets(Nat, col, UndoStep, s, f)
  BY <1>2, FoldExists
<1>4. E(f)
  <2>1. \A q \in D : f[q] = IF q = {} THEN col ELSE Undone(f[q \ {Max(q)}], s[Max(q)])
    BY <1>2, <1>3, TakesApart DEF FoldsSets
  <2> QED BY <2>1 DEF Undone
<1>5. E(fold)
  <2> HIDE DEF E
  <2> QED BY <1>4
<1>6. FoldsSets(Nat, col, UndoStep, s, fold)
  <2> HIDE DEF fold
  <2>1. \A q \in D : fold[q] = IF q = {} THEN col ELSE Undone(fold[q \ {Max(q)}], s[Max(q)])
    BY <1>5 DEF Undone
  <2> QED BY <1>2, <2>1, TakesApart DEF FoldsSets
<1>7. Undo(col, s) = fold[DOMAIN s]
  BY DEF Undo, FoldLeft, MapThenFoldSet
<1>8. FoldsTo(Nat, col, UndoStep, s, fold[DOMAIN s])
  <2> HIDE DEF fold
  <2> QED BY <1>2, <1>6, FoldOfSets
<1>9. fold[DOMAIN s] \in Nat
  <2> HIDE DEF fold
  <2>1. PICK a : FoldsSegments(Nat, col, UndoStep, s, a) /\ fold[DOMAIN s] = a[Len(s)]
    BY <1>8 DEF FoldsTo
  <2>2. SameFolds(Nat, s, a, a)
    BY <1>2, <2>1, FoldUnique
  <2>3. Len(s) \in 0..Len(s)
    BY SeqIs
  <2> QED BY <2>1, <2>2, <2>3 DEF SameFolds
<1> QED BY <1>7, <1>9

\* What the user sees is a place, on the line of the token; where no macro is
\* expanded, it is the place in the preprocessed text.
LEMMA BuildIs ==
    ASSUME NEW offsets, offsets \in [DOMAIN offsets -> Seq(Offset)], NEW token \in Token
    PROVE  /\ BuildVRange(offsets, token) \in Nat \X Nat
           /\ BuildVRange(offsets, token)[1] = token.line
           /\ token.line \notin DOMAIN offsets => BuildVRange(offsets, token) = <<token.line, token.col>>
<1>1. token.line \in Nat /\ token.col \in Nat
  BY DEF Token
<1>2. CASE token.line \notin DOMAIN offsets
  <2>1. BuildVRange(offsets, token) = <<token.line, token.col>>
    BY <1>2 DEF BuildVRange
  <2> QED BY <1>1, <2>1
<1>3. CASE token.line \in DOMAIN offsets
  <2>1. BuildVRange(offsets, token) = <<token.line, Undo(token.col, offsets[token.line])>>
    BY <1>3 DEF BuildVRange, Undo
  <2>2. Undo(token.col, offsets[token.line]) \in Nat
    BY <1>1, <1>3, UndoIs
  <2> QED BY <1>1, <1>3, <2>1, <2>2
<1> QED BY <1>2, <1>3

\* The documents of the store.
StoreTyped ==
    /\ DOMAIN store \subseteq Doc /\ opens \in Nat
    /\ \A d \in DOMAIN store :
         /\ IsDoc(store[d])
         /\ store[d].text \in Texts[d] \cup {Nothing}
         /\ store[d].opening \in Nat /\ store[d].opening <= opens
         /\ store[d].includes \subseteq store[d].text.includes
         /\ store[d].offsets \in {store[d].text.offsets, NoOffsets}

\* The documents of the store have well-formed texts.
LEMMA StoreTexts ==
    ASSUME StoreTyped, NEW d \in DOMAIN store
    PROVE  d \in Doc /\ store[d].text \in AnyText /\ store[d].opening \in Nat
<1>1. d \in Doc /\ store[d].text \in Texts[d] \cup {Nothing} /\ store[d].opening \in Nat
  BY DEF StoreTyped
<1>2. Texts[d] \subseteq UNION {Texts[o] : o \in Doc}
  BY <1>1
<1> QED BY <1>1, <1>2 DEF AnyText

\* An item of the store.
OfItem(id) ==
    /\ id \in Id /\ id.doc \in DOMAIN store /\ id.opening = store[id.doc].opening
    /\ id \in ToSet(ItemsOf(id.doc, store[id.doc]))
    /\ Item(id) \in ToSet(store[id.doc].text.items) /\ Item(id).key = id.key
    /\ TokenOf(Item(id)).name = NameOf(id)
    /\ TokenOf(Item(id)) \in store[id.doc].text.uses

\* An item of the store has its document there, and a place in its text.
LEMMA LiveIs ==
    ASSUME StoreTyped, NEW id \in Live
    PROVE  OfItem(id)
<1>1. PICK d \in DOMAIN store : id \in ToSet(ItemsOf(d, store[d]))
  BY DEF Live
<1>2. PICK i \in DOMAIN store[d].text.items : id = IdAt(d, store[d], i)
  BY <1>1, ItemsAre
<1>3. id.doc = d /\ id.opening = store[d].opening /\ id.key = store[d].text.items[i].key
  BY <1>2 DEF IdAt
<1> DEFINE items == store[d].text.items
           I == {j \in 1..Len(items) : items[j].key = id.key}
<1>4. GoodText(store[d].text) /\ d \in Doc /\ store[d].opening \in Nat
  BY StoreTexts, TextIs
<1>5. items \in Seq(SPItem) /\ Len(items) \in Nat /\ DOMAIN items = 1..Len(items)
  BY <1>4, SeqIs DEF GoodText
<1>6. I # {} /\ I \in SUBSET DOMAIN items
  BY <1>3, <1>5
<1>7. Min(I) \in I
  BY <1>5, <1>6, PlacesHaveEnds
<1>8. Item(id) = items[Min(I)]
  BY <1>3, <1>6 DEF Item, SelectInSeq
<1>9. Item(id) \in ToSet(items) /\ Item(id).key = id.key
  BY <1>5, <1>7, <1>8 DEF ToSet
<1>10. TokenOf(Item(id)) \in store[d].text.uses
  BY <1>4, <1>5, <1>7, <1>8 DEF GoodText
<1>11. TokenOf(Item(id)).name = NameOf(id)
  BY <1>9 DEF TokenOf, NameOf
<1>12. id \in Id
  BY <1>2, <1>3, <1>4 DEF IdAt, Id, GoodText
<1> QED BY <1>1, <1>3, <1>9, <1>10, <1>11, <1>12 DEF OfItem
-----------------------------------------------------------------------------
(* Looking items up.                                                       *)

\* Lookup finds items with the key, and one when there is one.
LEMMA LookupIs ==
    ASSUME NEW items \in Seq(Id), NEW key
    PROVE  /\ \A id \in Lookup(items, key) : id \in ToSet(items) /\ id.key = key
           /\ (\E id \in ToSet(items) : id.key = key) => Lookup(items, key) # {}
<1> DEFINE I == {j \in 1..Len(items) : items[j].key = key}
<1>1. Len(items) \in Nat /\ DOMAIN items = 1..Len(items)
  BY SeqIs
<1>2. CASE I = {}
  <2>1. Lookup(items, key) = {}
    BY <1>2 DEF Lookup, SelectLastInSeq
  <2>2. ~ \E id \in ToSet(items) : id.key = key
    BY <1>1, <1>2 DEF ToSet
  <2> QED BY <2>1, <2>2
<1>3. CASE I # {}
  <2>1. Max(I) \in I /\ I \in SUBSET DOMAIN items
    BY <1>1, <1>3, PlacesHaveEnds
  <2>2. Max(I) # 0
    BY <1>1, <2>1
  <2>3. Lookup(items, key) = {items[Max(I)]}
    BY <1>3, <2>2 DEF Lookup, SelectLastInSeq
  <2>4. items[Max(I)] \in ToSet(items) /\ items[Max(I)].key = key
    BY <2>1 DEF ToSet
  <2> QED BY <2>3, <2>4
<1> QED BY <1>2, <1>3

\* FirstFound finds items with one of the keys, and one when there is one.
LEMMA FirstFoundIs ==
    ASSUME NEW items \in Seq(Id), NEW S, NEW keys \in Seq(S)
    PROVE  /\ \A id \in FirstFound(items, keys) : id \in ToSet(items) /\ \E i \in DOMAIN keys : id.key = keys[i]
           /\ (\E i \in DOMAIN keys : \E id \in ToSet(items) : id.key = keys[i]) => FirstFound(items, keys) # {}
<1> DEFINE I == {i \in DOMAIN keys : Lookup(items, keys[i]) # {}}
<1>1. CASE I = {}
  <2>1. FirstFound(items, keys) = {}
    BY <1>1 DEF FirstFound
  <2>2. \A i \in DOMAIN keys : ~ \E id \in ToSet(items) : id.key = keys[i]
    BY <1>1, LookupIs
  <2> QED BY <2>1, <2>2
<1>2. CASE I # {}
  <2>1. Min(I) \in I
    BY <1>2, PlacesHaveEnds
  <2>2. FirstFound(items, keys) = Lookup(items, keys[Min(I)])
    BY <1>2 DEF FirstFound
  <2>3. \A id \in Lookup(items, keys[Min(I)]) : id \in ToSet(items) /\ id.key = keys[Min(I)]
    BY LookupIs
  <2>4. Min(I) \in DOMAIN keys /\ Lookup(items, keys[Min(I)]) # {}
    BY <2>1
  <2> HIDE DEF I
  <2>5. \A id \in FirstFound(items, keys) : id \in ToSet(items) /\ \E i \in DOMAIN keys : id.key = keys[i]
    BY <2>2, <2>3, <2>4
  <2>6. FirstFound(items, keys) # {}
    BY <2>2, <2>4
  <2> QED BY <2>5, <2>6
<1> QED BY <1>1, <1>2

\* What a name means in its scope is an item of that name, and a name that an
\* item of the top level has means one.
LEMMA MeantIs ==
    ASSUME job.items \in Seq(Id), NEW token
    PROVE  /\ \A id \in Meant(token) : id \in ToSet(job.items) /\ NameOf(id) = token.name
           /\ (\E id \in ToSet(job.items) : id.key = <<token.name>>) => Meant(token) # {}
<1> DEFINE scope == ScopeAt(token.line)
           keys == << <<scope.mm_es, scope.func, token.name>>, <<scope.func, token.name>>,
                      <<scope.mm_es, token.name>>, <<token.name>> >>
           S == {keys[i] : i \in 1..4}
<1>1. Meant(token) = FirstFound(job.items, keys)
  BY DEF Meant
<1> HIDE DEF scope
<1>2. keys \in Seq(S) /\ DOMAIN keys = 1..4 /\ keys[4] = <<token.name>>
  OBVIOUS
<1>3. ASSUME NEW i \in 1..4, NEW id \in ToSet(job.items), id.key = keys[i]
      PROVE  NameOf(id) = token.name
  <2>1. i = 1 \/ i = 2 \/ i = 3 \/ i = 4
    OBVIOUS
  <2>2. /\ Last(<<scope.mm_es, scope.func, token.name>>) = token.name
        /\ Last(<<scope.func, token.name>>) = token.name
        /\ Last(<<scope.mm_es, token.name>>) = token.name
        /\ Last(<<token.name>>) = token.name
    BY DEF Last
  <2>3. /\ keys[1] = <<scope.mm_es, scope.func, token.name>> /\ keys[2] = <<scope.func, token.name>>
        /\ keys[3] = <<scope.mm_es, token.name>> /\ keys[4] = <<token.name>>
    OBVIOUS
  <2> HIDE DEF keys
  <2>4. Last(keys[i]) = token.name
    BY <2>1, <2>2, <2>3
  <2> QED BY <1>3, <2>4 DEF NameOf
<1> HIDE DEF keys, S
<1>4. /\ \A id \in FirstFound(job.items, keys) : id \in ToSet(job.items) /\ \E i \in DOMAIN keys : id.key = keys[i]
      /\ (\E i \in DOMAIN keys : \E id \in ToSet(job.items) : id.key = keys[i]) => FirstFound(job.items, keys) # {}
  BY <1>2, FirstFoundIs
<1> QED BY <1>1, <1>2, <1>3, <1>4

\* A field that is found has the name.
LEMMA FieldIs ==
    ASSUME job.items \in Seq(Id), NEW token, NEW of
    PROVE  /\ \A id \in FirstFound(job.items, << <<of, token.name>> >>) :
                id \in ToSet(job.items) /\ NameOf(id) = token.name
           /\ \A id \in Lookup(job.items, <<of, token.name>>) :
                id \in ToSet(job.items) /\ NameOf(id) = token.name
<1> DEFINE key == <<of, token.name>>
           keys == <<key>>
<1>1. Last(key) = token.name
  BY DEF Last
<1>2. \A id : id.key = key => NameOf(id) = token.name
  BY <1>1 DEF NameOf
<1> HIDE DEF key
<1>3. keys \in Seq({key}) /\ DOMAIN keys = {1} /\ keys[1] = key
  OBVIOUS
<1> HIDE DEF keys
<1>4. \A id \in FirstFound(job.items, keys) : id \in ToSet(job.items) /\ \E i \in DOMAIN keys : id.key = keys[i]
  BY <1>3, FirstFoundIs
<1>5. \A id \in Lookup(job.items, key) : id \in ToSet(job.items) /\ id.key = key
  BY LookupIs
<1> QED BY <1>2, <1>3, <1>4, <1>5 DEF key, keys
-----------------------------------------------------------------------------
(* The find_references that runs, and what it does with a token.           *)

InScopeItems == UNION {ToSet(ItemsOf(d, store[d])) : d \in InScope}

\* get_included_files gives documents of the store only.
LEMMA InScopeIsKnown == InScope \subseteq DOMAIN store
  BY DEF InScope

\* A job, field by field.
JobOf(d, items, todo, line, previous, scope, unresolved, walk) ==
    [doc |-> d, items |-> items, todo |-> todo, line |-> line, previous |-> previous,
     scope |-> scope, unresolved |-> unresolved, walk |-> walk]

\* The tokens of the lowest line left.
Lowest(token, todo) == token \in todo /\ \A other \in todo : token.line <= other.line

JobTyped ==
    job # Idle =>
      /\ job.doc \in DOMAIN store
      /\ job = JobOf(job.doc, job.items, job.todo, job.line, job.previous, job.scope, job.unresolved, job.walk)
      /\ job.items \in Seq(Id) /\ ToSet(job.items) = InScopeItems
      /\ job.todo \subseteq store[job.doc].text.uses
      /\ job.walk # <<>> => /\ job.walk = <<job.walk[1], job.walk[2]>>
                            /\ Lowest(job.walk[1], job.todo) /\ job.walk[1].parent # ""

\* A token is done with: it found an item of its name, or it found none, or
\* it is `this`.
Linking(token) == \E id \in Live : NameOf(id) = token.name /\ references' = Pushed(id, token)
Missing(token) ==
    /\ references' = references
    /\ token.parent = "" => ~ \E id \in ToSet(job.items) : id.key = <<token.name>>
Takes(token, previous) ==
    /\ Lowest(token, job.todo)
    /\ \/ /\ Linking(token)
          /\ job' = JobOf(job.doc, job.items, job.todo \ {token}, token.line, previous,
                          ScopeAt(token.line), job.unresolved, <<>>)
       \/ /\ Missing(token)
          /\ job' = JobOf(job.doc, job.items, job.todo \ {token}, token.line, previous,
                          ScopeAt(token.line), job.unresolved \cup {token.name}, <<>>)
       \/ /\ token.name = "this" /\ token.parent = "" /\ references' = references
          /\ job' = JobOf(job.doc, job.items, job.todo \ {token}, token.line, previous,
                          ScopeAt(token.line), job.unresolved, <<>>)
\* Or it goes on with the methodmap mm.
Walks(token, mm) ==
    /\ Lowest(token, job.todo) /\ token.parent # ""
    /\ references' = references
    /\ job' = JobOf(job.doc, job.items, job.todo, job.line, job.previous, job.scope, job.unresolved, <<token, mm>>)
TokenStep ==
    /\ job # Idle
    /\ (\E token, previous : Takes(token, previous)) \/ (\E token, mm : Walks(token, mm))
    /\ UNCHANGED <<main, store, parent, queue, after, opens, lost, again>>

\* What becomes of a job that changes in some fields.
IsJob(j) == j = JobOf(j.doc, j.items, j.todo, j.line, j.previous, j.scope, j.unresolved, j.walk)

\* The fields of a job, and what it is when one of them changes.
LEMMA JobIs ==
    ASSUME NEW d, NEW items, NEW todo, NEW line, NEW previous, NEW scope, NEW unresolved, NEW walk,
           NEW j, j = JobOf(d, items, todo, line, previous, scope, unresolved, walk)
    PROVE  /\ IsJob(j) /\ j.doc = d /\ j.items = items /\ j.todo = todo /\ j.line = line
           /\ j.previous = previous /\ j.scope = scope /\ j.unresolved = unresolved /\ j.walk = walk
  BY DEF IsJob, JobOf
LEMMA JobChanges ==
    ASSUME NEW j, IsJob(j), NEW x
    PROVE  /\ [j EXCEPT !.walk = x] =
                JobOf(j.doc, j.items, j.todo, j.line, j.previous, j.scope, j.unresolved, x)
           /\ [j EXCEPT !.previous = x] =
                JobOf(j.doc, j.items, j.todo, j.line, x, j.scope, j.unresolved, j.walk)
           /\ [j EXCEPT !.unresolved = x] =
                JobOf(j.doc, j.items, j.todo, j.line, j.previous, j.scope, x, j.walk)
<1>1. PICK a, b, c, d, e, f, g, h :
        j = [doc |-> a, items |-> b, todo |-> c, line |-> d, previous |-> e,
             scope |-> f, unresolved |-> g, walk |-> h]
  BY DEF IsJob, JobOf
<1>2. /\ j.doc = a /\ j.items = b /\ j.todo = c /\ j.line = d
      /\ j.previous = e /\ j.scope = f /\ j.unresolved = g /\ j.walk = h
  BY <1>1
<1>3. [j EXCEPT !.walk = x] =
        [doc |-> a, items |-> b, todo |-> c, line |-> d, previous |-> e,
         scope |-> f, unresolved |-> g, walk |-> x]
  BY <1>1
<1>4. [j EXCEPT !.previous = x] =
        [doc |-> a, items |-> b, todo |-> c, line |-> d, previous |-> x,
         scope |-> f, unresolved |-> g, walk |-> h]
  BY <1>1
<1>5. [j EXCEPT !.unresolved = x] =
        [doc |-> a, items |-> b, todo |-> c, line |-> d, previous |-> e,
         scope |-> f, unresolved |-> x, walk |-> h]
  BY <1>1
<1> QED BY <1>2, <1>3, <1>4, <1>5 DEF JobOf

\* The token of the walk is done with.
LEMMA JobEnds ==
    ASSUME NEW j, IsJob(j), NEW x
    PROVE  /\ [j EXCEPT !.previous = x, !.walk = <<>>] =
                JobOf(j.doc, j.items, j.todo, j.line, x, j.scope, j.unresolved, <<>>)
           /\ [j EXCEPT !.unresolved = x, !.walk = <<>>] =
                JobOf(j.doc, j.items, j.todo, j.line, j.previous, j.scope, x, <<>>)
<1>1. ASSUME NEW k, k = [j EXCEPT !.previous = x]
      PROVE  [k EXCEPT !.walk = <<>>] = JobOf(j.doc, j.items, j.todo, j.line, x, j.scope, j.unresolved, <<>>)
  <2>1. k = JobOf(j.doc, j.items, j.todo, j.line, x, j.scope, j.unresolved, j.walk)
    BY <1>1, JobChanges
  <2>2. /\ IsJob(k) /\ k.doc = j.doc /\ k.items = j.items /\ k.todo = j.todo /\ k.line = j.line
        /\ k.previous = x /\ k.scope = j.scope /\ k.unresolved = j.unresolved
    BY <2>1, JobIs
  <2>3. IsJob(k)
    BY <2>2
  <2>4. [k EXCEPT !.walk = <<>>] = JobOf(k.doc, k.items, k.todo, k.line, k.previous, k.scope, k.unresolved, <<>>)
    BY <2>3, JobChanges
  <2> QED BY <2>2, <2>4
<1>2. ASSUME NEW k, k = [j EXCEPT !.unresolved = x]
      PROVE  [k EXCEPT !.walk = <<>>] = JobOf(j.doc, j.items, j.todo, j.line, j.previous, j.scope, x, <<>>)
  <2>1. k = JobOf(j.doc, j.items, j.todo, j.line, j.previous, j.scope, x, j.walk)
    BY <1>2, JobChanges
  <2>2. /\ IsJob(k) /\ k.doc = j.doc /\ k.items = j.items /\ k.todo = j.todo /\ k.line = j.line
        /\ k.previous = j.previous /\ k.scope = j.scope /\ k.unresolved = x
    BY <2>1, JobIs
  <2>3. IsJob(k)
    BY <2>2
  <2>4. [k EXCEPT !.walk = <<>>] = JobOf(k.doc, k.items, k.todo, k.line, k.previous, k.scope, k.unresolved, <<>>)
    BY <2>3, JobChanges
  <2> QED BY <2>2, <2>4
<1>3. [j EXCEPT !.previous = x, !.walk = <<>>] = [[j EXCEPT !.previous = x] EXCEPT !.walk = <<>>]
  OBVIOUS
<1>4. [j EXCEPT !.unresolved = x, !.walk = <<>>] = [[j EXCEPT !.unresolved = x] EXCEPT !.walk = <<>>]
  OBVIOUS
<1> QED BY <1>1, <1>2, <1>3, <1>4

\* What a job is once a token is taken from it.
LEMMA MovedIs ==
    ASSUME JobTyped, job # Idle, NEW token
    PROVE  Moved(token) = JobOf(job.doc, job.items, job.todo \ {token}, token.line, Previous(token),
                                ScopeAt(token.line), job.unresolved, job.walk)
<1>1. PICK a, b, c, d, e, f, g, h :
        job = [doc |-> a, items |-> b, todo |-> c, line |-> d, previous |-> e,
               scope |-> f, unresolved |-> g, walk |-> h]
  BY DEF JobTyped, JobOf
<1>2. /\ job.doc = a /\ job.items = b /\ job.todo = c /\ job.line = d
      /\ job.previous = e /\ job.scope = f /\ job.unresolved = g /\ job.walk = h
  BY <1>1
<1> DEFINE scope == ScopeAt(token.line)
           previous == Previous(token)
<1>3. Moved(token) = [job EXCEPT !.todo = @ \ {token}, !.line = token.line, !.scope = scope, !.previous = previous]
  BY DEF Moved
<1> HIDE DEF scope, previous
<1>4. Moved(token) = [doc |-> a, items |-> b, todo |-> c \ {token}, line |-> token.line, previous |-> previous,
                      scope |-> scope, unresolved |-> g, walk |-> h]
  BY <1>1, <1>3
<1>5. Moved(token) = JobOf(job.doc, job.items, job.todo \ {token}, token.line, previous,
                           scope, job.unresolved, job.walk)
  BY <1>2, <1>4 DEF JobOf
<1> QED BY <1>5 DEF scope, previous

\* Moved(token), as far as it is used.
LEMMA MovedHas ==
    ASSUME JobTyped, job # Idle, NEW token
    PROVE  /\ IsJob(Moved(token)) /\ Moved(token).doc = job.doc /\ Moved(token).items = job.items
           /\ Moved(token).todo = job.todo \ {token} /\ Moved(token).line = token.line
           /\ Moved(token).previous = Previous(token) /\ Moved(token).scope = ScopeAt(token.line)
           /\ Moved(token).unresolved = job.unresolved /\ Moved(token).walk = job.walk
<1>1. Moved(token) = JobOf(job.doc, job.items, job.todo \ {token}, token.line, Previous(token),
                           ScopeAt(token.line), job.unresolved, job.walk)
  BY MovedIs
<1> QED BY <1>1, JobIs

\* A token whose item is found is taken from the job and linked to the item.
LEMMA FoundTakes ==
    ASSUME JobTyped, job # Idle, NEW token, Lowest(token, job.todo), NEW id \in Live, NameOf(id) = token.name,
           Found(token, id)
    PROVE  \E previous : Takes(token, previous)
<1> DEFINE previous == With(Moved(token).previous, token.name, id)
<1>1. job' = [Moved(token) EXCEPT !.previous = previous, !.walk = <<>>]
  BY DEF Found
<1> HIDE DEF previous
<1>2. job' = JobOf(job.doc, job.items, job.todo \ {token}, token.line, previous,
                   ScopeAt(token.line), job.unresolved, <<>>)
  <2>1. IsJob(Moved(token))
    BY MovedHas
  <2>2. job' = JobOf(Moved(token).doc, Moved(token).items, Moved(token).todo, Moved(token).line, previous,
                     Moved(token).scope, Moved(token).unresolved, <<>>)
    BY <1>1, <2>1, JobEnds
  <2> QED BY <2>2, MovedHas
<1>3. Linking(token)
  BY DEF Found, Linking
<1> QED BY <1>2, <1>3 DEF Takes

\* A token that is not found is taken and its name recorded; unless it is a
\* field, no item in scope has the name for a key.
LEMMA NotFoundTakes ==
    ASSUME JobTyped, job # Idle, NEW token, Lowest(token, job.todo), NotFound(token),
           token.parent = "" => ~ \E id \in ToSet(job.items) : id.key = <<token.name>>
    PROVE  \E previous : Takes(token, previous)
<1> DEFINE unresolved == Moved(token).unresolved \cup {token.name}
<1>1. job' = [Moved(token) EXCEPT !.unresolved = unresolved, !.walk = <<>>]
  BY DEF NotFound
<1>2. unresolved = job.unresolved \cup {token.name}
  BY MovedHas
<1> HIDE DEF unresolved
<1>3. job' = JobOf(job.doc, job.items, job.todo \ {token}, token.line, Previous(token),
                   ScopeAt(token.line), unresolved, <<>>)
  <2>1. IsJob(Moved(token))
    BY MovedHas
  <2>2. job' = JobOf(Moved(token).doc, Moved(token).items, Moved(token).todo, Moved(token).line,
                     Moved(token).previous, Moved(token).scope, unresolved, <<>>)
    BY <1>1, <2>1, JobEnds
  <2> QED BY <2>2, MovedHas
<1>4. Missing(token)
  BY DEF NotFound, Missing
<1> QED BY <1>2, <1>3, <1>4 DEF Takes

\* The steps of the loop take a token, or walk on to a parent.
LEMMA TokenSteps ==
    ASSUME StoreTyped, JobTyped, job # Idle,
           \/ WalkInherit
           \/ \E token \in job.todo : ResolveThis(token) \/ ResolveSymbol(token) \/ ResolveField(token)
    PROVE  TokenStep
<1>1. /\ job = JobOf(job.doc, job.items, job.todo, job.line, job.previous, job.scope, job.unresolved, job.walk)
      /\ job.items \in Seq(Id) /\ ToSet(job.items) = InScopeItems
  BY DEF JobTyped
<1>2. ToSet(job.items) \subseteq Live
  BY <1>1, InScopeIsKnown DEF InScopeItems, Live
<1>3. ASSUME NEW token \in job.todo, Turn(token) PROVE Lowest(token, job.todo) /\ job.walk = <<>>
  BY <1>3 DEF Turn, Lowest
<1>4. ASSUME NEW token \in job.todo, ResolveThis(token) PROVE TokenStep
  <2>1. Turn(token) /\ token.name = "this" /\ token.parent = ""
    BY <1>4 DEF ResolveThis
  <2>2. Lowest(token, job.todo) /\ job.walk = <<>>
    BY <1>3, <2>1
  <2>3. references' = references /\ UNCHANGED <<main, store, parent, queue, after, opens, lost, again>>
    BY <1>4 DEF ResolveThis
  <2>4. /\ IsJob(Moved(token))
        /\ \A previous : [Moved(token) EXCEPT !.previous = previous] =
                          JobOf(job.doc, job.items, job.todo \ {token}, token.line, previous,
                                ScopeAt(token.line), job.unresolved, <<>>)
        /\ Moved(token) = JobOf(job.doc, job.items, job.todo \ {token}, token.line, Previous(token),
                                ScopeAt(token.line), job.unresolved, <<>>)
    <3>1. IsJob(Moved(token))
      BY MovedHas
    <3>2. \A previous : [Moved(token) EXCEPT !.previous = previous] =
             JobOf(Moved(token).doc, Moved(token).items, Moved(token).todo, Moved(token).line, previous,
                   Moved(token).scope, Moved(token).unresolved, Moved(token).walk)
      BY <3>1, JobChanges
    <3>3. /\ Moved(token).doc = job.doc /\ Moved(token).items = job.items
          /\ Moved(token).todo = job.todo \ {token} /\ Moved(token).line = token.line
          /\ Moved(token).scope = ScopeAt(token.line)
          /\ Moved(token).unresolved = job.unresolved /\ Moved(token).walk = <<>>
      BY <2>2, MovedHas
    <3>4. Moved(token) = JobOf(job.doc, job.items, job.todo \ {token}, token.line, Previous(token),
                               ScopeAt(token.line), job.unresolved, <<>>)
      BY <2>2, MovedIs
    <3> QED BY <3>1, <3>2, <3>3, <3>4
  <2>5. \E previous : job' = JobOf(job.doc, job.items, job.todo \ {token}, token.line, previous,
                                   ScopeAt(token.line), job.unresolved, <<>>)
    <3>1. job' = Moved(token) \/ \E previous : job' = [Moved(token) EXCEPT !.previous = previous]
      BY <1>4 DEF ResolveThis
    <3> QED BY <2>4, <3>1
  <2>6. \E previous : Takes(token, previous)
    BY <2>1, <2>2, <2>3, <2>5 DEF Takes
  <2> QED BY <2>3, <2>6 DEF TokenStep
<1>5. ASSUME NEW token \in job.todo, ResolveSymbol(token) PROVE TokenStep
  <2>1. Turn(token) /\ UNCHANGED <<main, store, parent, queue, after, opens, lost, again>>
    BY <1>5 DEF ResolveSymbol
  <2>2. Lowest(token, job.todo)
    BY <1>3, <2>1
  <2>3. CASE Meant(token) = {} /\ NotFound(token)
    <3>1. ~ \E id \in ToSet(job.items) : id.key = <<token.name>>
      BY <1>1, <2>3, MeantIs
    <3> QED BY <2>1, <2>2, <2>3, <3>1, NotFoundTakes DEF TokenStep
  <2>4. ASSUME NEW id \in Meant(token), NEW ctor, ctor = {} \/ ctor = Constructor(id),
               NEW target \in IF ctor = {} THEN {id} ELSE ctor, Found(token, target)
        PROVE  TokenStep
    <3>1. id \in ToSet(job.items) /\ NameOf(id) = token.name
      BY <1>1, <2>4, MeantIs
    <3>2. CASE target = id
      <4>1. target \in Live /\ NameOf(target) = token.name
        BY <1>2, <3>1, <3>2
      <4> QED BY <2>1, <2>2, <2>4, <4>1, FoundTakes DEF TokenStep
    <3>3. CASE target # id
      <4>1. target \in Constructor(id)
        BY <2>4, <3>3
      <4>2. target \in Live /\ target = [id EXCEPT !.key = <<NameOf(id), NameOf(id)>>]
        BY <4>1 DEF Constructor
      <4>3. id \in Id
        BY <1>2, <3>1, LiveIs DEF OfItem
      <4>4. target.key = <<NameOf(id), NameOf(id)>>
        BY <4>2, <4>3 DEF Id
      <4>5. NameOf(target) = NameOf(id)
        <5>1. \A name : Last(<<name, name>>) = name
          BY DEF Last
        <5>2. NameOf(target) = Last(<<NameOf(id), NameOf(id)>>)
          BY <4>4 DEF NameOf
        <5> QED BY <5>1, <5>2
      <4> QED BY <2>1, <2>2, <2>4, <3>1, <4>2, <4>5, FoundTakes DEF TokenStep
    <3> QED BY <3>2, <3>3
  <2> QED BY <1>5, <2>3, <2>4 DEF ResolveSymbol
<1>6. ASSUME NEW token \in job.todo, ResolveField(token) PROVE TokenStep
  <2>1. Turn(token) /\ UNCHANGED <<main, store, parent, queue, after, opens, lost, again>> /\ token.parent # ""
    BY <1>6 DEF ResolveField
  <2>2. Lowest(token, job.todo)
    BY <1>3, <2>1
  <2>3. CASE NotFound(token)
    BY <2>1, <2>2, <2>3, NotFoundTakes DEF TokenStep
  <2>4. ASSUME NEW id, NEW field \in Field(id, token), Found(token, field) PROVE TokenStep
    <3>1. field \in Live /\ NameOf(field) = token.name
      BY <1>1, <1>2, <2>4, FieldIs DEF Field
    <3> QED BY <2>1, <2>2, <2>4, <3>1, FoundTakes DEF TokenStep
  <2>5. ASSUME NEW mm, job' = [job EXCEPT !.walk = <<token, mm>>], references' = references PROVE TokenStep
    <3>1. job' = JobOf(job.doc, job.items, job.todo, job.line, job.previous, job.scope, job.unresolved, <<token, mm>>)
      BY <1>1, <2>5, JobChanges DEF IsJob
    <3>2. Walks(token, mm)
      BY <2>1, <2>2, <2>5, <3>1 DEF Walks
    <3> QED BY <2>1, <3>2 DEF TokenStep
  <2> QED BY <1>6, <2>3, <2>4, <2>5 DEF ResolveField
<1>7. CASE WalkInherit
  <2> DEFINE token == job.walk[1]
             mm == job.walk[2]
  <2>1. job.walk # <<>> /\ UNCHANGED <<main, store, parent, queue, after, opens, lost, again>>
    BY <1>7 DEF WalkInherit
  <2>2. Lowest(token, job.todo) /\ token.parent # ""
    BY <2>1 DEF JobTyped
  <2>3. \/ NotFound(token)
        \/ \E id \in Lookup(job.items, <<NameOf(parent[mm]), token.name>>) : Found(token, id)
        \/ job' = [job EXCEPT !.walk[2] = parent[mm]] /\ references' = references
    BY <1>7 DEF WalkInherit
  <2> HIDE DEF mm
  <2>4. CASE NotFound(token)
    BY <2>1, <2>2, <2>4, NotFoundTakes DEF TokenStep
  <2>5. ASSUME NEW id \in Lookup(job.items, <<NameOf(parent[mm]), token.name>>), Found(token, id) PROVE TokenStep
    <3>1. id \in Live /\ NameOf(id) = token.name
      BY <1>1, <1>2, <2>5, FieldIs
    <3> QED BY <2>1, <2>2, <2>5, <3>1, FoundTakes DEF TokenStep
  <2>6. CASE job' = [job EXCEPT !.walk[2] = parent[mm]] /\ references' = references
    <3>1. job' = [job EXCEPT !.walk = [job.walk EXCEPT ![2] = parent[mm]]]
      BY <2>6
    <3>2. [job.walk EXCEPT ![2] = parent[mm]] = <<token, parent[mm]>>
      <4>1. PICK second : job.walk = <<token, second>>
        BY <2>1 DEF JobTyped
      <4> HIDE DEF token
      <4> QED BY <4>1
    <3> HIDE DEF token
    <3>3. job' = JobOf(job.doc, job.items, job.todo, job.line, job.previous, job.scope, job.unresolved,
                       <<token, parent[mm]>>)
      <4>1. IsJob(job)
        BY <1>1 DEF IsJob
      <4>2. job' = [job EXCEPT !.walk = <<token, parent[mm]>>]
        BY <3>1, <3>2
      <4> QED BY <4>1, <4>2, JobChanges
    <3>4. Walks(token, parent[mm])
      BY <2>2, <2>6, <3>3 DEF Walks
    <3> QED BY <2>1, <3>4 DEF TokenStep
  <2> QED BY <2>3, <2>4, <2>5, <2>6
<1> QED BY <1>4, <1>5, <1>6, <1>7
-----------------------------------------------------------------------------
(* Types.                                                                  *)

\* What the analyzer is given: the items of the documents in scope.
LEMMA AllItemsAre ==
    ASSUME StoreTyped, NEW order \in SetToSeqs(InScope)
    PROVE  AllItems(order) \in Seq(Id) /\ ToSet(AllItems(order)) = InScopeItems
<1> DEFINE ss == [i \in DOMAIN order |-> ItemsOf(order[i], store[order[i]])]
<1>1. InScope \subseteq DOMAIN store /\ DOMAIN store \subseteq Doc /\ IsFiniteSet(Doc)
  BY InScopeIsKnown, TextsAssumption DEF StoreTyped
<1>2. IsFiniteSet(InScope)
  BY <1>1, FS_Subset
<1>3. order \in Seq(InScope) /\ ToSet(order) = InScope
  BY <1>2, OrderHasAll
<1>4. DOMAIN order = 1..Len(order) /\ Len(order) \in Nat /\ \A i \in DOMAIN order : order[i] \in InScope
  BY <1>3, SeqIs
<1>5. \A d \in InScope : ItemsOf(d, store[d]) \in Seq(Id)
  BY <1>1, StoreTexts, ItemsAreIds
<1>6. ss \in Seq(Seq(Id)) /\ DOMAIN ss = DOMAIN order
  BY <1>4, <1>5
<1>7. FlattenSeq(ss) \in Seq(Id) /\ ToSet(FlattenSeq(ss)) = UNION {ToSet(ss[i]) : i \in DOMAIN ss}
  BY <1>6, FlattenIs
<1>8. AllItems(order) = FlattenSeq(ss)
  BY DEF AllItems
<1>9. UNION {ToSet(ss[i]) : i \in DOMAIN ss} = InScopeItems
  <2>1. \A i \in DOMAIN order : ToSet(ss[i]) = ToSet(ItemsOf(order[i], store[order[i]]))
    OBVIOUS
  <2>2. InScope = {order[i] : i \in DOMAIN order}
    BY <1>3 DEF ToSet
  <2> HIDE DEF ss
  <2>3. ASSUME NEW i \in DOMAIN ss PROVE ToSet(ss[i]) \subseteq InScopeItems
    BY <1>4, <1>6, <2>1 DEF InScopeItems
  <2>4. ASSUME NEW d \in InScope PROVE ToSet(ItemsOf(d, store[d])) \subseteq UNION {ToSet(ss[i]) : i \in DOMAIN ss}
    <3>1. PICK i \in DOMAIN order : d = order[i]
      BY <2>2
    <3>2. ToSet(ss[i]) = ToSet(ItemsOf(d, store[d]))
      BY <2>1, <3>1
    <3> QED BY <1>6, <3>2
  <2> QED BY <2>3, <2>4 DEF InScopeItems
<1> QED BY <1>7, <1>8, <1>9

RefsTyped ==
    /\ DOMAIN references = Live
    /\ \A id \in Live : references[id] \subseteq Use

\* The document that is being opened is the one opened last.
AfterTyped ==
    after # None =>
      /\ after.doc \in DOMAIN store
      /\ after = [doc |-> after.doc, sync |-> after.sync, previous |-> after.previous, remove |-> after.remove]
      /\ \A d \in DOMAIN store : store[d].opening = opens => d = after.doc
      /\ after.remove => store[after.doc].text = Nothing

Types ==
    /\ main \in Mains /\ opens \in 0..MaxOpens
    /\ StoreTyped /\ RefsTyped /\ JobTyped /\ AfterTyped
    /\ queue \subseteq DOMAIN store /\ again \subseteq Doc

\* A step that leaves what the documents say and include leaves the items.
SameTexts ==
    /\ main' = main /\ DOMAIN store' = DOMAIN store
    /\ \A d \in DOMAIN store : /\ store'[d].text = store[d].text /\ store'[d].opening = store[d].opening
                               /\ store'[d].includes = store[d].includes

\* As long as no text changes, the items and the scope stay what they are.
LEMMA ItemsStay ==
    ASSUME SameTexts
    PROVE  /\ Live' = Live /\ InScope' = InScope /\ InScopeItems' = InScopeItems
           /\ \A id \in Live : id.doc \in DOMAIN store => Item(id)' = Item(id)
           /\ \A d \in DOMAIN store : ItemsOf(d, store'[d]) = ItemsOf(d, store[d])
<1>1. \A d \in DOMAIN store : ItemsOf(d, store'[d]) = ItemsOf(d, store[d])
  BY DEF SameTexts, ItemsOf
<1>2. Live' = Live
  BY <1>1 DEF Live, SameTexts
<1>3. \A docs \in SUBSET DOMAIN store : Closed(docs)' = Closed(docs)
  <2> SUFFICES ASSUME NEW docs \in SUBSET DOMAIN store PROVE Closed(docs)' <=> Closed(docs)
    BY DEF Closed
  <2> QED BY DEF Closed, SameTexts
<1>4. InScope' = InScope
  <2>1. main' = main /\ DOMAIN store' = DOMAIN store
    BY DEF SameTexts
  <2>2. ASSUME NEW d \in DOMAIN store
        PROVE  (\A docs \in SUBSET DOMAIN store' : main' \in docs /\ Closed(docs)' => d \in docs)
               <=> \A docs \in SUBSET DOMAIN store : main \in docs /\ Closed(docs) => d \in docs
    BY <1>3, <2>1
  <2> QED BY <2>1, <2>2 DEF InScope
<1>5. InScopeItems' = InScopeItems
  BY <1>1, <1>4, InScopeIsKnown DEF InScopeItems
<1>6. \A id \in Live : id.doc \in DOMAIN store => Item(id)' = Item(id)
  <2> SUFFICES ASSUME NEW id \in Live, id.doc \in DOMAIN store PROVE Item(id)' = Item(id)
    OBVIOUS
  <2>1. store'[id.doc].text = store[id.doc].text
    BY DEF SameTexts
  <2> QED BY <2>1 DEF Item, SelectInSeq
<1> QED BY <1>1, <1>2, <1>4, <1>5, <1>6

LEMMA InitTypes == Init => Types
<1> SUFFICES ASSUME Init PROVE Types
  OBVIOUS
<1>1. PICK texts \in [Doc -> UNION {Texts[d] : d \in Doc}] :
        /\ \A d \in Doc : texts[d] \in Texts[d]
        /\ store = [d \in Doc |-> Open(texts[d], 0)]
  BY DEF Init
<1>2. opens = 0 /\ after = None /\ job = Idle /\ queue = InScope /\ main \in Mains /\ again = {}
      /\ references = [id \in Live |-> {}]
  BY DEF Init
<1>3. DOMAIN store = Doc /\ \A d \in Doc : store[d] = Open(texts[d], 0)
  BY <1>1
<1>4. StoreTyped
  <2>1. ASSUME NEW d \in Doc
        PROVE  /\ IsDoc(store[d]) /\ store[d].text \in Texts[d] /\ store[d].opening = 0
               /\ store[d].includes = store[d].text.includes /\ store[d].offsets = store[d].text.offsets
    <3>1. store[d] = DocOf(texts[d], 0, texts[d].includes, {}, texts[d].offsets) /\ texts[d] \in Texts[d]
      BY <1>1, <1>3 DEF Open, DocOf
    <3> QED BY <3>1, DocIs
  <2> QED BY <1>2, <1>3, <2>1 DEF StoreTyped
<1>5. queue \subseteq DOMAIN store
  BY <1>2, InScopeIsKnown
<1>6. RefsTyped /\ JobTyped /\ AfterTyped
  BY <1>2 DEF RefsTyped, JobTyped, AfterTyped
<1>7. 0 \in 0..MaxOpens
  <2>1. MaxOpens \in Nat
    BY TextsAssumption
  <2> QED BY <2>1
<1> QED BY <1>2, <1>4, <1>5, <1>6, <1>7 DEF Types

\* A token taken is of the document that is resolved.
LEMMA TokensAreUses ==
    ASSUME Types, job # Idle, NEW token \in job.todo
    PROVE  /\ token \in store[job.doc].text.uses /\ job.doc \in DOMAIN store
           /\ Location(token) \in Use
<1>1. job.doc \in DOMAIN store /\ token \in store[job.doc].text.uses
  BY DEF Types, JobTyped
<1>2. job.doc \in Doc /\ store[job.doc].text \in Texts[job.doc] \cup {Nothing}
  BY <1>1 DEF Types, StoreTyped
<1>3. store[job.doc].text \in Texts[job.doc]
  <2>1. Nothing.uses = {}
    BY DEF Nothing
  <2> QED BY <1>1, <1>2, <2>1
<1>4. token \in AnyToken
  <2>1. store[job.doc].text \in UNION {Texts[d] : d \in Doc}
    BY <1>2, <1>3
  <2> QED BY <1>1, <2>1 DEF AnyToken
<1>5. BuildVRange(store[job.doc].offsets, token) \in Nat \X Nat
  <2>1. GoodText(store[job.doc].text)
    BY <1>1, StoreTexts, TextIs DEF Types
  <2>2. store[job.doc].offsets \in {store[job.doc].text.offsets, NoOffsets}
    BY <1>1 DEF Types, StoreTyped
  <2>3. NoOffsets \in [DOMAIN NoOffsets -> Seq(Offset)]
    BY DEF NoOffsets
  <2>4. /\ store[job.doc].offsets \in [DOMAIN store[job.doc].offsets -> Seq(Offset)]
        /\ token \in Token
    BY <1>1, <2>1, <2>2, <2>3 DEF GoodText
  <2> QED BY <2>4, BuildIs
<1> QED BY <1>1, <1>2, <1>4, <1>5 DEF Use, Location

\* push_reference adds at most one reference, of the token.
LEMMA PushedIs ==
    ASSUME RefsTyped, NEW id \in Live, NEW token
    PROVE  /\ DOMAIN Pushed(id, token) = Live
           /\ \A i \in Live : references[i] \subseteq Pushed(id, token)[i]
           /\ \A i \in Live : i # id => Pushed(id, token)[i] = references[i]
           /\ Pushed(id, token)[id] \subseteq references[id] \cup {Location(token)}
           /\ \/ id.doc = job.doc /\ token = TokenOf(Item(id))
              \/ Location(token) \in Pushed(id, token)[id]
<1>1. DOMAIN references = Live
  BY DEF RefsTyped
<1>2. CASE id.doc = job.doc /\ token = TokenOf(Item(id))
  BY <1>1, <1>2 DEF Pushed
<1>3. CASE ~ (id.doc = job.doc /\ token = TokenOf(Item(id)))
  <2> DEFINE use == Location(token)
  <2>1. Pushed(id, token) = [references EXCEPT ![id] = @ \cup {use}]
    BY <1>3 DEF Pushed
  <2> HIDE DEF use
  <2>2. /\ DOMAIN Pushed(id, token) = Live /\ Pushed(id, token)[id] = references[id] \cup {use}
        /\ \A i \in Live : i # id => Pushed(id, token)[i] = references[i]
    BY <1>1, <2>1
  <2> QED BY <2>2 DEF use
<1> QED BY <1>2, <1>3

\* A job of a document is no idle one.
LEMMA BusyIs ==
    ASSUME NEW j, j.doc \in Doc
    PROVE  j # Idle
<1>1. NoMain \notin Doc
  BY TextsAssumption
<1> QED BY <1>1 DEF Idle

LEMMA TokenStepTypes ==
    ASSUME Types, TokenStep
    PROVE  Types'
<1>1. job # Idle /\ UNCHANGED <<main, store, parent, queue, after, opens, lost, again>>
  BY DEF TokenStep
<1>2. SameTexts
  BY <1>1 DEF SameTexts
<1>3. Live' = Live /\ InScopeItems' = InScopeItems
  BY <1>2, ItemsStay
<1>4. /\ job.doc \in DOMAIN store /\ job.items \in Seq(Id) /\ ToSet(job.items) = InScopeItems
      /\ job.todo \subseteq store[job.doc].text.uses
  BY <1>1 DEF Types, JobTyped
<1>5. StoreTyped /\ RefsTyped
  BY DEF Types
<1>6. ASSUME NEW token, NEW previous, Takes(token, previous) PROVE RefsTyped' /\ JobTyped'
  <2>1. Lowest(token, job.todo) /\ token \in job.todo
    BY <1>6 DEF Takes, Lowest
  <2>2. RefsTyped'
    <3>1. CASE references' = references
      BY <1>3, <1>5, <3>1 DEF RefsTyped
    <3>2. CASE Linking(token)
      <4>1. PICK id \in Live : references' = Pushed(id, token)
        BY <3>2 DEF Linking
      <4>2. Location(token) \in Use
        BY <1>1, <2>1, TokensAreUses
      <4>3. \A i \in Live : references[i] \subseteq Use
        BY <1>5 DEF RefsTyped
      <4> DEFINE use == Location(token)
      <4>4. /\ DOMAIN references' = Live
            /\ \A i \in Live : i # id => references'[i] = references[i]
            /\ references'[id] \subseteq references[id] \cup {use}
        BY <1>5, <4>1, PushedIs
      <4> HIDE DEF use
      <4>5. \A i \in Live : references'[i] \subseteq Use
        BY <4>2, <4>3, <4>4 DEF use
      <4> QED BY <1>3, <4>4, <4>5 DEF RefsTyped
    <3> QED BY <1>6, <3>1, <3>2 DEF Takes, Missing
  <2>3. \E unresolved : job' = JobOf(job.doc, job.items, job.todo \ {token}, token.line, previous,
                                     ScopeAt(token.line), unresolved, <<>>)
    BY <1>6 DEF Takes
  <2>4. /\ IsJob(job') /\ job'.doc = job.doc /\ job'.items = job.items
        /\ job'.todo = job.todo \ {token} /\ job'.walk = <<>>
    BY <2>3, JobIs
  <2>5. JobTyped'
    BY <1>1, <1>3, <1>4, <2>4 DEF JobTyped, IsJob
  <2> QED BY <2>2, <2>5
<1>7. ASSUME NEW token, NEW mm, Walks(token, mm) PROVE RefsTyped' /\ JobTyped'
  <2>1. RefsTyped'
    BY <1>3, <1>5, <1>7 DEF Walks, RefsTyped
  <2>2. job' = JobOf(job.doc, job.items, job.todo, job.line, job.previous, job.scope, job.unresolved, <<token, mm>>)
    BY <1>7 DEF Walks
  <2>3. /\ IsJob(job') /\ job'.doc = job.doc /\ job'.items = job.items
        /\ job'.todo = job.todo /\ job'.walk = <<token, mm>>
    BY <2>2, JobIs
  <2>4. job'.walk = <<job'.walk[1], job'.walk[2]>> /\ job'.walk[1] = token
    BY <2>3
  <2>5. Lowest(job'.walk[1], job'.todo) /\ job'.walk[1].parent # ""
    BY <1>7, <2>3, <2>4 DEF Walks
  <2>6. JobTyped'
    BY <1>1, <1>3, <1>4, <2>3, <2>4, <2>5 DEF JobTyped, IsJob
  <2> QED BY <2>1, <2>6
<1>8. StoreTyped' /\ AfterTyped' /\ queue' \subseteq DOMAIN store' /\ main' \in Mains /\ opens' \in 0..MaxOpens /\ again' \subseteq Doc
  BY <1>1 DEF Types, StoreTyped, AfterTyped
<1>9. RefsTyped' /\ JobTyped'
  BY <1>6, <1>7 DEF TokenStep
<1> QED BY <1>8, <1>9 DEF Types

\* purge_references takes the references of one document, from the items given.
LEMMA PurgedIs ==
    ASSUME RefsTyped, NEW items, NEW d
    PROVE  /\ DOMAIN Purged(references, items, d) = Live
           /\ \A id \in Live : Purged(references, items, d)[id] =
                IF id \in items THEN {ref \in references[id] : ref.doc # d} ELSE references[id]
           /\ \A id \in Live : Purged(references, items, d)[id] \subseteq references[id]
<1>1. DOMAIN Purged(references, items, d) = Live
  BY DEF RefsTyped, Purged
<1>2. \A id \in Live : Purged(references, items, d)[id] =
        IF id \in items THEN {ref \in references[id] : ref.doc # d} ELSE references[id]
  BY <1>1 DEF Purged
<1> QED BY <1>1, <1>2

\* What the analyzer starts with.
Starts(d) ==
    /\ job = Idle /\ d \in queue /\ queue' = queue \ {d}
    /\ references' = Purged(references, InScopeItems, d)
    /\ job'.items \in Seq(Id) /\ ToSet(job'.items) = InScopeItems
    /\ job' = JobOf(d, job'.items, store[d].text.uses, 0, [name \in {} |-> name], NoScope, {}, <<>>)
    /\ again' = IF store[d].offsets = store[d].text.offsets THEN again \ {d} ELSE again \cup {d}
    /\ UNCHANGED <<main, store, parent, after, opens, lost>>

\* Resolve starts a job of a document that waits.
LEMMA ResolveStarts ==
    ASSUME StoreTyped, NEW d, Resolve(d)
    PROVE  Starts(d)
<1>1. PICK order \in SetToSeqs(InScope) :
        /\ references' = Purged(references, ToSet(AllItems(order)), d)
        /\ job' = JobOf(d, AllItems(order), store[d].text.uses, 0, [name \in {} |-> name], NoScope, {}, <<>>)
  BY DEF Resolve, JobOf
<1>2. AllItems(order) \in Seq(Id) /\ ToSet(AllItems(order)) = InScopeItems
  BY AllItemsAre
<1>3. job'.items = AllItems(order)
  BY <1>1, JobIs
<1>4. /\ job = Idle /\ d \in queue /\ queue' = queue \ {d}
      /\ again' = IF store[d].offsets = store[d].text.offsets THEN again \ {d} ELSE again \cup {d}
      /\ UNCHANGED <<main, store, parent, after, opens, lost>>
  BY DEF Resolve
<1> QED BY <1>1, <1>2, <1>3, <1>4 DEF Starts

LEMMA StartTypes ==
    ASSUME Types, NEW d, Starts(d)
    PROVE  Types'
<1>1. UNCHANGED <<main, store, after, opens>> /\ d \in queue /\ queue' = queue \ {d}
  BY DEF Starts
<1>2. SameTexts
  BY <1>1 DEF SameTexts
<1>3. Live' = Live /\ InScopeItems' = InScopeItems
  BY <1>2, ItemsStay
<1>4. RefsTyped /\ d \in DOMAIN store
  BY <1>1 DEF Types
<1>5. RefsTyped'
  <2>1. /\ DOMAIN references' = Live
        /\ \A id \in Live : references'[id] \subseteq references[id]
    <3>1. references' = Purged(references, InScopeItems, d)
      BY DEF Starts
    <3>2. /\ DOMAIN Purged(references, InScopeItems, d) = Live
          /\ \A id \in Live : Purged(references, InScopeItems, d)[id] \subseteq references[id]
      BY <1>4, PurgedIs
    <3> QED BY <3>1, <3>2
  <2> QED BY <1>3, <1>4, <2>1 DEF RefsTyped
<1>6. JobTyped'
  <2>1. /\ IsJob(job') /\ job'.doc = d /\ job'.todo = store[d].text.uses /\ job'.walk = <<>>
    BY JobIs DEF Starts
  <2>2. job'.items \in Seq(Id) /\ ToSet(job'.items) = InScopeItems
    BY DEF Starts
  <2> QED BY <1>1, <1>3, <1>4, <2>1, <2>2 DEF JobTyped, IsJob
<1>7. StoreTyped' /\ AfterTyped' /\ queue' \subseteq DOMAIN store' /\ main' \in Mains /\ opens' \in 0..MaxOpens
  BY <1>1 DEF Types, StoreTyped, AfterTyped
<1>8. again' \subseteq Doc
  <2>1. again' \subseteq again \cup {d}
    BY DEF Starts
  <2> QED BY <1>4, <2>1 DEF Types, StoreTyped
<1> QED BY <1>5, <1>6, <1>7, <1>8 DEF Types

\* find_references ends: only what is unresolved and the offsets change in
\* the store.
LEMMA EndResolveIs ==
    ASSUME Types, EndResolve
    PROVE  /\ SameTexts /\ \A d \in DOMAIN store : IsDoc(store'[d])
           /\ store'[job.doc].unresolved = job.unresolved /\ store'[job.doc].offsets = NoOffsets
           /\ \A d \in DOMAIN store : d # job.doc => store'[d] = store[d]
<1>1. /\ store' = [store EXCEPT ![job.doc].unresolved = job.unresolved, ![job.doc].offsets = NoOffsets]
      /\ main' = main /\ job.doc \in DOMAIN store
  BY DEF EndResolve, Types, JobTyped
<1>2. \A d \in DOMAIN store : IsDoc(store[d])
  BY DEF Types, StoreTyped
<1>3. /\ DOMAIN store' = DOMAIN store
      /\ store'[job.doc] = [store[job.doc] EXCEPT !.unresolved = job.unresolved, !.offsets = NoOffsets]
      /\ \A d \in DOMAIN store : d # job.doc => store'[d] = store[d]
  BY <1>1
<1>4. store'[job.doc] = DocOf(store[job.doc].text, store[job.doc].opening, store[job.doc].includes, job.unresolved,
                              NoOffsets)
  <2> DEFINE doc == store[job.doc]
             unresolved == job.unresolved
             offsets == NoOffsets
  <2>1. IsDoc(doc) /\ store'[job.doc] = [doc EXCEPT !.unresolved = unresolved, !.offsets = offsets]
    BY <1>1, <1>2, <1>3
  <2> HIDE DEF doc, unresolved, offsets
  <2>2. [doc EXCEPT !.unresolved = unresolved, !.offsets = offsets] =
          DocOf(doc.text, doc.opening, doc.includes, unresolved, offsets)
    BY <2>1, DocResolves
  <2> QED BY <2>1, <2>2 DEF doc, unresolved, offsets
<1>5. /\ IsDoc(store'[job.doc]) /\ store'[job.doc].text = store[job.doc].text
      /\ store'[job.doc].opening = store[job.doc].opening
      /\ store'[job.doc].includes = store[job.doc].includes
      /\ store'[job.doc].unresolved = job.unresolved /\ store'[job.doc].offsets = NoOffsets
  BY <1>4, DocIs
<1>6. SameTexts
  BY <1>1, <1>3, <1>5 DEF SameTexts
<1> QED BY <1>2, <1>3, <1>5, <1>6

LEMMA EndResolveTypes ==
    ASSUME Types, EndResolve
    PROVE  Types'
<1>1. /\ UNCHANGED <<main, references, queue, after, opens, again>> /\ job' = Idle
  BY DEF EndResolve
<1>2. /\ SameTexts /\ \A d \in DOMAIN store : IsDoc(store'[d])
      /\ \A d \in DOMAIN store : store'[d].offsets \in {store[d].offsets, NoOffsets}
  BY EndResolveIs
<1>3. Live' = Live /\ DOMAIN store' = DOMAIN store
  BY <1>2, ItemsStay DEF SameTexts
<1>4. StoreTyped'
  BY <1>1, <1>2 DEF Types, StoreTyped, SameTexts
<1>5. RefsTyped'
  BY <1>1, <1>3 DEF Types, RefsTyped
<1>6. AfterTyped'
  BY <1>1, <1>2 DEF Types, AfterTyped, SameTexts
<1>7. JobTyped'
  BY <1>1 DEF JobTyped
<1> QED BY <1>1, <1>3, <1>4, <1>5, <1>6, <1>7 DEF Types

\* sync_references queues documents of the store.
LEMMA SyncIs ==
    ASSUME Types, Sync
    PROVE  /\ after # None /\ after'.doc = after.doc /\ after'.previous = after.previous
           /\ after'.remove = after.remove /\ after'.sync = FALSE
           /\ after' = [doc |-> after.doc, sync |-> FALSE, previous |-> after.previous, remove |-> after.remove]
<1>1. after.sync /\ after' = [after EXCEPT !.sync = FALSE]
  BY DEF Sync
<1>2. after # None
  BY <1>1 DEF None
<1>3. PICK a, b, c, e : after = [doc |-> a, sync |-> b, previous |-> c, remove |-> e]
  BY <1>2 DEF Types, AfterTyped
<1>4. after.doc = a /\ after.sync = b /\ after.previous = c /\ after.remove = e
  BY <1>3
<1>5. after' = [doc |-> a, sync |-> FALSE, previous |-> c, remove |-> e]
  BY <1>1, <1>3
<1> QED BY <1>2, <1>4, <1>5

LEMMA SyncTypes ==
    ASSUME Types, Sync
    PROVE  Types'
<1>1. UNCHANGED <<main, store, references, job, opens, again>> /\ queue' \subseteq DOMAIN store
  BY DEF Sync
<1>2. AfterTyped'
  BY <1>1, SyncIs DEF Types, AfterTyped
<1>3. StoreTyped' /\ RefsTyped' /\ JobTyped'
  <2>1. Live' = Live /\ InScopeItems' = InScopeItems
    BY <1>1, ItemsStay DEF SameTexts
  <2> QED BY <1>1, <2>1 DEF Types, StoreTyped, RefsTyped, JobTyped
<1> QED BY <1>1, <1>2, <1>3 DEF Types

\* A document is opened: its items are new and have no references.
Opens(d, text, remove) ==
    /\ Quiet /\ opens < MaxOpens /\ opens' = opens + 1 /\ queue' = {d}
    /\ DOMAIN store' = DOMAIN store \cup {d}
    /\ store'[d] = DocOf(text, opens + 1, text.includes \cap (DOMAIN store \cup {d}), {}, text.offsets)
    /\ \A o \in DOMAIN store : o # d => store'[o] = store[o]
    /\ Live' = {id \in Live : id.doc # d} \cup ToSet(ItemsOf(d, store'[d]))
    /\ \A id \in ToSet(ItemsOf(d, store'[d])) : id.doc = d
    /\ DOMAIN references' = Live'
    /\ \A id \in Live' : references'[id] = IF id.doc = d THEN {} ELSE references[id]
    /\ after' = [doc |-> d, sync |-> TRUE, remove |-> remove,
                 previous |-> {[key |-> id.key, docs |-> {ref.doc : ref \in references[id]}] :
                                 id \in {i \in Live : i.doc = d /\ Declared(Item(i))}}]
    /\ lost' = lost \cup UNION {{<<ref.doc, NameOf(id)>> : ref \in references[id]} :
                  id \in {i \in Live : /\ i.doc = d
                                       /\ Declared(Item(i)) =>
                                            i.key \in {n.key : n \in ToSet(ItemsOf(d, store'[d]))}}}
    /\ UNCHANGED <<main, parent, job, again>>

\* Reopen is the opening of a document, as the proofs use it.
LEMMA ReopenOpens ==
    ASSUME Types, NEW d, NEW text, NEW remove, Reopen(d, text, remove)
    PROVE  Opens(d, text, remove)
<1> DEFINE old == IF d \in DOMAIN store THEN ToSet(ItemsOf(d, store[d])) ELSE {}
           doc == Open(text, opens + 1)
           new == ToSet(ItemsOf(d, doc))
           includes == text.includes \cap (DOMAIN store \cup {d})
<1>1. /\ Quiet /\ opens < MaxOpens /\ opens' = opens + 1 /\ queue' = {d}
      /\ UNCHANGED <<main, parent, job, again>>
      /\ store' = [o \in DOMAIN store \cup {d} |->
                     IF o = d THEN [doc EXCEPT !.includes = @ \cap (DOMAIN store \cup {d})] ELSE store[o]]
      /\ references' = [id \in (DOMAIN references \ old) \cup new |-> IF id \in new THEN {} ELSE references[id]]
      /\ after' = [doc |-> d, sync |-> TRUE, remove |-> remove,
                   previous |-> {[key |-> id.key, docs |-> {ref.doc : ref \in references[id]}] :
                                   id \in {i \in old : Declared(Item(i))}}]
      /\ lost' = lost \cup UNION {{<<ref.doc, NameOf(id)>> : ref \in references[id]} :
                    id \in {i \in old : Declared(Item(i)) => i.key \in {n.key : n \in new}}}
  BY DEF Reopen
<1>2. doc = DocOf(text, opens + 1, text.includes, {}, text.offsets)
  BY DEF Open, DocOf
<1> HIDE DEF doc
<1>3. /\ IsDoc(doc) /\ doc.text = text /\ doc.opening = opens + 1 /\ doc.includes = text.includes
      /\ doc.unresolved = {} /\ doc.offsets = text.offsets
  BY <1>2, DocIs
<1>4. [doc EXCEPT !.includes = @ \cap (DOMAIN store \cup {d})] = DocOf(text, opens + 1, includes, {}, text.offsets)
  <2>1. [doc EXCEPT !.includes = @ \cap (DOMAIN store \cup {d})] = [doc EXCEPT !.includes = includes]
    BY <1>3
  <2> HIDE DEF includes
  <2>2. [doc EXCEPT !.includes = includes] = DocOf(doc.text, doc.opening, includes, doc.unresolved, doc.offsets)
    BY <1>3, DocChanges
  <2> QED BY <1>3, <2>1, <2>2
<1> HIDE DEF includes
<1>5. /\ DOMAIN store' = DOMAIN store \cup {d}
      /\ store'[d] = DocOf(text, opens + 1, includes, {}, text.offsets)
      /\ \A o \in DOMAIN store : o # d => store'[o] = store[o]
  BY <1>1, <1>4
<1>6. ItemsOf(d, doc) = ItemsOf(d, store'[d])
  <2>1. store'[d].text = text /\ store'[d].opening = opens + 1
    BY <1>5, DocIs
  <2> QED BY <1>3, <2>1 DEF ItemsOf
<1>7. \A o \in DOMAIN store : \A id \in ToSet(ItemsOf(o, store[o])) : id.doc = o
  BY ItemsAre DEF IdAt
<1>8. \A id \in new : id.doc = d
  BY ItemsAre DEF IdAt
<1>9. old = {id \in Live : id.doc = d}
  BY <1>7 DEF Live
<1>10. Live' = {id \in Live : id.doc # d} \cup new
  <2>1. Live' = UNION {ToSet(ItemsOf(o, store'[o])) : o \in DOMAIN store \cup {d}}
    BY <1>5 DEF Live
  <2>2. \A o \in DOMAIN store : o # d => ToSet(ItemsOf(o, store'[o])) = ToSet(ItemsOf(o, store[o]))
    BY <1>5
  <2> HIDE DEF new
  <2>3. ToSet(ItemsOf(d, store'[d])) = new
    BY <1>6 DEF new
  <2>4. Live' \subseteq {id \in Live : id.doc # d} \cup new
    BY <1>7, <2>1, <2>2, <2>3 DEF Live
  <2>5. {id \in Live : id.doc # d} \cup new \subseteq Live'
    BY <1>7, <2>1, <2>2, <2>3 DEF Live
  <2> QED BY <2>4, <2>5
<1>11. DOMAIN references = Live
  BY DEF Types, RefsTyped
<1> HIDE DEF old, new
<1>12. DOMAIN references' = Live'
  BY <1>1, <1>9, <1>10, <1>11
<1>13. \A id \in Live' : references'[id] = IF id.doc = d THEN {} ELSE references[id]
  BY <1>1, <1>8, <1>10, <1>12
<1>14. {i \in old : Declared(Item(i))} = {i \in Live : i.doc = d /\ Declared(Item(i))}
  BY <1>9
<1>15. {i \in old : Declared(Item(i)) => i.key \in {n.key : n \in new}} =
          {i \in Live : i.doc = d /\ (Declared(Item(i)) => i.key \in {n.key : n \in new})}
  BY <1>9
<1>16. new = ToSet(ItemsOf(d, store'[d]))
  BY <1>6 DEF new
<1> QED BY <1>1, <1>5, <1>8, <1>10, <1>12, <1>13, <1>14, <1>15, <1>16 DEF Opens, includes
LEMMA OpensTypes ==
    ASSUME Types, NEW d \in Doc, NEW text \in Texts[d] \cup {Nothing}, NEW remove,
           remove => text = Nothing, Opens(d, text, remove)
    PROVE  Types'
<1>1. /\ StoreTyped /\ DOMAIN store \subseteq Doc /\ opens \in 0..MaxOpens /\ opens < MaxOpens /\ MaxOpens \in Nat
      /\ opens' = opens + 1 /\ DOMAIN store' = DOMAIN store \cup {d}
  BY TextsAssumption DEF Types, StoreTyped, Opens
<1>2. /\ IsDoc(store'[d]) /\ store'[d].text = text /\ store'[d].opening = opens + 1
      /\ store'[d].includes = text.includes \cap (DOMAIN store \cup {d}) /\ store'[d].offsets = text.offsets
  BY DocIs DEF Opens
<1>3. \A o \in DOMAIN store : o # d => store'[o] = store[o]
  BY DEF Opens
<1>4. StoreTyped'
  <2>1. DOMAIN store' \subseteq Doc /\ opens' \in Nat /\ opens' \in 0..MaxOpens
    BY <1>1
  <2>2. ASSUME NEW o \in DOMAIN store'
        PROVE  /\ IsDoc(store'[o]) /\ store'[o].text \in Texts[o] \cup {Nothing}
               /\ store'[o].opening \in Nat /\ store'[o].opening <= opens'
               /\ store'[o].includes \subseteq store'[o].text.includes
               /\ store'[o].offsets \in {store'[o].text.offsets, NoOffsets}
    <3>1. CASE o = d
      BY <1>1, <1>2, <3>1
    <3>2. CASE o # d
      <4>1. o \in DOMAIN store /\ store'[o] = store[o]
        BY <1>1, <1>3, <3>2
      <4>2. /\ IsDoc(store[o]) /\ store[o].text \in Texts[o] \cup {Nothing}
            /\ store[o].opening \in Nat /\ store[o].opening <= opens
            /\ store[o].includes \subseteq store[o].text.includes
            /\ store[o].offsets \in {store[o].text.offsets, NoOffsets}
        BY <1>1, <4>1 DEF StoreTyped
      <4>3. store[o].opening <= opens'
        BY <1>1, <4>2
      <4> QED BY <4>1, <4>2, <4>3
    <3> QED BY <3>1, <3>2
  <2> QED BY <2>1, <2>2 DEF StoreTyped
<1>5. RefsTyped'
  <2>1. DOMAIN references' = Live'
    BY DEF Opens
  <2>2. ASSUME NEW id \in Live' PROVE references'[id] \subseteq Use
    <3>1. CASE id.doc = d
      <4>1. references'[id] = {}
        BY <3>1 DEF Opens
      <4> QED BY <4>1
    <3>2. CASE id.doc # d
      <4>1. id \in Live /\ references'[id] = references[id]
        BY <3>2 DEF Opens
      <4> QED BY <4>1 DEF Types, RefsTyped
    <3> QED BY <3>1, <3>2
  <2> QED BY <2>1, <2>2 DEF RefsTyped
<1>6. AfterTyped'
  <2>1. /\ after'.doc = d /\ after'.remove = remove
        /\ after' = [doc |-> after'.doc, sync |-> after'.sync, previous |-> after'.previous, remove |-> after'.remove]
    BY DEF Opens
  <2>2. ASSUME NEW o \in DOMAIN store', o # d PROVE store'[o].opening # opens'
    <3>1. o \in DOMAIN store /\ store'[o] = store[o]
      BY <1>1, <1>3, <2>2
    <3>2. store[o].opening \in Nat /\ store[o].opening <= opens
      BY <1>1, <3>1 DEF StoreTyped
    <3> QED BY <1>1, <3>1, <3>2
  <2> QED BY <1>1, <1>2, <2>1, <2>2 DEF AfterTyped
<1>7. JobTyped' /\ queue' \subseteq DOMAIN store' /\ main' \in Mains /\ opens' \in 0..MaxOpens /\ again' \subseteq Doc
  <2>1. job' = Idle /\ queue' = {d} /\ main' = main /\ again' = again
    BY DEF Opens, Quiet
  <2>2. opens' \in 0..MaxOpens
    BY <1>1
  <2>3. queue' \subseteq DOMAIN store' /\ main' \in Mains /\ again' \subseteq Doc
    BY <1>1, <2>1 DEF Types
  <2>4. JobTyped'
    BY <2>1 DEF JobTyped
  <2> QED BY <2>2, <2>3, <2>4
<1> QED BY <1>4, <1>5, <1>6, <1>7 DEF Types

\* The opening ends: what was deleted is unresolved, and a removed document,
\* which has no items any more, goes.
Gone(o) == {Last(was.key) : was \in {w \in after.previous : w.key \notin Declarations(after.doc) /\ o \in w.docs}}
Kept == IF after.remove THEN DOMAIN store \ {after.doc} ELSE DOMAIN store
Ends ==
    /\ job = Idle /\ queue = {} /\ after # None /\ ~after.sync /\ after' = None
    /\ DOMAIN store' = Kept
    /\ \A o \in Kept : /\ IsDoc(store'[o])
                       /\ store'[o].text = store[o].text /\ store'[o].opening = store[o].opening
                       /\ store'[o].includes =
                            IF after.remove THEN store[o].includes \ {after.doc} ELSE store[o].includes
                       /\ store'[o].unresolved = store[o].unresolved \cup Gone(o)
                       /\ store'[o].offsets = store[o].offsets
    /\ Live' = Live /\ \A id \in Live : id.doc \in Kept
    /\ DOMAIN references' = Live
    /\ \A id \in Live : references'[id] =
         IF after.remove /\ TopLevel(id) THEN {ref \in references[id] : ref.doc # after.doc} ELSE references[id]
    /\ UNCHANGED <<main, parent, job, queue, opens, lost, again>>

\* EndOpen ends an opening, as the proofs use it.
LEMMA EndOpenEnds ==
    ASSUME Types, EndOpen
    PROVE  Ends
<1> DEFINE d == after.doc
           deleted == {was \in after.previous : was.key \notin Declarations(d)}
           names(o) == {Last(was.key) : was \in {w \in deleted : o \in w.docs}}
<1>1. /\ job = Idle /\ queue = {} /\ after # None /\ ~after.sync /\ after' = None
      /\ UNCHANGED <<main, parent, job, queue, opens, lost, again>>
      /\ store' = [o \in Kept |-> [store[o] EXCEPT !.unresolved = @ \cup names(o),
                                                   !.includes = IF after.remove THEN @ \ {d} ELSE @]]
      /\ references' = [id \in {i \in DOMAIN references : i.doc \in Kept} |->
                          IF after.remove /\ TopLevel(id)
                          THEN {ref \in references[id] : ref.doc # d} ELSE references[id]]
  BY DEF EndOpen, Kept
<1>2. \A o : names(o) = Gone(o)
  BY DEF Gone
<1>3. DOMAIN store' = Kept
  BY <1>1
<1>4. ASSUME NEW o \in Kept
      PROVE  /\ IsDoc(store'[o])
             /\ store'[o].text = store[o].text /\ store'[o].opening = store[o].opening
             /\ store'[o].includes = IF after.remove THEN store[o].includes \ {d} ELSE store[o].includes
             /\ store'[o].unresolved = store[o].unresolved \cup Gone(o)
             /\ store'[o].offsets = store[o].offsets
  <2> DEFINE x == store[o].unresolved \cup names(o)
             y == IF after.remove THEN store[o].includes \ {d} ELSE store[o].includes
  <2>1. store'[o] = [store[o] EXCEPT !.unresolved = x, !.includes = y]
    BY <1>1
  <2>2. IsDoc(store[o])
    BY DEF Kept, Types, StoreTyped
  <2> HIDE DEF x, y
  <2>3. store'[o] = DocOf(store[o].text, store[o].opening, y, x, store[o].offsets)
    <3>1. [store[o] EXCEPT !.unresolved = x, !.includes = y] = DocOf(store[o].text, store[o].opening, y, x, store[o].offsets)
      BY <2>2, DocEnds
    <3> QED BY <2>1, <3>1
  <2>4. /\ IsDoc(store'[o]) /\ store'[o].text = store[o].text /\ store'[o].opening = store[o].opening
        /\ store'[o].includes = y /\ store'[o].unresolved = x /\ store'[o].offsets = store[o].offsets
    BY <2>3, DocIs
  <2> QED BY <1>2, <2>4 DEF x, y
<1>5. after.remove => ToSet(ItemsOf(d, store[d])) = {}
  <2> SUFFICES ASSUME after.remove PROVE ToSet(ItemsOf(d, store[d])) = {}
    OBVIOUS
  <2>1. store[d].text = Nothing
    BY <1>1 DEF Types, AfterTyped
  <2>2. DOMAIN store[d].text.items = {}
    <3>1. Nothing.items = <<>> /\ DOMAIN <<>> = {}
      BY DEF Nothing
    <3> QED BY <2>1, <3>1
  <2>3. ToSet(ItemsOf(d, store[d])) = {IdAt(d, store[d], i) : i \in DOMAIN store[d].text.items}
    BY ItemsAre
  <2> QED BY <2>2, <2>3
<1>6. Live' = UNION {ToSet(ItemsOf(o, store[o])) : o \in Kept}
  <2>1. \A o \in Kept : ItemsOf(o, store'[o]) = ItemsOf(o, store[o])
    BY <1>4 DEF ItemsOf
  <2>2. Live' = UNION {ToSet(ItemsOf(o, store'[o])) : o \in Kept}
    BY <1>3 DEF Live
  <2> QED BY <2>1, <2>2
<1>7. Live' = Live
  <2>1. \A o \in DOMAIN store : o \notin Kept => ToSet(ItemsOf(o, store[o])) = {}
    BY <1>5 DEF Kept
  <2>2. Kept \subseteq DOMAIN store
    BY DEF Kept
  <2> QED BY <1>6, <2>1, <2>2 DEF Live
<1>8. \A id \in Live : id.doc \in Kept
  <2>1. ASSUME NEW id \in Live PROVE id.doc \in Kept
    <3>1. PICK o \in Kept : id \in ToSet(ItemsOf(o, store[o]))
      BY <1>6, <1>7
    <3>2. id.doc = o
      BY <3>1, ItemsAre DEF IdAt
    <3> QED BY <3>2
  <2> QED BY <2>1
<1>9. DOMAIN references = Live
  BY DEF Types, RefsTyped
<1>10. /\ DOMAIN references' = Live
       /\ \A id \in Live : references'[id] =
            IF after.remove /\ TopLevel(id) THEN {ref \in references[id] : ref.doc # d} ELSE references[id]
  BY <1>1, <1>8, <1>9
<1> QED BY <1>1, <1>3, <1>4, <1>7, <1>8, <1>10 DEF Ends

LEMMA EndsTypes ==
    ASSUME Types, Ends
    PROVE  Types'
<1>1. Kept \subseteq DOMAIN store /\ UNCHANGED <<main, job, queue, opens, again>> /\ job = Idle /\ queue = {} /\ after' = None
  BY DEF Ends, Kept
<1>2. StoreTyped'
  <2>1. DOMAIN store' = Kept /\ StoreTyped
    BY DEF Ends, Types
  <2>2. ASSUME NEW o \in Kept
        PROVE  /\ IsDoc(store'[o]) /\ store'[o].text \in Texts[o] \cup {Nothing}
               /\ store'[o].opening \in Nat /\ store'[o].opening <= opens'
               /\ store'[o].includes \subseteq store'[o].text.includes
               /\ store'[o].offsets \in {store'[o].text.offsets, NoOffsets}
    <3>1. /\ IsDoc(store'[o]) /\ store'[o].text = store[o].text /\ store'[o].opening = store[o].opening
          /\ store'[o].includes \subseteq store[o].includes /\ store'[o].offsets = store[o].offsets
      BY DEF Ends
    <3> QED BY <1>1, <2>1, <3>1 DEF StoreTyped
  <2> QED BY <1>1, <2>1, <2>2 DEF StoreTyped
<1>3. RefsTyped'
  <2>1. Live' = Live /\ DOMAIN references' = Live
    BY DEF Ends
  <2>2. \A id \in Live : references'[id] \subseteq references[id]
    BY DEF Ends
  <2> QED BY <2>1, <2>2 DEF Types, RefsTyped
<1> QED BY <1>1, <1>2, <1>3 DEF Types, JobTyped, AfterTyped

\* What the steps come to.
Openings == \E d \in Doc, remove \in BOOLEAN : \E text \in Texts[d] \cup {Nothing} :
    (remove => text = Nothing) /\ Opens(d, text, remove)
Steps == TokenStep \/ (\E d : Starts(d)) \/ EndResolve \/ Sync \/ Ends \/ Openings \/ UNCHANGED vars

\* A step of the specification is one of those above.
LEMMA NextSteps ==
    ASSUME Types, [Next]_vars
    PROVE  Steps
<1>1. CASE WalkInherit
  <2>1. job # Idle
    BY <1>1 DEF WalkInherit
  <2> QED BY <1>1, <2>1, TokenSteps DEF Steps, Types
<1>2. CASE job # Idle /\ \E token \in job.todo : ResolveThis(token) \/ ResolveSymbol(token) \/ ResolveField(token)
  BY <1>2, TokenSteps DEF Steps, Types
<1>3. ASSUME NEW d \in Doc, Resolve(d) PROVE Steps
  BY <1>3, ResolveStarts DEF Steps, Types
<1>4. CASE EndOpen
  BY <1>4, EndOpenEnds DEF Steps
<1>5. ASSUME NEW d \in Doc, HandleOpen(d) PROVE Steps
  <2>1. PICK text \in Texts[d] : Reopen(d, text, FALSE)
    BY <1>5 DEF HandleOpen
  <2>2. Opens(d, text, FALSE)
    BY <2>1, ReopenOpens
  <2>3. text \in Texts[d] \cup {Nothing} /\ (FALSE => text = Nothing)
    OBVIOUS
  <2>4. Openings
    BY <2>2, <2>3 DEF Openings
  <2> QED BY <2>4 DEF Steps
<1>6. ASSUME NEW d \in Removable, RemoveDocument(d) PROVE Steps
  <2>1. Opens(d, Nothing, TRUE)
    BY <1>6, ReopenOpens DEF RemoveDocument
  <2>2. d \in Doc /\ Nothing \in Texts[d] \cup {Nothing}
    BY TextsAssumption
  <2>3. Openings
    BY <2>1, <2>2 DEF Openings
  <2> QED BY <2>3 DEF Steps
<1> QED BY <1>1, <1>2, <1>3, <1>4, <1>5, <1>6 DEF Next, Handling, Steps

LEMMA StepsTypes ==
    ASSUME Types, Steps
    PROVE  Types'
<1>1. CASE UNCHANGED vars
  <2>1. UNCHANGED <<main, store, references, job, queue, after, opens, again>>
    BY <1>1 DEF vars
  <2>2. Live' = Live /\ InScopeItems' = InScopeItems
    BY <2>1, ItemsStay DEF SameTexts
  <2> QED BY <2>1, <2>2 DEF Types, StoreTyped, RefsTyped, JobTyped, AfterTyped
<1>2. CASE Openings
  BY <1>2, OpensTypes DEF Openings
<1> QED BY <1>1, <1>2, TokenStepTypes, StartTypes, EndResolveTypes, SyncTypes, EndsTypes DEF Steps

\* The types the proofs rest on: of the documents, of the references, of what
\* is resolved, of what is queued and of what follows (handle_open_document,
\* find_references, sync_references).
THEOREM TypesHold == Spec => []Types
<1>1. Types /\ [Next]_vars => Types'
  BY NextSteps, StepsTypes
<1> QED BY InitTypes, <1>1, PTL DEF Spec

\* The state is well-typed, whatever is opened, edited and removed: the store
\* has references of the items it has and no others (handle_open_document,
\* Store::remove), a document includes what its text includes, and what is
\* resolved is a document of the store.
THEOREM TypeCorrect == Spec => []TypeOK
<1>1. ASSUME Types PROVE TypeOK
  <2>1. /\ main \in Mains /\ DOMAIN store \subseteq Doc /\ opens \in 0..MaxOpens
        /\ \A d \in DOMAIN store : /\ store[d].text \in Texts[d] \cup {Nothing}
                                   /\ store[d].includes \subseteq store[d].text.includes
    BY <1>1 DEF Types, StoreTyped
  <2>2. DOMAIN references = Live /\ \A id \in Live : references[id] \subseteq Use
    BY <1>1 DEF Types, RefsTyped
  <2>3. queue \subseteq Doc /\ again \subseteq Doc /\ (job # Idle => job.doc \in DOMAIN store)
    BY <1>1 DEF Types, StoreTyped, JobTyped
  <2> QED BY <2>1, <2>2, <2>3 DEF TypeOK, Use, AnyToken
<1> QED BY TypesHold, <1>1, PTL

\* What a token that is done with leaves of the job.
LEMMA TakesIs ==
    ASSUME NEW token, NEW previous, Takes(token, previous)
    PROVE  /\ job'.doc = job.doc /\ job'.items = job.items /\ job'.todo = job.todo \ {token}
           /\ job'.line = token.line /\ job'.scope = ScopeAt(token.line)
           /\ job.unresolved \subseteq job'.unresolved
           /\ \/ Linking(token)
              \/ Missing(token) /\ token.name \in job'.unresolved
              \/ token.name = "this" /\ token.parent = ""
<1>1. ASSUME NEW unresolved,
             job' = JobOf(job.doc, job.items, job.todo \ {token}, token.line, previous,
                          ScopeAt(token.line), unresolved, <<>>)
      PROVE  /\ job'.doc = job.doc /\ job'.items = job.items /\ job'.todo = job.todo \ {token}
             /\ job'.line = token.line /\ job'.scope = ScopeAt(token.line) /\ job'.unresolved = unresolved
  <2> DEFINE scope == ScopeAt(token.line)
             todo == job.todo \ {token}
  <2>1. job' = JobOf(job.doc, job.items, todo, token.line, previous, scope, unresolved, <<>>)
    BY <1>1
  <2> HIDE DEF scope, todo
  <2>2. /\ job'.doc = job.doc /\ job'.items = job.items /\ job'.todo = todo
        /\ job'.line = token.line /\ job'.scope = scope /\ job'.unresolved = unresolved
    BY <2>1 DEF JobOf
  <2> QED BY <2>2 DEF scope, todo
<1>2. \E unresolved :
        /\ job' = JobOf(job.doc, job.items, job.todo \ {token}, token.line, previous,
                        ScopeAt(token.line), unresolved, <<>>)
        /\ \/ unresolved = job.unresolved /\ Linking(token)
           \/ unresolved = job.unresolved \cup {token.name} /\ Missing(token)
           \/ unresolved = job.unresolved /\ token.name = "this" /\ token.parent = ""
  BY DEF Takes
<1> QED BY <1>1, <1>2

\* Walking on to a parent changes nothing else of the job.
LEMMA WalksIs ==
    ASSUME NEW token, NEW mm, Walks(token, mm)
    PROVE  /\ job'.doc = job.doc /\ job'.items = job.items /\ job'.todo = job.todo
           /\ job'.line = job.line /\ job'.scope = job.scope /\ job'.unresolved = job.unresolved
  BY DEF Walks, JobOf
-----------------------------------------------------------------------------
(* A rename edits the name.                                                *)

\* References have the name of their item.  Without main_path they are of
\* tokens that the documents have now, or of a document that will be resolved.
Named == \A id \in Live : \A ref \in references[id] : ref.token.name = NameOf(id)
Current ==
    main = NoMain => \A id \in Live : \A ref \in references[id] :
        ref.doc \in DOMAIN store /\ (ref.doc \in queue \/ ref.token \in store[ref.doc].text.uses)
RefsInv == Types /\ Named /\ Current

LEMMA InitRefs == Init => RefsInv
<1> SUFFICES ASSUME Init PROVE RefsInv
  OBVIOUS
<1>1. references = [id \in Live |-> {}]
  BY DEF Init
<1>2. Named /\ Current
  BY <1>1 DEF Named, Current
<1> QED BY <1>2, InitTypes DEF RefsInv

\* The reference a token becomes has the name of its item and is of its document.
LEMMA TokenStepRefs ==
    ASSUME RefsInv, TokenStep
    PROVE  Named' /\ Current'
<1>1. job # Idle /\ UNCHANGED <<main, store, queue>>
  BY DEF TokenStep
<1>2. Live' = Live
  BY <1>1, ItemsStay DEF SameTexts
<1>3. CASE references' = references
  BY <1>1, <1>2, <1>3 DEF RefsInv, Named, Current
<1>4. ASSUME NEW token \in job.todo, Linking(token) PROVE Named' /\ Current'
  <2>1. PICK id \in Live : NameOf(id) = token.name /\ references' = Pushed(id, token)
    BY <1>4 DEF Linking
  <2> DEFINE use == Location(token)
  <2>2. /\ \A i \in Live : i # id => references'[i] = references[i]
        /\ references'[id] \subseteq references[id] \cup {use}
    <3>1. RefsTyped
      BY DEF RefsInv, Types
    <3> HIDE DEF use
    <3>2. /\ \A i \in Live : i # id => Pushed(id, token)[i] = references[i]
          /\ Pushed(id, token)[id] \subseteq references[id] \cup {use}
      BY <3>1, PushedIs DEF use
    <3> QED BY <2>1, <3>2
  <2>3. /\ use.token.name = NameOf(id) /\ use.doc \in DOMAIN store /\ use.token \in store[use.doc].text.uses
    BY <1>1, <2>1, TokensAreUses DEF RefsInv, Location
  <2> HIDE DEF use
  <2>4. \A i \in Live : \A ref \in references'[i] : ref \in references[i] \/ (ref = use /\ i = id)
    BY <2>2
  <2>5. Named'
    BY <1>2, <2>3, <2>4 DEF RefsInv, Named
  <2>6. Current'
    BY <1>1, <1>2, <2>3, <2>4 DEF RefsInv, Current
  <2> QED BY <2>5, <2>6
<1>5. \/ references' = references
      \/ \E token \in job.todo : Linking(token)
  BY DEF TokenStep, Takes, Walks, Missing, Lowest
<1> QED BY <1>3, <1>4, <1>5

\* What is purged is gone; the document that is resolved waits no more.
LEMMA StartRefs ==
    ASSUME RefsInv, NEW d, Starts(d)
    PROVE  Named' /\ Current'
<1>1. UNCHANGED <<main, store>> /\ queue' = queue \ {d} /\ references' = Purged(references, InScopeItems, d)
  BY DEF Starts
<1>2. Live' = Live
  BY <1>1, ItemsStay DEF SameTexts
<1>3. /\ \A id \in Live : references'[id] =
           IF id \in InScopeItems THEN {ref \in references[id] : ref.doc # d} ELSE references[id]
      /\ \A id \in Live : references'[id] \subseteq references[id]
  <2>1. RefsTyped
    BY DEF RefsInv, Types
  <2>2. \A id \in Live : references'[id] =
          IF id \in InScopeItems THEN {ref \in references[id] : ref.doc # d} ELSE references[id]
    BY <1>1, <2>1 DEF Purged, RefsTyped
  <2> QED BY <2>2
<1>4. Named'
  BY <1>2, <1>3 DEF RefsInv, Named
<1>5. main = NoMain => Live = InScopeItems
  BY DEF InScope, InScopeItems, Live
<1>6. Current'
  BY <1>1, <1>2, <1>3, <1>5 DEF RefsInv, Current
<1> QED BY <1>4, <1>6

\* A document that is opened waits, so that references of its old text may stay.
LEMMA OpensRefs ==
    ASSUME RefsInv, NEW d, NEW text, NEW remove, Opens(d, text, remove)
    PROVE  Named' /\ Current'
<1>1. /\ main' = main /\ queue = {} /\ queue' = {d} /\ DOMAIN store' = DOMAIN store \cup {d}
      /\ \A o \in DOMAIN store : o # d => store'[o] = store[o]
  BY DEF Opens, Quiet
<1>2. \A id \in Live' : references'[id] # {} => id \in Live /\ references'[id] = references[id]
  BY DEF Opens
<1>3. Named'
  BY <1>2 DEF RefsInv, Named
<1>4. Current'
  BY <1>1, <1>2 DEF RefsInv, Current
<1> QED BY <1>3, <1>4

\* A document that is removed leaves no reference behind.
LEMMA EndsRefs ==
    ASSUME RefsInv, Ends
    PROVE  Named' /\ Current'
<1>1. Live' = Live /\ main' = main /\ queue = {} /\ queue' = {} /\ DOMAIN store' = Kept
  BY DEF Ends
<1>2. \A id \in Live : references'[id] \subseteq references[id]
  BY DEF Ends
<1>3. Named'
  BY <1>1, <1>2 DEF RefsInv, Named
<1>4. \A o \in Kept : o \in DOMAIN store /\ store'[o].text = store[o].text
  BY DEF Ends, Kept
<1>5. ASSUME main = NoMain, NEW id \in Live, NEW ref \in references[id] PROVE ref.doc \in Kept
  <2>1. ref.doc \in DOMAIN store /\ ref.token \in store[ref.doc].text.uses
    BY <1>1, <1>5 DEF RefsInv, Current
  <2>2. after.remove => store[after.doc].text.uses = {}
    BY DEF Ends, RefsInv, Types, AfterTyped, Nothing
  <2> QED BY <2>1, <2>2 DEF Kept
<1>6. Current'
  BY <1>1, <1>2, <1>4, <1>5 DEF RefsInv, Current
<1> QED BY <1>3, <1>6

LEMMA StepsRefs ==
    ASSUME RefsInv, Steps
    PROVE  RefsInv'
<1>1. ASSUME SameTexts, references' = references, main = NoMain => queue \subseteq queue' \/ queue = {}
      PROVE  Named' /\ Current'
  <2>1. Live' = Live
    BY <1>1, ItemsStay
  <2> QED BY <1>1, <2>1 DEF RefsInv, Named, Current, SameTexts
<1>2. EndResolve => Named' /\ Current'
  BY <1>1, EndResolveIs DEF EndResolve, RefsInv
<1>3. Sync => Named' /\ Current'
  BY <1>1 DEF Sync, SameTexts
<1>4. UNCHANGED vars => Named' /\ Current'
  BY <1>1 DEF vars, SameTexts
<1>5. Named' /\ Current'
  BY <1>2, <1>3, <1>4, TokenStepRefs, StartRefs, OpensRefs, EndsRefs DEF Steps, Openings
<1> QED BY <1>5, StepsTypes DEF RefsInv

\* Where references are: where build_v_range takes their token, by the
\* offsets of the document or by none when it was resolved again.  While
\* a document is resolved its offsets are those of its text, or it is `again`.
Located ==
    main = NoMain => \A id \in Live : \A ref \in references[id] :
        \/ ref.doc \in queue
        \/ ref.v_range = BuildVRange(store[ref.doc].text.offsets, ref.token)
        \/ ref.doc \in again /\ ref.v_range = BuildVRange(NoOffsets, ref.token)
OffsetsThere == job # Idle /\ job.doc \notin again => store[job.doc].offsets = store[job.doc].text.offsets
PlacesInv == RefsInv /\ Located /\ OffsetsThere

LEMMA InitPlaces == Init => PlacesInv
<1>1. Init => Located /\ OffsetsThere
  BY DEF Init, Located, OffsetsThere
<1> QED BY <1>1, InitRefs DEF PlacesInv

\* The reference a token becomes is where the offsets of the document say.
LEMMA TokenStepPlaces ==
    ASSUME PlacesInv, TokenStep
    PROVE  Located' /\ OffsetsThere'
<1>1. job # Idle /\ UNCHANGED <<main, store, queue, again>> /\ Types
  BY DEF TokenStep, PlacesInv, RefsInv
<1>2. Live' = Live
  BY <1>1, ItemsStay DEF SameTexts
<1>3. job'.doc = job.doc
  BY TakesIs, WalksIs DEF TokenStep
<1>4. OffsetsThere'
  BY <1>1, <1>3 DEF PlacesInv, OffsetsThere
<1>5. CASE references' = references
  BY <1>1, <1>2, <1>4, <1>5 DEF PlacesInv, Located
<1>6. ASSUME NEW token \in job.todo, Linking(token) PROVE Located'
  <2>1. PICK id \in Live : references' = Pushed(id, token)
    BY <1>6 DEF Linking
  <2> DEFINE use == Location(token)
  <2>2. use.doc = job.doc /\ use.token = token /\ use.v_range = BuildVRange(store[job.doc].offsets, token)
    BY DEF Location
  <2>3. store[job.doc].offsets \in {store[job.doc].text.offsets, NoOffsets}
    BY <1>1 DEF Types, JobTyped, StoreTyped
  <2> HIDE DEF use
  <2>4. \A i \in Live : \A ref \in references'[i] : ref \in references[i] \/ ref = use
    <3>1. RefsTyped
      BY <1>1 DEF Types
    <3> QED BY <2>1, <3>1, PushedIs DEF use
  <2>5. \/ use.v_range = BuildVRange(store[use.doc].text.offsets, use.token)
        \/ use.doc \in again /\ use.v_range = BuildVRange(NoOffsets, use.token)
    BY <1>1, <2>2, <2>3 DEF PlacesInv, OffsetsThere
  <2> QED BY <1>1, <1>2, <2>4, <2>5 DEF PlacesInv, Located
<1>7. \/ references' = references
      \/ \E token \in job.todo : Linking(token)
  BY DEF TokenStep, Takes, Walks, Missing, Lowest
<1> QED BY <1>4, <1>5, <1>6, <1>7

\* Whether a document has its offsets when it is resolved is what `again` says.
LEMMA StartPlaces ==
    ASSUME PlacesInv, NEW d, Starts(d)
    PROVE  Located' /\ OffsetsThere'
<1>1. /\ UNCHANGED <<main, store>> /\ queue' = queue \ {d} /\ references' = Purged(references, InScopeItems, d)
      /\ again' = IF store[d].offsets = store[d].text.offsets THEN again \ {d} ELSE again \cup {d}
      /\ RefsTyped
  BY DEF Starts, PlacesInv, RefsInv, Types
<1>2. Live' = Live
  BY <1>1, ItemsStay DEF SameTexts
<1>3. main = NoMain => Live = InScopeItems
  BY DEF InScope, InScopeItems, Live
<1>4. \A id \in Live : references'[id] =
        IF id \in InScopeItems THEN {ref \in references[id] : ref.doc # d} ELSE references[id]
  BY <1>1 DEF Purged, RefsTyped
<1>5. \A o : o # d /\ o \in again => o \in again'
  BY <1>1
<1>6. Located'
  BY <1>1, <1>2, <1>3, <1>4, <1>5 DEF PlacesInv, Located
<1>7. job'.doc = d
  BY DEF Starts, JobOf
<1>8. OffsetsThere'
  BY <1>1, <1>7 DEF OffsetsThere
<1> QED BY <1>6, <1>8

\* The other steps leave where references are, but for a document that waits.
LEMMA OthersPlace ==
    ASSUME PlacesInv, EndResolve \/ Sync \/ Ends \/ Openings \/ UNCHANGED vars
    PROVE  Located' /\ OffsetsThere'
<1>1. ASSUME again' = again, main' = main,
             \A id \in Live' : references'[id] # {} => id \in Live /\ references'[id] \subseteq references[id],
             main = NoMain => \A id \in Live : \A ref \in references[id] :
                                ref.doc \in queue' \/ (ref.doc \notin queue /\ store'[ref.doc].text = store[ref.doc].text)
      PROVE  Located'
  BY <1>1 DEF PlacesInv, Located
<1>2. main = NoMain => \A id \in Live : \A ref \in references[id] : ref.doc \in DOMAIN store
  BY DEF PlacesInv, RefsInv, Current
<1>3. CASE EndResolve
  <2>1. job' = Idle /\ UNCHANGED <<main, references, queue, again>> /\ SameTexts
    BY <1>3, EndResolveIs DEF EndResolve, PlacesInv, RefsInv
  <2>2. Live' = Live
    BY <2>1, ItemsStay
  <2>3. Located'
    BY <1>1, <1>2, <2>1, <2>2 DEF SameTexts
  <2> QED BY <2>1, <2>3 DEF OffsetsThere
<1>4. CASE Sync
  <2>1. job = Idle /\ queue = {} /\ UNCHANGED <<main, store, references, job, again>>
    BY <1>4 DEF Sync
  <2>2. Live' = Live
    BY <2>1, ItemsStay DEF SameTexts
  <2>3. Located'
    BY <1>1, <2>1, <2>2
  <2> QED BY <2>1, <2>3 DEF OffsetsThere
<1>5. CASE Ends
  <2>1. job = Idle /\ queue = {} /\ UNCHANGED <<main, job, queue, again>> /\ Live' = Live
    BY <1>5 DEF Ends
  <2>2. \A id \in Live : references'[id] \subseteq references[id]
    BY <1>5 DEF Ends
  <2>3. \A o \in Kept : store'[o].text = store[o].text
    BY <1>5 DEF Ends
  <2>4. main = NoMain => \A id \in Live : \A ref \in references[id] : ref.doc \in Kept
    <3>1. main = NoMain => \A id \in Live : \A ref \in references[id] :
                             ref.doc \in DOMAIN store /\ ref.token \in store[ref.doc].text.uses
      BY <2>1 DEF PlacesInv, RefsInv, Current
    <3>2. after.remove => store[after.doc].text.uses = {}
      BY <1>5 DEF Ends, PlacesInv, RefsInv, Types, AfterTyped, Nothing
    <3> QED BY <3>1, <3>2 DEF Kept
  <2>5. Located'
    BY <1>1, <2>1, <2>2, <2>3, <2>4
  <2> QED BY <2>1, <2>5 DEF OffsetsThere
<1>6. CASE Openings
  <2>1. PICK d \in Doc, remove \in BOOLEAN : \E text \in Texts[d] \cup {Nothing} : Opens(d, text, remove)
    BY <1>6 DEF Openings
  <2>2. /\ job = Idle /\ queue = {} /\ queue' = {d} /\ UNCHANGED <<main, job, again>>
        /\ \A o \in DOMAIN store : o # d => store'[o] = store[o]
        /\ \A id \in Live' : references'[id] # {} => id \in Live /\ references'[id] = references[id]
    BY <2>1 DEF Opens, Quiet
  <2>3. Located'
    BY <1>1, <1>2, <2>2
  <2> QED BY <2>2, <2>3 DEF OffsetsThere
<1>7. CASE UNCHANGED vars
  <2>1. UNCHANGED <<main, store, references, job, queue, again>>
    BY <1>7 DEF vars
  <2>2. Live' = Live
    BY <2>1, ItemsStay DEF SameTexts
  <2> QED BY <2>1, <2>2 DEF PlacesInv, Located, OffsetsThere
<1> QED BY <1>3, <1>4, <1>5, <1>6, <1>7

LEMMA StepsPlaces ==
    ASSUME PlacesInv, Steps
    PROVE  PlacesInv'
<1>1. RefsInv'
  BY StepsRefs DEF PlacesInv
<1>2. Located' /\ OffsetsThere'
  BY TokenStepPlaces, StartPlaces, OthersPlace DEF Steps
<1> QED BY <1>1, <1>2 DEF PlacesInv

\* While nothing waits to be resolved: references are of tokens the documents
\* have, where build_v_range takes these.
THEOREM PlacesInvHolds == Spec => []PlacesInv
<1>1. PlacesInv /\ [Next]_vars => PlacesInv'
  BY NextSteps, StepsPlaces DEF PlacesInv, RefsInv
<1> QED BY InitPlaces, <1>1, PTL DEF Spec

\* A token of a steady line is where it is written, whatever offsets its
\* document had.
SeenAt(d, token, place) == place[1] = token.line /\ (Steady(d, token.line) => Written(token) /\ Seen(token) = place)
LEMMA SteadyIsSeen ==
    ASSUME StoreTyped, NEW d \in DOMAIN store, NEW token \in store[d].text.uses, NEW place,
           \/ place = BuildVRange(store[d].text.offsets, token)
           \/ d \in again /\ place = BuildVRange(NoOffsets, token)
    PROVE  SeenAt(d, token, place)
<1> DEFINE offsets == store[d].text.offsets
<1>1. GoodText(store[d].text)
  BY StoreTexts, TextIs
<1>2. /\ token \in Token /\ offsets \in [DOMAIN offsets -> Seq(Offset)]
      /\ token.line \notin DOMAIN offsets => token.src = token.col
  BY <1>1 DEF GoodText
<1>3. NoOffsets \in [DOMAIN NoOffsets -> Seq(Offset)] /\ DOMAIN NoOffsets = {}
  BY DEF NoOffsets
<1>4. /\ BuildVRange(offsets, token)[1] = token.line
      /\ token.line \notin DOMAIN offsets => BuildVRange(offsets, token) = <<token.line, token.col>>
  BY <1>2, BuildIs
<1>5. BuildVRange(NoOffsets, token) = <<token.line, token.col>> /\ BuildVRange(NoOffsets, token)[1] = token.line
  BY <1>2, <1>3, BuildIs
<1>6. CASE token.line \notin DOMAIN offsets
  <2>1. place = <<token.line, token.src>>
    BY <1>2, <1>4, <1>5, <1>6
  <2>2. token.col \in Nat /\ \A n \in Nat : n # Unwritten
    BY <1>2 DEF Token, Unwritten
  <2> QED BY <1>2, <1>6, <2>1, <2>2 DEF SeenAt, Seen, Written
<1>7. CASE token.line \in DOMAIN offsets
  <2>1. Steady(d, token.line) => /\ d \notin again /\ Written(token)
                                 /\ BuildVRange(offsets, token) = Seen(token)
    BY <1>7 DEF Steady, InPlace
  <2>2. place[1] = token.line
    BY <1>4, <1>5
  <2> QED BY <2>1, <2>2 DEF SeenAt
<1> QED BY <1>6, <1>7

\* A token of a text is known by where it is written.
LEMMA SeenOnce ==
    ASSUME StoreTyped, NEW d \in DOMAIN store, NEW a \in store[d].text.uses, NEW b \in store[d].text.uses,
           Written(a), Written(b), Seen(a) = Seen(b)
    PROVE  a = b
<1>1. d \in Doc /\ store[d].text \in Texts[d] \cup {Nothing}
  BY DEF StoreTyped
<1>2. store[d].text \in Texts[d]
  BY <1>1 DEF Nothing
<1> QED BY <1>1, <1>2, PlacesAssumption

\* Where an item is declared, and where it is referred to from.
LEMMA DeclaredSeen ==
    ASSUME StoreTyped, NEW id \in Live
    PROVE  SeenAt(id.doc, TokenOf(Item(id)), VRangeOf(id))
<1>1. id.doc \in DOMAIN store /\ TokenOf(Item(id)) \in store[id.doc].text.uses
  BY LiveIs DEF OfItem
<1>2. VRangeOf(id) = BuildVRange(store[id.doc].text.offsets, TokenOf(Item(id)))
  BY DEF VRangeOf
<1> QED BY <1>1, <1>2, SteadyIsSeen
RefIs(ref, name) ==
    /\ ref.doc \in DOMAIN store /\ ref.token \in store[ref.doc].text.uses /\ ref.token.name = name
    /\ SeenAt(ref.doc, ref.token, ref.v_range)
LEMMA RefSeen ==
    ASSUME PlacesInv, queue = {}, main = NoMain, NEW id \in Live, NEW ref \in references[id]
    PROVE  RefIs(ref, NameOf(id))
<1>1. /\ ref.doc \in DOMAIN store /\ ref.token \in store[ref.doc].text.uses /\ ref.token.name = NameOf(id)
      /\ StoreTyped
  BY DEF PlacesInv, RefsInv, Current, Named, Types
<1>2. \/ ref.v_range = BuildVRange(store[ref.doc].text.offsets, ref.token)
      \/ ref.doc \in again /\ ref.v_range = BuildVRange(NoOffsets, ref.token)
  BY DEF PlacesInv, Located
<1>3. SeenAt(ref.doc, ref.token, ref.v_range)
  BY <1>1, <1>2, SteadyIsSeen
<1> QED BY <1>1, <1>3 DEF RefIs

\* What is at the place of a token of a steady line is that token.
LEMMA AtItsPlace ==
    ASSUME StoreTyped, NEW d \in DOMAIN store, NEW token \in store[d].text.uses, Steady(d, token.line),
           NEW other \in store[d].text.uses, NEW place, SeenAt(d, other, place), place = Seen(token)
    PROVE  other = token
<1>1. place[1] = token.line
  BY DEF Seen
<1>2. other.line = token.line /\ Written(other) /\ Seen(other) = Seen(token)
  BY <1>1 DEF SeenAt
<1>3. Written(token)
  <2>1. SeenAt(d, token, BuildVRange(store[d].text.offsets, token))
    BY SteadyIsSeen
  <2> QED BY <2>1 DEF SeenAt
<1> QED BY <1>2, <1>3, SeenOnce

\* A rename edits what the documents have now, where it is written, and only
\* the name that is renamed, when main_path is not set: purge_references and
\* handle_open_document leave no reference of a text that is gone behind, and
\* build_v_range takes the others where they are written, on the lines that
\* are steady.
THEOREM RenameIsOfTheName == Spec => []RenameEditsTheName
<1>1. ASSUME PlacesInv PROVE RenameEditsTheName
  <2> SUFFICES ASSUME Quiet, main = NoMain, NEW d \in DOMAIN store, NEW token \in store[d].text.uses,
                      Steady(d, token.line), NEW edit \in RenameEdits(d, Seen(token))
               PROVE  /\ edit.doc \in DOMAIN store
                      /\ Steady(edit.doc, edit.at[1]) => SeenAs(edit.doc, edit.at, token.name)
    BY DEF RenameEditsTheName
  <2>1. queue = {} /\ StoreTyped
    BY <1>1 DEF Quiet, PlacesInv, RefsInv, Types
  <2>2. PICK id \in ItemsAt(d, Seen(token)) :
          \/ \E ref \in references[id] : edit = [doc |-> ref.doc, at |-> ref.v_range]
          \/ edit = [doc |-> id.doc, at |-> VRangeOf(id)]
    BY DEF RenameEdits
  <2>3. /\ id \in Live
        /\ \/ id.doc = d /\ VRangeOf(id) = Seen(token)
           \/ \E ref \in references[id] : ref.doc = d /\ ref.v_range = Seen(token)
    BY DEF ItemsAt, Visible
  <2>4. OfItem(id) /\ SeenAt(id.doc, TokenOf(Item(id)), VRangeOf(id))
    BY <2>1, <2>3, LiveIs, DeclaredSeen
  <2>5. NameOf(id) = token.name
    <3>1. CASE id.doc = d /\ VRangeOf(id) = Seen(token)
      <4>1. TokenOf(Item(id)) \in store[d].text.uses /\ TokenOf(Item(id)).name = NameOf(id)
        BY <2>4, <3>1 DEF OfItem
      <4>2. TokenOf(Item(id)) = token
        BY <2>1, <2>4, <3>1, <4>1, AtItsPlace
      <4> QED BY <4>1, <4>2
    <3>2. ASSUME NEW ref \in references[id], ref.doc = d, ref.v_range = Seen(token) PROVE NameOf(id) = token.name
      <4>1. RefIs(ref, NameOf(id))
        BY <1>1, <2>1, <2>3, <3>2, RefSeen
      <4>2. /\ ref.token \in store[d].text.uses /\ ref.token.name = NameOf(id)
            /\ SeenAt(d, ref.token, ref.v_range)
        BY <3>2, <4>1 DEF RefIs
      <4>3. ref.token = token
        BY <2>1, <3>2, <4>2, AtItsPlace
      <4> QED BY <4>2, <4>3
    <3> QED BY <2>3, <3>1, <3>2
  <2>6. PICK t : /\ edit.doc \in DOMAIN store /\ t \in store[edit.doc].text.uses /\ t.name = NameOf(id)
                 /\ SeenAt(edit.doc, t, edit.at)
    <3>1. CASE edit = [doc |-> id.doc, at |-> VRangeOf(id)]
      BY <2>4, <3>1 DEF OfItem
    <3>2. ASSUME NEW ref \in references[id], edit = [doc |-> ref.doc, at |-> ref.v_range]
          PROVE  /\ edit.doc \in DOMAIN store /\ ref.token \in store[edit.doc].text.uses
                 /\ ref.token.name = NameOf(id) /\ SeenAt(edit.doc, ref.token, edit.at)
      <4>1. RefIs(ref, NameOf(id))
        BY <1>1, <2>1, <2>3, <3>2, RefSeen
      <4>2. edit.doc = ref.doc /\ edit.at = ref.v_range
        BY <3>2
      <4> QED BY <4>1, <4>2 DEF RefIs
    <3> QED BY <2>2, <3>1, <3>2
  <2>7. Steady(edit.doc, edit.at[1]) => Written(t) /\ Seen(t) = edit.at
    BY <2>6 DEF SeenAt
  <2> QED BY <2>5, <2>6, <2>7 DEF SeenAs
<1> QED BY PlacesInvHolds, <1>1, PTL
-----------------------------------------------------------------------------
(* No use of a name is forgotten.                                          *)

\* An item that a token refers to, or that it declares.
LinkOf(id, d, token) ==
    /\ NameOf(id) = token.name
    /\ \/ id.doc = d /\ token = TokenOf(Item(id))
       \/ Refers(id, d, token)

\* A use is linked by the item it is a reference of, or the declaration of.
LEMMA LinkedIs ==
    ASSUME NEW d, NEW token
    PROVE  Linked(d, token) <=> \E id \in Live : LinkOf(id, d, token)
  BY DEF Linked, LinkOf

\* Links stay while their items stay and their references are not purged.
LinksStay(d) == \A token : Linked(d, token) => Linked(d, token)'

\* A use stays linked if the items stay and keep its document's references.
LEMMA LinksOfStay ==
    ASSUME NEW d, \A id \in Live : /\ id \in Live' /\ Item(id)' = Item(id)
                                   /\ \A ref \in references[id] : ref.doc = d => ref \in references'[id]
    PROVE  LinksStay(d)
<1> SUFFICES ASSUME NEW token, Linked(d, token) PROVE Linked(d, token)'
  BY DEF LinksStay
<1>1. PICK id \in Live : NameOf(id) = token.name /\ ((id.doc = d /\ token = TokenOf(Item(id))) \/ Refers(id, d, token))
  BY DEF Linked
<1>2. id \in Live' /\ Item(id)' = Item(id)
  OBVIOUS
<1>3. Refers(id, d, token) => Refers(id, d, token)'
  BY DEF Refers
<1>4. (id.doc = d /\ token = TokenOf(Item(id)')) \/ Refers(id, d, token)'
  BY <1>1, <1>2, <1>3
<1> QED BY <1>1, <1>2, <1>4 DEF Linked, TokenOf

\* So it does as long as no text changes and no reference is taken.
LEMMA SameTextsLinks ==
    ASSUME Types, SameTexts, NEW d,
           \A id \in Live : \A ref \in references[id] : ref.doc = d => ref \in references'[id]
    PROVE  LinksStay(d)
<1>1. Live' = Live /\ \A id \in Live : id.doc \in DOMAIN store => Item(id)' = Item(id)
  BY ItemsStay
<1>2. \A id \in Live : id.doc \in DOMAIN store
  BY LiveIs DEF Types, OfItem
<1> QED BY <1>1, <1>2, LinksOfStay

\* The loop takes no reference.
LEMMA TokenStepLinks ==
    ASSUME Types, TokenStep, NEW d
    PROVE  LinksStay(d)
<1>1. SameTexts /\ RefsTyped
  BY DEF TokenStep, SameTexts, Types
<1>2. \A id \in Live : references[id] \subseteq references'[id]
  <2>1. ASSUME NEW token, Linking(token) PROVE \A id \in Live : references[id] \subseteq references'[id]
    BY <1>1, <2>1, PushedIs DEF Linking
  <2>2. references' = references \/ \E token : Linking(token)
    BY DEF TokenStep, Takes, Walks, Missing
  <2> QED BY <2>1, <2>2
<1> QED BY <1>1, <1>2, SameTextsLinks

\* Starting a job takes the references of its document only.
LEMMA StartLinks ==
    ASSUME Types, NEW d, Starts(d), NEW o, o # d
    PROVE  LinksStay(o)
<1>1. SameTexts /\ RefsTyped /\ references' = Purged(references, InScopeItems, d)
  BY DEF Starts, SameTexts, Types
<1>2. \A id \in Live : references'[id] =
        IF id \in InScopeItems THEN {ref \in references[id] : ref.doc # d} ELSE references[id]
  BY <1>1 DEF Purged, RefsTyped
<1> QED BY <1>1, <1>2, SameTextsLinks

\* Ending an opening takes those of a removed document only.
LEMMA EndsLinks ==
    ASSUME Types, Ends, NEW o \in Kept
    PROVE  LinksStay(o)
<1>1. ASSUME NEW id \in Live
      PROVE  /\ id \in Live' /\ Item(id)' = Item(id)
             /\ \A ref \in references[id] : ref.doc = o => ref \in references'[id]
  <2>1. id \in Live' /\ id.doc \in Kept
    BY DEF Ends
  <2>2. store'[id.doc].text = store[id.doc].text
    BY <2>1 DEF Ends
  <2>3. Item(id)' = Item(id)
    BY <2>2 DEF Item, SelectInSeq
  <2>4. references'[id] =
          IF after.remove /\ TopLevel(id) THEN {ref \in references[id] : ref.doc # after.doc} ELSE references[id]
    BY DEF Ends
  <2>5. after.remove => o # after.doc
    BY DEF Kept
  <2> QED BY <2>1, <2>3, <2>4, <2>5
<1> QED BY <1>1, LinksOfStay

\* Of a document that is not to be resolved every use is linked, unresolved,
\* lost, or of a name that EndOpen adds to the unresolved ones.
Done(d) == d \notin queue /\ d # job.doc
Accounted(d, token) ==
    \/ Linked(d, token)
    \/ token.name \in store[d].unresolved
    \/ <<d, token.name>> \in lost
    \/ token.name \in Gone(d)
AllAccounted == \A d \in DOMAIN store : Done(d) => \A token \in Plain(d) : Accounted(d, token)
JobAccounts ==
    job # Idle => \A token \in Plain(job.doc) \ job.todo :
                     Linked(job.doc, token) \/ token.name \in job.unresolved
UsesInv == Types /\ AllAccounted /\ JobAccounts

\* When no job runs, none is of a document.
LEMMA IdleIsOfNone == ASSUME StoreTyped PROVE Idle.doc \notin DOMAIN store
<1>1. NoMain \notin Doc
  BY TextsAssumption
<1> QED BY <1>1 DEF Idle, StoreTyped

LEMMA InitUses == Init => UsesInv
<1> SUFFICES ASSUME Init PROVE UsesInv
  OBVIOUS
<1>1. Types
  BY InitTypes
<1>2. queue = InScope /\ InScope = Doc /\ job = Idle
  BY DEF Init
<1>3. AllAccounted
  BY <1>1, <1>2 DEF AllAccounted, Done, Types, StoreTyped
<1> QED BY <1>1, <1>2, <1>3 DEF UsesInv, JobAccounts

\* What is gone is of the document that is opened.
LEMMA GoneStays ==
    ASSUME Types, SameTexts, after'.doc = after.doc, after'.previous = after.previous, NEW d
    PROVE  Gone(d)' = Gone(d)
<1>1. CASE after = None
  BY <1>1 DEF Gone, None
<1>2. CASE after # None
  <2>1. after.doc \in DOMAIN store
    BY <1>2 DEF Types, AfterTyped
  <2>2. Declarations(after.doc)' = Declarations(after.doc)
    BY <2>1 DEF Declarations, SameTexts
  <2> QED BY <2>2 DEF Gone
<1> QED BY <1>1, <1>2
\* A plain token that is done with is linked, or its name is unresolved.
LEMMA LinkingLinks ==
    ASSUME Types, job # Idle, SameTexts, NEW token \in job.todo, Linking(token), job'.doc = job.doc
    PROVE  Linked(job.doc, token)'
<1>1. PICK id \in Live : NameOf(id) = token.name /\ references' = Pushed(id, token)
  BY DEF Linking
<1>2. (id.doc = job.doc /\ token = TokenOf(Item(id))) \/ Location(token) \in references'[id]
  <2>1. RefsTyped
    BY DEF Types
  <2> QED BY <1>1, <2>1, PushedIs
<1>3. Live' = Live /\ Item(id)' = Item(id)
  <2>1. id.doc \in DOMAIN store
    BY LiveIs DEF Types, OfItem
  <2> QED BY <2>1, ItemsStay
<1>4. Location(token).doc = job.doc /\ Location(token).token = token
  BY DEF Location
<1>5. Location(token) \in references'[id] => \E ref \in references'[id] : ref.doc = job.doc /\ ref.token = token
  BY <1>4
<1>6. \E i \in Live' : /\ NameOf(i) = token.name
                       /\ \/ i.doc = job.doc /\ token = TokenOf(Item(i)')
                          \/ \E ref \in references'[i] : ref.doc = job.doc /\ ref.token = token
  BY <1>1, <1>2, <1>3, <1>5
<1> QED BY <1>6 DEF Linked, Refers, TokenOf

\* The uses of a document are its text's.
LEMMA PlainStays ==
    ASSUME SameTexts, NEW d \in DOMAIN store
    PROVE  Plain(d)' = Plain(d)
  BY DEF SameTexts, Plain

\* The token that is taken is linked, or its name is unresolved from then on.
LEMMA TokenStepUses ==
    ASSUME UsesInv, TokenStep
    PROVE  AllAccounted' /\ JobAccounts'
<1>1. /\ job # Idle /\ SameTexts /\ Types /\ job.doc \in DOMAIN store
      /\ UNCHANGED <<main, store, queue, after, lost>>
  BY DEF TokenStep, SameTexts, UsesInv, Types, JobTyped
<1>2. \A d : LinksStay(d)
  BY TokenStepLinks DEF UsesInv
<1>3. job'.doc = job.doc
  BY TakesIs, WalksIs DEF TokenStep
<1>4. AllAccounted'
  <2> SUFFICES ASSUME NEW d \in DOMAIN store', Done(d)', NEW token \in Plain(d)'
               PROVE  Accounted(d, token)'
    BY DEF AllAccounted
  <2>1. d \in DOMAIN store /\ Done(d) /\ token \in Plain(d)
    BY <1>1, <1>3, PlainStays DEF Done
  <2>2. Accounted(d, token)
    BY <2>1 DEF UsesInv, AllAccounted
  <2>3. Gone(d)' = Gone(d)
    BY <1>1, GoneStays
  <2> QED BY <1>1, <1>2, <2>2, <2>3 DEF Accounted, LinksStay
<1>5. ASSUME NEW token \in Plain(job.doc) \ job'.todo
      PROVE  Linked(job.doc, token)' \/ token.name \in job'.unresolved
  <2>1. token.parent = "" /\ token.name # "this"
    BY DEF Plain
  <2>2. CASE token \notin job.todo
    <3>1. Linked(job.doc, token) \/ token.name \in job.unresolved
      BY <1>1, <2>2 DEF UsesInv, JobAccounts
    <3>2. Linked(job.doc, token) => Linked(job.doc, token)'
      BY <1>2, <1>3 DEF LinksStay
    <3>3. job.unresolved \subseteq job'.unresolved
      BY TakesIs, WalksIs DEF TokenStep
    <3> QED BY <3>1, <3>2, <3>3
  <2>3. CASE token \in job.todo
    <3>1. PICK previous : Takes(token, previous)
      <4>1. ASSUME NEW other, NEW previous, Takes(other, previous) PROVE other = token
        BY <1>5, <2>3, <4>1, TakesIs
      <4>2. ~ \E other, mm : Walks(other, mm)
        BY <1>5, <2>3, WalksIs
      <4> QED BY <4>1, <4>2 DEF TokenStep
    <3>2. Linking(token) \/ token.name \in job'.unresolved
      BY <2>1, <3>1, TakesIs
    <3> QED BY <1>1, <1>3, <2>3, <3>2, LinkingLinks
  <2> QED BY <2>2, <2>3
<1>6. JobAccounts'
  <2>1. Plain(job.doc)' = Plain(job.doc)
    BY <1>1, <1>3, PlainStays
  <2> QED BY <1>3, <1>5, <2>1 DEF JobAccounts
<1> QED BY <1>4, <1>6

\* The document that is resolved has passed no token yet.
LEMMA StartUses ==
    ASSUME UsesInv, NEW d, Starts(d)
    PROVE  AllAccounted' /\ JobAccounts'
<1>1. /\ job = Idle /\ d \in queue /\ queue' = queue \ {d} /\ UNCHANGED <<main, store, after, lost>>
      /\ SameTexts /\ Types /\ job.doc \notin DOMAIN store
  BY IdleIsOfNone DEF Starts, SameTexts, UsesInv, Types
<1>2. job'.doc = d /\ job'.todo = store[d].text.uses
  BY DEF Starts, JobOf
<1>3. AllAccounted'
  <2> SUFFICES ASSUME NEW o \in DOMAIN store', Done(o)', NEW token \in Plain(o)'
               PROVE  Accounted(o, token)'
    BY DEF AllAccounted
  <2>1. o \in DOMAIN store /\ o # d /\ Done(o) /\ token \in Plain(o)
    BY <1>1, <1>2, PlainStays DEF Done
  <2>2. Accounted(o, token)
    BY <2>1 DEF UsesInv, AllAccounted
  <2>3. Gone(o)' = Gone(o)
    BY <1>1, GoneStays
  <2>4. LinksStay(o)
    BY <1>1, <2>1, StartLinks
  <2> QED BY <1>1, <2>2, <2>3, <2>4 DEF Accounted, LinksStay
<1>4. JobAccounts'
  <2>1. d \in DOMAIN store
    BY <1>1 DEF Types
  <2>2. Plain(d)' \subseteq store[d].text.uses
    BY <1>1 DEF Plain
  <2> QED BY <1>2, <2>2 DEF JobAccounts
<1> QED BY <1>3, <1>4

\* What the job passed is what the document has: all tokens are passed.
LEMMA EndResolveUses ==
    ASSUME UsesInv, EndResolve
    PROVE  AllAccounted' /\ JobAccounts'
<1>1. /\ job # Idle /\ job.todo = {} /\ job' = Idle /\ UNCHANGED <<main, references, queue, after>>
      /\ lost' = {use \in lost : use[1] # job.doc} /\ Types
  BY DEF EndResolve, UsesInv
<1>2. /\ SameTexts /\ store'[job.doc].unresolved = job.unresolved
      /\ \A d \in DOMAIN store : d # job.doc => store'[d] = store[d]
  BY <1>1, EndResolveIs
<1>3. AllAccounted'
  <2> SUFFICES ASSUME NEW d \in DOMAIN store', Done(d)', NEW token \in Plain(d)'
               PROVE  Accounted(d, token)'
    BY DEF AllAccounted
  <2>1. d \in DOMAIN store /\ d \notin queue /\ token \in Plain(d)
    BY <1>1, <1>2, PlainStays DEF Done, SameTexts
  <2>2. LinksStay(d)
    BY <1>1, <1>2, SameTextsLinks
  <2>3. CASE d = job.doc
    <3>1. Linked(d, token) \/ token.name \in store'[d].unresolved
      BY <1>1, <1>2, <2>1, <2>3 DEF UsesInv, JobAccounts
    <3> QED BY <2>2, <3>1 DEF Accounted, LinksStay
  <2>4. CASE d # job.doc
    <3>1. Accounted(d, token)
      BY <2>1, <2>4 DEF UsesInv, AllAccounted, Done
    <3>2. Gone(d)' = Gone(d)
      BY <1>1, <1>2, GoneStays
    <3>3. store'[d] = store[d] /\ (<<d, token.name>> \in lost => <<d, token.name>> \in lost')
      BY <1>1, <1>2, <2>1, <2>4
    <3> QED BY <2>2, <3>1, <3>2, <3>3 DEF Accounted, LinksStay
  <2> QED BY <2>3, <2>4
<1>4. JobAccounts'
  BY <1>1 DEF JobAccounts
<1> QED BY <1>3, <1>4

\* Sync queues more documents, which are then asked nothing.
LEMMA SyncUses ==
    ASSUME UsesInv, Sync
    PROVE  AllAccounted' /\ JobAccounts'
<1>1. job = Idle /\ queue = {} /\ UNCHANGED <<main, store, references, job, lost>> /\ Types /\ SameTexts
  BY DEF Sync, UsesInv, SameTexts
<1>2. AllAccounted'
  <2> SUFFICES ASSUME NEW d \in DOMAIN store', Done(d)', NEW token \in Plain(d)'
               PROVE  Accounted(d, token)'
    BY DEF AllAccounted
  <2>1. d \in DOMAIN store /\ Done(d) /\ token \in Plain(d)
    BY <1>1, PlainStays DEF Done
  <2>2. Accounted(d, token)
    BY <2>1 DEF UsesInv, AllAccounted
  <2>3. Gone(d)' = Gone(d)
    BY <1>1, SyncIs, GoneStays
  <2>4. LinksStay(d)
    BY <1>1, SameTextsLinks
  <2> QED BY <1>1, <2>2, <2>3, <2>4 DEF Accounted, LinksStay
<1>3. JobAccounts'
  BY <1>1 DEF JobAccounts
<1> QED BY <1>2, <1>3

\* What is to become unresolved (Gone) becomes it, or the document is removed.
LEMMA EndsUses ==
    ASSUME UsesInv, Ends
    PROVE  AllAccounted' /\ JobAccounts'
<1>1. /\ job = Idle /\ queue = {} /\ DOMAIN store' = Kept /\ Kept \subseteq DOMAIN store
      /\ UNCHANGED <<job, queue, lost>> /\ Types /\ job.doc \notin DOMAIN store
  BY IdleIsOfNone DEF Ends, UsesInv, Kept, Types
<1>2. AllAccounted'
  <2> SUFFICES ASSUME NEW o \in DOMAIN store', Done(o)', NEW token \in Plain(o)'
               PROVE  Accounted(o, token)'
    BY DEF AllAccounted
  <2>1. o \in Kept /\ o \in DOMAIN store /\ Done(o)
    BY <1>1 DEF Done
  <2>2. store'[o].text = store[o].text /\ store'[o].unresolved = store[o].unresolved \cup Gone(o)
    BY <2>1 DEF Ends
  <2>3. token \in Plain(o)
    BY <2>2 DEF Plain
  <2>4. Accounted(o, token)
    BY <2>1, <2>3 DEF UsesInv, AllAccounted
  <2>5. LinksStay(o)
    BY <1>1, <2>1, EndsLinks
  <2> QED BY <1>1, <2>2, <2>4, <2>5 DEF Accounted, LinksStay
<1>3. JobAccounts'
  BY <1>1 DEF JobAccounts
<1> QED BY <1>2, <1>3

\* The links to the items of a document that is opened: their names are owed
\* or lost.
LEMMA OpensUses ==
    ASSUME UsesInv, NEW d, NEW text, NEW remove, Opens(d, text, remove)
    PROVE  AllAccounted' /\ JobAccounts'
<1>1. /\ job = Idle /\ queue = {} /\ after = None /\ queue' = {d} /\ job' = job
      /\ DOMAIN store' = DOMAIN store \cup {d} /\ Types
      /\ \A o \in DOMAIN store : o # d => store'[o] = store[o]
      /\ job.doc \notin DOMAIN store
  BY IdleIsOfNone DEF Opens, Quiet, UsesInv, Types
<1>2. AllAccounted'
  <2> SUFFICES ASSUME NEW o \in DOMAIN store', Done(o)', NEW token \in Plain(o)'
               PROVE  Accounted(o, token)'
    BY DEF AllAccounted
  <2>1. o \in DOMAIN store /\ o # d /\ Done(o) /\ store'[o] = store[o]
    BY <1>1 DEF Done
  <2>2. token \in Plain(o)
    BY <2>1 DEF Plain
  <2>3. Accounted(o, token) /\ Gone(o) = {}
    BY <1>1, <2>1, <2>2 DEF UsesInv, AllAccounted, Gone, None
  <2>4. CASE token.name \in store[o].unresolved
    BY <2>1, <2>4 DEF Accounted
  <2>5. CASE <<o, token.name>> \in lost
    <3>1. lost \subseteq lost'
      BY DEF Opens
    <3> QED BY <2>5, <3>1 DEF Accounted
  <2>6. ASSUME NEW id \in Live, LinkOf(id, o, token), id.doc # d PROVE Accounted(o, token)'
    <3>1. id \in Live' /\ references'[id] = references[id]
      BY <2>6 DEF Opens
    <3>2. Item(id)' = Item(id)
      <4>1. id.doc \in DOMAIN store
        BY <1>1, LiveIs DEF Types, OfItem
      <4>2. store'[id.doc] = store[id.doc]
        BY <1>1, <2>6, <4>1
      <4> QED BY <4>2 DEF Item, SelectInSeq
    <3>3. NameOf(id) = token.name /\ ((id.doc = o /\ token = TokenOf(Item(id))) \/ Refers(id, o, token))
      BY <2>6 DEF LinkOf
    <3>4. Refers(id, o, token) => Refers(id, o, token)'
      BY <3>1 DEF Refers
    <3>5. (id.doc = o /\ token = TokenOf(Item(id)')) \/ Refers(id, o, token)'
      BY <3>2, <3>3, <3>4
    <3>6. Linked(o, token)'
      BY <3>1, <3>3, <3>5 DEF Linked, TokenOf
    <3> QED BY <3>6 DEF Accounted
  <2>7. ASSUME NEW id \in Live, LinkOf(id, o, token), id.doc = d PROVE Accounted(o, token)'
    <3> DEFINE keys == {n.key : n \in ToSet(ItemsOf(d, store'[d]))}
    <3>1. PICK use \in references[id] : NameOf(id) = token.name /\ use.doc = o
      BY <2>1, <2>7 DEF LinkOf, Refers
    <3>2. CASE Declared(Item(id)) /\ id.key \notin keys
      <4> DEFINE was == [key |-> id.key, docs |-> {ref.doc : ref \in references[id]}]
      <4>1. was \in after'.previous /\ after'.doc = d
        BY <2>7, <3>2 DEF Opens
      <4>2. was.key = id.key /\ o \in was.docs
        BY <3>1
      <4>3. Declarations(d)' \subseteq keys
        <5>1. \A item \in ToSet(store'[d].text.items) : item.key \in keys
          <6>1. ToSet(ItemsOf(d, store'[d])) = {IdAt(d, store'[d], i) : i \in DOMAIN store'[d].text.items}
            BY ItemsAre
          <6>2. \A i \in DOMAIN store'[d].text.items :
                  /\ IdAt(d, store'[d], i) \in ToSet(ItemsOf(d, store'[d]))
                  /\ IdAt(d, store'[d], i).key = store'[d].text.items[i].key
            BY <6>1 DEF IdAt
          <6>3. \A i \in DOMAIN store'[d].text.items : store'[d].text.items[i].key \in keys
            BY <6>2
          <6> HIDE DEF keys
          <6> QED BY <6>3 DEF ToSet
        <5> HIDE DEF keys
        <5> QED BY <5>1 DEF Declarations
      <4>4. was.key \notin Declarations(d)'
        BY <3>2, <4>2, <4>3
      <4>5. Last(was.key) = token.name
        BY <3>1, <4>2 DEF NameOf
      <4> HIDE DEF was
      <4>6. token.name \in Gone(o)'
        BY <4>1, <4>2, <4>4, <4>5 DEF Gone
      <4> QED BY <4>6 DEF Accounted
    <3>3. CASE Declared(Item(id)) => id.key \in keys
      <4> DEFINE J == {i \in Live : i.doc = d /\ (Declared(Item(i)) => i.key \in keys)}
                 Names(i) == {<<ref.doc, NameOf(i)>> : ref \in references[i]}
      <4>1. <<use.doc, NameOf(id)>> \in Names(id)
        BY <3>1
      <4>2. id \in J
        BY <2>7, <3>3
      <4>3. lost' = lost \cup UNION {Names(i) : i \in J}
        BY DEF Opens
      <4> HIDE DEF J, Names
      <4>4. <<use.doc, NameOf(id)>> \in lost'
        BY <4>1, <4>2, <4>3
      <4> QED BY <3>1, <4>4 DEF Accounted
    <3> QED BY <3>2, <3>3
  <2>8. ASSUME Linked(o, token) PROVE Accounted(o, token)'
    <3>1. PICK id \in Live : LinkOf(id, o, token)
      BY <2>8, LinkedIs
    <3> QED BY <2>6, <2>7, <3>1
  <2> QED BY <2>3, <2>4, <2>5, <2>8 DEF Accounted
<1>3. JobAccounts'
  BY <1>1 DEF JobAccounts
<1> QED BY <1>2, <1>3

LEMMA StepsUses ==
    ASSUME UsesInv, Steps
    PROVE  UsesInv'
<1>1. CASE UNCHANGED vars
  <2>1. SameTexts /\ UNCHANGED <<store, references, job, queue, after, lost>> /\ Types
    BY <1>1 DEF vars, SameTexts, UsesInv
  <2>2. \A d : LinksStay(d) /\ Gone(d)' = Gone(d)
    BY <2>1, SameTextsLinks, GoneStays
  <2>3. \A d \in DOMAIN store : Plain(d)' = Plain(d)
    BY <2>1, PlainStays
  <2>4. AllAccounted'
    BY <2>1, <2>2, <2>3 DEF UsesInv, AllAccounted, Accounted, LinksStay, Done
  <2>5. JobAccounts'
    <3>1. job # Idle => job.doc \in DOMAIN store
      BY <2>1 DEF Types, JobTyped
    <3> QED BY <2>1, <2>2, <2>3, <3>1 DEF UsesInv, JobAccounts, LinksStay
  <2> QED BY <2>4, <2>5, StepsTypes DEF UsesInv
<1>2. ~ UNCHANGED vars => AllAccounted' /\ JobAccounts'
  BY TokenStepUses, StartUses, EndResolveUses, SyncUses, EndsUses, OpensUses DEF Steps, Openings
<1> QED BY <1>1, <1>2, StepsTypes DEF UsesInv

\* While no document of the store waits to be resolved, each has all its uses
\* accounted for; the one that is resolved, those that the loop of
\* find_references has passed.
THEOREM UsesInvHolds == Spec => []UsesInv
<1>1. UsesInv /\ [Next]_vars => UsesInv'
  BY NextSteps, StepsUses DEF UsesInv
<1> QED BY InitUses, <1>1, PTL DEF Spec

\* Every use of a name refers to an item of that name, or is recorded as
\* unresolved, or lost its item when the document of the item was opened
\* again: find_references and sync_references forget none.
THEOREM UsesAreAccounted == Spec => []UsesAccounted
<1>1. ASSUME UsesInv PROVE UsesAccounted
  <2> SUFFICES ASSUME Quiet, NEW d \in DOMAIN store, NEW token \in Plain(d)
               PROVE  \/ Linked(d, token)
                      \/ token.name \in store[d].unresolved
                      \/ <<d, token.name>> \in lost
    BY DEF UsesAccounted
  <2>1. Done(d)
    BY <1>1, IdleIsOfNone DEF Quiet, Done, UsesInv, Types
  <2>2. Gone(d) = {}
    BY DEF Quiet, Gone, None
  <2> QED BY <1>1, <2>1, <2>2 DEF UsesInv, AllAccounted, Accounted
<1> QED BY UsesInvHolds, <1>1, PTL
-----------------------------------------------------------------------------
(* What is declared is linked.                                             *)

\* A document in scope has an item of the name, at the top level.
Offered(name) == \E id \in InScopeItems : id.key = <<name>>

\* A key of one name is that name.
LEMMA OneName ==
    ASSUME NEW S, NEW key \in Seq(S), Len(key) = 1
    PROVE  key = <<Last(key)>>
  BY DEF Last

\* The names the properties speak of are keys of one name in scope.
LEMMA InScopeNamesAreOffered ==
    ASSUME Types, NEW name \in InScopeNames
    PROVE  Offered(name)
<1>1. PICK id \in Live : id.doc \in InScope /\ TopLevel(id) /\ name = NameOf(id)
  BY DEF InScopeNames
<1>2. OfItem(id)
  BY LiveIs DEF Types
<1>3. id \in InScopeItems
  BY <1>1, <1>2 DEF OfItem, InScopeItems
<1>4. id.key \in Seq(STRING) /\ Len(id.key) = 1
  BY <1>1, <1>2 DEF OfItem, Id, TopLevel
<1>5. id.key = <<name>>
  BY <1>1, <1>4, OneName DEF NameOf
<1> QED BY <1>3, <1>5 DEF Offered

LEMMA AddedAreOffered ==
    ASSUME Types, after # None, after.doc \in InScope, NEW name \in Added
    PROVE  Offered(name)
<1> DEFINE d == after.doc
<1>1. PICK key \in Declarations(d) : Len(key) = 1 /\ name = Last(key)
  BY DEF Added
<1>2. PICK item \in ToSet(store[d].text.items) : key = item.key
  BY <1>1 DEF Declarations
<1>3. PICK i \in DOMAIN store[d].text.items : item = store[d].text.items[i]
  BY <1>2 DEF ToSet
<1>4. d \in DOMAIN store
  BY InScopeIsKnown
<1>5. key \in Seq(STRING)
  <2>1. GoodText(store[d].text)
    BY <1>4, StoreTexts, TextIs DEF Types
  <2> QED BY <1>2, <1>3, <2>1 DEF GoodText
<1>6. key = <<name>>
  BY <1>1, <1>5, OneName
<1>7. IdAt(d, store[d], i) \in InScopeItems
  <2>1. IdAt(d, store[d], i) \in ToSet(ItemsOf(d, store[d]))
    BY ItemsAre
  <2> QED BY <2>1 DEF InScopeItems
<1>8. IdAt(d, store[d], i).key = <<name>>
  BY <1>2, <1>3, <1>6 DEF IdAt
<1> QED BY <1>7, <1>8 DEF Offered

\* Of the document that is resolved, the tokens done with are linked when
\* their names are offered; so are all of the document opened last, and of the
\* documents resolved again those of the names it adds.
JobLinks ==
    job # Idle => \A token \in Plain(job.doc) \ job.todo : Offered(token.name) => Linked(job.doc, token)
OpenedOk(d) ==
    opens > 0 /\ store[d].opening = opens =>
        \A token \in Plain(d) : Offered(token.name) => Linked(d, token)
AddedOk(d) ==
    after # None /\ ~after.sync /\ after.doc \in InScope /\ d \in InScope =>
        \A token \in Plain(d) : token.name \in Added /\ <<d, token.name>> \notin lost => Linked(d, token)
DoneLinks == \A d \in DOMAIN store : Done(d) => OpenedOk(d) /\ AddedOk(d)
LinkInv == UsesInv /\ JobLinks /\ DoneLinks

LEMMA InitLinks == Init => LinkInv
<1> SUFFICES ASSUME Init PROVE LinkInv
  OBVIOUS
<1>1. UsesInv
  BY InitUses
<1>2. queue = InScope /\ InScope = Doc /\ job = Idle
  BY DEF Init
<1>3. DoneLinks
  BY <1>1, <1>2 DEF DoneLinks, Done, UsesInv, Types, StoreTyped
<1> QED BY <1>1, <1>2, <1>3 DEF LinkInv, JobLinks

\* As long as no text changes, the names that are offered stay.
LEMMA OffersStay ==
    ASSUME SameTexts
    PROVE  /\ InScope' = InScope /\ \A name : Offered(name)' <=> Offered(name)
<1>1. InScope' = InScope /\ InScopeItems' = InScopeItems
  BY ItemsStay
<1> QED BY <1>1 DEF Offered

\* The names a document adds stay while it is resolved.
LEMMA AddedStays ==
    ASSUME Types, SameTexts, after # None, after'.doc = after.doc, after'.previous = after.previous
    PROVE  Added' = Added
<1>1. after.doc \in DOMAIN store
  BY DEF Types, AfterTyped
<1>2. Declarations(after.doc)' = Declarations(after.doc)
  BY <1>1 DEF Declarations, SameTexts
<1> QED BY <1>2 DEF Added

\* What a document has linked stays linked, whatever step leaves texts alone.
LEMMA OkStays ==
    ASSUME Types, SameTexts, UNCHANGED <<opens, after>>, NEW d \in DOMAIN store, LinksStay(d),
           \A name : <<d, name>> \in lost => <<d, name>> \in lost', OpenedOk(d), AddedOk(d)
    PROVE  OpenedOk(d)' /\ AddedOk(d)'
<1>1. /\ InScope' = InScope /\ (\A name : Offered(name)' <=> Offered(name)) /\ Plain(d)' = Plain(d)
      /\ store'[d].opening = store[d].opening
  BY OffersStay, PlainStays DEF SameTexts
<1>2. OpenedOk(d)'
  BY <1>1 DEF OpenedOk, LinksStay
<1>3. AddedOk(d)'
  <2>1. after # None => Added' = Added
    BY AddedStays
  <2> QED BY <1>1, <2>1 DEF AddedOk, LinksStay
<1> QED BY <1>2, <1>3

\* A token whose name is offered is not among those that are not found.
LEMMA TokenStepLinked ==
    ASSUME LinkInv, TokenStep
    PROVE  JobLinks' /\ DoneLinks'
<1>1. /\ job # Idle /\ SameTexts /\ Types /\ job.doc \in DOMAIN store /\ ToSet(job.items) = InScopeItems
      /\ UNCHANGED <<main, store, queue, opens, after, lost>>
  BY DEF TokenStep, SameTexts, LinkInv, UsesInv, Types, JobTyped
<1>2. \A d : LinksStay(d)
  BY <1>1, TokenStepLinks
<1>3. job'.doc = job.doc
  BY TakesIs, WalksIs DEF TokenStep
<1>4. DoneLinks'
  <2> SUFFICES ASSUME NEW d \in DOMAIN store', Done(d)' PROVE OpenedOk(d)' /\ AddedOk(d)'
    BY DEF DoneLinks
  <2>1. d \in DOMAIN store /\ Done(d)
    BY <1>1, <1>3 DEF Done
  <2>2. OpenedOk(d) /\ AddedOk(d)
    BY <2>1 DEF LinkInv, DoneLinks
  <2> QED BY <1>1, <1>2, <2>1, <2>2, OkStays
<1>5. ASSUME NEW token \in Plain(job.doc) \ job'.todo, Offered(token.name)
      PROVE  Linked(job.doc, token)'
  <2>1. token.parent = "" /\ token.name # "this"
    BY DEF Plain
  <2>2. CASE token \notin job.todo
    <3>1. Linked(job.doc, token)
      BY <1>1, <1>5, <2>2 DEF LinkInv, JobLinks
    <3>2. Linked(job.doc, token) => Linked(job.doc, token)'
      BY <1>2, <1>3 DEF LinksStay
    <3> QED BY <3>1, <3>2
  <2>3. CASE token \in job.todo
    <3>1. PICK previous : Takes(token, previous)
      <4>1. ASSUME NEW other, NEW previous, Takes(other, previous) PROVE other = token
        BY <1>5, <2>3, <4>1, TakesIs
      <4>2. ~ \E other, mm : Walks(other, mm)
        BY <1>5, <2>3, WalksIs
      <4> QED BY <4>1, <4>2 DEF TokenStep
    <3>2. Linking(token) \/ Missing(token)
      BY <2>1, <3>1, TakesIs
    <3>3. ~ Missing(token)
      BY <1>1, <1>5, <2>1 DEF Missing, Offered
    <3> QED BY <1>1, <1>3, <2>3, <3>2, <3>3, LinkingLinks
  <2> QED BY <2>2, <2>3
<1>6. JobLinks'
  <2>1. Plain(job.doc)' = Plain(job.doc) /\ \A name : Offered(name)' <=> Offered(name)
    BY <1>1, <1>3, PlainStays, OffersStay
  <2> QED BY <1>3, <1>5, <2>1 DEF JobLinks
<1> QED BY <1>4, <1>6

LEMMA StartLinked ==
    ASSUME LinkInv, NEW d, Starts(d)
    PROVE  JobLinks' /\ DoneLinks'
<1>1. /\ job = Idle /\ d \in queue /\ queue' = queue \ {d} /\ UNCHANGED <<main, store, opens, after, lost>>
      /\ SameTexts /\ Types /\ job.doc \notin DOMAIN store
  BY IdleIsOfNone DEF Starts, SameTexts, LinkInv, UsesInv, Types
<1>2. job'.doc = d /\ job'.todo = store[d].text.uses
  BY DEF Starts, JobOf
<1>3. DoneLinks'
  <2> SUFFICES ASSUME NEW o \in DOMAIN store', Done(o)' PROVE OpenedOk(o)' /\ AddedOk(o)'
    BY DEF DoneLinks
  <2>1. o \in DOMAIN store /\ o # d /\ Done(o)
    BY <1>1, <1>2 DEF Done
  <2>2. OpenedOk(o) /\ AddedOk(o)
    BY <2>1 DEF LinkInv, DoneLinks
  <2>3. LinksStay(o)
    BY <1>1, <2>1, StartLinks
  <2> QED BY <1>1, <2>1, <2>2, <2>3, OkStays
<1>4. JobLinks'
  <2>1. Plain(d)' \subseteq store[d].text.uses
    BY <1>1 DEF Plain
  <2> QED BY <1>2, <2>1 DEF JobLinks
<1> QED BY <1>3, <1>4

\* The job ends with all its tokens passed.
LEMMA EndResolveLinked ==
    ASSUME LinkInv, EndResolve
    PROVE  JobLinks' /\ DoneLinks'
<1>1. /\ job # Idle /\ job.todo = {} /\ job' = Idle /\ UNCHANGED <<main, references, queue, after, opens>>
      /\ lost' = {use \in lost : use[1] # job.doc} /\ Types /\ SameTexts
  BY EndResolveIs DEF EndResolve, LinkInv, UsesInv
<1>2. DoneLinks'
  <2> SUFFICES ASSUME NEW d \in DOMAIN store', Done(d)' PROVE OpenedOk(d)' /\ AddedOk(d)'
    BY DEF DoneLinks
  <2>1. d \in DOMAIN store /\ d \notin queue
    BY <1>1 DEF Done, SameTexts
  <2>2. LinksStay(d)
    BY <1>1, SameTextsLinks
  <2>3. CASE d = job.doc
    <3>1. \A token \in Plain(d) : Offered(token.name) => Linked(d, token)
      BY <1>1, <2>3 DEF LinkInv, JobLinks
    <3>2. Plain(d)' = Plain(d) /\ InScope' = InScope /\ \A name : Offered(name)' <=> Offered(name)
      BY <1>1, <2>1, PlainStays, OffersStay
    <3>3. \A token \in Plain(d)' : Offered(token.name)' => Linked(d, token)'
      BY <2>2, <3>1, <3>2 DEF LinksStay
    <3>4. after' # None /\ after'.doc \in InScope' => \A name \in Added' : Offered(name)'
      <4>1. after # None /\ after.doc \in InScope => \A name \in Added : Offered(name)
        BY <1>1, AddedAreOffered
      <4>2. after # None => Added' = Added
        BY <1>1, AddedStays
      <4> QED BY <1>1, <3>2, <4>1, <4>2
    <3> QED BY <3>3, <3>4 DEF OpenedOk, AddedOk
  <2>4. CASE d # job.doc
    <3>1. OpenedOk(d) /\ AddedOk(d)
      BY <2>1, <2>4 DEF LinkInv, DoneLinks, Done
    <3>2. \A name : <<d, name>> \in lost => <<d, name>> \in lost'
      BY <1>1, <2>4
    <3> QED BY <1>1, <2>1, <2>2, <3>1, <3>2, OkStays
  <2> QED BY <2>3, <2>4
<1>3. JobLinks'
  BY <1>1 DEF JobLinks
<1> QED BY <1>2, <1>3

\* A document that Sync does not queue has none of the added names unresolved:
\* its uses of them are linked or lost.
LEMMA SyncLinked ==
    ASSUME LinkInv, Sync
    PROVE  JobLinks' /\ DoneLinks'
<1>1. /\ job = Idle /\ queue = {} /\ UNCHANGED <<main, store, references, job, opens, lost>> /\ Types /\ SameTexts
      /\ after # None /\ after'.doc = after.doc /\ after'.previous = after.previous
  BY SyncIs DEF Sync, LinkInv, UsesInv, SameTexts
<1> DEFINE names == {Last(key) : key \in Declarations(after.doc)}
<1>2. queue' = {d \in DOMAIN store : store[d].unresolved \cap names # {}}
  BY DEF Sync
<1>3. DoneLinks'
  <2> SUFFICES ASSUME NEW d \in DOMAIN store', Done(d)' PROVE OpenedOk(d)' /\ AddedOk(d)'
    BY DEF DoneLinks
  <2>1. d \in DOMAIN store /\ Done(d) /\ d \notin queue'
    BY <1>1 DEF Done
  <2>2. LinksStay(d) /\ Plain(d)' = Plain(d) /\ Added' = Added /\ \A name : Offered(name)' <=> Offered(name)
    BY <1>1, <2>1, SameTextsLinks, PlainStays, OffersStay, AddedStays
  <2>3. OpenedOk(d)'
    <3>1. OpenedOk(d)
      BY <2>1 DEF LinkInv, DoneLinks
    <3> QED BY <1>1, <2>2, <3>1 DEF OpenedOk, LinksStay
  <2>4. ASSUME NEW token \in Plain(d), token.name \in Added, <<d, token.name>> \notin lost
        PROVE  Linked(d, token)
    <3>1. token.name \in names
      BY <2>4 DEF Added
    <3>2. token.name \notin store[d].unresolved
      <4> HIDE DEF names
      <4> QED BY <1>2, <2>1, <3>1
    <3>3. token.name \notin Gone(d)
      BY <2>4 DEF Added, Gone
    <3>4. Accounted(d, token)
      BY <2>1 DEF LinkInv, UsesInv, AllAccounted
    <3> QED BY <2>4, <3>2, <3>3, <3>4 DEF Accounted
  <2>5. AddedOk(d)'
    BY <1>1, <2>2, <2>4 DEF AddedOk, LinksStay
  <2> QED BY <2>3, <2>5
<1>4. JobLinks'
  BY <1>1 DEF JobLinks
<1> QED BY <1>3, <1>4

\* Nothing is promised of a document removed; the others keep their links.
LEMMA EndsLinked ==
    ASSUME LinkInv, Ends
    PROVE  JobLinks' /\ DoneLinks'
<1>1. /\ job = Idle /\ queue = {} /\ after # None /\ after' = None /\ DOMAIN store' = Kept /\ Kept \subseteq DOMAIN store
      /\ UNCHANGED <<main, job, queue, opens>> /\ Types
  BY DEF Ends, LinkInv, UsesInv, Kept
<1>2. DoneLinks'
  <2> SUFFICES ASSUME NEW d \in DOMAIN store', Done(d)' PROVE OpenedOk(d)' /\ AddedOk(d)'
    BY DEF DoneLinks
  <2>1. d \in Kept /\ d \in DOMAIN store /\ Done(d)
    BY <1>1 DEF Done
  <2>2. AddedOk(d)'
    BY <1>1 DEF AddedOk
  <2>3. OpenedOk(d)'
    <3> SUFFICES ASSUME store'[d].opening = opens', opens' > 0 PROVE OpenedOk(d)'
      BY DEF OpenedOk
    <3>1. store[d].opening = opens /\ opens > 0
      BY <1>1, <2>1 DEF Ends
    <3>2. d = after.doc
      BY <1>1, <2>1, <3>1 DEF Types, AfterTyped
    <3>3. ~ after.remove
      BY <2>1, <3>2 DEF Kept
    <3>4. SameTexts
      BY <1>1, <3>3 DEF SameTexts, Ends, Kept
    <3>5. LinksStay(d)
      BY <1>1, <2>1, EndsLinks
    <3>6. Plain(d)' = Plain(d) /\ \A name : Offered(name)' <=> Offered(name)
      BY <2>1, <3>4, PlainStays, OffersStay
    <3>7. OpenedOk(d)
      BY <2>1 DEF LinkInv, DoneLinks
    <3> QED BY <3>1, <3>5, <3>6, <3>7 DEF OpenedOk, LinksStay
  <2> QED BY <2>2, <2>3
<1>3. JobLinks'
  BY <1>1 DEF JobLinks
<1> QED BY <1>2, <1>3

\* The document that is opened waits, and no other is the last one opened.
LEMMA OpensLinked ==
    ASSUME LinkInv, NEW d, NEW text, NEW remove, Opens(d, text, remove)
    PROVE  JobLinks' /\ DoneLinks'
<1>1. /\ job = Idle /\ job' = job /\ queue' = {d} /\ opens' = opens + 1 /\ opens \in Nat
      /\ DOMAIN store' = DOMAIN store \cup {d} /\ \A o \in DOMAIN store : o # d => store'[o] = store[o]
  BY DEF Opens, Quiet, LinkInv, UsesInv, Types, StoreTyped
<1>2. after'.sync = TRUE
  BY DEF Opens
<1>3. DoneLinks'
  <2> SUFFICES ASSUME NEW o \in DOMAIN store', Done(o)' PROVE OpenedOk(o)' /\ AddedOk(o)'
    BY DEF DoneLinks
  <2>1. o \in DOMAIN store /\ store'[o] = store[o]
    BY <1>1 DEF Done
  <2>2. store[o].opening \in Nat /\ store[o].opening <= opens
    BY <2>1 DEF LinkInv, UsesInv, Types, StoreTyped
  <2>3. store'[o].opening # opens'
    BY <1>1, <2>1, <2>2
  <2> QED BY <1>2, <2>3 DEF OpenedOk, AddedOk
<1>4. JobLinks'
  BY <1>1 DEF JobLinks
<1> QED BY <1>3, <1>4

LEMMA StepsLinked ==
    ASSUME LinkInv, Steps
    PROVE  LinkInv'
<1>1. UNCHANGED vars => JobLinks' /\ DoneLinks'
  <2> SUFFICES ASSUME UNCHANGED vars PROVE JobLinks' /\ DoneLinks'
    OBVIOUS
  <2>1. SameTexts /\ UNCHANGED <<store, references, job, queue, opens, after, lost>> /\ Types
    BY DEF vars, SameTexts, LinkInv, UsesInv
  <2>2. \A d : LinksStay(d)
    BY <2>1, SameTextsLinks
  <2>3. DoneLinks'
    <3>1. \A d \in DOMAIN store : Done(d) => OpenedOk(d)' /\ AddedOk(d)'
      BY <2>1, <2>2, OkStays DEF LinkInv, DoneLinks
    <3> QED BY <2>1, <3>1 DEF DoneLinks, Done
  <2>4. JobLinks'
    <3>1. job # Idle => job.doc \in DOMAIN store
      BY <2>1 DEF Types, JobTyped
    <3>2. \A name : Offered(name)' <=> Offered(name)
      BY <2>1, OffersStay
    <3>3. job # Idle => Plain(job.doc)' = Plain(job.doc)
      BY <2>1, <3>1, PlainStays
    <3> QED BY <2>1, <2>2, <3>2, <3>3 DEF LinkInv, JobLinks, LinksStay
  <2> QED BY <2>3, <2>4
<1>2. JobLinks' /\ DoneLinks'
  BY <1>1, TokenStepLinked, StartLinked, EndResolveLinked, SyncLinked, EndsLinked, OpensLinked DEF Steps, Openings
<1> QED BY <1>2, StepsUses DEF LinkInv

\* What find_references resolved since the last opening is linked to what was
\* declared, and so are the tokens that the loop has passed.
THEOREM LinkInvHolds == Spec => []LinkInv
<1>1. LinkInv /\ [Next]_vars => LinkInv'
  BY NextSteps, StepsLinked DEF LinkInv, UsesInv
<1> QED BY InitLinks, <1>1, PTL DEF Spec

\* The document that was opened last has its uses of what a document in scope
\* declares linked: find_references looks at every token, in all that
\* get_all_items gives it.
THEOREM LastOpenedIsLinked == Spec => []OpenedIsLinked
<1>1. ASSUME LinkInv PROVE OpenedIsLinked
  <2> SUFFICES ASSUME NEW d \in DOMAIN store, Quiet, opens > 0, store[d].opening = opens,
                      NEW token \in Plain(d), token.name \in InScopeNames
               PROVE  Linked(d, token)
    BY DEF OpenedIsLinked
  <2>1. Done(d)
    BY <1>1, IdleIsOfNone DEF Quiet, Done, LinkInv, UsesInv, Types
  <2>2. Offered(token.name)
    BY <1>1, InScopeNamesAreOffered DEF LinkInv, UsesInv
  <2> QED BY <1>1, <2>1, <2>2 DEF LinkInv, DoneLinks, OpenedOk
<1> QED BY LinkInvHolds, <1>1, PTL

\* When a document declares a name it did not declare before, the uses of the
\* name in the documents in scope are linked once sync_references has resolved
\* them again, but for those that were lost before.
THEOREM AddedNamesAreLinked == Spec => []AddedIsLinked
<1>1. ASSUME LinkInv PROVE AddedIsLinked
  <2> SUFFICES ASSUME Synced, after.doc \in InScope, NEW d \in InScope, NEW token \in Plain(d),
                      token.name \in Added, <<d, token.name>> \notin lost
               PROVE  Linked(d, token)
    BY DEF AddedIsLinked
  <2>1. d \in DOMAIN store
    BY InScopeIsKnown
  <2>2. Done(d)
    BY <1>1, <2>1, IdleIsOfNone DEF Synced, Done, LinkInv, UsesInv, Types
  <2> QED BY <1>1, <2>1, <2>2 DEF LinkInv, DoneLinks, AddedOk, Synced
<1> QED BY LinkInvHolds, <1>1, PTL
-----------------------------------------------------------------------------
(* The scope is the one around.                                            *)

\* Of the items of some kinds, the last that begins by the line is the one at
\* `at`, and the name is that of the item around the line, if there is one.
Around(items, kinds, line, name, at) ==
    /\ at \in Nat
    /\ at # 0 => at \in DOMAIN items /\ items[at].kind \in kinds
    /\ \A i \in DOMAIN items : items[i].kind \in kinds =>
         /\ i <= at => items[i].first <= line
         /\ i > at => items[i].first > line
         /\ name = "" => ~ Spans(items[i], line)
    /\ name # "" => at # 0 /\ name = Last(items[at].key) /\ Spans(items[at], line)

\* Items with lines and names, of which those of the kinds do not overlap.
GoodItems(items, kinds) ==
    /\ items \in Seq(SPItem) /\ Apart(items, kinds)
    /\ \A i \in DOMAIN items : /\ items[i].first \in Nat /\ items[i].last \in Nat
                               /\ items[i].first <= items[i].last /\ Last(items[i].key) # ""

\* Scope goes from the last line on to the next: no item begins in between.
LEMMA FollowingIsAround ==
    ASSUME NEW items, NEW kinds, GoodItems(items, kinds),
           NEW line \in Nat, NEW next \in Nat, line <= next,
           NEW name, NEW at, Around(items, kinds, line, name, at),
           \A i \in DOMAIN items : items[i].kind \in kinds /\ i > at => next <= items[i].first,
           NEW f, f = Following(items, kinds, next, name, at)
    PROVE  Around(items, kinds, next, f[1], f[2])
<1> DEFINE B == Beyond(items, kinds, at)
           I == {i \in DOMAIN items : items[i].kind \in kinds}
           F == [i \in I |-> items[i].first]
           L == [i \in I |-> items[i].last]
           K == [i \in I |-> Last(items[i].key)]
<1>0. items \in Seq(SPItem)
  BY DEF GoodItems
<1>1. DOMAIN items = 1..Len(items) /\ Len(items) \in Nat
  BY <1>0, SeqIs
<1>2. I \subseteq Nat /\ at \in Nat /\ \A i \in I : i # 0
  <2>1. \A i \in DOMAIN items : i \in Nat /\ i # 0
    BY <1>1
  <2>2. at \in Nat
    BY DEF Around
  <2> QED BY <2>1, <2>2
<1>3. \A i \in I : /\ F[i] \in Nat /\ L[i] \in Nat /\ F[i] <= L[i]
                   /\ i > at => next <= F[i]
  BY DEF GoodItems
<1>4. \A i \in I : K[i] # ""
  BY DEF GoodItems
<1>5. \A i, j \in I : i < j => L[i] < F[j]
  BY DEF GoodItems, Apart
<1>6. \A i \in I, n \in Nat : Spans(items[i], n) <=> F[i] <= n /\ n <= L[i]
  BY DEF Spans
<1>7. /\ at # 0 => at \in I
      /\ \A i \in I : /\ i <= at => F[i] <= line
                      /\ i > at => F[i] > line
  BY DEF Around
<1>8. name = "" => \A i \in I : ~ Spans(items[i], line)
  BY DEF Around
<1>9. name # "" => at # 0 /\ name = K[at] /\ Spans(items[at], line)
  BY <1>7 DEF Around
<1>10. B = {i \in I : i > at}
  BY DEF Beyond
<1>11. f = IF name # "" /\ Spans(items[at], next) THEN <<name, at>>
           ELSE IF B # {} /\ Spans(items[Min(B)], next) THEN <<Last(items[Min(B)].key), Min(B)>>
           ELSE <<"", at>>
  BY DEF Following
<1>12. ASSUME NEW n, NEW p \in Nat, p # 0 => p \in I,
              \A i \in I : (i <= p => F[i] <= next) /\ (i > p => F[i] > next),
              n = "" => \A i \in I : ~ Spans(items[i], next),
              n # "" => p # 0 /\ n = K[p] /\ Spans(items[p], next)
       PROVE  Around(items, kinds, next, n, p)
  <2>1. p # 0 => p \in DOMAIN items /\ items[p].kind \in kinds
    BY <1>12
  <2>2. ASSUME NEW i \in DOMAIN items, items[i].kind \in kinds
        PROVE  /\ i <= p => items[i].first <= next
               /\ i > p => items[i].first > next
               /\ n = "" => ~ Spans(items[i], next)
    <3>1. i \in I /\ F[i] = items[i].first
      BY <2>2
    <3> QED BY <1>12, <3>1
  <2>3. n # "" => p # 0 /\ n = Last(items[p].key) /\ Spans(items[p], next)
    BY <1>12
  <2> QED BY <2>1, <2>2, <2>3 DEF Around
<1>13. \A i \in I : K[i] = Last(items[i].key)
  OBVIOUS
<1>14. B # {} => Min(B) \in B /\ \A i \in B : Min(B) <= i
  <2>1. B \in SUBSET DOMAIN items
    BY DEF Beyond
  <2> HIDE DEF B
  <2> QED BY <1>0, <2>1, PlacesHaveEnds
<1> HIDE DEF I, F, L, K, B
<1>15. CASE name # "" /\ Spans(items[at], next)
  <2>1. at \in I /\ F[at] <= next /\ next <= L[at]
    BY <1>6, <1>7, <1>9, <1>15
  <2>2. ASSUME NEW i \in I PROVE (i <= at => F[i] <= next) /\ (i > at => F[i] > next)
    <3>1. i > at => L[at] < F[i]
      BY <1>2, <1>5, <2>1
    <3>2. i <= at => F[i] <= line
      BY <1>7
    <3>3. i \in Nat /\ F[i] \in Nat /\ L[at] \in Nat
      BY <1>2, <1>3, <2>1
    <3> QED BY <2>1, <3>1, <3>2, <3>3
  <2>3. Around(items, kinds, next, name, at)
    BY <1>2, <1>7, <1>9, <1>12, <1>15, <2>2
  <2>4. f = <<name, at>>
    BY <1>11, <1>15
  <2> QED BY <2>3, <2>4
<1>16. CASE /\ ~ (name # "" /\ Spans(items[at], next))
            /\ B # {} /\ Spans(items[Min(B)], next)
  <2> DEFINE m == Min(B)
  <2>1. m \in I /\ m > at /\ m \in Nat /\ m # 0
    BY <1>2, <1>10, <1>14, <1>16
  <2>2. \A i \in I : i > at => m <= i
    BY <1>10, <1>14, <1>16
  <2>3. F[m] <= next /\ next <= L[m]
    BY <1>6, <1>16, <2>1
  <2>4. f = <<K[m], m>>
    <3>1. f = <<Last(items[m].key), m>>
      BY <1>11, <1>16
    <3> QED BY <1>13, <2>1, <3>1
  <2>5. Spans(items[m], next)
    BY <1>16
  <2> HIDE DEF m
  <2>6. ASSUME NEW i \in I PROVE (i <= m => F[i] <= next) /\ (i > m => F[i] > next)
    <3>1. i \in Nat /\ F[i] \in Nat /\ L[m] \in Nat /\ L[i] \in Nat /\ F[i] <= L[i] /\ F[m] \in Nat
      BY <1>2, <1>3, <2>1
    <3>2. i > m => L[m] < F[i]
      BY <1>2, <1>5, <2>1
    <3>3. i <= at => F[i] <= line
      BY <1>7
    <3>4. i > at => m <= i
      BY <2>2
    <3>5. i < m => i <= at
      BY <1>2, <2>1, <3>1, <3>4
    <3>6. i = m => F[i] <= next
      BY <2>3
    <3> QED BY <2>1, <2>3, <3>1, <3>2, <3>3, <3>5, <3>6
  <2>7. K[m] # ""
    BY <1>4, <2>1
  <2>8. Around(items, kinds, next, K[m], m)
    BY <1>12, <2>1, <2>5, <2>6, <2>7
  <2> QED BY <2>4, <2>8
<1>17. CASE /\ ~ (name # "" /\ Spans(items[at], next))
            /\ ~ (B # {} /\ Spans(items[Min(B)], next))
  <2>1. f = <<"", at>>
    BY <1>11, <1>17
  <2>2. ASSUME NEW i \in I, i > at PROVE F[i] > next
    <3> DEFINE m == Min(B)
    <3>1. B # {}
      BY <1>10, <2>2
    <3>2. m \in I /\ m > at /\ m <= i
      BY <1>10, <1>14, <2>2, <3>1
    <3>3. ~ (F[m] <= next /\ next <= L[m])
      BY <1>6, <1>17, <3>1, <3>2
    <3> HIDE DEF m
    <3>4. /\ m \in Nat /\ i \in Nat /\ F[m] \in Nat /\ L[m] \in Nat /\ F[i] \in Nat
          /\ next <= F[m] /\ F[m] <= L[m]
      BY <1>2, <1>3, <3>2
    <3>5. m = i \/ L[m] < F[i]
      BY <1>5, <3>2, <3>4
    <3> QED BY <3>3, <3>4, <3>5
  <2>3. at # 0 => L[at] < next
    <3> SUFFICES ASSUME at # 0 PROVE L[at] < next
      OBVIOUS
    <3>1. at \in I /\ F[at] <= line /\ F[at] \in Nat /\ L[at] \in Nat
      BY <1>2, <1>3, <1>7
    <3>2. CASE name = ""
      <4>1. ~ (F[at] <= line /\ line <= L[at])
        BY <1>6, <1>8, <3>1, <3>2
      <4> QED BY <3>1, <4>1
    <3>3. CASE name # ""
      <4>1. ~ (F[at] <= next /\ next <= L[at])
        BY <1>6, <1>17, <3>1, <3>3
      <4> QED BY <3>1, <4>1
    <3> QED BY <3>2, <3>3
  <2>4. ASSUME NEW i \in I, i <= at PROVE F[i] <= next /\ L[i] < next
    <3>1. at # 0 /\ at \in I /\ L[at] < next
      BY <1>2, <1>7, <2>3, <2>4
    <3>2. i = at \/ L[i] < F[at]
      BY <1>2, <1>5, <2>4, <3>1
    <3>3. /\ F[i] \in Nat /\ L[i] \in Nat /\ F[at] \in Nat /\ L[at] \in Nat
          /\ F[i] <= L[i] /\ F[at] <= L[at]
      BY <1>3, <3>1
    <3> QED BY <3>1, <3>2, <3>3
  <2>5. ASSUME NEW i \in I PROVE (i <= at => F[i] <= next) /\ (i > at => F[i] > next)
    BY <2>2, <2>4
  <2>6. ASSUME NEW i \in I PROVE ~ Spans(items[i], next)
    <3>1. i \in Nat /\ F[i] \in Nat /\ L[i] \in Nat
      BY <1>2, <1>3
    <3>2. ~ (F[i] <= next /\ next <= L[i])
      <4>1. CASE i > at
        BY <2>2, <3>1, <4>1
      <4>2. CASE i <= at
        BY <2>4, <3>1, <4>2
      <4> QED BY <1>2, <3>1, <4>1, <4>2
    <3> QED BY <1>6, <3>2
  <2>7. Around(items, kinds, next, "", at)
    BY <1>2, <1>7, <1>12, <2>5, <2>6
  <2>8. \A none : f = <<none, at>> => f[1] = none /\ f[2] = at
    OBVIOUS
  <2> QED BY <2>1, <2>7, <2>8
<1> QED BY <1>15, <1>16, <1>17

\* The items of the document that is resolved are well-formed.
LEMMA MineIs ==
    ASSUME Types, job # Idle
    PROVE  /\ GoodItems(Mine, {"function"}) /\ GoodItems(Mine, MMEs)
           /\ \A i \in DOMAIN Mine : TokenOf(Mine[i]) \in store[job.doc].text.uses
           /\ store[job.doc].text.uses \subseteq Token
<1>1. job.doc \in DOMAIN store
  BY DEF Types, JobTyped
<1>2. GoodText(store[job.doc].text)
  BY <1>1, StoreTexts, TextIs DEF Types
<1>3. CASE Mine = store[job.doc].text.items
  BY <1>2, <1>3 DEF GoodText, GoodItems
<1>4. CASE Mine = <<>>
  <2>1. DOMAIN Mine = {} /\ Mine \in Seq(SPItem)
    BY <1>4
  <2> QED BY <1>2, <2>1 DEF GoodText, GoodItems, Apart
<1> QED BY <1>3, <1>4 DEF Mine

\* The scope of the tokens done with is around them, and those left are not
\* before them.
InOrder ==
    /\ job.line \in Nat
    /\ \A token \in store[job.doc].text.uses :
         IF token \in job.todo THEN job.line <= token.line ELSE token.line <= job.line
ScopesAround ==
    /\ Around(Mine, {"function"}, job.line, job.scope.func, job.scope.funcs)
    /\ Around(Mine, MMEs, job.line, job.scope.mm_es, job.scope.mm_ess)
ScopeInv == Types /\ (job # Idle => InOrder /\ ScopesAround)

\* Before the first line, no function has begun.
LEMMA StartScopes ==
    ASSUME ScopeInv, NEW d, Starts(d)
    PROVE  InOrder' /\ ScopesAround'
<1>1. /\ job'.doc = d /\ job'.todo = store[d].text.uses /\ job'.line = 0 /\ job'.scope = NoScope
      /\ store' = store /\ d \in DOMAIN store
  BY DEF Starts, JobOf, ScopeInv, Types
<1>2. Types'
  BY StartTypes DEF ScopeInv
<1>3. job' # Idle
  BY <1>1, BusyIs DEF ScopeInv, Types, StoreTyped
<1> DEFINE items == Mine'
<1>4. /\ GoodItems(items, {"function"}) /\ GoodItems(items, MMEs)
      /\ \A i \in DOMAIN items : TokenOf(items[i]) \in store'[job'.doc].text.uses
      /\ store'[job'.doc].text.uses \subseteq Token
  <2>1. (Types /\ job # Idle => /\ GoodItems(Mine, {"function"}) /\ GoodItems(Mine, MMEs)
                                /\ \A i \in DOMAIN Mine : TokenOf(Mine[i]) \in store[job.doc].text.uses
                                /\ store[job.doc].text.uses \subseteq Token)'
    BY MineIs, PTL
  <2> QED BY <1>2, <1>3, <2>1
<1>5. \A token \in store[d].text.uses : token.line \in Nat /\ token.line > 0
  BY <1>1, <1>4 DEF Token
<1>6. InOrder'
  BY <1>1, <1>5 DEF InOrder
<1> HIDE DEF items
<1>7. \A i \in DOMAIN items : items[i].first > 0 /\ i \in Nat /\ i > 0 /\ items[i].first \in Nat
  <2>1. \A i \in DOMAIN items : TokenOf(items[i]).line = items[i].first
    BY DEF TokenOf
  <2>2. DOMAIN items = 1..Len(items) /\ Len(items) \in Nat
    BY <1>4, SeqIs DEF GoodItems
  <2> QED BY <1>1, <1>4, <1>5, <2>1, <2>2
<1>8. NoScope.func = "" /\ NoScope.funcs = 0 /\ NoScope.mm_es = "" /\ NoScope.mm_ess = 0
  BY DEF NoScope
<1>9. \A kinds : Around(items, kinds, 0, "", 0)
  BY <1>7 DEF Around, Spans
<1> QED BY <1>1, <1>6, <1>8, <1>9 DEF ScopesAround, items

\* Scope goes on to the line of the token taken.
LEMMA TokenStepScopes ==
    ASSUME ScopeInv, TokenStep
    PROVE  InOrder' /\ ScopesAround'
<1>1. job # Idle /\ store' = store /\ Types /\ InOrder /\ ScopesAround
  BY DEF TokenStep, ScopeInv
<1>2. job'.doc = job.doc /\ job'.items = job.items
  BY TakesIs, WalksIs DEF TokenStep
<1>3. Mine' = Mine
  BY <1>1, <1>2 DEF Mine
<1>4. ASSUME NEW token, NEW mm, Walks(token, mm) PROVE InOrder' /\ ScopesAround'
  <2>1. job'.todo = job.todo /\ job'.line = job.line /\ job'.scope = job.scope
    BY <1>4, WalksIs
  <2> QED BY <1>1, <1>2, <1>3, <2>1 DEF InOrder, ScopesAround
<1>5. ASSUME NEW token, NEW previous, Takes(token, previous) PROVE InOrder' /\ ScopesAround'
  <2>1. job'.todo = job.todo \ {token} /\ job'.line = token.line /\ job'.scope = ScopeAt(token.line)
    BY <1>5, TakesIs
  <2>2. token \in job.todo /\ \A other \in job.todo : token.line <= other.line
    BY <1>5 DEF Takes, Lowest
  <2>3. /\ job.todo \subseteq store[job.doc].text.uses /\ store[job.doc].text.uses \subseteq Token
        /\ GoodItems(Mine, {"function"}) /\ GoodItems(Mine, MMEs)
        /\ \A i \in DOMAIN Mine : TokenOf(Mine[i]) \in store[job.doc].text.uses
    BY <1>1, MineIs DEF Types, JobTyped
  <2>4. \A t \in store[job.doc].text.uses : t.line \in Nat
    BY <2>3 DEF Token
  <2>5. job.line \in Nat /\ token.line \in Nat /\ job.line <= token.line
    BY <1>1, <2>2, <2>3, <2>4 DEF InOrder
  <2>6. InOrder'
    <3>1. ASSUME NEW t \in store[job.doc].text.uses
          PROVE  IF t \in job'.todo THEN token.line <= t.line ELSE t.line <= token.line
      <4>1. CASE t \in job'.todo
        BY <2>1, <2>2, <4>1
      <4>2. CASE t = token
        BY <2>1, <2>5, <4>2
      <4>3. CASE t \notin job.todo
        <5>1. t.line <= job.line
          BY <1>1, <4>3 DEF InOrder
        <5> QED BY <2>1, <2>4, <2>5, <4>3, <5>1
      <4> QED BY <2>1, <4>1, <4>2, <4>3
    <3> QED BY <1>1, <1>2, <2>1, <2>5, <3>1 DEF InOrder
  <2>7. \A i \in DOMAIN Mine : Mine[i].first > job.line => token.line <= Mine[i].first
    <3> SUFFICES ASSUME NEW i \in DOMAIN Mine, Mine[i].first > job.line PROVE token.line <= Mine[i].first
      OBVIOUS
    <3>1. TokenOf(Mine[i]) \in store[job.doc].text.uses /\ TokenOf(Mine[i]).line = Mine[i].first
      BY <2>3 DEF TokenOf
    <3>2. TokenOf(Mine[i]) \in job.todo
      BY <1>1, <2>4, <2>5, <3>1 DEF InOrder
    <3> QED BY <2>2, <3>1, <3>2
  <2>8. ASSUME NEW kinds, GoodItems(Mine, kinds), NEW name, NEW at, Around(Mine, kinds, job.line, name, at),
               NEW f, f = Following(Mine, kinds, token.line, name, at)
        PROVE  Around(Mine, kinds, token.line, f[1], f[2])
    <3>1. \A i \in DOMAIN Mine : Mine[i].kind \in kinds /\ i > at => token.line <= Mine[i].first
      BY <2>7, <2>8 DEF Around
    <3> QED BY <2>5, <2>8, <3>1, FollowingIsAround
  <2> DEFINE func == Following(Mine, {"function"}, token.line, job.scope.func, job.scope.funcs)
             mm == Following(Mine, MMEs, token.line, job.scope.mm_es, job.scope.mm_ess)
  <2>9. Around(Mine, {"function"}, token.line, func[1], func[2]) /\ Around(Mine, MMEs, token.line, mm[1], mm[2])
    BY <1>1, <2>3, <2>8 DEF ScopesAround
  <2>10. ScopeAt(token.line) = [func |-> func[1], funcs |-> func[2], mm_es |-> mm[1], mm_ess |-> mm[2]]
    BY DEF ScopeAt, MMEs
  <2> HIDE DEF func, mm
  <2>11. /\ job'.scope.func = func[1] /\ job'.scope.funcs = func[2]
         /\ job'.scope.mm_es = mm[1] /\ job'.scope.mm_ess = mm[2]
    BY <2>1, <2>10
  <2> QED BY <1>3, <2>1, <2>6, <2>9, <2>11 DEF ScopesAround
<1> QED BY <1>4, <1>5 DEF TokenStep

LEMMA StepsScopes ==
    ASSUME ScopeInv, Steps
    PROVE  ScopeInv'
<1>1. UNCHANGED <<store, job>> => (job' # Idle => InOrder' /\ ScopesAround')
  BY DEF ScopeInv, InOrder, ScopesAround, Mine
<1>2. UNCHANGED vars \/ Sync => UNCHANGED <<store, job>>
  BY DEF vars, Sync
<1>3. EndResolve \/ Ends \/ Openings => job' = Idle
  BY DEF EndResolve, Ends, Openings, Opens, Quiet
<1>4. job' # Idle => InOrder' /\ ScopesAround'
  BY <1>1, <1>2, <1>3, TokenStepScopes, StartScopes DEF Steps
<1> QED BY <1>4, StepsTypes DEF ScopeInv

\* The tokens of find_references' loop come by line, and Scope is at the last
\* function and the last methodmap or enum struct that begins by the line.
THEOREM ScopeInvHolds == Spec => []ScopeInv
<1>1. Init => ScopeInv
  BY InitTypes DEF Init, ScopeInv
<1>2. ScopeInv /\ [Next]_vars => ScopeInv'
  BY NextSteps, StepsScopes DEF ScopeInv
<1> QED BY <1>1, <1>2, PTL DEF Spec

\* The function and the methodmap or enum struct that a token is looked up in
\* are those around it, though Scope only ever tries the next of the file:
\* every one of them begins at a token, and tokens are sorted by line.
THEOREM ScopesAreAround == Spec => []ScopeIsAround
<1>1. ASSUME ScopeInv PROVE ScopeIsAround
  <2> SUFFICES ASSUME job # Idle
               PROVE  LET around(kinds) == {Last(item.key) : item \in {i \in ToSet(Mine) : i.kind \in kinds /\ Spans(i, job.line)}}
                      IN  /\ job.scope.func \in around({"function"}) \cup {""}
                          /\ job.scope.func = "" => around({"function"}) = {}
                          /\ job.scope.mm_es \in around({"methodmap", "enum_struct"}) \cup {""}
                          /\ job.scope.mm_es = "" => around({"methodmap", "enum_struct"}) = {}
    BY DEF ScopeIsAround
  <2> DEFINE around(kinds) == {Last(item.key) : item \in {i \in ToSet(Mine) : i.kind \in kinds /\ Spans(i, job.line)}}
  <2>1. ASSUME NEW kinds, NEW name, NEW at, Around(Mine, kinds, job.line, name, at)
        PROVE  name \in around(kinds) \cup {""} /\ (name = "" => around(kinds) = {})
    <3>1. CASE name = ""
      <4>1. \A i \in DOMAIN Mine : Mine[i].kind \in kinds => ~ Spans(Mine[i], job.line)
        BY <2>1, <3>1 DEF Around
      <4>2. \A item \in ToSet(Mine) : ~ (item.kind \in kinds /\ Spans(item, job.line))
        BY <4>1 DEF ToSet
      <4> QED BY <3>1, <4>2
    <3>2. CASE name # ""
      <4>1. at \in DOMAIN Mine /\ Mine[at].kind \in kinds /\ name = Last(Mine[at].key) /\ Spans(Mine[at], job.line)
        BY <2>1, <3>2 DEF Around
      <4>2. Mine[at] \in ToSet(Mine)
        BY <4>1 DEF ToSet
      <4> QED BY <3>2, <4>1, <4>2
    <3> QED BY <3>1, <3>2
  <2>2. /\ Around(Mine, {"function"}, job.line, job.scope.func, job.scope.funcs)
        /\ Around(Mine, MMEs, job.line, job.scope.mm_es, job.scope.mm_ess)
    BY <1>1 DEF ScopeInv, ScopesAround
  <2> QED BY <2>1, <2>2 DEF MMEs
<1> QED BY ScopeInvHolds, <1>1, PTL

-----------------------------------------------------------------------------
(* Semantic tokens: what is decoded is what was encoded.                   *)

Place == Int \X Int
\* The types items are shown with.
TokenTypes == {"function", "method", "class", "property", "variable", "struct", "enum", "enum_member"}
Entry == [at : Place, type : TokenTypes]

\* The place before the i-th.
Prev(at, i) == IF i = 1 THEN <<0, 0>> ELSE at[i - 1]

\* A delta leads from the place before to the place.
LEMMA DeltaRestores ==
    ASSUME NEW prev \in Place, NEW at \in Place
    PROVE  Delta(prev, at) \in Place /\ Restored(prev, Delta(prev, at)) = at
<1>1. PICK pl \in Int, pc \in Int : prev = <<pl, pc>>
  BY DEF Place
<1>2. PICK l \in Int, c \in Int : at = <<l, c>>
  BY DEF Place
<1>3. Delta(prev, at) = <<l - pl, IF l = pl THEN c - pc ELSE c>>
  BY <1>1, <1>2 DEF Delta
<1>4. CASE l = pl
  <2>1. Delta(prev, at) = <<0, c - pc>> /\ c - pc \in Int
    BY <1>3, <1>4
  <2>2. Restored(prev, <<0, c - pc>>) = <<pl + 0, pc + (c - pc)>>
    BY <1>1 DEF Restored
  <2>3. pl + 0 = l /\ pc + (c - pc) = c
    BY <1>4
  <2> QED BY <1>2, <2>1, <2>2, <2>3 DEF Place
<1>5. CASE l # pl
  <2>1. Delta(prev, at) = <<l - pl, c>> /\ l - pl \in Int /\ l - pl # 0
    BY <1>3, <1>5
  <2>2. Restored(prev, <<l - pl, c>>) = <<pl + (l - pl), c>>
    BY <1>1, <2>1 DEF Restored
  <2>3. pl + (l - pl) = l
    OBVIOUS
  <2> QED BY <1>2, <2>1, <2>2, <2>3 DEF Place
<1> QED BY <1>4, <1>5

\* The first place is encoded as itself.
LEMMA FirstDelta ==
    ASSUME NEW at \in Place
    PROVE  Delta(<<0, 0>>, at) = at /\ <<0, 0>> \in Place
<1>1. PICK l \in Int, c \in Int : at = <<l, c>>
  BY DEF Place
<1>2. Delta(<<0, 0>>, at) = <<l - 0, IF l = 0 THEN c - 0 ELSE c>>
  BY <1>1 DEF Delta
<1>3. l - 0 = l /\ (IF l = 0 THEN c - 0 ELSE c) = c
  OBVIOUS
<1> QED BY <1>1, <1>2, <1>3 DEF Place

RestoreNext(done, delta) == Append(done, Restored(IF done = <<>> THEN <<0, 0>> ELSE Last(done), delta))
RestoreStep == [p \in Seq(Place) \X Place |-> RestoreNext(p[1], p[2])]
Decoded(deltas) ==
    FoldLeft(LAMBDA done, delta :
                Append(done, Restored(IF done = <<>> THEN <<0, 0>> ELSE Last(done), delta)),
             <<>>, deltas)

\* Undoing a delta gives a place.
LEMMA RestoreTyped ==
    /\ RestoreStep \in [Seq(Place) \X Place -> Seq(Place)]
    /\ \A done \in Seq(Place), delta \in Place : RestoreStep[<<done, delta>>] = RestoreNext(done, delta)
<1>1. ASSUME NEW done \in Seq(Place), NEW delta \in Place
      PROVE  RestoreNext(done, delta) \in Seq(Place)
  <2> DEFINE prev == IF done = <<>> THEN <<0, 0>> ELSE Last(done)
  <2>1. prev \in Place
    <3>1. CASE done = <<>>
      BY <3>1 DEF Place
    <3>2. CASE done # <<>>
      BY <3>2 DEF Last
    <3> QED BY <3>1, <3>2
  <2>2. Restored(prev, delta) \in Place
    <3> HIDE DEF prev
    <3>1. /\ prev = <<prev[1], prev[2]>> /\ prev[1] \in Int /\ prev[2] \in Int
          /\ delta = <<delta[1], delta[2]>> /\ delta[1] \in Int /\ delta[2] \in Int
      BY <2>1 DEF Place
    <3>2. prev[1] + delta[1] \in Int /\ (IF delta[1] = 0 THEN prev[2] + delta[2] ELSE delta[2]) \in Int
      BY <3>1
    <3> QED BY <3>2 DEF Restored, Place
  <2> QED BY <2>2 DEF RestoreNext
<1> QED BY <1>1 DEF RestoreStep

\* remove_deltas takes the deltas one by one.
LEMMA DecodedFold ==
    ASSUME NEW s \in Seq(Place)
    PROVE  FoldsTo(Seq(Place), <<>>, RestoreStep, s, Decoded(s))
<1> DEFINE D == SUBSET DOMAIN s
           E(it) == it = [q \in D |->
                            IF q = {} THEN <<>>
                            ELSE Append(it[q \ {Max(q)}],
                                        Restored(IF it[q \ {Max(q)}] = <<>> THEN <<0, 0>>
                                                 ELSE Last(it[q \ {Max(q)}]), s[Max(q)]))]
           fold == CHOOSE it : E(it)
<1>1. s \in Seq(Place) /\ <<>> \in Seq(Place)
  OBVIOUS
<1>2. /\ RestoreStep \in [Seq(Place) \X Place -> Seq(Place)]
      /\ \A done \in Seq(Place), delta \in Place : RestoreStep[<<done, delta>>] = RestoreNext(done, delta)
  BY RestoreTyped
<1>3. PICK f \in [D -> Seq(Place)] : FoldsSets(Seq(Place), <<>>, RestoreStep, s, f)
  BY <1>1, <1>2, FoldExists
<1>4. E(f)
  <2>1. \A q \in D : f[q] = IF q = {} THEN <<>> ELSE RestoreNext(f[q \ {Max(q)}], s[Max(q)])
    BY <1>1, <1>2, <1>3, TakesApart DEF FoldsSets
  <2> QED BY <2>1 DEF RestoreNext
<1>5. E(fold)
  <2> HIDE DEF E
  <2> QED BY <1>4
<1>6. FoldsSets(Seq(Place), <<>>, RestoreStep, s, fold)
  <2> HIDE DEF fold
  <2>1. \A q \in D : fold[q] = IF q = {} THEN <<>> ELSE RestoreNext(fold[q \ {Max(q)}], s[Max(q)])
    BY <1>5 DEF RestoreNext
  <2> QED BY <1>1, <1>2, <2>1, TakesApart DEF FoldsSets
<1>7. Decoded(s) = fold[DOMAIN s]
  BY DEF Decoded, FoldLeft, MapThenFoldSet
<1>8. FoldsTo(Seq(Place), <<>>, RestoreStep, s, fold[DOMAIN s])
  <2> HIDE DEF fold
  <2> QED BY <1>1, <1>2, <1>6, FoldOfSets
<1> QED BY <1>7, <1>8

\* Deltas between places are decoded to the places.
LEMMA DecodesDeltas ==
    ASSUME NEW at \in Seq(Place), NEW deltas \in Seq(Place), Len(deltas) = Len(at),
           \A i \in DOMAIN at : deltas[i] = Delta(Prev(at, i), at[i])
    PROVE  Decoded(deltas) = at
<1> DEFINE n == Len(at)
<1>1. PICK a : FoldsSegments(Seq(Place), <<>>, RestoreStep, deltas, a) /\ Decoded(deltas) = a[Len(deltas)]
  BY DecodedFold DEF FoldsTo
<1>2. n \in Nat /\ DOMAIN at = 1..n /\ \A i \in 1..n : at[i] \in Place /\ deltas[i] \in Place
  BY SeqIs
<1> DEFINE Good == {i \in Nat : a[i] \in Seq(Place) /\ Len(a[i]) = i /\ \A j \in 1..i : a[i][j] = at[j]}
<1>3. 0 \in Good
  <2>1. a[0] = <<>>
    BY <1>1 DEF FoldsSegments
  <2>2. <<>> \in Seq(Place) /\ Len(<<>>) = 0 /\ 1..0 = {}
    OBVIOUS
  <2>3. a[0] \in Seq(Place) /\ Len(a[0]) = 0
    BY <2>1, <2>2
  <2> QED BY <2>2, <2>3
<1>4. ASSUME NEW i \in 0..(n - 1), i \in Good PROVE i + 1 \in Good
  <2> DEFINE prev == IF a[i] = <<>> THEN <<0, 0>> ELSE Last(a[i])
  <2>1. i + 1 \in 1..n /\ i + 1 \in Nat /\ (i + 1) - 1 = i /\ i \in Nat
    BY <1>2
  <2>2. a[i] \in Seq(Place) /\ Len(a[i]) = i /\ \A j \in 1..i : a[i][j] = at[j]
    BY <1>4
  <2>3. prev = Prev(at, i + 1)
    <3>1. CASE i = 0
      BY <2>1, <2>2, <3>1 DEF Prev
    <3>2. CASE i # 0
      <4>1. a[i] # <<>> /\ i \in 1..i /\ i + 1 # 1
        BY <2>1, <2>2, <3>2
      <4> QED BY <2>1, <2>2, <4>1 DEF Prev, Last
    <3> QED BY <3>1, <3>2
  <2>4. Prev(at, i + 1) \in Place
    BY <1>2, <2>1, FirstDelta DEF Prev
  <2>5. Restored(prev, deltas[i + 1]) = at[i + 1]
    BY <1>2, <2>1, <2>3, <2>4, DeltaRestores
  <2>6. a[i + 1] = RestoreNext(a[i], deltas[i + 1])
    <3>1. a[i + 1] = RestoreStep[<<a[i], deltas[i + 1]>>]
      BY <1>1, <2>1, <2>2 DEF FoldsSegments
    <3> QED BY <1>2, <2>1, <2>2, <3>1, RestoreTyped
  <2>7. a[i + 1] = Append(a[i], at[i + 1])
    BY <2>5, <2>6 DEF RestoreNext
  <2>8. a[i + 1] \in Seq(Place) /\ Len(a[i + 1]) = i + 1
    BY <1>2, <2>1, <2>2, <2>7
  <2>9. ASSUME NEW j \in 1..(i + 1) PROVE a[i + 1][j] = at[j]
    <3>1. CASE j = i + 1
      BY <1>2, <2>1, <2>2, <2>7, <3>1
    <3>2. CASE j # i + 1
      <4>1. j \in 1..i
        BY <2>1, <3>2
      <4> QED BY <1>2, <2>1, <2>2, <2>7, <4>1
    <3> QED BY <3>1, <3>2
  <2> QED BY <2>1, <2>8, <2>9
<1> HIDE DEF Good
<1>5. n \in Good
  <2>1. n \in Nat /\ n \in 0..n
    BY <1>2
  <2> HIDE DEF n
  <2> QED BY <1>3, <1>4, <2>1, BoundedInduction
<1>6. a[n] \in Seq(Place) /\ Len(a[n]) = n /\ \A j \in 1..n : a[n][j] = at[j]
  BY <1>5 DEF Good
<1>7. a[n] = at
  BY <1>2, <1>6
<1> QED BY <1>1, <1>7

\* As many places are decoded as there are deltas.
LEMMA DecodedTyped ==
    ASSUME NEW s \in Seq(Place)
    PROVE  Decoded(s) \in Seq(Place) /\ Len(Decoded(s)) = Len(s)
<1> DEFINE n == Len(s)
<1>1. PICK a : FoldsSegments(Seq(Place), <<>>, RestoreStep, s, a) /\ Decoded(s) = a[n]
  BY DecodedFold DEF FoldsTo
<1>2. n \in Nat /\ DOMAIN s = 1..n /\ \A i \in 1..n : s[i] \in Place
  BY SeqIs
<1> DEFINE Good == {i \in Nat : a[i] \in Seq(Place) /\ Len(a[i]) = i}
<1>3. 0 \in Good
  <2>1. a[0] = <<>>
    BY <1>1 DEF FoldsSegments
  <2>2. <<>> \in Seq(Place) /\ Len(<<>>) = 0
    OBVIOUS
  <2> QED BY <2>1, <2>2
<1>4. ASSUME NEW i \in 0..(n - 1), i \in Good PROVE i + 1 \in Good
  <2>1. i + 1 \in 1..n /\ i + 1 \in Nat /\ (i + 1) - 1 = i /\ i \in Nat
    BY <1>2
  <2>2. a[i] \in Seq(Place) /\ Len(a[i]) = i
    BY <1>4
  <2>3. a[i + 1] = RestoreStep[<<a[i], s[i + 1]>>]
    BY <1>1, <2>1, <2>2 DEF FoldsSegments
  <2>4. a[i + 1] = RestoreNext(a[i], s[i + 1]) /\ a[i + 1] \in Seq(Place)
    BY <1>2, <2>1, <2>2, <2>3, RestoreTyped
  <2>5. Len(a[i + 1]) = i + 1
    BY <2>2, <2>4 DEF RestoreNext
  <2> QED BY <2>1, <2>4, <2>5
<1>5. n \in Good
  <2>1. n \in Nat /\ n \in 0..n
    BY <1>2
  <2> HIDE DEF n, Good
  <2> QED BY <1>3, <1>4, <2>1, BoundedInduction
<1> QED BY <1>1, <1>5

\* The fields of an entry, and what it is at another place.
LEMMA EntryIs ==
    ASSUME NEW e \in Entry, NEW at
    PROVE  /\ e.at \in Place /\ e.type \in TokenTypes /\ e = [at |-> e.at, type |-> e.type]
           /\ [e EXCEPT !.at = at] = [at |-> at, type |-> e.type]
           /\ at \in Place => [e EXCEPT !.at = at] \in Entry
  BY DEF Entry

\* The positions of entries are places.
LEMMA PositionsAre ==
    ASSUME NEW data \in Seq(Entry)
    PROVE  /\ Positions(data) \in Seq(Place) /\ Len(Positions(data)) = Len(data)
           /\ \A i \in DOMAIN data : Positions(data)[i] = data[i].at
<1>1. DOMAIN data = 1..Len(data) /\ Len(data) \in Nat /\ \A i \in DOMAIN data : data[i].at \in Place
  BY SeqIs, EntryIs
<1> QED BY <1>1 DEF Positions

\* What remove_deltas makes of a sequence of entries are entries.
LEMMA RemoveDeltasTyped ==
    ASSUME NEW data \in Seq(Entry)
    PROVE  RemoveDeltas(data) \in Seq(Entry) /\ Len(RemoveDeltas(data)) = Len(data)
<1> DEFINE at == Decoded(Positions(data))
<1>1. at \in Seq(Place) /\ Len(at) = Len(data)
  BY PositionsAre, DecodedTyped
<1>2. RemoveDeltas(data) = [i \in DOMAIN data |-> [data[i] EXCEPT !.at = at[i]]]
  BY DEF RemoveDeltas, WithPositions, Decoded
<1> HIDE DEF at
<1>3. DOMAIN data = 1..Len(data) /\ Len(data) \in Nat
  BY SeqIs
<1>4. \A i \in DOMAIN data : at[i] \in Place /\ data[i] \in Entry
  BY <1>1, <1>3, SeqIs
<1>5. \A i \in DOMAIN data : [data[i] EXCEPT !.at = at[i]] \in Entry
  BY <1>4, EntryIs
<1> QED BY <1>2, <1>3, <1>5

\* The entry by which the i-th of a sequence is encoded.
PrevOf(shown, i) == IF i = 1 THEN <<0, 0>> ELSE shown[i - 1].at
Encoded(shown, i) == [at |-> Delta(PrevOf(shown, i), shown[i].at), type |-> shown[i].type]

\* An encoded entry is an entry.
LEMMA EncodedTyped ==
    ASSUME NEW shown \in Seq(Entry), NEW i \in DOMAIN shown
    PROVE  Encoded(shown, i) \in Entry /\ PrevOf(shown, i) \in Place
<1>1. DOMAIN shown = 1..Len(shown) /\ Len(shown) \in Nat /\ shown[i] \in Entry
  BY SeqIs
<1>2. PrevOf(shown, i) \in Place
  <2>1. CASE i = 1
    BY <2>1 DEF PrevOf, Place
  <2>2. CASE i # 1
    <3>1. i - 1 \in DOMAIN shown
      BY <1>1, <2>2
    <3>2. shown[i - 1] \in Entry
      BY <3>1, SeqIs
    <3> QED BY <2>2, <3>2, EntryIs DEF PrevOf
  <2> QED BY <2>1, <2>2
<1>3. shown[i].at \in Place /\ shown[i].type \in TokenTypes
  BY <1>1, EntryIs
<1>4. Delta(PrevOf(shown, i), shown[i].at) \in Place
  BY <1>2, <1>3, DeltaRestores
<1> QED BY <1>2, <1>3, <1>4 DEF Encoded, Entry

\* What is encoded is decoded.
LEMMA RemoveDeltasUndoes ==
    ASSUME NEW shown \in Seq(Entry), NEW data \in Seq(Entry), Len(data) = Len(shown),
           \A i \in DOMAIN shown : data[i] = Encoded(shown, i)
    PROVE  RemoveDeltas(data) = shown
<1>1. DOMAIN data = 1..Len(shown) /\ DOMAIN shown = 1..Len(shown) /\ Len(shown) \in Nat
  BY SeqIs
<1>2. /\ Positions(data) \in Seq(Place) /\ Len(Positions(data)) = Len(shown)
      /\ \A i \in DOMAIN shown : Positions(data)[i] = data[i].at
  BY <1>1, PositionsAre
<1>3. /\ Positions(shown) \in Seq(Place) /\ Len(Positions(shown)) = Len(shown)
      /\ \A i \in DOMAIN shown : Positions(shown)[i] = shown[i].at
  BY PositionsAre
<1>4. DOMAIN Positions(shown) = DOMAIN shown
  BY DEF Positions
<1>5. \A i \in DOMAIN shown : Positions(data)[i] = Delta(Prev(Positions(shown), i), Positions(shown)[i])
  <2> SUFFICES ASSUME NEW i \in DOMAIN shown
               PROVE  Positions(data)[i] = Delta(Prev(Positions(shown), i), Positions(shown)[i])
    OBVIOUS
  <2>1. data[i].at = Delta(PrevOf(shown, i), shown[i].at)
    <3>1. data[i] = Encoded(shown, i)
      OBVIOUS
    <3>2. Encoded(shown, i).at = Delta(PrevOf(shown, i), shown[i].at)
      BY DEF Encoded
    <3> QED BY <3>1, <3>2
  <2>2. PrevOf(shown, i) = Prev(Positions(shown), i)
    <3>1. i # 1 => i - 1 \in DOMAIN shown
      BY <1>1
    <3> QED BY <1>3, <3>1 DEF PrevOf, Prev
  <2> QED BY <1>2, <1>3, <2>1, <2>2
<1>6. Decoded(Positions(data)) = Positions(shown)
  BY <1>2, <1>3, <1>4, <1>5, DecodesDeltas
<1>7. RemoveDeltas(data) = [i \in DOMAIN data |-> [data[i] EXCEPT !.at = Decoded(Positions(data))[i]]]
  BY DEF RemoveDeltas, WithPositions, Decoded
<1>8. ASSUME NEW i \in DOMAIN shown
      PROVE  [data[i] EXCEPT !.at = Positions(shown)[i]] = shown[i]
  <2>1. data[i] = Encoded(shown, i) /\ data[i] \in Entry /\ shown[i] \in Entry
    BY <1>1, SeqIs
  <2>2. data[i].type = shown[i].type
    BY <2>1 DEF Encoded
  <2>3. [data[i] EXCEPT !.at = shown[i].at] = [at |-> shown[i].at, type |-> data[i].type]
    BY <2>1, EntryIs
  <2>4. shown[i] = [at |-> shown[i].at, type |-> shown[i].type]
    BY <2>1, EntryIs
  <2> QED BY <1>3, <2>2, <2>3, <2>4
<1>9. RemoveDeltas(data) = [i \in DOMAIN shown |-> shown[i]]
  BY <1>1, <1>6, <1>7, <1>8
<1> QED BY <1>1, <1>9

Builder == [prev : Place, sorted : BOOLEAN, data : Seq(Entry)]
BuilderOf(prev, sorted, data) == [prev |-> prev, sorted |-> sorted, data |-> data]

\* The fields of a builder.
LEMMA BuilderIs ==
    ASSUME NEW b \in Builder
    PROVE  b.prev \in Place /\ b.sorted \in BOOLEAN /\ b.data \in Seq(Entry)
  BY DEF Builder

\* What push_encoded adds at the end, and to what.
InOrderStill(b, e) == b.sorted /\ ~Before(e.at, b.prev)
KeptData(b, e) == IF b.sorted /\ ~InOrderStill(b, e) THEN RemoveDeltas(b.data) ELSE b.data
AddedAt(b, e) == IF InOrderStill(b, e) /\ KeptData(b, e) # <<>> THEN Delta(b.prev, e.at) ELSE e.at
\* push_encoded, by the fields of the builder.
LEMMA PushedAre ==
    ASSUME NEW b \in Builder, NEW e \in Entry
    PROVE  /\ PushEncoded(b, e) =
                BuilderOf(e.at, InOrderStill(b, e), Append(KeptData(b, e), [at |-> AddedAt(b, e), type |-> e.type]))
           /\ KeptData(b, e) \in Seq(Entry) /\ AddedAt(b, e) \in Place
           /\ PushEncoded(b, e) \in Builder
<1>1. b.prev \in Place /\ b.sorted \in BOOLEAN /\ b.data \in Seq(Entry) /\ e.at \in Place /\ e.type \in TokenTypes
  BY BuilderIs, EntryIs
<1>2. InOrderStill(b, e) \in BOOLEAN
  BY DEF InOrderStill
<1>3. KeptData(b, e) \in Seq(Entry)
  BY <1>1, RemoveDeltasTyped DEF KeptData
<1>4. AddedAt(b, e) \in Place
  BY <1>1, DeltaRestores DEF AddedAt
<1>5. [e EXCEPT !.at = AddedAt(b, e)] = [at |-> AddedAt(b, e), type |-> e.type]
  BY EntryIs
<1>6. PushEncoded(b, e) = [prev |-> e.at, sorted |-> InOrderStill(b, e),
                           data |-> Append(KeptData(b, e), [e EXCEPT !.at = AddedAt(b, e)])]
  BY DEF PushEncoded, InOrderStill, KeptData, AddedAt
<1>7. Append(KeptData(b, e), [at |-> AddedAt(b, e), type |-> e.type]) \in Seq(Entry)
  <2>1. [at |-> AddedAt(b, e), type |-> e.type] \in Entry
    BY <1>1, <1>4 DEF Entry
  <2> QED BY <1>3, <2>1
<1>8. BuilderOf(e.at, InOrderStill(b, e), Append(KeptData(b, e), [at |-> AddedAt(b, e), type |-> e.type])) \in Builder
  BY <1>1, <1>2, <1>7 DEF BuilderOf, Builder
<1> QED BY <1>3, <1>4, <1>5, <1>6, <1>8 DEF BuilderOf

PushStep == [p \in Builder \X Entry |-> PushEncoded(p[1], p[2])]
Pushes(s) == FoldLeft(PushEncoded, NewBuilder, s)

\* Pushing tokens one by one is a fold, one step for each token.
LEMMA PushFold ==
    ASSUME NEW s \in Seq(Entry)
    PROVE  FoldsTo(Builder, NewBuilder, PushStep, s, Pushes(s))
<1> DEFINE D == SUBSET DOMAIN s
           E(it) == it = [q \in D |->
                            IF q = {} THEN NewBuilder
                            ELSE PushEncoded(it[q \ {Max(q)}], s[Max(q)])]
           fold == CHOOSE it : E(it)
<1>1. s \in Seq(Entry) /\ NewBuilder \in Builder
  BY FirstDelta DEF NewBuilder, Builder, Place
<1>2. PushStep \in [Builder \X Entry -> Builder]
  BY PushedAre DEF PushStep
<1>3. PICK f \in [D -> Builder] : FoldsSets(Builder, NewBuilder, PushStep, s, f)
  BY <1>1, <1>2, FoldExists
<1>4. E(f)
  <2>1. \A q \in D : f[q] = IF q = {} THEN NewBuilder ELSE PushEncoded(f[q \ {Max(q)}], s[Max(q)])
    BY <1>1, <1>3, TakesApart DEF FoldsSets, PushStep
  <2> QED BY <2>1
<1>5. E(fold)
  <2> HIDE DEF E
  <2> QED BY <1>4
<1>6. FoldsSets(Builder, NewBuilder, PushStep, s, fold)
  <2> HIDE DEF fold
  <2>1. \A q \in D : fold[q] = IF q = {} THEN NewBuilder
                               ELSE PushEncoded(fold[q \ {Max(q)}], s[Max(q)])
    BY <1>5
  <2> QED BY <1>1, <2>1, TakesApart DEF FoldsSets, PushStep
<1>7. Pushes(s) = fold[DOMAIN s]
  BY DEF Pushes, FoldLeft, MapThenFoldSet
<1>8. FoldsTo(Builder, NewBuilder, PushStep, s, fold[DOMAIN s])
  <2> HIDE DEF fold
  <2> QED BY <1>1, <1>2, <1>6, FoldOfSets
<1> QED BY <1>7, <1>8

\* What the builder is once it has n entries: the encoding of them as long as
\* they came in order, the entries themselves from then on.
PushesAre(shown, n, b) ==
    /\ b \in Builder /\ Len(b.data) = n
    /\ b.prev = IF n = 0 THEN <<0, 0>> ELSE shown[n].at
    /\ b.sorted => /\ \A i \in 1..n : b.data[i] = Encoded(shown, i)
                   /\ \A i \in 2..n : ~Before(shown[i].at, shown[i - 1].at)
    /\ ~b.sorted => \A i \in 1..n : b.data[i] = shown[i]

\* A sequence with one entry more.
LEMMA EntryAppended ==
    ASSUME NEW data \in Seq(Entry), NEW e \in Entry
    PROVE  /\ Len(Append(data, e)) = Len(data) + 1 /\ Append(data, e)[Len(data) + 1] = e
           /\ \A i \in 1..Len(data) : Append(data, e)[i] = data[i]
  OBVIOUS

\* One token more.
LEMMA PushedNext ==
    ASSUME NEW shown \in Seq(Entry), NEW n \in Nat, n + 1 \in DOMAIN shown,
           NEW b, PushesAre(shown, n, b)
    PROVE  PushesAre(shown, n + 1, PushEncoded(b, shown[n + 1]))
<1> DEFINE e == shown[n + 1]
<1>1. /\ DOMAIN shown = 1..Len(shown) /\ Len(shown) \in Nat /\ e \in Entry /\ b \in Builder
      /\ \A i \in 1..(n + 1) : i \in DOMAIN shown /\ shown[i] \in Entry
  BY SeqIs DEF PushesAre
<1>2. b.prev = PrevOf(shown, n + 1) /\ Len(b.data) = n /\ b.data \in Seq(Entry) /\ b.sorted \in BOOLEAN
  <2>1. CASE n = 0
    BY <1>1, <2>1, BuilderIs DEF PushesAre, PrevOf
  <2>2. CASE n # 0
    <3>1. (n + 1) - 1 = n /\ n + 1 # 1
      BY <2>2
    <3> QED BY <1>1, <2>2, <3>1, BuilderIs DEF PushesAre, PrevOf
  <2> QED BY <2>1, <2>2
<1>3. /\ PushEncoded(b, e) =
            BuilderOf(e.at, InOrderStill(b, e), Append(KeptData(b, e), [at |-> AddedAt(b, e), type |-> e.type]))
      /\ KeptData(b, e) \in Seq(Entry) /\ AddedAt(b, e) \in Place /\ PushEncoded(b, e) \in Builder
  BY <1>1, PushedAre
<1>4. e = [at |-> e.at, type |-> e.type] /\ e.at \in Place /\ e.type \in TokenTypes
  BY <1>1, EntryIs
<1>5. PushEncoded(b, e).prev = shown[n + 1].at /\ n + 1 # 0
  BY <1>3 DEF BuilderOf
<1>6. CASE InOrderStill(b, e)
  <2>1. KeptData(b, e) = b.data /\ b.sorted /\ ~Before(e.at, PrevOf(shown, n + 1))
    BY <1>2, <1>6 DEF InOrderStill, KeptData
  <2>2. [at |-> AddedAt(b, e), type |-> e.type] = Encoded(shown, n + 1)
    <3>1. CASE n = 0
      <4>1. b.data = <<>> /\ AddedAt(b, e) = e.at
        BY <1>2, <2>1, <3>1 DEF AddedAt
      <4>2. PrevOf(shown, n + 1) = <<0, 0>>
        BY <3>1 DEF PrevOf
      <4> QED BY <1>4, <4>1, <4>2, FirstDelta DEF Encoded
    <3>2. CASE n # 0
      <4>1. b.data # <<>>
        BY <1>2, <3>2
      <4>2. AddedAt(b, e) = Delta(b.prev, e.at)
        BY <1>6, <2>1, <4>1 DEF AddedAt
      <4> QED BY <1>2, <4>2 DEF Encoded
    <3> QED BY <3>1, <3>2
  <2>3. PushEncoded(b, e).data = Append(b.data, Encoded(shown, n + 1)) /\ PushEncoded(b, e).sorted
    BY <1>3, <1>6, <2>1, <2>2 DEF BuilderOf
  <2>4. Encoded(shown, n + 1) \in Entry
    BY EncodedTyped
  <2>5. /\ Len(Append(b.data, Encoded(shown, n + 1))) = n + 1
        /\ Append(b.data, Encoded(shown, n + 1))[n + 1] = Encoded(shown, n + 1)
        /\ \A i \in 1..n : Append(b.data, Encoded(shown, n + 1))[i] = b.data[i]
    BY <1>2, <2>4, EntryAppended
  <2>6. /\ \A i \in 1..n : b.data[i] = Encoded(shown, i)
        /\ \A i \in 2..n : ~Before(shown[i].at, shown[i - 1].at)
    BY <2>1 DEF PushesAre
  <2>7. \A i \in 1..(n + 1) : PushEncoded(b, e).data[i] = Encoded(shown, i)
    <3>1. \A i \in 1..(n + 1) : i \in 1..n \/ i = n + 1
      OBVIOUS
    <3> QED BY <2>3, <2>5, <2>6, <3>1
  <2>8. \A i \in 2..(n + 1) : ~Before(shown[i].at, shown[i - 1].at)
    <3>1. \A i \in 2..(n + 1) : i \in 2..n \/ (i = n + 1 /\ n + 1 # 1)
      OBVIOUS
    <3>2. n + 1 # 1 => PrevOf(shown, n + 1) = shown[(n + 1) - 1].at
      BY DEF PrevOf
    <3> QED BY <2>1, <2>6, <3>1, <3>2
  <2> QED BY <1>3, <1>5, <2>3, <2>5, <2>7, <2>8 DEF PushesAre
<1>7. CASE ~InOrderStill(b, e)
  <2>1. [at |-> AddedAt(b, e), type |-> e.type] = e
    BY <1>4, <1>7 DEF AddedAt
  <2>2. Len(KeptData(b, e)) = n /\ \A i \in 1..n : KeptData(b, e)[i] = shown[i]
    <3>1. CASE b.sorted
      <4> DEFINE seen == [i \in 1..n |-> shown[i]]
      <4>1. seen \in Seq(Entry) /\ Len(seen) = n /\ DOMAIN seen = 1..n
        BY <1>1
      <4>2. ASSUME NEW i \in 1..n PROVE b.data[i] = Encoded(seen, i)
        <5>1. b.data[i] = Encoded(shown, i)
          BY <3>1 DEF PushesAre
        <5>2. i # 1 => i - 1 \in 1..n
          OBVIOUS
        <5>3. PrevOf(seen, i) = PrevOf(shown, i)
          BY <5>2 DEF PrevOf
        <5> QED BY <5>1, <5>3 DEF Encoded
      <4> HIDE DEF seen
      <4>3. RemoveDeltas(b.data) = seen
        BY <1>2, <4>1, <4>2, RemoveDeltasUndoes
      <4>4. KeptData(b, e) = seen
        BY <1>7, <3>1, <4>3 DEF KeptData
      <4> QED BY <4>1, <4>4 DEF seen
    <3>2. CASE ~b.sorted
      BY <1>2, <3>2 DEF KeptData, PushesAre
    <3> QED BY <3>1, <3>2
  <2>3. PushEncoded(b, e).data = Append(KeptData(b, e), e) /\ ~PushEncoded(b, e).sorted
    BY <1>3, <1>7, <2>1 DEF BuilderOf
  <2>4. /\ Len(Append(KeptData(b, e), e)) = n + 1
        /\ Append(KeptData(b, e), e)[n + 1] = e
        /\ \A i \in 1..n : Append(KeptData(b, e), e)[i] = KeptData(b, e)[i]
    BY <1>1, <1>3, <2>2, EntryAppended
  <2>5. \A i \in 1..(n + 1) : PushEncoded(b, e).data[i] = shown[i]
    <3>1. \A i \in 1..(n + 1) : i \in 1..n \/ i = n + 1
      OBVIOUS
    <3> QED BY <2>2, <2>3, <2>4, <3>1
  <2> QED BY <1>3, <1>5, <2>3, <2>4, <2>5 DEF PushesAre
<1> QED BY <1>6, <1>7

\* Once all are pushed, the builder has them all.
LEMMA PushesAll ==
    ASSUME NEW shown \in Seq(Entry)
    PROVE  PushesAre(shown, Len(shown), Pushes(shown))
<1> DEFINE n == Len(shown)
<1>1. PICK a : FoldsSegments(Builder, NewBuilder, PushStep, shown, a) /\ Pushes(shown) = a[n]
  BY PushFold DEF FoldsTo
<1>2. n \in Nat /\ DOMAIN shown = 1..n /\ \A i \in 1..n : shown[i] \in Entry
  BY SeqIs
<1> DEFINE Good == {i \in Nat : PushesAre(shown, i, a[i])}
<1>3. 0 \in Good
  <2>1. a[0] = NewBuilder
    BY <1>1 DEF FoldsSegments
  <2>2. NewBuilder \in Builder /\ NewBuilder.data = <<>> /\ NewBuilder.prev = <<0, 0>>
    BY FirstDelta DEF NewBuilder, Builder, Place
  <2>3. PushesAre(shown, 0, NewBuilder)
    BY <2>2 DEF PushesAre
  <2> QED BY <2>1, <2>3
<1>4. ASSUME NEW i \in 0..(n - 1), i \in Good PROVE i + 1 \in Good
  <2>1. i + 1 \in 1..n /\ i + 1 \in Nat /\ (i + 1) - 1 = i /\ i \in Nat
    BY <1>2
  <2>2. PushesAre(shown, i, a[i]) /\ a[i] \in Builder
    BY <1>4 DEF PushesAre
  <2>3. a[i + 1] = PushStep[<<a[i], shown[i + 1]>>]
    BY <1>1, <2>1, <2>2 DEF FoldsSegments
  <2>4. a[i + 1] = PushEncoded(a[i], shown[i + 1])
    BY <1>2, <2>1, <2>2, <2>3 DEF PushStep
  <2>5. PushesAre(shown, i + 1, a[i + 1])
    BY <1>2, <2>1, <2>2, <2>4, PushedNext
  <2> QED BY <2>1, <2>5
<1>5. n \in Good
  <2>1. n \in Nat /\ n \in 0..n
    BY <1>2
  <2> HIDE DEF n, Good
  <2> QED BY <1>3, <1>4, <2>1, BoundedInduction
<1> QED BY <1>1, <1>5

\* The order of a set of numbers, and the place of each in it.
TotalOrder(n, R) ==
    /\ \A i \in 1..n : <<i, i>> \in R
    /\ \A i, j \in 1..n : <<i, j>> \in R \/ <<j, i>> \in R
    /\ \A i, j \in 1..n : <<i, j>> \in R /\ <<j, i>> \in R => i = j
    /\ \A i, j, k \in 1..n : <<i, j>> \in R /\ <<j, k>> \in R => <<i, k>> \in R
Places(n, R) == [i \in 1..n |-> Cardinality({j \in 1..n : <<j, i>> \in R})]
\* In a total order each number has a place of its own, before those after it.
LEMMA PlacesAre ==
    ASSUME NEW n \in Nat, NEW R, TotalOrder(n, R)
    PROVE  /\ \A i \in 1..n : Places(n, R)[i] \in 1..n
           /\ \A i, j \in 1..n : i # j /\ <<i, j>> \in R => Places(n, R)[i] < Places(n, R)[j]
           /\ \A m \in 1..n : \E i \in 1..n : Places(n, R)[i] = m
<1> DEFINE N == 1..n
           below == [i \in N |-> {j \in N : <<j, i>> \in R}]
           place == Places(n, R)
<1>1. IsFiniteSet(N) /\ Cardinality(N) = n
  <2>1. 1 \in Int /\ n \in Int
    OBVIOUS
  <2>2. Cardinality(1..n) = IF 1 > n THEN 0 ELSE n - 1 + 1
    BY <2>1, FS_Interval
  <2>3. IsFiniteSet(1..n)
    BY <2>1, FS_Interval
  <2> QED BY <2>2, <2>3
<1>2. \A i \in N : place[i] = Cardinality(below[i]) /\ below[i] \in SUBSET N /\ i \in below[i]
  BY DEF Places, TotalOrder
<1>3. \A i, j \in N : j \in below[i] <=> <<j, i>> \in R
  OBVIOUS
<1> HIDE DEF place, below, N
<1>4. ASSUME NEW i \in N PROVE IsFiniteSet(below[i]) /\ place[i] \in N
  <2>1. IsFiniteSet(below[i]) /\ Cardinality(below[i]) <= n /\ Cardinality(below[i]) \in Nat
    BY <1>1, <1>2, FS_Subset, FS_CardinalityType
  <2>2. Cardinality(below[i]) # 0
    BY <1>2, <2>1, FS_EmptySet
  <2> QED BY <1>2, <2>1, <2>2 DEF N
<1>5. ASSUME NEW i \in N, NEW j \in N, i # j, <<i, j>> \in R PROVE place[i] < place[j]
  <2>1. below[i] \in SUBSET below[j]
    <3> SUFFICES ASSUME NEW k \in below[i] PROVE k \in below[j]
      OBVIOUS
    <3>1. k \in N /\ <<k, i>> \in R
      BY <1>2, <1>3
    <3>2. <<k, j>> \in R
      BY <1>5, <3>1 DEF TotalOrder, N
    <3> QED BY <1>3, <3>1, <3>2
  <2>2. j \in below[j] /\ j \notin below[i]
    <3>1. ~ (<<j, i>> \in R)
      BY <1>5 DEF TotalOrder, N
    <3> QED BY <1>2, <1>3, <3>1
  <2>3. IsFiniteSet(below[i]) /\ IsFiniteSet(below[j])
    BY <1>4
  <2>4. Cardinality(below[i]) <= Cardinality(below[j]) /\ Cardinality(below[i]) # Cardinality(below[j])
    BY <2>1, <2>2, <2>3, FS_Subset
  <2>5. Cardinality(below[i]) \in Nat /\ Cardinality(below[j]) \in Nat
    BY <2>3, FS_CardinalityType
  <2> QED BY <1>2, <2>4, <2>5
<1>6. ASSUME NEW i \in N, NEW j \in N, i # j PROVE place[i] # place[j]
  <2>1. place[i] \in Nat /\ place[j] \in Nat
    BY <1>4 DEF N
  <2>2. <<i, j>> \in R \/ <<j, i>> \in R
    BY DEF TotalOrder, N
  <2> QED BY <1>5, <1>6, <2>1, <2>2
<1>7. place \in Injection(N, N)
  <2>1. DOMAIN place = N /\ place = [i \in N |-> place[i]]
    BY DEF place, Places, N
  <2>2. place \in [N -> N]
    BY <1>4, <2>1
  <2> QED BY <1>6, <2>1, <2>2 DEF Injection, IsInjective
<1>8. place \in Surjection(N, N)
  BY <1>1, <1>7, FS_Injection
<1>9. \A m \in N : \E i \in N : place[i] = m
  BY <1>8 DEF Surjection
<1> QED BY <1>4, <1>5, <1>9 DEF N, place

\* Places of a text are ordered.
LEMMA BeforeIsOrder ==
    ASSUME NEW a \in Place, NEW b \in Place
    PROVE  /\ ~Before(a, a) /\ (Before(a, b) \/ Before(b, a) \/ a = b) /\ ~(Before(a, b) /\ Before(b, a))
           /\ \A c \in Place : Before(a, b) /\ Before(b, c) => Before(a, c)
<1>1. \A p \in Place : p = <<p[1], p[2]>> /\ p[1] \in Int /\ p[2] \in Int
  BY DEF Place
<1> QED BY <1>1 DEF Before

\* The order of sort_by: by place, then as they came.
Sooner(data) ==
    {p \in (1..Len(data)) \X (1..Len(data)) :
        Before(data[p[1]].at, data[p[2]].at) \/ (data[p[1]].at = data[p[2]].at /\ p[1] <= p[2])}
\* Entries by position, then in the order they came: a total order.
LEMMA SoonerIsOrder ==
    ASSUME NEW data \in Seq(Entry)
    PROVE  TotalOrder(Len(data), Sooner(data))
<1> DEFINE N == 1..Len(data)
<1>1. Len(data) \in Nat /\ \A i \in N : data[i].at \in Place
  BY SeqIs, EntryIs
<1>2. \A i, j \in N : <<i, j>> \in Sooner(data) <=>
        Before(data[i].at, data[j].at) \/ (data[i].at = data[j].at /\ i <= j)
  BY DEF Sooner
<1>3. \A i \in N : <<i, i>> \in Sooner(data)
  BY <1>1, <1>2
<1>4. \A i, j \in N : <<i, j>> \in Sooner(data) \/ <<j, i>> \in Sooner(data)
  <2> SUFFICES ASSUME NEW i \in N, NEW j \in N
               PROVE  <<i, j>> \in Sooner(data) \/ <<j, i>> \in Sooner(data)
    OBVIOUS
  <2>1. i <= j \/ j <= i
    BY <1>1
  <2>2. \/ Before(data[i].at, data[j].at) \/ Before(data[j].at, data[i].at)
        \/ data[i].at = data[j].at
    BY <1>1, BeforeIsOrder
  <2> HIDE DEF N
  <2> QED BY <1>2, <2>1, <2>2
<1>5. \A i, j \in N : <<i, j>> \in Sooner(data) /\ <<j, i>> \in Sooner(data) => i = j
  BY <1>1, <1>2, BeforeIsOrder
<1>6. ASSUME NEW i \in N, NEW j \in N, NEW k \in N, <<i, j>> \in Sooner(data), <<j, k>> \in Sooner(data)
      PROVE  <<i, k>> \in Sooner(data)
  <2>1. /\ Before(data[i].at, data[j].at) \/ (data[i].at = data[j].at /\ i <= j)
        /\ Before(data[j].at, data[k].at) \/ (data[j].at = data[k].at /\ j <= k)
    BY <1>2, <1>6
  <2>2. i <= j /\ j <= k => i <= k
    BY <1>1
  <2>3. data[i].at \in Place /\ data[j].at \in Place /\ data[k].at \in Place
    BY <1>1
  <2>4. Before(data[i].at, data[k].at) \/ (data[i].at = data[k].at /\ i <= k)
    BY <2>1, <2>2, <2>3, BeforeIsOrder
  <2> QED BY <1>2, <2>4
<1> QED BY <1>3, <1>4, <1>5, <1>6 DEF TotalOrder

\* The entries of one sequence are those of another in some order.
Reorders(p, data, shown) ==
    /\ shown \in Seq(Entry) /\ Len(shown) = Len(data)
    /\ \A m \in 1..Len(data) : p[m] \in 1..Len(data) /\ shown[m] = data[p[m]]
    /\ \A m, k \in 1..Len(data) : p[m] = p[k] => m = k
    /\ \A i \in 1..Len(data) : \E m \in 1..Len(data) : p[m] = i
InTextOrder(shown) == \A i \in 2..Len(shown) : ~Before(shown[i].at, shown[i - 1].at)

\* Sorting puts the same entries in the order of the text.
LEMMA SortedIs ==
    ASSUME NEW data \in Seq(Entry)
    PROVE  InTextOrder(Sorted(data)) /\ \E p : Reorders(p, data, Sorted(data))
<1> DEFINE n == Len(data)
           place == Places(n, Sooner(data))
           p == [m \in 1..n |-> CHOOSE i \in 1..n : place[i] = m]
<1>1. n \in Nat /\ DOMAIN data = 1..n /\ \A i \in 1..n : data[i] \in Entry /\ data[i].at \in Place
  BY SeqIs, EntryIs
<1>2. /\ \A i \in 1..n : place[i] \in 1..n
      /\ \A i, j \in 1..n : i # j /\ <<i, j>> \in Sooner(data) => place[i] < place[j]
      /\ \A m \in 1..n : \E i \in 1..n : place[i] = m
  <2>1. TotalOrder(n, Sooner(data))
    BY SoonerIsOrder
  <2> HIDE DEF n
  <2> QED BY <1>1, <2>1, PlacesAre
<1>3. \A i, j \in 1..n : <<i, j>> \in Sooner(data) <=>
        Before(data[i].at, data[j].at) \/ (data[i].at = data[j].at /\ i <= j)
  BY DEF Sooner
<1>4. Sorted(data) = [m \in 1..n |-> data[p[m]]]
  <2>1. \A i \in 1..n : {j \in DOMAIN data : Before(data[j].at, data[i].at) \/ (data[j].at = data[i].at /\ j <= i)}
                            = {j \in 1..n : <<j, i>> \in Sooner(data)}
    BY <1>1, <1>3
  <2> DEFINE f == [i \in DOMAIN data |->
                    Cardinality({j \in DOMAIN data : \/ Before(data[j].at, data[i].at)
                                                     \/ data[j].at = data[i].at /\ j <= i})]
  <2>2. Sorted(data) = [m \in DOMAIN data |-> data[CHOOSE i \in DOMAIN data : f[i] = m]]
    BY DEF Sorted
  <2>3. f = place
    BY <1>1, <2>1 DEF Places
  <2> HIDE DEF f, place
  <2>4. Sorted(data) = [m \in DOMAIN data |-> data[CHOOSE i \in DOMAIN data : place[i] = m]]
    BY <2>2, <2>3
  <2> QED BY <1>1, <2>4
<1> HIDE DEF place
<1>5. \A m \in 1..n : p[m] \in 1..n /\ place[p[m]] = m
  BY <1>2
<1> HIDE DEF p
<1>6. \A m, k \in 1..n : p[m] = p[k] => m = k
  BY <1>5
<1>7. ASSUME NEW i \in 1..n PROVE \E m \in 1..n : p[m] = i
  <2>1. place[i] \in 1..n /\ p[place[i]] \in 1..n /\ place[p[place[i]]] = place[i]
    BY <1>2, <1>5
  <2>2. \A k, j \in 1..n : k # j => place[k] # place[j]
    <3> SUFFICES ASSUME NEW k \in 1..n, NEW j \in 1..n, k # j PROVE place[k] # place[j]
      OBVIOUS
    <3>1. <<k, j>> \in Sooner(data) \/ <<j, k>> \in Sooner(data)
      BY SoonerIsOrder DEF TotalOrder
    <3>2. place[k] \in 1..n /\ place[j] \in 1..n
      BY <1>2
    <3>3. place[k] < place[j] \/ place[j] < place[k]
      BY <1>2, <3>1
    <3> QED BY <1>1, <3>2, <3>3
  <2>3. p[place[i]] = i
    BY <2>1, <2>2
  <2> QED BY <2>1, <2>3
<1>8. Sorted(data) \in Seq(Entry) /\ Len(Sorted(data)) = n
  <2>1. \A m \in 1..n : data[p[m]] \in Entry
    BY <1>1, <1>5
  <2> QED BY <1>1, <1>4, <2>1
<1>9. Reorders(p, data, Sorted(data))
  BY <1>4, <1>5, <1>6, <1>7, <1>8 DEF Reorders
<1>10. ASSUME NEW i \in 2..n PROVE ~Before(Sorted(data)[i].at, Sorted(data)[i - 1].at)
  <2>1. i \in 1..n /\ i - 1 \in 1..n /\ i - 1 \in Nat /\ i \in Nat /\ i - 1 < i
    BY <1>1
  <2>2. p[i] \in 1..n /\ p[i - 1] \in 1..n /\ place[p[i]] = i /\ place[p[i - 1]] = i - 1
    BY <1>5, <2>1
  <2>3. p[i] # p[i - 1]
    BY <2>1, <2>2
  <2>4. ~ (<<p[i], p[i - 1]>> \in Sooner(data))
    <3>1. ~ (i < i - 1)
      BY <2>1
    <3> QED BY <1>2, <2>2, <2>3, <3>1
  <2>5. ~ Before(data[p[i]].at, data[p[i - 1]].at)
    BY <1>3, <2>2, <2>4
  <2> QED BY <1>4, <2>1, <2>5
<1>11. InTextOrder(Sorted(data))
  BY <1>8, <1>10 DEF InTextOrder
<1> QED BY <1>9, <1>11

\* What the client decodes is what was pushed, in the order of the text.
LEMMA DecodesWhatIsPushed ==
    ASSUME NEW data \in Seq(Entry), NEW shown, shown = RemoveDeltas(Build(Pushes(data)))
    PROVE  InTextOrder(shown) /\ \E p : Reorders(p, data, shown)
<1> DEFINE n == Len(data)
           b == Pushes(data)
<1>1. PushesAre(data, n, b)
  BY PushesAll
<1>2. n \in Nat /\ DOMAIN data = 1..n /\ b.data \in Seq(Entry) /\ Len(b.data) = n /\ DOMAIN b.data = 1..n
  BY <1>1, BuilderIs, SeqIs DEF PushesAre
<1> HIDE DEF b
<1>3. CASE b.sorted
  <2>1. Build(b) = b.data
    BY <1>3 DEF Build
  <2>2. /\ \A i \in 1..n : b.data[i] = Encoded(data, i)
        /\ \A i \in 2..n : ~Before(data[i].at, data[i - 1].at)
    BY <1>1, <1>3 DEF PushesAre
  <2>3. shown = data
    BY <1>2, <2>1, <2>2, RemoveDeltasUndoes DEF b
  <2>4. InTextOrder(shown)
    BY <2>2, <2>3 DEF InTextOrder
  <2> DEFINE p == [m \in 1..n |-> m]
  <2>5. Reorders(p, data, shown)
    BY <2>3 DEF Reorders
  <2> QED BY <2>4, <2>5
<1>4. CASE ~b.sorted
  <2>1. b.data = data
    BY <1>1, <1>2, <1>4 DEF PushesAre
  <2> DEFINE sorted == Sorted(data)
             encoded == DeltaEncode(sorted)
  <2>2. Build(b) = encoded
    BY <1>4, <2>1 DEF Build
  <2>3. InTextOrder(sorted) /\ \E p : Reorders(p, data, sorted)
    BY SortedIs
  <2>4. sorted \in Seq(Entry) /\ Len(sorted) = n /\ DOMAIN sorted = 1..n
    BY <1>2, <2>3, SeqIs DEF Reorders
  <2>5. \A i \in DOMAIN sorted : encoded[i] = Encoded(sorted, i)
    <3> SUFFICES ASSUME NEW i \in DOMAIN sorted PROVE encoded[i] = Encoded(sorted, i)
      OBVIOUS
    <3>1. encoded[i] = [sorted[i] EXCEPT !.at = Delta(PrevOf(sorted, i), sorted[i].at)]
      <4> HIDE DEF sorted
      <4> QED BY DEF DeltaEncode, WithPositions, PrevOf
    <3>2. sorted[i] \in Entry
      BY <2>4, SeqIs
    <3> HIDE DEF sorted, encoded
    <3> QED BY <3>1, <3>2, EntryIs DEF Encoded
  <2>6. encoded \in Seq(Entry) /\ Len(encoded) = n
    <3>1. DOMAIN encoded = 1..n
      BY <2>4 DEF DeltaEncode, WithPositions
    <3>2. \A i \in 1..n : encoded[i] \in Entry
      BY <2>4, <2>5, EncodedTyped
    <3>3. encoded = [i \in 1..n |-> encoded[i]]
      BY <2>4 DEF DeltaEncode, WithPositions
    <3> HIDE DEF encoded
    <3> QED BY <1>2, <3>2, <3>3
  <2> HIDE DEF sorted, encoded
  <2>7. RemoveDeltas(encoded) = sorted
    BY <2>4, <2>5, <2>6, RemoveDeltasUndoes
  <2>8. shown = sorted
    BY <2>2, <2>7 DEF b
  <2> QED BY <2>3, <2>8
<1> QED BY <1>3, <1>4

-----------------------------------------------------------------------------
(* No item refers to its own declaration.                                  *)

Elsewhere(refs, doc, token) == \A ref \in refs : ~(ref.doc = doc /\ ref.token = token)
NotItself == \A id \in Live : Elsewhere(references[id], id.doc, TokenOf(Item(id)))
OnceInv == PlacesInv /\ NotItself

\* What its declaration is does not change as long as the texts do not.
LEMMA NotItselfStays ==
    ASSUME Types, SameTexts, NotItself, \A id \in Live : references'[id] \subseteq references[id]
    PROVE  NotItself'
<1>1. Live' = Live
  BY ItemsStay
<1>2. ASSUME NEW id \in Live PROVE Item(id)' = Item(id)
  <2>1. id.doc \in DOMAIN store
    BY LiveIs DEF Types, OfItem
  <2> QED BY <2>1, ItemsStay
<1> SUFFICES ASSUME NEW id \in Live PROVE Elsewhere(references'[id], id.doc, TokenOf(Item(id)'))
  BY <1>1 DEF NotItself, TokenOf, Elsewhere
<1>3. Elsewhere(references[id], id.doc, TokenOf(Item(id)))
  BY DEF NotItself
<1> QED BY <1>2, <1>3 DEF Elsewhere

\* push_reference leaves out the token of the declaration.
LEMMA TokenStepOnce ==
    ASSUME OnceInv, TokenStep
    PROVE  NotItself'
<1>1. UNCHANGED <<main, store>> /\ Types /\ NotItself /\ RefsTyped
  BY DEF TokenStep, OnceInv, PlacesInv, RefsInv, Types
<1>2. SameTexts
  BY <1>1 DEF SameTexts
<1>3. CASE references' = references
  BY <1>1, <1>2, <1>3, NotItselfStays
<1>4. ASSUME NEW token \in job.todo, Linking(token) PROVE NotItself'
  <2>1. PICK id \in Live : references' = Pushed(id, token)
    BY <1>4 DEF Linking
  <2>2. CASE id.doc = job.doc /\ token = TokenOf(Item(id))
    <3>1. references' = references
      BY <2>1, <2>2 DEF Pushed
    <3> QED BY <1>3, <3>1
  <2>3. CASE ~(id.doc = job.doc /\ token = TokenOf(Item(id)))
    <3> DEFINE own(i) == TokenOf(Item(i))
               use == Location(token)
    <3>1. \A i \in Live : \A ref \in references[i] : ~(ref.doc = i.doc /\ ref.token = own(i))
      BY <1>1 DEF NotItself, Elsewhere
    <3>2. ~(use.doc = id.doc /\ use.token = own(id))
      BY <2>3 DEF Location
    <3>3. /\ \A i \in Live : i # id => references'[i] = references[i]
          /\ references'[id] \subseteq references[id] \cup {use}
      BY <1>1, <2>1, PushedIs
    <3> HIDE DEF own, use
    <3>4. \A i \in Live : \A ref \in references'[i] : ~(ref.doc = i.doc /\ ref.token = own(i))
      BY <3>1, <3>2, <3>3
    <3>5. Live' = Live /\ store' = store
      BY <1>1, <1>2, ItemsStay
    <3>6. \A i \in Live : own(i)' = own(i)
      BY <3>5 DEF own, Item, SelectInSeq, TokenOf
    <3>7. \A i \in Live' : \A ref \in references'[i] : ~(ref.doc = i.doc /\ ref.token = own(i)')
      BY <3>4, <3>5, <3>6
    <3> QED BY <3>7 DEF NotItself, Elsewhere, own
  <2> QED BY <2>2, <2>3
<1>5. \/ references' = references
      \/ \E token \in job.todo : Linking(token)
  BY DEF TokenStep, Takes, Walks, Missing, Lowest
<1> QED BY <1>3, <1>4, <1>5

\* New items have no references, and the others stay what they are.
LEMMA OpensOnce ==
    ASSUME OnceInv, NEW d, NEW text, NEW remove, Opens(d, text, remove)
    PROVE  NotItself'
<1>1. /\ \A o \in DOMAIN store : o # d => store'[o] = store[o]
      /\ \A id \in Live' : references'[id] = IF id.doc = d THEN {} ELSE references[id]
      /\ \A id \in Live' : id.doc # d => id \in Live
  BY DEF Opens
<1>2. ASSUME NEW id \in Live', id.doc # d
      PROVE  Elsewhere(references'[id], id.doc, TokenOf(Item(id)'))
  <2>1. id \in Live /\ references'[id] = references[id]
    BY <1>1, <1>2
  <2>2. id.doc \in DOMAIN store
    BY <2>1, LiveIs DEF OnceInv, PlacesInv, RefsInv, Types, OfItem
  <2>3. Item(id)' = Item(id)
    BY <1>1, <1>2, <2>2 DEF Item, SelectInSeq
  <2>4. Elsewhere(references[id], id.doc, TokenOf(Item(id)))
    BY <2>1 DEF OnceInv, NotItself
  <2> QED BY <2>1, <2>3, <2>4
<1>3. ASSUME NEW id \in Live', id.doc = d
      PROVE  Elsewhere(references'[id], id.doc, TokenOf(Item(id)'))
  <2>1. references'[id] = {}
    BY <1>1, <1>3
  <2> QED BY <2>1 DEF Elsewhere
<1> QED BY <1>2, <1>3 DEF NotItself, TokenOf, Elsewhere

\* The end of an opening only takes references away.
LEMMA EndsOnce ==
    ASSUME OnceInv, Ends
    PROVE  NotItself'
<1>1. /\ Live' = Live /\ \A id \in Live : id.doc \in Kept
      /\ \A o \in Kept : store'[o].text = store[o].text
      /\ \A id \in Live : references'[id] \subseteq references[id]
  BY DEF Ends
<1>2. ASSUME NEW id \in Live PROVE Elsewhere(references'[id], id.doc, TokenOf(Item(id)'))
  <2>1. store'[id.doc].text = store[id.doc].text
    BY <1>1
  <2>2. Item(id)' = Item(id)
    BY <2>1 DEF Item, SelectInSeq
  <2>3. Elsewhere(references[id], id.doc, TokenOf(Item(id)))
    BY DEF OnceInv, NotItself
  <2> QED BY <1>1, <2>2, <2>3 DEF Elsewhere
<1> QED BY <1>1, <1>2 DEF NotItself, TokenOf, Elsewhere

\* Every step keeps that.
LEMMA StepsOnce ==
    ASSUME OnceInv, Steps
    PROVE  OnceInv'
<1>1. Types /\ NotItself /\ RefsTyped
  BY DEF OnceInv, PlacesInv, RefsInv, Types
<1>2. ASSUME SameTexts, references' = references PROVE NotItself'
  BY <1>1, <1>2, NotItselfStays
<1>3. ASSUME NEW d, Starts(d) PROVE NotItself'
  <2>1. UNCHANGED <<main, store>> /\ references' = Purged(references, InScopeItems, d)
    BY <1>3 DEF Starts
  <2>2. \A id \in Live : references'[id] \subseteq references[id]
    BY <1>1, <2>1 DEF Purged, RefsTyped
  <2>3. SameTexts
    BY <2>1 DEF SameTexts
  <2> QED BY <1>1, <2>2, <2>3, NotItselfStays
<1>4. EndResolve => NotItself'
  BY <1>1, <1>2, EndResolveIs DEF EndResolve
<1>5. Sync => NotItself'
  BY <1>2 DEF Sync, SameTexts
<1>6. UNCHANGED vars => NotItself'
  BY <1>2 DEF vars, SameTexts
<1>7. NotItself'
  BY <1>3, <1>4, <1>5, <1>6, TokenStepOnce, OpensOnce, EndsOnce DEF Steps, Openings
<1> QED BY <1>7, StepsPlaces DEF OnceInv

\* Through every step, no item refers to its own declaration: push_reference
\* leaves that token out, and nothing else adds a reference.
THEOREM OnceInvHolds == Spec => []OnceInv
<1>1. Init => OnceInv
  <2>1. Init => NotItself
    BY DEF Init, NotItself, Elsewhere
  <2> QED BY <2>1, InitPlaces DEF OnceInv
<1>2. OnceInv /\ [Next]_vars => OnceInv'
  BY NextSteps, StepsOnce DEF OnceInv, PlacesInv, RefsInv
<1> QED BY <1>1, <1>2, PTL DEF Spec

-----------------------------------------------------------------------------
(* Semantic tokens: what is pushed is each item's tokens, once.            *)

\* The elements of t are those of the sequences of ss, each once: the j-th is
\* that of the g[j]-th sequence at h[j].
JoinsOn(ss, I, t, J, g, h) ==
    /\ \A j \in J : g[j] \in I /\ h[j] \in DOMAIN ss[g[j]] /\ t[j] = ss[g[j]][h[j]]
    /\ \A i, j \in J : g[i] = g[j] /\ h[i] = h[j] => i = j
    /\ \A i \in I : \A k \in DOMAIN ss[i] : \E j \in J : g[j] = i /\ h[j] = k
JoinsUpTo(ss, m, t, g, h) == JoinsOn(ss, 1..m, t, DOMAIN t, g, h)
Joins(ss, t, g, h) == JoinsOn(ss, DOMAIN ss, t, DOMAIN t, g, h)

\* One more sequence behind those that are joined.
LEMMA JoinsOneMore ==
    ASSUME NEW S, NEW ss \in Seq(Seq(S)), NEW m \in Nat, m + 1 \in DOMAIN ss, NEW t \in Seq(S),
           NEW g, NEW h, JoinsUpTo(ss, m, t, g, h)
    PROVE  \E g2, h2 : JoinsUpTo(ss, m + 1, t \o ss[m + 1], g2, h2)
<1> DEFINE u == ss[m + 1]
           n == Len(t)
           l == Len(u)
           v == t \o u
           g2 == [j \in 1..(n + l) |-> IF j <= n THEN g[j] ELSE m + 1]
           h2 == [j \in 1..(n + l) |-> IF j <= n THEN h[j] ELSE j - n]
<1>1. u \in Seq(S) /\ n \in Nat /\ DOMAIN t = 1..n
  BY SeqIs
<1>2. l \in Nat /\ DOMAIN u = 1..l
  BY <1>1, SeqIs
<1> HIDE DEF u
<1>3. /\ v \in Seq(S) /\ Len(v) = n + l
      /\ \A j \in 1..(n + l) : v[j] = IF j <= n THEN t[j] ELSE u[j - n]
  BY <1>1, <1>2
<1>4. DOMAIN v = 1..(n + l)
  BY <1>1, <1>2, <1>3, SeqIs
<1> HIDE DEF v, n, l
<1>5. /\ \A j \in 1..(n + l) : j <= n => j \in 1..n /\ g2[j] = g[j] /\ h2[j] = h[j]
      /\ \A j \in 1..(n + l) : ~(j <= n) => j - n \in 1..l /\ g2[j] = m + 1 /\ h2[j] = j - n
      /\ \A j \in 1..n : j \in 1..(n + l) /\ j <= n
  BY <1>1, <1>2
<1>6. \A k \in 1..l : k + n \in 1..(n + l) /\ g2[k + n] = m + 1 /\ h2[k + n] = k
  BY <1>1, <1>2
<1> HIDE DEF g2, h2
<1>7. JoinsOn(ss, 1..m, t, 1..n, g, h)
  BY <1>1 DEF JoinsUpTo
<1>8. /\ \A j \in 1..n : g[j] \in 1..m /\ h[j] \in DOMAIN ss[g[j]] /\ t[j] = ss[g[j]][h[j]]
      /\ \A i, j \in 1..n : g[i] = g[j] /\ h[i] = h[j] => i = j
      /\ \A i \in 1..m : \A k \in DOMAIN ss[i] : \E j \in 1..n : g[j] = i /\ h[j] = k
  BY <1>7 DEF JoinsOn
<1>9. \A i \in 1..m : i \in 1..(m + 1) /\ i # m + 1
  OBVIOUS
<1>10. ASSUME NEW j \in 1..(n + l)
      PROVE  g2[j] \in 1..(m + 1) /\ h2[j] \in DOMAIN ss[g2[j]] /\ v[j] = ss[g2[j]][h2[j]]
  <2>1. CASE j <= n
    <3>1. j \in 1..n /\ g2[j] = g[j] /\ h2[j] = h[j] /\ v[j] = t[j]
      BY <1>3, <1>5, <2>1
    <3>2. g[j] \in 1..m /\ h[j] \in DOMAIN ss[g[j]] /\ t[j] = ss[g[j]][h[j]]
      BY <1>8, <3>1
    <3> QED BY <1>9, <3>1, <3>2
  <2>2. CASE ~(j <= n)
    <3>1. j - n \in 1..l /\ g2[j] = m + 1 /\ h2[j] = j - n /\ v[j] = u[j - n]
      BY <1>3, <1>5, <2>2
    <3>2. m + 1 \in 1..(m + 1) /\ DOMAIN ss[m + 1] = 1..l /\ ss[m + 1] = u
      BY <1>2 DEF u
    <3> QED BY <3>1, <3>2
  <2> QED BY <2>1, <2>2
<1>11. ASSUME NEW i \in 1..(n + l), NEW j \in 1..(n + l), g2[i] = g2[j], h2[i] = h2[j]
      PROVE  i = j
  <2>1. CASE i <= n /\ j <= n
    BY <1>5, <1>8, <1>11, <2>1
  <2>2. CASE ~(i <= n) /\ ~(j <= n)
    <3>1. i - n = j - n
      BY <1>5, <1>11, <2>2
    <3> QED BY <1>1, <1>2, <3>1
  <2>3. ASSUME NEW a \in 1..(n + l), NEW b \in 1..(n + l), a <= n, ~(b <= n) PROVE g2[a] # g2[b]
    <3>1. a \in 1..n /\ g2[a] = g[a] /\ g2[b] = m + 1
      BY <1>5, <2>3
    <3>2. g[a] \in 1..m
      BY <1>8, <3>1
    <3> QED BY <1>9, <3>1, <3>2
  <2> QED BY <1>11, <2>1, <2>2, <2>3
<1>12. ASSUME NEW i \in 1..(m + 1), NEW k \in DOMAIN ss[i]
       PROVE  \E j \in 1..(n + l) : g2[j] = i /\ h2[j] = k
  <2>1. CASE i \in 1..m
    <3>1. PICK j \in 1..n : g[j] = i /\ h[j] = k
      BY <1>8, <2>1
    <3> QED BY <1>5, <3>1
  <2>2. CASE i = m + 1
    <3>1. k \in 1..l
      BY <1>2, <2>2 DEF u
    <3>2. k + n \in 1..(n + l) /\ g2[k + n] = i /\ h2[k + n] = k
      BY <1>6, <2>2, <3>1
    <3> QED BY <3>2
  <2> QED BY <2>1, <2>2
<1>13. JoinsOn(ss, 1..(m + 1), v, 1..(n + l), g2, h2)
  BY <1>10, <1>11, <1>12 DEF JoinsOn
<1>14. JoinsUpTo(ss, m + 1, v, g2, h2)
  BY <1>4, <1>13 DEF JoinsUpTo
<1> QED BY <1>14 DEF v, u

\* FlattenSeq joins the sequences, and loses and repeats nothing.
LEMMA FlattenJoins ==
    ASSUME NEW S, NEW ss \in Seq(Seq(S))
    PROVE  \E g, h : Joins(ss, FlattenSeq(ss), g, h)
<1> DEFINE n == Len(ss)
           flatten == CHOOSE f : f = [i \in 1..Len(ss) |-> IF i = 1 THEN ss[i] ELSE f[i - 1] \o ss[i]]
           Reached == {m \in Nat : m + 1 \in 1..n =>
                      /\ flatten[m + 1] \in Seq(S)
                      /\ \E g, h : JoinsUpTo(ss, m + 1, flatten[m + 1], g, h)}
<1>1. n \in Nat /\ DOMAIN ss = 1..n /\ \A i \in 1..n : ss[i] \in Seq(S)
  BY SeqIs
<1>2. CASE ss = <<>>
  <2>1. FlattenSeq(ss) = <<>> /\ DOMAIN ss = {} /\ DOMAIN <<>> = {}
    BY <1>2 DEF FlattenSeq
  <2>2. Joins(ss, FlattenSeq(ss), <<>>, <<>>)
    BY <2>1 DEF Joins, JoinsOn
  <2> QED BY <2>2
<1>3. CASE ss # <<>>
  <2>1. flatten = [i \in 1..Len(ss) |-> IF i = 1 THEN ss[i] ELSE flatten[i - 1] \o ss[i]]
    BY <1>3, BehindIs
  <2>2. FlattenSeq(ss) = flatten[n]
    BY <1>3 DEF FlattenSeq
  <2> HIDE DEF flatten
  <2>3. \A i \in 1..n : flatten[i] = IF i = 1 THEN ss[i] ELSE flatten[i - 1] \o ss[i]
    BY <2>1
  <2>4. n # 0
    BY <1>3
  <2> HIDE DEF n
  <2>5. 0 \in Reached
    <3>1. 0 + 1 \in 1..n /\ 0 + 1 = 1 /\ 1..1 = {1}
      BY <1>1, <2>4
    <3>2. flatten[1] = ss[1] /\ ss[1] \in Seq(S)
      BY <1>1, <2>3, <3>1
    <3> DEFINE g == [j \in DOMAIN ss[1] |-> 1]
               h == [j \in DOMAIN ss[1] |-> j]
    <3>3. JoinsUpTo(ss, 1, ss[1], g, h)
      BY <3>1 DEF JoinsUpTo, JoinsOn
    <3> QED BY <3>1, <3>2, <3>3
  <2>6. ASSUME NEW m \in Nat, m \in Reached PROVE m + 1 \in Reached
    <3> SUFFICES ASSUME m + 1 + 1 \in 1..n
                 PROVE  /\ flatten[m + 1 + 1] \in Seq(S)
                        /\ \E g, h : JoinsUpTo(ss, m + 1 + 1, flatten[m + 1 + 1], g, h)
      OBVIOUS
    <3>1. m + 1 \in 1..n /\ m + 1 + 1 # 1 /\ m + 1 + 1 - 1 = m + 1 /\ m + 1 \in Nat
      BY <1>1
    <3>2. flatten[m + 1] \in Seq(S) /\ \E g, h : JoinsUpTo(ss, m + 1, flatten[m + 1], g, h)
      BY <2>6, <3>1
    <3> HIDE DEF Reached
    <3>3. flatten[m + 1 + 1] = IF m + 1 + 1 = 1 THEN ss[m + 1 + 1] ELSE flatten[m + 1 + 1 - 1] \o ss[m + 1 + 1]
      BY <2>3
    <3>4. flatten[m + 1 + 1] = flatten[m + 1] \o ss[m + 1 + 1] /\ ss[m + 1 + 1] \in Seq(S) /\ m + 1 + 1 \in DOMAIN ss
      BY <1>1, <3>1, <3>3
    <3>5. flatten[m + 1 + 1] \in Seq(S)
      BY <3>2, <3>4, ConcatIs
    <3>6. PICK g, h : JoinsUpTo(ss, m + 1, flatten[m + 1], g, h)
      BY <3>2
    <3>7. \E g2, h2 : JoinsUpTo(ss, m + 1 + 1, flatten[m + 1] \o ss[m + 1 + 1], g2, h2)
      BY <3>1, <3>2, <3>4, <3>6, JoinsOneMore
    <3> QED BY <3>4, <3>5, <3>7
  <2>7. Reached \in SUBSET Nat
    OBVIOUS
  <2>8. n - 1 \in Nat /\ n - 1 + 1 = n /\ n \in 1..n
    BY <1>1, <2>4
  <2>9. n - 1 \in Reached
    <3> HIDE DEF Reached
    <3>1. \A m \in Reached : m + 1 \in Reached
      BY <2>6, <2>7
    <3> QED BY <2>5, <2>7, <2>8, <3>1, SetInduction
  <2>10. PICK g, h : JoinsUpTo(ss, n, flatten[n], g, h)
    BY <2>8, <2>9
  <2>11. Joins(ss, flatten[n], g, h)
    BY <1>1, <2>10 DEF Joins, JoinsUpTo
  <2> QED BY <2>2, <2>11
<1> QED BY <1>2, <1>3

\* SetToSeq lists a finite set, each element once.
Lists(s, S) ==
    /\ s \in Seq(S) /\ \A i, j \in DOMAIN s : s[i] = s[j] => i = j
    /\ \A x \in S : \E i \in DOMAIN s : s[i] = x
\* It does so.
LEMMA SetToSeqLists ==
    ASSUME NEW S, IsFiniteSet(S)
    PROVE  Lists(SetToSeq(S), S)
<1> DEFINE D == 1..Cardinality(S)
           s == SetToSeq(S)
<1>1. Cardinality(S) \in Nat /\ ExistsBijection(D, S)
  BY FS_CardinalityType
<1>2. \E f \in [D -> S] : IsInjective(f)
  BY <1>1 DEF ExistsBijection, Bijection, Injection
<1>3. s \in [D -> S] /\ IsInjective(s)
  BY <1>2 DEF SetToSeq
<1>4. Cardinality(D) = Cardinality(S)
  <2>1. 1 \in Int /\ Cardinality(S) \in Int
    BY <1>1
  <2> QED BY <1>1, <2>1, FS_Interval
<1> HIDE DEF s
<1>5. s \in Injection(D, S)
  BY <1>3 DEF Injection
<1>6. s \in Surjection(D, S)
  BY <1>4, <1>5, FS_Injection
<1>7. s \in Seq(S) /\ DOMAIN s = D
  BY <1>1, <1>3
<1>8. \A x \in S : \E i \in D : s[i] = x
  BY <1>6 DEF Surjection
<1>9. \A i, j \in D : s[i] = s[j] => i = j
  BY <1>3, <1>7 DEF IsInjective
<1>10. Lists(s, S)
  BY <1>7, <1>8, <1>9 DEF Lists
<1> QED BY <1>10 DEF s

-----------------------------------------------------------------------------
(* Each token is shown once for each item.                                 *)

\* A set is as large as another one when its elements stand for those of the
\* other, one for one.
LEMMA SameNumber ==
    ASSUME NEW A, IsFiniteSet(A), NEW B, NEW f,
           \A a \in A : f[a] \in B, \A a, b \in A : f[a] = f[b] => a = b,
           \A b \in B : \E a \in A : f[a] = b
    PROVE  Cardinality(A) = Cardinality(B)
<1> DEFINE g == [a \in A |-> f[a]]
<1>1. g \in [A -> B] /\ (\A a, b \in A : g[a] = g[b] => a = b) /\ \A b \in B : \E a \in A : g[a] = b
  OBVIOUS
<1> HIDE DEF g
<1>2. g \in Bijection(A, B)
  BY <1>1 DEF Bijection, Injection, Surjection, IsInjective
<1>3. ExistsBijection(A, B)
  BY <1>2 DEF ExistsBijection
<1> QED BY <1>3, FS_Bijection

\* The lines of a document that are steady, and its tokens on these.
SureLines(d) == {line \in Int : Steady(d, line)}
Sure(d) == {token \in store[d].text.uses : Steady(d, token.line)}

\* Entries of one type that, on some lines, are where some tokens are written,
\* one for each.
EntryOf(place, type) == [at |-> place, type |-> type]
Marks(s, X, L, type) ==
    /\ s \in Seq(Entry)
    /\ \A k \in DOMAIN s : s[k].type = type /\ (s[k].at[1] \in L => \E x \in X : s[k].at = Seen(x))
    /\ \A x \in X : \E k \in DOMAIN s : s[k].at = Seen(x)
    /\ \A k, l \in DOMAIN s : s[k].at = s[l].at /\ s[k].at[1] \in L => k = l
\* Tokens at different places of some lines.
PlacedApart(X, L) ==
    /\ \A x \in X : Seen(x) \in Place /\ Seen(x)[1] \in L
    /\ \A x, y \in X : Seen(x) = Seen(y) => x = y
\* References that, on some lines, are where some tokens are written, one for each.
Covers(R, X, L) ==
    /\ \A ref \in R : ref.v_range \in Place /\ (ref.v_range[1] \in L => \E x \in X : ref.v_range = Seen(x))
    /\ \A x \in X : \E ref \in R : ref.v_range = Seen(x)
    /\ \A a, b \in R : a.v_range = b.v_range /\ a.v_range[1] \in L => a = b

\* The entry of a place.
LEMMA EntryOfIs ==
    ASSUME NEW place \in Place, NEW type \in TokenTypes
    PROVE  /\ EntryOf(place, type) \in Entry
           /\ EntryOf(place, type).at = place /\ EntryOf(place, type).type = type
  BY DEF EntryOf, Entry

\* The entries of a list of references.
LEMMA MarksListed ==
    ASSUME NEW R, NEW X, NEW L, Covers(R, X, L), NEW type \in TokenTypes, NEW u, Lists(u, R)
    PROVE  Marks([i \in DOMAIN u |-> EntryOf(u[i].v_range, type)], X, L, type)
<1> DEFINE s == [i \in DOMAIN u |-> EntryOf(u[i].v_range, type)]
<1>1. Len(u) \in Nat /\ DOMAIN u = 1..Len(u) /\ \A i \in DOMAIN u : u[i] \in R
  BY SeqIs DEF Lists
<1>2. DOMAIN s = DOMAIN u /\ \A i \in DOMAIN u : s[i] = EntryOf(u[i].v_range, type)
  OBVIOUS
<1>3. \A i \in DOMAIN u : s[i] \in Entry /\ s[i].at = u[i].v_range /\ s[i].type = type
  <2> HIDE DEF s
  <2> QED BY <1>1, <1>2, EntryOfIs DEF Covers
<1>4. s \in Seq(Entry)
  <2>1. \A i \in 1..Len(u) : EntryOf(u[i].v_range, type) \in Entry
    BY <1>1, <1>2, <1>3
  <2>2. s \in [1..Len(u) -> Entry]
    BY <1>1, <2>1
  <2> HIDE DEF s
  <2> QED BY <1>1, <2>2
<1> HIDE DEF s
<1>5. \A x \in X : \E k \in DOMAIN s : s[k].at = Seen(x)
  <2> SUFFICES ASSUME NEW x \in X PROVE \E k \in DOMAIN s : s[k].at = Seen(x)
    OBVIOUS
  <2>1. PICK ref \in R : ref.v_range = Seen(x)
    BY DEF Covers
  <2>2. PICK k \in DOMAIN u : u[k] = ref
    BY DEF Lists
  <2> QED BY <1>2, <1>3, <2>1, <2>2
<1>6. \A k, l \in DOMAIN s : s[k].at = s[l].at /\ s[k].at[1] \in L => k = l
  <2> SUFFICES ASSUME NEW k \in DOMAIN u, NEW l \in DOMAIN u, u[k].v_range = u[l].v_range, u[k].v_range[1] \in L
               PROVE  k = l
    BY <1>2, <1>3
  <2>1. u[k] = u[l]
    BY <1>1 DEF Covers
  <2> QED BY <2>1 DEF Lists
<1>7. \A k \in DOMAIN s : s[k].type = type /\ (s[k].at[1] \in L => \E x \in X : s[k].at = Seen(x))
  BY <1>1, <1>2, <1>3 DEF Covers
<1>8. Marks(s, X, L, type)
  BY <1>4, <1>5, <1>6, <1>7 DEF Marks
<1> QED BY <1>8 DEF s

\* What one more place in front adds to the tokens.
FirstOf(X, L, place, token, Y) ==
    /\ place[1] \in L => place = Seen(token) /\ Y = X \cup {token} /\ \A x \in X : Seen(x) # place
    /\ place[1] \notin L => Y = X
\* One more entry in front.
LEMMA MarksFirst ==
    ASSUME NEW X, NEW L, NEW type \in TokenTypes, NEW s, Marks(s, X, L, type),
           NEW place \in Place, NEW token, NEW Y, FirstOf(X, L, place, token, Y)
    PROVE  Marks(<<EntryOf(place, type)>> \o s, Y, L, type)
<1> DEFINE e == EntryOf(place, type)
           v == <<e>> \o s
           n == Len(s)
<1>1. e \in Entry /\ e.at = place /\ e.type = type
  BY EntryOfIs
<1>2. s \in Seq(Entry) /\ n \in Nat /\ DOMAIN s = 1..n
  BY SeqIs DEF Marks
<1> HIDE DEF e
<1>3. <<e>> \in Seq(Entry) /\ Len(<<e>>) = 1 /\ <<e>>[1] = e
  BY <1>1
<1>4. v \in Seq(Entry) /\ Len(v) = n + 1 /\ v[1] = e /\ \A k \in 1..n : v[k + 1] = s[k]
  BY <1>2, <1>3
<1>5. DOMAIN v = 1..(n + 1)
  BY <1>2, <1>4, SeqIs
<1> HIDE DEF v, n
<1>6. /\ 1 \in 1..(n + 1) /\ \A k \in 1..n : k + 1 \in 1..(n + 1) /\ k + 1 # 1
      /\ \A k \in 1..(n + 1) : k # 1 => k - 1 \in 1..n /\ v[k] = s[k - 1]
  <2>1. \A k \in 1..(n + 1) : k # 1 => k - 1 \in 1..n /\ k - 1 + 1 = k
    BY <1>2
  <2> QED BY <1>2, <1>4, <2>1
<1>7. /\ \A k \in 1..n : s[k].type = type /\ (s[k].at[1] \in L => \E x \in X : s[k].at = Seen(x))
      /\ \A x \in X : \E k \in 1..n : s[k].at = Seen(x)
      /\ \A k, l \in 1..n : s[k].at = s[l].at /\ s[k].at[1] \in L => k = l
  BY <1>2 DEF Marks
<1>8. /\ place[1] \in L => place = Seen(token) /\ token \in Y /\ \A x \in X : Seen(x) # place
      /\ X \subseteq Y
      /\ \A y \in Y : y \in X \/ (y = token /\ place = Seen(token))
  BY DEF FirstOf
<1>9. ASSUME NEW k \in 1..(n + 1)
      PROVE  v[k].type = type /\ (v[k].at[1] \in L => \E x \in Y : v[k].at = Seen(x))
  <2>1. CASE k = 1
    BY <1>1, <1>4, <1>8, <2>1
  <2>2. CASE k # 1
    BY <1>6, <1>7, <1>8, <2>2
  <2> QED BY <2>1, <2>2
<1>10. ASSUME NEW x \in Y PROVE \E k \in 1..(n + 1) : v[k].at = Seen(x)
  <2>1. CASE x = token /\ place = Seen(token)
    BY <1>1, <1>4, <1>6, <2>1
  <2>2. CASE x \in X
    <3>1. PICK k \in 1..n : s[k].at = Seen(x)
      BY <1>7, <2>2
    <3>2. k + 1 \in 1..(n + 1) /\ v[k + 1] = s[k]
      BY <1>4, <1>6
    <3> QED BY <3>1, <3>2
  <2> QED BY <1>8, <2>1, <2>2
<1>11. ASSUME NEW k \in 1..(n + 1), NEW l \in 1..(n + 1), v[k].at = v[l].at, v[k].at[1] \in L PROVE k = l
  <2>1. ASSUME NEW m \in 1..(n + 1), m # 1, v[m].at[1] \in L PROVE v[m].at # v[1].at
    <3>1. v[m] = s[m - 1] /\ m - 1 \in 1..n
      BY <1>6, <2>1
    <3>2. PICK x \in X : s[m - 1].at = Seen(x)
      BY <1>7, <2>1, <3>1
    <3>3. v[1].at = place
      BY <1>1, <1>4
    <3> QED BY <1>8, <2>1, <3>1, <3>2, <3>3
  <2>2. CASE k # 1 /\ l # 1
    <3>1. v[k] = s[k - 1] /\ k - 1 \in 1..n /\ v[l] = s[l - 1] /\ l - 1 \in 1..n
      BY <1>6, <2>2
    <3>2. s[k - 1].at = s[l - 1].at /\ s[k - 1].at[1] \in L
      BY <1>11, <3>1
    <3>3. k - 1 = l - 1
      BY <1>7, <3>1, <3>2
    <3> QED BY <3>3
  <2> QED BY <1>11, <2>1, <2>2
<1>12. Marks(v, Y, L, type)
  BY <1>4, <1>5, <1>9, <1>10, <1>11 DEF Marks
<1> QED BY <1>12 DEF v, e

\* The tokens of some items, one sequence for each, of the types of the items.
MarksEach(ss, Of, L, type) ==
    /\ DOMAIN ss = DOMAIN Of
    /\ \A i \in DOMAIN ss : Marks(ss[i], Of[i], L, type[i])
Holders(Of, token) == {i \in DOMAIN Of : token \in Of[i]}

\* When all the tokens are pushed, those decoded at a token are the items'
\* that hold it.
ShowsHolders(shown, Of, type, U, L) ==
    /\ \A m \in DOMAIN shown : shown[m].at[1] \in L => \E token \in U : shown[m].at = Seen(token)
    /\ \A token \in U :
         LET At == {m \in DOMAIN shown : shown[m].at = Seen(token)}
         IN  /\ Cardinality(At) = Cardinality(Holders(Of, token))
             /\ {shown[m].type : m \in At} = {type[i] : i \in Holders(Of, token)}
\* The entries at a token and the items that hold it are as many.
LEMMA EachOnce ==
    ASSUME NEW U, NEW L, PlacedApart(U, L), NEW ss \in Seq(Seq(Entry)), NEW Of, NEW type,
           MarksEach(ss, Of, L, type),
           \A i \in DOMAIN Of : Of[i] \subseteq U,
           NEW shown, NEW p, Reorders(p, FlattenSeq(ss), shown)
    PROVE  ShowsHolders(shown, Of, type, U, L)
<1> DEFINE data == FlattenSeq(ss)
           n == Len(data)
<1>1. PICK g, h : Joins(ss, data, g, h)
  BY FlattenJoins
<1>2. data \in Seq(Entry)
  BY FlattenIs
<1> HIDE DEF data
<1>3. n \in Nat /\ DOMAIN data = 1..n
  BY <1>2, SeqIs
<1> HIDE DEF n
<1>4. shown \in Seq(Entry) /\ Len(shown) = n
  BY DEF Reorders, data, n
<1>5. DOMAIN shown = 1..n
  BY <1>4, SeqIs
<1>6. /\ \A m \in 1..n : p[m] \in 1..n /\ shown[m] = data[p[m]]
      /\ \A m, k \in 1..n : p[m] = p[k] => m = k
      /\ \A i \in 1..n : \E m \in 1..n : p[m] = i
  BY DEF Reorders, data, n
<1>7. JoinsOn(ss, DOMAIN ss, data, 1..n, g, h)
  BY <1>1, <1>3 DEF Joins
<1>8. /\ \A j \in 1..n : g[j] \in DOMAIN ss /\ h[j] \in DOMAIN ss[g[j]] /\ data[j] = ss[g[j]][h[j]]
      /\ \A i, j \in 1..n : g[i] = g[j] /\ h[i] = h[j] => i = j
      /\ \A i \in DOMAIN ss : \A k \in DOMAIN ss[i] : \E j \in 1..n : g[j] = i /\ h[j] = k
  BY <1>7 DEF JoinsOn
<1>9. /\ DOMAIN ss = DOMAIN Of
      /\ \A i \in DOMAIN ss : \A k \in DOMAIN ss[i] :
           ss[i][k].type = type[i] /\ (ss[i][k].at[1] \in L => \E x \in Of[i] : ss[i][k].at = Seen(x))
      /\ \A i \in DOMAIN ss : \A x \in Of[i] : \E k \in DOMAIN ss[i] : ss[i][k].at = Seen(x)
      /\ \A i \in DOMAIN ss : \A k, l \in DOMAIN ss[i] :
           ss[i][k].at = ss[i][l].at /\ ss[i][k].at[1] \in L => k = l
  BY DEF MarksEach, Marks
<1> DEFINE f == [m \in 1..n |-> g[p[m]]]
<1>10. ASSUME NEW m \in 1..n
       PROVE  /\ f[m] \in DOMAIN Of /\ shown[m].type = type[f[m]]
              /\ shown[m].at[1] \in L => \E x \in Of[f[m]] : shown[m].at = Seen(x)
              /\ f[m] = g[p[m]] /\ shown[m] = ss[f[m]][h[p[m]]] /\ h[p[m]] \in DOMAIN ss[f[m]]
  <2>1. p[m] \in 1..n /\ shown[m] = data[p[m]] /\ f[m] = g[p[m]]
    BY <1>6
  <2> HIDE DEF f
  <2>2. f[m] \in DOMAIN ss /\ h[p[m]] \in DOMAIN ss[f[m]] /\ shown[m] = ss[f[m]][h[p[m]]]
    BY <1>8, <2>1
  <2>3. shown[m].type = type[f[m]] /\ (shown[m].at[1] \in L => \E x \in Of[f[m]] : shown[m].at = Seen(x))
    <3>1. PICK i \in DOMAIN ss : i = f[m]
      BY <2>2
    <3>2. PICK k \in DOMAIN ss[i] : shown[m] = ss[i][k]
      BY <2>2, <3>1
    <3>3. ss[i][k].type = type[i] /\ (ss[i][k].at[1] \in L => \E x \in Of[i] : ss[i][k].at = Seen(x))
      BY <1>9
    <3> QED BY <3>1, <3>2, <3>3
  <2> QED BY <1>9, <2>1, <2>2, <2>3
<1> HIDE DEF f
<1>11. /\ \A x \in U, y \in U : Seen(x) = Seen(y) => x = y
       /\ \A x \in U : Seen(x)[1] \in L
  BY DEF PlacedApart
<1>12. ASSUME NEW token \in U
       PROVE  LET At == {m \in 1..n : shown[m].at = Seen(token)}
              IN  /\ Cardinality(At) = Cardinality(Holders(Of, token))
                  /\ {shown[m].type : m \in At} = {type[i] : i \in Holders(Of, token)}
  <2> DEFINE At == {m \in 1..n : shown[m].at = Seen(token)}
             H == Holders(Of, token)
  <2>1. \A m \in At : f[m] \in H
    <3> SUFFICES ASSUME NEW m \in At PROVE f[m] \in H
      OBVIOUS
    <3>1. PICK x \in Of[f[m]] : shown[m].at = Seen(x)
      BY <1>10, <1>11
    <3>2. f[m] \in DOMAIN Of /\ x \in U
      BY <1>10, <3>1
    <3>3. x = token
      BY <1>11, <3>1, <3>2
    <3> QED BY <3>1, <3>2, <3>3 DEF Holders
  <2>2. ASSUME NEW m \in At, NEW k \in At, f[m] = f[k] PROVE m = k
    <3>1. shown[m].at = shown[k].at /\ shown[m].at[1] \in L
      BY <1>11
    <3>2. /\ f[m] \in DOMAIN ss /\ h[p[m]] \in DOMAIN ss[f[m]] /\ h[p[k]] \in DOMAIN ss[f[m]]
          /\ shown[m] = ss[f[m]][h[p[m]]] /\ shown[k] = ss[f[m]][h[p[k]]]
      BY <1>9, <1>10, <2>2
    <3>3. h[p[m]] = h[p[k]]
      BY <1>9, <3>1, <3>2
    <3>4. g[p[m]] = g[p[k]] /\ p[m] \in 1..n /\ p[k] \in 1..n
      BY <1>6, <1>10, <2>2
    <3>5. p[m] = p[k]
      BY <1>8, <3>3, <3>4
    <3> QED BY <1>6, <3>5
  <2>3. ASSUME NEW i \in H PROVE \E m \in At : f[m] = i
    <3>1. i \in DOMAIN ss /\ token \in Of[i]
      BY <1>9 DEF Holders
    <3>2. PICK k \in DOMAIN ss[i] : ss[i][k].at = Seen(token)
      BY <1>9, <3>1
    <3>3. PICK j \in 1..n : g[j] = i /\ h[j] = k
      BY <1>8, <3>1
    <3>4. PICK m \in 1..n : p[m] = j
      BY <1>6
    <3>5. f[m] = i /\ shown[m] = ss[i][k]
      BY <1>10, <3>3, <3>4
    <3> QED BY <3>2, <3>5
  <2>4. IsFiniteSet(At)
    <3>1. IsFiniteSet(1..n)
      <4>1. 1 \in Int /\ n \in Int
        BY <1>3
      <4> QED BY <4>1, FS_Interval
    <3>2. At \in SUBSET (1..n)
      OBVIOUS
    <3> HIDE DEF At
    <3> QED BY <3>1, <3>2, FS_Subset
  <2>5. \A m \in At : m \in 1..n
    OBVIOUS
  <2> HIDE DEF At, H
  <2>6. Cardinality(At) = Cardinality(H)
    BY <2>1, <2>2, <2>3, <2>4, SameNumber
  <2>7. \A m \in At : shown[m].type = type[f[m]]
    BY <1>10, <2>5
  <2>8. {shown[m].type : m \in At} = {type[i] : i \in H}
    BY <2>1, <2>3, <2>7
  <2> QED BY <2>6, <2>8 DEF At, H
<1>13. ASSUME NEW m \in 1..n, shown[m].at[1] \in L PROVE \E token \in U : shown[m].at = Seen(token)
  <2>1. f[m] \in DOMAIN Of /\ \E x \in Of[f[m]] : shown[m].at = Seen(x)
    BY <1>10, <1>13
  <2>2. Of[f[m]] \subseteq U
    BY <2>1
  <2> QED BY <2>1, <2>2
<1> QED BY <1>5, <1>12, <1>13 DEF ShowsHolders

\* The tokens of a document on its steady lines are at different places, and
\* its items have different keys.
LEMMA UsesApart ==
    ASSUME StoreTyped, NEW d \in DOMAIN store
    PROVE  /\ PlacedApart(Sure(d), SureLines(d)) /\ IsFiniteSet(store[d].text.uses)
           /\ \A i, j \in DOMAIN store[d].text.items :
                store[d].text.items[i].key = store[d].text.items[j].key => i = j
<1>1. d \in Doc /\ store[d].text \in AnyText /\ (store[d].text = Nothing \/ store[d].text \in Texts[d])
  BY StoreTexts DEF StoreTyped
<1>2. store[d].text.uses \subseteq Token
  BY <1>1, TextIs DEF GoodText
<1>3. ASSUME NEW x \in Sure(d)
      PROVE  x \in store[d].text.uses /\ Seen(x) \in Place /\ Seen(x)[1] \in SureLines(d) /\ Written(x)
  <2>1. x \in store[d].text.uses /\ Steady(d, x.line)
    BY DEF Sure
  <2>2. x \in Token
    BY <1>2, <2>1
  <2>3. x.line \in Int /\ x.src \in Int
    BY <2>2 DEF Token, Unwritten
  <2>4. SeenAt(d, x, BuildVRange(store[d].text.offsets, x))
    BY <2>1, SteadyIsSeen
  <2> QED BY <2>1, <2>3, <2>4 DEF Seen, Place, SureLines, SeenAt
<1>4. PlacedApart(Sure(d), SureLines(d))
  BY <1>3, SeenOnce DEF PlacedApart
<1>5. CASE store[d].text = Nothing
  <2>1. store[d].text.uses = {} /\ DOMAIN store[d].text.items = {}
    BY <1>5 DEF Nothing
  <2>2. IsFiniteSet({})
    BY FS_EmptySet
  <2> QED BY <1>4, <2>1, <2>2
<1>6. CASE store[d].text \in Texts[d]
  BY <1>1, <1>4, <1>6, PlacesAssumption
<1> QED BY <1>1, <1>5, <1>6

\* The type an item is shown with is one of the client's.
LEMMA TokenTypeIs ==
    ASSUME StoreTyped, NEW id \in Live, Shown(id)
    PROVE  TokenType(id) \in TokenTypes
<1>1. id.doc \in DOMAIN store /\ Item(id) \in ToSet(store[id.doc].text.items)
  BY LiveIs DEF OfItem
<1>2. store[id.doc].text.items \in Seq(SPItem)
  BY <1>1, StoreTexts, TextIs DEF GoodText
<1>3. Item(id).kind \in Kind
  <2>1. Item(id) \in SPItem
    BY <1>1, <1>2, SeqIs
  <2> QED BY <2>1 DEF SPItem
<1> DEFINE k == Item(id).kind
           f == IF IsOf(id, "methodmap") /\ NameOf(id) = Head(id.key) THEN "class"
                ELSE IF Len(id.key) > 1 THEN "method" ELSE "function"
           v == IF IsOf(id, "enum_struct") /\ Len(id.key) = 2 THEN "property" ELSE "variable"
<1>4. TokenType(id) =
        CASE k = "function" -> f [] k \in {"variable", "local"} -> v [] k = "property" -> "property"
          [] k = "enum" -> "enum" [] k = "methodmap" -> "class"
          [] k = "enum_struct" -> "struct" [] k = "member" -> "enum_member"
  BY DEF TokenType
<1>5. f \in TokenTypes
  <2>1. f = "class" \/ f = "method" \/ f = "function"
    OBVIOUS
  <2> HIDE DEF f
  <2> QED BY <2>1 DEF TokenTypes
<1>6. v \in TokenTypes
  <2>1. v = "property" \/ v = "variable"
    OBVIOUS
  <2> HIDE DEF v
  <2> QED BY <2>1 DEF TokenTypes
<1>7. k \in {"function", "variable", "methodmap", "property", "enum_struct", "enum", "local", "member"}
  BY <1>3 DEF Kind, Shown
<1> HIDE DEF k, f, v
<1>8. CASE k = "function"
  BY <1>4, <1>5, <1>8
<1>9. CASE k \in {"variable", "local"}
  BY <1>4, <1>6, <1>9
<1>10. CASE k = "methodmap"
  BY <1>4, <1>10 DEF TokenTypes
<1>11. CASE k = "enum_struct"
  BY <1>4, <1>11 DEF TokenTypes
<1>12. CASE k = "member"
  BY <1>4, <1>12 DEF TokenTypes
<1>13. CASE k = "property"
  BY <1>4, <1>13 DEF TokenTypes
<1>14. CASE k = "enum"
  BY <1>4, <1>14 DEF TokenTypes
<1> QED BY <1>7, <1>8, <1>9, <1>10, <1>11, <1>12, <1>13, <1>14

\* The tokens of a document that an item has: its declaration, and the
\* references to it.
OwnedBy(id, d, token) ==
    /\ Shown(id)
    /\ \/ id.doc = d /\ token = TokenOf(Item(id))
       \/ Refers(id, d, token)
Owned(id, d) == {token \in Sure(d) : OwnedBy(id, d, token)}

\* The image of a finite set.
LEMMA FiniteImage ==
    ASSUME NEW S, IsFiniteSet(S), NEW f
    PROVE  IsFiniteSet({f[x] : x \in S})
<1> DEFINE T == {f[x] : x \in S}
           g == [x \in S |-> f[x]]
<1>1. g \in [S -> T] /\ \A y \in T : \E x \in S : g[x] = y
  OBVIOUS
<1> HIDE DEF g, T
<1>2. g \in Surjection(S, T)
  BY <1>1 DEF Surjection
<1>3. IsFiniteSet(T)
  BY <1>2, FS_Surjection
<1> QED BY <1>3 DEF T

\* An item has finitely many references in a document.
LEMMA RefsFinite ==
    ASSUME PlacesInv, queue = {}, main = NoMain, NEW id \in Live, NEW d \in DOMAIN store
    PROVE  IsFiniteSet({ref \in references[id] : ref.doc = d})
<1> DEFINE uses == store[d].text.uses
           by(offsets) == [token \in uses |-> [doc |-> d, token |-> token, v_range |-> BuildVRange(offsets, token)]]
           A == {by(store[d].text.offsets)[token] : token \in uses}
           B == {by(NoOffsets)[token] : token \in uses}
           R == {ref \in references[id] : ref.doc = d}
<1>1. StoreTyped /\ references[id] \subseteq Use
  BY DEF PlacesInv, RefsInv, Types, RefsTyped
<1>2. IsFiniteSet(A) /\ IsFiniteSet(B)
  <2>1. IsFiniteSet(uses)
    BY <1>1, UsesApart
  <2> HIDE DEF by, uses
  <2> QED BY <2>1, FiniteImage
<1>3. ASSUME NEW ref \in R PROVE ref \in A \/ ref \in B
  <2>1. ref = [doc |-> d, token |-> ref.token, v_range |-> ref.v_range]
    BY <1>1 DEF Use
  <2>2. ref.token \in uses
    BY DEF PlacesInv, RefsInv, Current
  <2>3. \/ ref.v_range = BuildVRange(store[d].text.offsets, ref.token)
        \/ ref.v_range = BuildVRange(NoOffsets, ref.token)
    BY DEF PlacesInv, Located
  <2> QED BY <2>1, <2>2, <2>3
<1>4. R \subseteq A \cup B
  BY <1>3
<1> HIDE DEF A, B, R
<1>5. IsFiniteSet(A \cup B)
  BY <1>2, FS_Union
<1>6. IsFiniteSet(R)
  BY <1>4, <1>5, FS_Subset
<1> QED BY <1>6 DEF R

\* On the steady lines of a document, the references of an item are where the
\* tokens that refer to it are written, one for each.
LEMMA RefsCover ==
    ASSUME PlacesInv, queue = {}, main = NoMain, NEW id \in Live, NEW d \in DOMAIN store
    PROVE  Covers({ref \in references[id] : ref.doc = d}, {token \in Sure(d) : Refers(id, d, token)}, SureLines(d))
<1> DEFINE R == {ref \in references[id] : ref.doc = d}
           X == {token \in Sure(d) : Refers(id, d, token)}
           L == SureLines(d)
<1>1. StoreTyped /\ references[id] \subseteq Use
  BY DEF PlacesInv, RefsInv, Types, RefsTyped
<1>2. ASSUME NEW ref \in R
      PROVE  /\ ref = [doc |-> d, token |-> ref.token, v_range |-> ref.v_range]
             /\ ref.v_range \in Place /\ ref.token \in store[d].text.uses /\ Refers(id, d, ref.token)
             /\ SeenAt(d, ref.token, ref.v_range)
  <2>1. ref \in references[id] /\ ref.doc = d /\ ref \in Use
    BY <1>1
  <2>2. RefIs(ref, NameOf(id))
    BY <2>1, RefSeen
  <2>3. ref.v_range \in Nat \X Nat /\ ref = [doc |-> d, token |-> ref.token, v_range |-> ref.v_range]
    BY <2>1 DEF Use
  <2>4. ref.v_range \in Place
    BY <2>3 DEF Place
  <2>5. Refers(id, d, ref.token)
    BY <2>1 DEF Refers
  <2> QED BY <2>1, <2>2, <2>3, <2>4, <2>5 DEF RefIs
<1>3. ASSUME NEW ref \in R, ref.v_range[1] \in L
      PROVE  ref.token \in X /\ ref.v_range = Seen(ref.token) /\ Written(ref.token)
  <2>1. Steady(d, ref.v_range[1])
    BY <1>3 DEF SureLines
  <2>2. Steady(d, ref.token.line) /\ ref.v_range = Seen(ref.token) /\ Written(ref.token)
    BY <1>2, <2>1 DEF SeenAt
  <2> QED BY <1>2, <2>2 DEF Sure
<1>4. ASSUME NEW x \in X PROVE \E ref \in R : ref.v_range = Seen(x)
  <2>1. PICK ref \in references[id] : ref.doc = d /\ ref.token = x
    BY DEF Refers
  <2>2. ref \in R /\ Steady(d, x.line)
    BY <2>1 DEF Sure
  <2>3. ref.v_range = Seen(x)
    BY <1>2, <2>1, <2>2 DEF SeenAt
  <2> QED BY <2>2, <2>3
<1>5. ASSUME NEW a \in R, NEW b \in R, a.v_range = b.v_range, a.v_range[1] \in L PROVE a = b
  <2>1. /\ Seen(a.token) = Seen(b.token) /\ Written(a.token) /\ Written(b.token)
        /\ a.token \in store[d].text.uses /\ b.token \in store[d].text.uses
    BY <1>2, <1>3, <1>5
  <2>2. a.token = b.token
    BY <1>1, <2>1, SeenOnce
  <2> QED BY <1>2, <1>5, <2>2
<1>6. \A ref \in R : ref.v_range \in Place
  BY <1>2
<1> HIDE DEF R, X, L
<1>7. Covers(R, X, L)
  BY <1>3, <1>4, <1>5, <1>6 DEF Covers
<1> QED BY <1>7 DEF R, X, L

\* On the steady lines, a declaration adds its token to those that refer to
\* the item.
LEMMA DeclaredFirst ==
    ASSUME OnceInv, NEW id \in Live, Shown(id)
    PROVE  /\ VRangeOf(id) \in Place
           /\ FirstOf({token \in Sure(id.doc) : Refers(id, id.doc, token)}, SureLines(id.doc),
                      VRangeOf(id), TokenOf(Item(id)), Owned(id, id.doc))
<1> DEFINE d == id.doc
           X == {token \in Sure(d) : Refers(id, d, token)}
           own == TokenOf(Item(id))
           place == VRangeOf(id)
<1>1. StoreTyped /\ NotItself
  BY DEF OnceInv, PlacesInv, RefsInv, Types
<1>2. d \in DOMAIN store /\ own \in store[d].text.uses
  BY <1>1, LiveIs DEF OfItem
<1>3. GoodText(store[d].text)
  BY <1>1, <1>2, StoreTexts, TextIs
<1>4. own \in Token /\ store[d].text.offsets \in [DOMAIN store[d].text.offsets -> Seq(Offset)]
  BY <1>2, <1>3 DEF GoodText
<1>5. place \in Place
  <2>1. BuildVRange(store[d].text.offsets, own) \in Nat \X Nat
    BY <1>4, BuildIs
  <2>2. place \in Nat \X Nat
    BY <2>1 DEF VRangeOf
  <2> QED BY <2>2 DEF Place
<1>6. SeenAt(d, own, place)
  BY <1>1, DeclaredSeen
<1>7. place[1] = own.line /\ own.line \in Int
  BY <1>4, <1>6 DEF SeenAt, Token
<1>8. ~Refers(id, d, own)
  BY <1>1 DEF NotItself, Elsewhere, Refers
<1>9. \A token : token \in Owned(id, d) <=> token \in X \/ (token = own /\ token \in Sure(d))
  BY DEF Owned, OwnedBy
<1>10. own \in Sure(d) <=> place[1] \in SureLines(d)
  BY <1>2, <1>7 DEF Sure, SureLines
<1>11. ASSUME place[1] \in SureLines(d)
       PROVE  place = Seen(own) /\ \A x \in X : Seen(x) # place
  <2>1. Steady(d, own.line) /\ own \in Sure(d)
    BY <1>7, <1>10, <1>11 DEF SureLines
  <2>2. place = Seen(own)
    BY <1>6, <2>1 DEF SeenAt
  <2>3. ASSUME NEW x \in X, Seen(x) = Seen(own) PROVE FALSE
    <3>1. x \in Sure(d) /\ Refers(id, d, x)
      OBVIOUS
    <3>2. x = own
      BY <1>1, <1>2, <2>1, <2>3, <3>1, UsesApart DEF PlacedApart
    <3> QED BY <1>8, <3>1, <3>2
  <2> QED BY <2>2, <2>3
<1> HIDE DEF d, X, own, place
<1>12. FirstOf(X, SureLines(d), place, own, Owned(id, d))
  <2>1. place[1] \in SureLines(d) => Owned(id, d) = X \cup {own}
    BY <1>9, <1>10
  <2>2. place[1] \notin SureLines(d) => Owned(id, d) = X
    BY <1>9, <1>10
  <2> QED BY <1>11, <2>1, <2>2 DEF FirstOf
<1> QED BY <1>5, <1>12 DEF d, X, own, place

\* Between handlers, what the references say is in the texts.
LEMMA TokensMark ==
    ASSUME OnceInv, Quiet, main = NoMain, NEW id \in Live, NEW d \in DOMAIN store
    PROVE  Marks(Tokens(id, d), Owned(id, d), SureLines(d), TokenType(id))
<1> DEFINE type == TokenType(id)
           R == {ref \in references[id] : ref.doc = d}
           X == {token \in Sure(d) : Refers(id, d, token)}
           L == SureLines(d)
           u == SetToSeq(R)
           first == IF id.doc = d THEN <<EntryOf(VRangeOf(id), type)>> ELSE <<>>
           s == [i \in DOMAIN u |-> EntryOf(u[i].v_range, type)]
<1>1. StoreTyped /\ queue = {} /\ PlacesInv
  BY DEF OnceInv, PlacesInv, RefsInv, Types, Quiet
<1>2. Tokens(id, d) = IF Shown(id) THEN first \o s ELSE <<>>
  BY DEF Tokens, EntryOf
<1>3. CASE ~Shown(id)
  <2>1. Owned(id, d) = {} /\ Tokens(id, d) = <<>>
    BY <1>2, <1>3 DEF Owned, OwnedBy
  <2>2. <<>> \in Seq(Entry) /\ DOMAIN <<>> = {}
    OBVIOUS
  <2> QED BY <2>1, <2>2 DEF Marks
<1>4. CASE Shown(id)
  <2>1. type \in TokenTypes
    BY <1>1, <1>4, TokenTypeIs
  <2>2. IsFiniteSet(R) /\ Covers(R, X, L)
    BY <1>1, RefsFinite, RefsCover
  <2>3. Tokens(id, d) = first \o s
    BY <1>2, <1>4
  <2> HIDE DEF R, L, type
  <2>4. Lists(u, R)
    BY <2>2, SetToSeqLists
  <2> HIDE DEF u, X
  <2>5. Marks(s, X, L, type)
    BY <2>1, <2>2, <2>4, MarksListed
  <2> HIDE DEF s
  <2>6. CASE id.doc = d
    <3>1. VRangeOf(id) \in Place /\ FirstOf(X, L, VRangeOf(id), TokenOf(Item(id)), Owned(id, d))
      BY <1>4, <2>6, DeclaredFirst DEF X, L
    <3>2. Marks(<<EntryOf(VRangeOf(id), type)>> \o s, Owned(id, d), L, type)
      BY <2>1, <2>5, <3>1, MarksFirst
    <3> QED BY <2>3, <2>6, <3>2 DEF type, L
  <2>7. CASE id.doc # d
    <3>1. X = Owned(id, d)
      BY <1>4, <2>7 DEF X, Owned, OwnedBy
    <3>2. s \in Seq(Entry)
      BY <2>5 DEF Marks
    <3>3. <<>> \o s = s
      BY <3>2
    <3> QED BY <2>3, <2>5, <2>7, <3>1, <3>3 DEF type, L
  <2> QED BY <2>6, <2>7
<1> QED BY <1>3, <1>4

\* An order of a finite set repeats nothing.
LEMMA OrderIsOnce ==
    ASSUME NEW S, NEW order \in SetToSeqs(S)
    PROVE  \A i, j \in DOMAIN order : order[i] = order[j] => i = j
<1>1. order \in [1..Cardinality(S) -> S] /\ \A i, j \in 1..Cardinality(S) : i # j => order[i] # order[j]
  BY DEF SetToSeqs
<1> QED BY <1>1

\* The analyzer and the providers see each item once.
LEMMA AllItemsOnce ==
    ASSUME StoreTyped, NEW order \in SetToSeqs(InScope)
    PROVE  \A i, j \in DOMAIN AllItems(order) : AllItems(order)[i] = AllItems(order)[j] => i = j
<1> DEFINE ss == [i \in DOMAIN order |-> ItemsOf(order[i], store[order[i]])]
           items == AllItems(order)
<1>1. InScope \subseteq DOMAIN store /\ DOMAIN store \subseteq Doc /\ IsFiniteSet(Doc)
  BY InScopeIsKnown, TextsAssumption DEF StoreTyped
<1>2. IsFiniteSet(InScope)
  BY <1>1, FS_Subset
<1>3. order \in Seq(InScope) /\ \A i, j \in DOMAIN order : order[i] = order[j] => i = j
  BY <1>2, OrderHasAll, OrderIsOnce
<1>4. DOMAIN order = 1..Len(order) /\ Len(order) \in Nat /\ \A i \in DOMAIN order : order[i] \in InScope
  BY <1>3, SeqIs
<1>5. \A d \in InScope : ItemsOf(d, store[d]) \in Seq(Id)
  BY <1>1, StoreTexts, ItemsAreIds
<1>6. ss \in Seq(Seq(Id)) /\ DOMAIN ss = DOMAIN order
  BY <1>4, <1>5
<1>7. PICK g, h : Joins(ss, items, g, h)
  BY <1>6, FlattenJoins DEF AllItems
<1>8. \A i \in DOMAIN order : ss[i] = ItemsOf(order[i], store[order[i]])
  OBVIOUS
<1> HIDE DEF ss, items
<1>9. /\ \A j \in DOMAIN items : g[j] \in DOMAIN ss /\ h[j] \in DOMAIN ss[g[j]] /\ items[j] = ss[g[j]][h[j]]
      /\ \A i, j \in DOMAIN items : g[i] = g[j] /\ h[i] = h[j] => i = j
  BY <1>7 DEF Joins, JoinsOn
<1>10. ASSUME NEW i \in DOMAIN items
       PROVE  /\ items[i].doc = order[g[i]] /\ g[i] \in DOMAIN order
              /\ h[i] \in DOMAIN store[order[g[i]]].text.items
              /\ items[i].key = store[order[g[i]]].text.items[h[i]].key
  <2>1. PICK k \in DOMAIN order : k = g[i]
    BY <1>6, <1>9
  <2>2. h[i] \in DOMAIN ItemsOf(order[k], store[order[k]]) /\ items[i] = ItemsOf(order[k], store[order[k]])[h[i]]
    BY <1>8, <1>9, <2>1
  <2>3. h[i] \in DOMAIN store[order[k]].text.items /\ items[i] = IdAt(order[k], store[order[k]], h[i])
    BY <2>2, ItemsAre
  <2> QED BY <2>1, <2>3 DEF IdAt
<1>11. ASSUME NEW i \in DOMAIN items, NEW j \in DOMAIN items, items[i] = items[j] PROVE i = j
  <2>1. g[i] = g[j]
    BY <1>3, <1>10, <1>11
  <2>2. order[g[i]] \in DOMAIN store
    BY <1>1, <1>4, <1>10
  <2>3. PICK d \in DOMAIN store : d = order[g[i]]
    BY <2>2
  <2>4. /\ h[i] \in DOMAIN store[d].text.items /\ h[j] \in DOMAIN store[d].text.items
        /\ store[d].text.items[h[i]].key = store[d].text.items[h[j]].key
    BY <1>10, <1>11, <2>1, <2>3
  <2>5. h[i] = h[j]
    BY <2>4, UsesApart
  <2> QED BY <1>9, <2>1, <2>5
<1> QED BY <1>11 DEF items

\* What a document is shown: each item of the store pushes its tokens.
LEMMA ShownAre ==
    ASSUME OnceInv, Quiet, main = NoMain, NEW d \in DOMAIN store, NEW order \in SetToSeqs(InScope)
    PROVE  LET items == AllItems(order)
               ss == [i \in DOMAIN items |-> Tokens(items[i], d)]
               Of == [i \in DOMAIN items |-> Owned(items[i], d)]
               type == [i \in DOMAIN items |-> TokenType(items[i])]
               shown == RemoveDeltas(SemanticTokens(d, order))
           IN  /\ InTextOrder(shown) /\ shown \in Seq(Entry)
               /\ ShowsHolders(shown, Of, type, Sure(d), SureLines(d))
<1> DEFINE items == AllItems(order)
           ss == [i \in DOMAIN items |-> Tokens(items[i], d)]
           Of == [i \in DOMAIN items |-> Owned(items[i], d)]
           type == [i \in DOMAIN items |-> TokenType(items[i])]
           shown == RemoveDeltas(SemanticTokens(d, order))
           data == FlattenSeq(ss)
<1>1. StoreTyped /\ items \in Seq(Id) /\ ToSet(items) = InScopeItems
  BY AllItemsAre DEF OnceInv, PlacesInv, RefsInv, Types
<1>2. InScopeItems = Live
  BY DEF InScope, InScopeItems, Live
<1>3. shown = RemoveDeltas(Build(Pushes(data)))
  BY DEF SemanticTokens, Pushes
<1>4. Len(items) \in Nat /\ DOMAIN items = 1..Len(items) /\ \A i \in DOMAIN items : items[i] \in Live
  BY <1>1, <1>2, SeqIs DEF ToSet
<1> HIDE DEF items
<1>5. DOMAIN ss = DOMAIN Of /\ DOMAIN ss = DOMAIN items /\ DOMAIN Of = DOMAIN items
  OBVIOUS
<1>6. ASSUME NEW i \in DOMAIN items
      PROVE  Marks(ss[i], Of[i], SureLines(d), type[i]) /\ Of[i] \subseteq Sure(d)
  <2>1. Marks(Tokens(items[i], d), Owned(items[i], d), SureLines(d), TokenType(items[i]))
    BY <1>4, TokensMark
  <2>2. Owned(items[i], d) \subseteq Sure(d)
    BY DEF Owned
  <2>3. ss[i] = Tokens(items[i], d) /\ Of[i] = Owned(items[i], d) /\ type[i] = TokenType(items[i])
    OBVIOUS
  <2> HIDE DEF ss, Of, type
  <2> QED BY <2>1, <2>2, <2>3
<1>7. ss \in Seq(Seq(Entry))
  <2>1. \A i \in DOMAIN items : ss[i] \in Seq(Entry)
    BY <1>6 DEF Marks
  <2>2. ss \in [1..Len(items) -> Seq(Entry)]
    BY <1>4, <2>1
  <2> HIDE DEF ss
  <2> QED BY <1>4, <2>2
<1> HIDE DEF ss, Of, type, shown, data
<1>8. data \in Seq(Entry)
  BY <1>7, FlattenIs DEF data
<1>9. InTextOrder(shown) /\ \E p : Reorders(p, data, shown)
  BY <1>3, <1>8, DecodesWhatIsPushed
<1>10. PICK p : Reorders(p, FlattenSeq(ss), shown)
  BY <1>9 DEF data
<1>11. MarksEach(ss, Of, SureLines(d), type)
  BY <1>5, <1>6 DEF MarksEach
<1>12. PlacedApart(Sure(d), SureLines(d))
  BY <1>1, UsesApart
<1>13. ShowsHolders(shown, Of, type, Sure(d), SureLines(d))
  BY <1>5, <1>6, <1>7, <1>10, <1>11, <1>12, EachOnce
<1>14. shown \in Seq(Entry)
  BY <1>10 DEF Reorders
<1> QED BY <1>9, <1>13, <1>14 DEF items, ss, Of, type, shown

\* What the client decodes is in the order of the text, each entry is where a
\* token of the text is written now, and each token is there once for each
\* item that it declares or refers to, as that item's type, when main_path is
\* not set and on the lines that are steady: whatever the order of the items,
\* push_encoded and build lose nothing, no reference of a text that is gone
\* is shown, and build_v_range takes the others where they are written.
THEOREM HighlightsAreUses == Spec => []HighlightsAreTheUses
<1>1. ASSUME OnceInv PROVE HighlightsAreTheUses
  <2> SUFFICES ASSUME Quiet, main = NoMain, NEW d \in InScope, NEW order \in SetToSeqs(InScope)
               PROVE  LET shown == RemoveDeltas(SemanticTokens(d, order))
                          At(token) == {i \in DOMAIN shown : shown[i].at = Seen(token)}
                      IN  /\ \A i \in 2..Len(shown) : ~Before(shown[i].at, shown[i - 1].at)
                          /\ \A i \in DOMAIN shown : Steady(d, shown[i].at[1]) =>
                               \E token \in store[d].text.uses : i \in At(token)
                          /\ \A token \in store[d].text.uses : Steady(d, token.line) =>
                               /\ Cardinality(At(token)) = Cardinality(Owners(d, token))
                               /\ {shown[i].type : i \in At(token)} = {TokenType(id) : id \in Owners(d, token)}
    BY DEF HighlightsAreTheUses
  <2> DEFINE items == AllItems(order)
             Of == [i \in DOMAIN items |-> Owned(items[i], d)]
             type == [i \in DOMAIN items |-> TokenType(items[i])]
             shown == RemoveDeltas(SemanticTokens(d, order))
             At(token) == {i \in DOMAIN shown : shown[i].at = Seen(token)}
  <2>1. StoreTyped /\ InScope = DOMAIN store /\ InScopeItems = Live
    BY <1>1 DEF OnceInv, PlacesInv, RefsInv, Types, InScope, InScopeItems, Live
  <2>2. /\ InTextOrder(shown) /\ shown \in Seq(Entry)
        /\ ShowsHolders(shown, Of, type, Sure(d), SureLines(d))
    BY <1>1, <2>1, ShownAre
  <2>3. items \in Seq(Id) /\ ToSet(items) = Live /\ \A i, j \in DOMAIN items : items[i] = items[j] => i = j
    BY <2>1, AllItemsAre, AllItemsOnce
  <2>4. Len(items) \in Nat /\ DOMAIN items = 1..Len(items) /\ \A i \in DOMAIN items : items[i] \in Live
    BY <2>3, SeqIs DEF ToSet
  <2>5. \A id \in Live : \E i \in DOMAIN items : items[i] = id
    BY <2>3 DEF ToSet
  <2>6. DOMAIN Of = DOMAIN items /\ \A i \in DOMAIN items : Of[i] = Owned(items[i], d) /\ type[i] = TokenType(items[i])
    OBVIOUS
  <2> HIDE DEF items, Of, type, shown
  <2>7. ASSUME NEW token \in store[d].text.uses, Steady(d, token.line)
        PROVE  /\ Cardinality(At(token)) = Cardinality(Owners(d, token))
               /\ {shown[i].type : i \in At(token)} = {TokenType(id) : id \in Owners(d, token)}
    <3> DEFINE H == Holders(Of, token)
               O == Owners(d, token)
    <3>0. token \in Sure(d)
      BY <2>7 DEF Sure
    <3>1. Cardinality(At(token)) = Cardinality(H) /\ {shown[i].type : i \in At(token)} = {type[i] : i \in H}
      BY <2>2, <3>0 DEF ShowsHolders
    <3>2. \A i \in DOMAIN items : i \in H <=> OwnedBy(items[i], d, token)
      BY <2>6, <3>0 DEF Holders, Owned
    <3>3. \A id \in Live : id \in O <=> OwnedBy(id, d, token)
      BY <2>1, LiveIs DEF Owners, OwnedBy, OfItem
    <3>4. O \subseteq Live /\ H \subseteq DOMAIN items
      BY <2>6 DEF Owners, Holders
    <3>5. IsFiniteSet(H)
      <4>1. 1 \in Int /\ Len(items) \in Int
        BY <2>4
      <4>2. IsFiniteSet(1..Len(items)) /\ H \in SUBSET (1..Len(items))
        BY <2>4, <3>4, <4>1, FS_Interval
      <4> HIDE DEF H
      <4> QED BY <4>2, FS_Subset
    <3> HIDE DEF H, O
    <3>6. /\ \A i \in H : items[i] \in O
          /\ \A i, j \in H : items[i] = items[j] => i = j
          /\ \A id \in O : \E i \in H : items[i] = id
      BY <2>3, <2>4, <2>5, <3>2, <3>3, <3>4
    <3>7. Cardinality(H) = Cardinality(O)
      BY <3>5, <3>6, SameNumber
    <3>8. {type[i] : i \in H} = {TokenType(id) : id \in O}
      BY <2>6, <3>4, <3>6
    <3> QED BY <3>1, <3>7, <3>8 DEF O
  <2>8. ASSUME NEW i \in DOMAIN shown, Steady(d, shown[i].at[1])
        PROVE  \E token \in store[d].text.uses : i \in At(token)
    <3>1. shown[i] \in Entry
      BY <2>2, SeqIs
    <3>2. shown[i].at[1] \in SureLines(d)
      BY <2>8, <3>1 DEF SureLines, Entry, Place
    <3> QED BY <2>2, <3>2 DEF ShowsHolders, Sure
  <2>9. \A i \in 2..Len(shown) : ~Before(shown[i].at, shown[i - 1].at)
    BY <2>2 DEF InTextOrder
  <2> QED BY <2>7, <2>8, <2>9 DEF shown
<1> QED BY OnceInvHolds, <1>1, PTL
=============================================================================
