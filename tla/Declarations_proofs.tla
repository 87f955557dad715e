------------------------- MODULE Declarations_proofs -------------------------
(***************************************************************************)
(* Proofs about Declarations, for every document: what its declarations    *)
(* are documented with, what deprecates them, and that none is lost.       *)
(***************************************************************************)
EXTENDS Declarations, Induction

(* Items.  What a document keeps of a node; a container has items in it.   *)
Docs == [text : Seq(Nat), deprecated : Nat]
Key == Seq(STRING \cup Nat)
Leaf == [node : Nat, key : Key, doc : Docs, children : {<<>>}]
Member == [node : Nat, key : Key, doc : Docs, children : Seq(Leaf)]
Items == [node : Nat, key : Key, doc : Docs, children : Seq(Member)]

(* Where the pass is: what was met so far is of nodes it has visited, and  *)
(* the comments left were met since the open container.                    *)
Visited ==
    /\ text \in Texts /\ pos \in 0..Len(text) /\ anon_enum_counter \in 0..pos
    /\ comments \in Seq(1..pos) /\ deprecated \in Seq(1..pos)
    /\ \A k \in DOMAIN comments : text[comments[k]].kind = "comment"
    /\ \A k \in DOMAIN deprecated : text[deprecated[k]].kind = "pragma"
    /\ open # NoItem => \A k \in DOMAIN comments : comments[k] > open.node

OpenShape ==
    open # NoItem =>
        /\ open \in Items /\ open.node \in 1..pos /\ text[open.node].kind \in Containers
        /\ Len(open.key) = 1
ItemsShape ==
    /\ sp_items \in Seq(Items)
    /\ \A i \in DOMAIN sp_items : sp_items[i].node \in 1..pos
BasicInv == Visited /\ OpenShape /\ ItemsShape

(* The documentation of all items, with the node it is of.                 *)
Documented == {<<item.node, item.doc>> : item \in AllItems}
Adjacent(d) ==
    \/ d[2].text = <<>>
    \/ Len(d[2].text) = 1 /\ Row(d[2].text[1]) = Row(d[1])
    \/ \A i \in DOMAIN d[2].text :
          LET below == IF i = 1 THEN Row(d[1]) ELSE Row(d[2].text[i - 1])
          IN  below - text[d[2].text[i]].last = IF d[2].deprecated = 0 THEN 1 ELSE 2
OfItsRow(d) ==
    /\ text[d[1]].kind \in {"variable", "define", "entry"}
    /\ \A c \in ToSet(d[2].text) : Row(c) = Row(d[1])
DocsInv ==
    /\ \A d \in Documented :
          /\ d[1] \in 1..pos /\ ToSet(d[2].text) \subseteq 1..pos
          /\ Adjacent(d)
          /\ ToSet(d[2].text) \cap ToSet(comments) # {} => OfItsRow(d)
    /\ \A a, b \in Documented :
          a[1] < b[1] /\ ToSet(a[2].text) \cap ToSet(b[2].text) # {} => OfItsRow(a)

(* The deprecation of an item is of the row above it; but that of a member *)
(* of a typeset is the one of the typeset.                                 *)
DeprecatedAbove(item) ==
    item.doc.deprecated # 0 => Row(item.node) = text[item.doc.deprecated].last + 1
OfItsTypeset(member, item) ==
    /\ text[member.node].kind = "expression" /\ text[item.node].kind = "typeset"
    /\ member.doc.deprecated = item.doc.deprecated
DeprecatedInside(item) ==
    /\ DeprecatedAbove(item)
    /\ \A j \in DOMAIN item.children :
          DeprecatedAbove(item.children[j]) \/ OfItsTypeset(item.children[j], item)
DeprecationInv ==
    /\ \A i \in DOMAIN sp_items : DeprecatedInside(sp_items[i])
    /\ open # NoItem => /\ DeprecatedInside(open)
                        /\ open.doc.deprecated = Deprecation(Row(open.node))

(* Declarations.                                                           *)
\* A key names the node it is of.
KeyOf(key, i, counter) ==
    IF text[i].name # "" THEN Last(key) = text[i].name
    ELSE \E k \in 0..(counter - 1) : key = <<Label(k)>>
OpenUnnamed == open # NoItem /\ text[open.node].name = ""
Settled == IF OpenUnnamed THEN anon_enum_counter - 1 ELSE anon_enum_counter
Replaced(i, key) == /\ text[i].name # "" /\ Last(key) = text[i].name
                    /\ declarations[key].node > i
IsDeclared(i) == \E key \in DOMAIN declarations : declarations[key].node = i \/ Replaced(i, key)
DeclarationsInv ==
    /\ \A key \in DOMAIN declarations :
          /\ Len(key) \in {1, 2} /\ declarations[key].node \in 1..pos
          /\ text[declarations[key].node].kind \in Declared =>
                KeyOf(key, declarations[key].node, Settled)
          /\ text[declarations[key].node].kind \notin Declared => \A k \in 0..Len(text) : key # <<Label(k)>>
          /\ open # NoItem /\ Len(key) = 1 => declarations[key].node < open.node
    /\ open # NoItem => IF text[open.node].name # "" THEN open.key = <<text[open.node].name>>
                        ELSE anon_enum_counter > 0 /\ open.key = <<Label(anon_enum_counter - 1)>>
    /\ \A i \in 1..pos :
          text[i].kind \in Declared /\ (open # NoItem => i # open.node) => IsDeclared(i)

-----------------------------------------------------------------------------
(* Sequences.                                                              *)

\* What a sequence is.
LEMMA SeqIs ==
    ASSUME NEW S, NEW s \in Seq(S)
    PROVE  /\ Len(s) \in Nat /\ DOMAIN s = 1..Len(s)
           /\ \A i \in DOMAIN s : s[i] \in S
           /\ ToSet(s) \subseteq S
           /\ s # <<>> => Len(s) # 0 /\ 1 \in DOMAIN s
BY DEF ToSet

LEMMA SeqWidens ==
    ASSUME NEW S, NEW T, S \subseteq T, NEW s \in Seq(S)
    PROVE  s \in Seq(T)
<1>1. Len(s) \in Nat /\ s \in [1..Len(s) -> T]
  OBVIOUS
<1> QED BY <1>1

-----------------------------------------------------------------------------
(* The Walker: what it finds above a row, and on it.                       *)

\* A text is as the grammar gives it.
TextShape ==
    /\ Len(text) \in Nat /\ DOMAIN text = 1..Len(text)
    /\ \A i \in 1..Len(text) :
          text[i].row \in Nat /\ text[i].last \in Nat /\ text[i].row <= text[i].last
    /\ \A i \in 1..Len(text) : text[i].kind \in Kind /\ text[i].inside \in BOOLEAN
    /\ \A i \in 1..Len(text) : /\ text[i].name \in STRING /\ text[i].locals \in Seq(STRING)
                               /\ text[i].params \in Seq(STRING)
    /\ \A i, j \in 1..Len(text) : i < j => text[i].row <= text[j].row
    /\ \A i, j \in 1..Len(text) :
          i < j /\ text[i].kind \in {"comment", "pragma"} => text[i].last <= text[j].row

LEMMA TextIsShaped == Visited => TextShape
BY NodesAssumption DEF Visited, TextShape

\* A deprecation is one of the pragmas, on the row above.
LEMMA DeprecationIs ==
    ASSUME Visited, NEW row
    PROVE  /\ Deprecation(row) \in 0..pos
           /\ Deprecation(row) # 0 => /\ Deprecation(row) \in 1..pos
                                      /\ text[Deprecation(row)].last + 1 = row
<1> DEFINE above == {k \in DOMAIN deprecated : text[deprecated[k]].last < row}
           p == deprecated[Max(above)]
<1>1. Deprecation(row) = IF above # {} /\ text[p].last + 1 = row THEN p ELSE 0
  BY DEF Deprecation
<1>2. pos \in Nat
  BY TextIsShaped DEF Visited, TextShape
<1>3. ASSUME above # {} PROVE p \in 1..pos
  <2>1. /\ deprecated \in Seq(1..pos) /\ Len(deprecated) \in Nat
        /\ DOMAIN deprecated = 1..Len(deprecated)
        /\ \A k \in DOMAIN deprecated : deprecated[k] \in 1..pos
    BY DEF Visited
  <2>2. above \in SUBSET (0..Len(deprecated)) /\ above \subseteq DOMAIN deprecated
    BY <2>1
  <2> HIDE DEF above
  <2>3. Max(above) \in above
    BY <1>3, <2>1, <2>2, GreatestUpTo
  <2>4. Max(above) \in DOMAIN deprecated
    BY <2>2, <2>3
  <2>5. deprecated[Max(above)] \in 1..pos
    BY <2>1, <2>4
  <2> QED BY <2>5
<1> HIDE DEF above, p
<1> QED BY <1>1, <1>2, <1>3

\* A trailing comment is one of the comments, on the row.
LEMMA TrailingIs ==
    ASSUME Visited, NEW n \in Nat, NEW among \in Seq(1..n), NEW row
    PROVE  \/ FindTrailing(row, among).text = <<>>
           \/ \E c \in ToSet(among) : FindTrailing(row, among).text = <<c>> /\ text[c].row = row
<1> DEFINE on == {k \in DOMAIN among : text[among[k]].row = row}
           c == among[Max(on)]
<1>1. FindTrailing(row, among).text = IF on = {} THEN <<>> ELSE <<c>>
  BY DEF FindTrailing
<1>2. ASSUME on # {} PROVE c \in ToSet(among) /\ text[c].row = row
  <2>1. Len(among) \in Nat /\ DOMAIN among = 1..Len(among)
    OBVIOUS
  <2>2. on \in SUBSET (0..Len(among))
    BY <2>1
  <2>3. Max(on) \in on
    <3> HIDE DEF on
    <3> QED BY <1>2, <2>1, <2>2, GreatestUpTo
  <2> QED BY <2>3 DEF ToSet
<1> HIDE DEF on, c
<1> QED BY <1>1, <1>2

-----------------------------------------------------------------------------
(* The comments above a row: a fold over the comments from the last one.   *)
Chains == [row : Nat, doc : Seq(1..pos)]
Offset(row) == IF Deprecation(row) = 0 THEN 1 ELSE 2
NextInChain(chain, c, offset) ==
    IF chain.row = text[c].last + offset
    THEN [row |-> text[c].row, doc |-> Append(chain.doc, c)]
    ELSE [chain EXCEPT !.row = 0]
ChainStep(offset) == [p \in Chains \X (1..pos) |-> NextInChain(p[1], p[2], offset)]

LEMMA ChainStepType ==
    ASSUME Visited, NEW offset
    PROVE  ChainStep(offset) \in [Chains \X (1..pos) -> Chains]
<1> SUFFICES ASSUME NEW chain \in Chains, NEW c \in 1..pos
             PROVE  NextInChain(chain, c, offset) \in Chains
  BY DEF ChainStep
<1>1. text[c].row \in Nat
  BY TextIsShaped DEF TextShape, Visited
<1>2. Append(chain.doc, c) \in Seq(1..pos) /\ chain.doc \in Seq(1..pos)
  BY DEF Chains
<1>3. [chain EXCEPT !.row = 0] = [row |-> 0, doc |-> chain.doc]
  BY DEF Chains
<1> QED BY <1>1, <1>2, <1>3 DEF NextInChain, Chains

LEMMA AboveFold ==
    ASSUME Visited, NEW row \in Nat
    PROVE  \E v : /\ Above(row) = v.doc
                  /\ FoldsTo(Chains, [row |-> row, doc |-> <<>>], ChainStep(Offset(row)),
                             Reverse(comments), v)
<1> DEFINE s == Reverse(comments)
           D == SUBSET DOMAIN s
           base == [row |-> row, doc |-> <<>>]
           offset == Offset(row)
           E(it) == it = [q \in D |->
                            IF q = {} THEN base
                            ELSE IF it[q \ {Max(q)}].row = text[s[Max(q)]].last + offset
                                 THEN [row |-> text[s[Max(q)]].row,
                                       doc |-> Append(it[q \ {Max(q)}].doc, s[Max(q)])]
                                 ELSE [it[q \ {Max(q)}] EXCEPT !.row = 0]]
           fold == CHOOSE it : E(it)
<1>1. s \in Seq(1..pos) /\ base \in Chains
  BY DEF Visited, Reverse, Chains
<1>2. ChainStep(offset) \in [Chains \X (1..pos) -> Chains]
  BY ChainStepType
<1>3. PICK f \in [D -> Chains] : FoldsSets(Chains, base, ChainStep(offset), s, f)
  <2> HIDE DEF s, base, offset
  <2> QED BY <1>1, <1>2, FoldExists
<1>4. E(f)
  <2> HIDE DEF s, base, offset
  <2>1. \A q \in D : f[q] = IF q = {} THEN base
                            ELSE NextInChain(f[q \ {Max(q)}], s[Max(q)], offset)
    BY <1>1, <1>3, TakesApart DEF FoldsSets, ChainStep
  <2> QED BY <2>1 DEF NextInChain
<1>5. E(fold)
  <2> HIDE DEF E
  <2> QED BY <1>4
<1>6. FoldsSets(Chains, base, ChainStep(offset), s, fold)
  <2> HIDE DEF fold, s, base, offset
  <2>1. \A q \in D : fold[q] = IF q = {} THEN base
                               ELSE NextInChain(fold[q \ {Max(q)}], s[Max(q)], offset)
    BY <1>5 DEF NextInChain
  <2> QED BY <1>1, <2>1, TakesApart DEF FoldsSets, ChainStep
<1>7. Above(row) = fold[DOMAIN s].doc
  BY DEF Above, Offset, FoldLeft, MapThenFoldSet
<1>8. FoldsTo(Chains, base, ChainStep(offset), s, fold[DOMAIN s])
  <2> HIDE DEF fold, s, base, offset
  <2> QED BY <1>1, <1>2, <1>6, FoldOfSets
<1> QED BY <1>7, <1>8

\* Each comment ends right above the one before it in the documentation.
Chained(doc, row, offset) ==
    \A i \in DOMAIN doc :
        LET below == IF i = 1 THEN row ELSE Row(doc[i - 1]) IN below - text[doc[i]].last = offset
ChainIs(chain, row, offset) ==
    /\ chain \in Chains
    /\ ToSet(chain.doc) \subseteq ToSet(comments)
    /\ Chained(chain.doc, row, offset)
    /\ \/ chain.row = 0
       \/ chain.row = IF chain.doc = <<>> THEN row ELSE Row(chain.doc[Len(chain.doc)])

\* One more comment keeps a chain a chain.
LEMMA ChainGrows ==
    ASSUME Visited, NEW row \in Nat, NEW offset \in {1, 2}, NEW chain, NEW c \in 1..pos,
           ChainIs(chain, row, offset), c \in ToSet(comments)
    PROVE  ChainIs(NextInChain(chain, c, offset), row, offset)
<1> DEFINE doc == chain.doc
           more == Append(doc, c)
<1>1. /\ chain \in Chains /\ doc \in Seq(1..pos) /\ chain.row \in Nat
      /\ Len(doc) \in Nat /\ DOMAIN doc = 1..Len(doc)
  BY DEF ChainIs, Chains
<1>2. /\ pos \in Nat /\ text[c].row \in Nat /\ text[c].last \in Nat
      /\ \A i \in 1..pos : text[i].row \in Nat /\ text[i].last \in Nat
  BY TextIsShaped DEF TextShape, Visited
<1>3. CASE chain.row # text[c].last + offset
  <2>1. NextInChain(chain, c, offset) = [row |-> 0, doc |-> doc]
    BY <1>3 DEF NextInChain, ChainIs, Chains
  <2> QED BY <2>1 DEF ChainIs, Chains
<1>4. CASE chain.row = text[c].last + offset
  <2>1. NextInChain(chain, c, offset) = [row |-> text[c].row, doc |-> more]
    BY <1>4 DEF NextInChain
  <2>2. /\ more \in Seq(1..pos) /\ Len(more) = Len(doc) + 1 /\ DOMAIN more = 1..(Len(doc) + 1)
        /\ more[Len(doc) + 1] = c /\ \A i \in 1..Len(doc) : more[i] = doc[i]
        /\ more # <<>>
    BY <1>1
  <2> HIDE DEF more
  <2>3. ToSet(more) \subseteq ToSet(comments)
    <3>1. \A i \in 1..Len(doc) : doc[i] \in ToSet(comments)
      BY <1>1 DEF ChainIs, ToSet
    <3>2. \A i \in 1..(Len(doc) + 1) : i \in 1..Len(doc) \/ i = Len(doc) + 1
      BY <1>1
    <3>3. \A i \in 1..(Len(doc) + 1) : more[i] \in ToSet(comments)
      BY <2>2, <3>1, <3>2
    <3>4. \A x \in ToSet(more) : \E i \in 1..(Len(doc) + 1) : x = more[i]
      BY <2>2 DEF ToSet
    <3> QED BY <3>3, <3>4
  <2>4. chain.row = IF doc = <<>> THEN row ELSE Row(doc[Len(doc)])
    BY <1>2, <1>4 DEF ChainIs
  <2>5. Chained(more, row, offset)
    <3> SUFFICES ASSUME NEW i \in 1..(Len(doc) + 1)
                 PROVE  (IF i = 1 THEN row ELSE Row(more[i - 1])) - text[more[i]].last = offset
      BY <2>2 DEF Chained
    <3>1. CASE i <= Len(doc)
      <4>1. (IF i = 1 THEN row ELSE Row(doc[i - 1])) - text[doc[i]].last = offset
        BY <1>1, <3>1 DEF ChainIs, Chained
      <4>2. more[i] = doc[i] /\ (i # 1 => more[i - 1] = doc[i - 1])
        BY <1>1, <2>2, <3>1
      <4> QED BY <4>1, <4>2
    <3>2. CASE i = Len(doc) + 1
      <4>1. CASE doc = <<>>
        BY <1>2, <1>4, <2>2, <2>4, <3>2, <4>1
      <4>2. CASE doc # <<>>
        <5>1. /\ Len(doc) # 0 /\ i # 1 /\ i - 1 = Len(doc)
              /\ more[i - 1] = doc[Len(doc)] /\ more[i] = c
          BY <1>1, <2>2, <3>2, <4>2
        <5> QED BY <1>1, <1>2, <1>4, <2>4, <4>2, <5>1 DEF Row
      <4> QED BY <4>1, <4>2
    <3> QED BY <1>1, <3>1, <3>2
  <2>6. [row |-> text[c].row, doc |-> more] \in Chains
    BY <1>2, <2>2 DEF Chains
  <2> QED BY <1>1, <2>1, <2>2, <2>3, <2>5, <2>6 DEF ChainIs, Row
<1> QED BY <1>3, <1>4

AboveShape(doc, row) ==
    /\ doc \in Seq(1..pos)
    /\ ToSet(doc) \subseteq ToSet(comments)
    /\ Chained(doc, row, Offset(row))

\* The documentation above a row is a chain of comments that reaches it.
LEMMA AboveIs ==
    ASSUME Visited, NEW row \in Nat
    PROVE  AboveShape(Above(row), row)
<1> DEFINE s == Reverse(comments)
           base == [row |-> row, doc |-> <<>>]
           offset == Offset(row)
<1>1. PICK v : Above(row) = v.doc /\ FoldsTo(Chains, base, ChainStep(offset), s, v)
  BY AboveFold
<1>2. PICK a : FoldsSegments(Chains, base, ChainStep(offset), s, a) /\ v = a[Len(s)]
  BY <1>1 DEF FoldsTo
<1>3. /\ offset \in {1, 2} /\ s \in Seq(1..pos) /\ Len(s) \in Nat
      /\ \A i \in 1..Len(s) : s[i] \in 1..pos /\ s[i] \in ToSet(comments)
  BY DEF Visited, Reverse, Offset, ToSet
<1> HIDE DEF s, offset
<1>4. ChainIs(base, row, offset)
  <2>1. base \in Chains /\ base.doc = <<>> /\ base.row = row
    BY DEF Chains
  <2> QED BY <2>1 DEF ChainIs, ToSet, Chained
<1> DEFINE Good == {i \in 0..Len(s) : ChainIs(a[i], row, offset)}
<1>5. 0 \in Good
  BY <1>2, <1>3, <1>4 DEF FoldsSegments
<1>6. ASSUME NEW i \in 0..(Len(s) - 1), i \in Good PROVE i + 1 \in Good
  <2>1. i + 1 \in 1..Len(s) /\ (i + 1) - 1 = i /\ a[i] \in Chains
    BY <1>3, <1>6 DEF ChainIs
  <2>2. a[i + 1] = ChainStep(offset)[<<a[i], s[i + 1]>>]
    BY <1>2, <2>1 DEF FoldsSegments
  <2>3. a[i + 1] = NextInChain(a[i], s[i + 1], offset)
    BY <1>3, <2>1, <2>2 DEF ChainStep
  <2>4. ChainIs(a[i], row, offset) /\ s[i + 1] \in 1..pos /\ s[i + 1] \in ToSet(comments)
    BY <1>3, <1>6, <2>1
  <2> QED BY <1>3, <2>1, <2>3, <2>4, ChainGrows
<1>7. Len(s) \in Good
  <2>1. \A i \in 0..Len(s) : i \in Good
    <3> HIDE DEF Good
    <3> QED BY <1>3, <1>5, <1>6, BoundedInduction
  <2>2. Len(s) \in 0..Len(s)
    BY <1>3
  <2> QED BY <2>1, <2>2
<1>8. ChainIs(v, row, offset)
  BY <1>2, <1>7
<1> QED BY <1>1, <1>8 DEF AboveShape, ChainIs, Chains, offset

\* There is nothing above a row that no comment ends above.
LEMMA AboveNothing ==
    ASSUME Visited, NEW row \in Nat, \A c \in ToSet(comments) : text[c].last >= row
    PROVE  Above(row) = <<>>
<1> SUFFICES ASSUME NEW doc, AboveShape(doc, row), doc # <<>> PROVE FALSE
  BY AboveIs
<1>1. 1 \in DOMAIN doc /\ doc[1] \in 1..pos
  <2>1. doc \in Seq(1..pos)
    BY DEF AboveShape
  <2> QED BY <2>1, SeqIs
<1>2. doc[1] \in ToSet(comments) /\ row - text[doc[1]].last = Offset(row)
  BY <1>1 DEF AboveShape, Chained, ToSet
<1>3. text[doc[1]].last \in Nat /\ Offset(row) \in {1, 2}
  BY <1>1, TextIsShaped DEF TextShape, Visited, Offset
<1> QED BY <1>2, <1>3

-----------------------------------------------------------------------------
(* Documentation: what the Walker gives an item.                           *)

\* What an item gets, if `left` are the comments that are left: it is on the
\* item's row, or above it and used up.
NewDoc(d, left) ==
    /\ d[1] \in 1..(pos + 1)
    /\ d[2] \in Docs
    /\ ToSet(d[2].text) \subseteq ToSet(comments) \cup {pos + 1}
    /\ Adjacent(d)
    /\ \/ OfItsRow(d)
       \/ d[1] = pos + 1 /\ ToSet(d[2].text) \cap left = {}

LEMMA NoDocIsNew ==
    ASSUME Visited, NEW left
    PROVE  NewDoc(<<pos + 1, NoDoc>>, left)
<1>1. NoDoc \in Docs /\ NoDoc.text = <<>>
  BY DEF NoDoc, Docs
<1>2. ToSet(<<>>) = {}
  BY DEF ToSet
<1>3. pos \in Nat
  BY TextIsShaped DEF Visited, TextShape
<1> QED BY <1>1, <1>2, <1>3 DEF NewDoc, Adjacent

LEMMA FindDocIsNew ==
    ASSUME Visited, pos < Len(text)
    PROVE  /\ NewDoc(<<pos + 1, FindDoc(Row(pos + 1))>>, {})
           /\ FindDoc(Row(pos + 1)).deprecated = Deprecation(Row(pos + 1))
<1> DEFINE row == Row(pos + 1)
           doc == Above(row)
<1>1. pos \in Nat /\ pos + 1 \in 1..Len(text) /\ row \in Nat
  BY TextIsShaped DEF Visited, TextShape, Row
<1> HIDE DEF row
<1>2. FindDoc(row) = [text |-> doc, deprecated |-> Deprecation(row)]
  BY DEF FindDoc
<1>3. AboveShape(doc, row)
  BY <1>1, AboveIs
<1>4. Deprecation(row) \in Nat
  BY <1>1, DeprecationIs
<1> HIDE DEF doc
<1>5. FindDoc(row) \in Docs
  <2>1. doc \in Seq(1..pos) /\ 1..pos \subseteq Nat
    BY <1>1, <1>3 DEF AboveShape
  <2>2. doc \in Seq(Nat)
    BY <2>1, SeqWidens
  <2> QED BY <1>2, <1>4, <2>2 DEF Docs
<1>6. Adjacent(<<pos + 1, FindDoc(row)>>)
  <2>1. \A i \in DOMAIN doc :
           (IF i = 1 THEN row ELSE Row(doc[i - 1])) - text[doc[i]].last
              = IF Deprecation(row) = 0 THEN 1 ELSE 2
    BY <1>3 DEF AboveShape, Chained, Offset
  <2> QED BY <1>2, <2>1 DEF Adjacent, row
<1> QED BY <1>1, <1>2, <1>3, <1>5, <1>6 DEF NewDoc, AboveShape, row

LEMMA TrailingIsNew ==
    ASSUME Visited, NEW n \in 1..(pos + 1), pos < Len(text), NEW among \in Seq(1..(pos + 1)), NEW left,
           ToSet(among) \subseteq ToSet(comments) \cup {pos + 1},
           text[n].kind \in {"variable", "define", "entry"}
    PROVE  /\ NewDoc(<<n, FindTrailing(Row(n), among)>>, left)
           /\ FindTrailing(Row(n), among).deprecated = Deprecation(Row(n))
<1> DEFINE doc == FindTrailing(Row(n), among)
<1>1. pos \in Nat /\ pos + 1 \in Nat /\ pos + 1 \in 1..Len(text)
  BY TextIsShaped DEF Visited, TextShape
<1>2. doc.deprecated = Deprecation(Row(n)) /\ doc = [text |-> doc.text, deprecated |-> doc.deprecated]
  BY DEF FindTrailing
<1>3. \/ doc.text = <<>>
      \/ \E c \in ToSet(among) : doc.text = <<c>> /\ text[c].row = Row(n)
  BY <1>1, TrailingIs
<1>4. doc.deprecated \in Nat
  BY <1>1, <1>2, DeprecationIs
<1> HIDE DEF doc
<1>5. CASE doc.text = <<>>
  <2>1. ToSet(<<>>) = {}
    BY DEF ToSet
  <2>2. doc \in Docs
    <3>1. <<>> \in Seq(Nat)
      OBVIOUS
    <3>2. doc = [text |-> <<>>, deprecated |-> doc.deprecated]
      BY <1>2, <1>5
    <3>3. [text |-> <<>>, deprecated |-> doc.deprecated] \in Docs
      BY <1>4, <3>1 DEF Docs
    <3> QED BY <3>2, <3>3
  <2> QED BY <1>2, <1>5, <2>1, <2>2 DEF NewDoc, Adjacent, OfItsRow, doc
<1>6. ASSUME NEW c \in ToSet(among), doc.text = <<c>>, text[c].row = Row(n)
      PROVE  NewDoc(<<n, doc>>, left)
  <2>1. c \in 1..(pos + 1) /\ c \in Nat
    BY <1>1, SeqIs
  <2>2. ToSet(<<c>>) = {c} /\ Len(<<c>>) = 1 /\ <<c>>[1] = c
    BY DEF ToSet
  <2>3. <<c>> \in Seq(Nat)
    BY <2>1
  <2>4. doc \in Docs
    BY <1>2, <1>4, <1>6, <2>3 DEF Docs
  <2> QED BY <1>6, <2>2, <2>4 DEF NewDoc, Adjacent, OfItsRow, Row
<1> QED BY <1>2, <1>3, <1>5, <1>6 DEF doc

-----------------------------------------------------------------------------
(* Items, and the documentation they hold.                                 *)
Holds(item, d) ==
    \/ d = <<item.node, item.doc>>
    \/ \E j \in DOMAIN item.children : d = <<item.children[j].node, item.children[j].doc>>

\* The documented are what the items hold.
LEMMA DocumentedIs ==
    \A d : d \in Documented <=> \/ \E i \in DOMAIN sp_items : Holds(sp_items[i], d)
                                \/ open # NoItem /\ Holds(open, d)
<1> SUFFICES ASSUME NEW d
             PROVE  d \in Documented <=> \/ \E i \in DOMAIN sp_items : Holds(sp_items[i], d)
                                         \/ open # NoItem /\ Holds(open, d)
  OBVIOUS
<1>1. d \in Documented <=> \E item \in AllItems : d = <<item.node, item.doc>>
  BY DEF Documented
<1>2. \A item : item \in AllItems <=>
         \/ \E i \in DOMAIN sp_items : item = sp_items[i] \/ item \in ToSet(sp_items[i].children)
         \/ open # NoItem /\ (item = open \/ item \in ToSet(open.children))
  <2>1. \A item : item \in AllItems <=>
           \/ \E set \in ToSet(sp_items) : item = set \/ item \in ToSet(set.children)
           \/ open # NoItem /\ (item = open \/ item \in ToSet(open.children))
    BY DEF AllItems
  <2>2. \A set : set \in ToSet(sp_items) <=> \E i \in DOMAIN sp_items : set = sp_items[i]
    BY DEF ToSet
  <2> QED BY <2>1, <2>2
<1>3. \A set, item : item \in ToSet(set.children) <=> \E j \in DOMAIN set.children : item = set.children[j]
  BY DEF ToSet
<1>4. \A set : Holds(set, d) <=>
         \E item : (item = set \/ item \in ToSet(set.children)) /\ d = <<item.node, item.doc>>
  <2> TAKE set
  <2>1. ASSUME Holds(set, d)
        PROVE  \E item : (item = set \/ item \in ToSet(set.children)) /\ d = <<item.node, item.doc>>
    <3>1. CASE d = <<set.node, set.doc>>
      BY <3>1
    <3>2. ASSUME NEW j \in DOMAIN set.children,
                 d = <<set.children[j].node, set.children[j].doc>>
          PROVE  set.children[j] \in ToSet(set.children)
      BY <1>3
    <3> QED BY <2>1, <3>1, <3>2 DEF Holds
  <2>2. ASSUME NEW item, item = set \/ item \in ToSet(set.children), d = <<item.node, item.doc>>
        PROVE  Holds(set, d)
    <3>1. CASE item = set
      BY <2>2, <3>1 DEF Holds
    <3>2. CASE item \in ToSet(set.children)
      <4>1. PICK j \in DOMAIN set.children : item = set.children[j]
        BY <1>3, <3>2
      <4> QED BY <2>2, <4>1 DEF Holds
    <3> QED BY <2>2, <3>1, <3>2
  <2> QED BY <2>1, <2>2
<1> HIDE DEF Holds
<1> QED BY <1>1, <1>2, <1>4

LEMMA DocumentedNext ==
    \A d : d \in Documented' <=> \/ \E i \in DOMAIN sp_items' : Holds(sp_items'[i], d)
                                 \/ open' # NoItem /\ Holds(open', d)
<1>1. (\A d : d \in Documented <=> \/ \E i \in DOMAIN sp_items : Holds(sp_items[i], d)
                                   \/ open # NoItem /\ Holds(open, d))'
  BY DocumentedIs, PTL
<1> HIDE DEF Documented
<1> QED BY <1>1 DEF Holds

\* An item with one more child.
Grown(set, item, grown) ==
    /\ grown \in Items /\ grown.node = set.node /\ grown.key = set.key /\ grown.doc = set.doc
    /\ grown.children = Append(set.children, item)
    /\ \A j \in DOMAIN grown.children :
          grown.children[j] = item \/ (j \in DOMAIN set.children /\ grown.children[j] = set.children[j])

LEMMA GrownIs ==
    ASSUME NEW set \in Items, NEW item \in Member
    PROVE  Grown(set, item, [set EXCEPT !.children = Append(@, item)])
<1> DEFINE children == Append(set.children, item)
<1>0. set = [node |-> set.node, key |-> set.key, doc |-> set.doc, children |-> set.children]
  BY DEF Items
<1>1. /\ set.node \in Nat /\ set.key \in Key /\ set.doc \in Docs /\ set.children \in Seq(Member)
  BY DEF Items
<1>2. [set EXCEPT !.children = children]
        = [node |-> set.node, key |-> set.key, doc |-> set.doc, children |-> children]
  <2> HIDE DEF children
  <2> QED BY <1>0
<1>3. /\ children \in Seq(Member)
      /\ \A j \in DOMAIN children : children[j] = item
                                    \/ (j \in DOMAIN set.children /\ children[j] = set.children[j])
  <2>1. Len(set.children) \in Nat /\ DOMAIN set.children = 1..Len(set.children)
    BY <1>1
  <2>2. DOMAIN children = 1..(Len(set.children) + 1)
    BY <1>1
  <2> QED BY <1>1, <2>1, <2>2
<1> HIDE DEF children
<1>4. [node |-> set.node, key |-> set.key, doc |-> set.doc, children |-> children] \in Items
  BY <1>1, <1>3 DEF Items
<1> QED BY <1>2, <1>3, <1>4 DEF Grown, children

LEMMA LeavesAreMembers == Leaf \subseteq Member /\ Member \subseteq Items
<1>1. Leaf \subseteq Member
  <2>1. {<<>>} \subseteq Seq(Leaf)
    OBVIOUS
  <2> QED BY <2>1 DEF Leaf, Member
<1>2. Seq(Leaf) \subseteq Seq(Member)
  BY <1>1, SeqWidens
<1> QED BY <1>1, <1>2 DEF Member, Items

\* What a step adds to the documentation does not disturb the rest.
LEMMA DocsGrow ==
    ASSUME BasicInv, DocsInv, text' = text, pos' \in Nat, pos' >= pos,
           ToSet(comments') \subseteq ToSet(comments) \cup (IF pos' = pos THEN {} ELSE {pos + 1}),
           pos' = pos \/ pos' = pos + 1,
           \A d \in Documented' :
              d \in Documented \/ (pos' = pos + 1 /\ NewDoc(d, ToSet(comments')))
    PROVE  DocsInv'
<1>1. pos \in Nat /\ ToSet(comments) \subseteq 1..pos
  <2>1. comments \in Seq(1..pos)
    BY DEF BasicInv, Visited
  <2> QED BY <2>1, SeqIs, TextIsShaped DEF BasicInv, Visited, TextShape
<1>2. \A d : (Adjacent(d)' <=> Adjacent(d)) /\ (OfItsRow(d)' <=> OfItsRow(d))
  BY DEF Adjacent, OfItsRow, Row
<1>3. ASSUME NEW d \in Documented'
      PROVE  /\ d[1] \in 1..pos' /\ ToSet(d[2].text) \subseteq 1..pos'
             /\ Adjacent(d)
             /\ ToSet(d[2].text) \cap ToSet(comments') # {} => OfItsRow(d)
  <2>1. CASE d \in Documented
    BY <1>1, <2>1 DEF DocsInv
  <2>2. CASE pos' = pos + 1 /\ NewDoc(d, ToSet(comments'))
    BY <1>1, <2>2 DEF NewDoc
  <2> QED BY <1>3, <2>1, <2>2
<1>4. ASSUME NEW a \in Documented', NEW b \in Documented',
             a[1] < b[1], ToSet(a[2].text) \cap ToSet(b[2].text) # {}
      PROVE  OfItsRow(a)
  <2>1. CASE a \in Documented
    <3>1. ToSet(a[2].text) \subseteq 1..pos /\ (ToSet(a[2].text) \cap ToSet(comments) # {} => OfItsRow(a))
      BY <2>1 DEF DocsInv
    <3>2. CASE b \in Documented
      BY <1>4, <2>1, <3>2 DEF DocsInv
    <3>3. CASE pos' = pos + 1 /\ NewDoc(b, ToSet(comments'))
      <4>1. ToSet(b[2].text) \subseteq ToSet(comments) \cup {pos + 1} /\ pos + 1 \notin 1..pos
        BY <1>1, <3>3 DEF NewDoc
      <4> QED BY <1>4, <3>1, <4>1
    <3> QED BY <3>2, <3>3
  <2>2. CASE pos' = pos + 1 /\ NewDoc(a, ToSet(comments'))
    <3>1. a[1] # pos + 1
      BY <1>1, <1>3, <1>4, <2>2
    <3> QED BY <2>2, <3>1 DEF NewDoc
  <2> QED BY <2>1, <2>2
<1> HIDE DEF Documented
<1>5. DocsInv' = (/\ \A d \in Documented' :
                        /\ d[1] \in 1..pos' /\ ToSet(d[2].text) \subseteq 1..pos'
                        /\ Adjacent(d)'
                        /\ ToSet(d[2].text) \cap ToSet(comments') # {} => OfItsRow(d)'
                  /\ \A a, b \in Documented' :
                        a[1] < b[1] /\ ToSet(a[2].text) \cap ToSet(b[2].text) # {} => OfItsRow(a)')
  BY DEF DocsInv
<1> QED BY <1>2, <1>3, <1>4, <1>5

-----------------------------------------------------------------------------
(* Steps that make an item.                                                *)

\* A new item of the node that is visited.
Fits(item, left) ==
    /\ item \in Member /\ item.node = pos + 1
    /\ \A j \in DOMAIN item.children :
          item.children[j].node = pos + 1 /\ item.children[j].doc = NoDoc
    /\ NewDoc(<<pos + 1, item.doc>>, left)
    /\ \/ item.doc.deprecated \in {0, Deprecation(Row(pos + 1))}
       \/ /\ open # NoItem /\ text[open.node].kind = "typeset" /\ text[pos + 1].kind = "expression"
          /\ item.doc.deprecated = Deprecation(Row(open.node))
Moves ==
    /\ pos < Len(text) /\ text[pos + 1].inside = (open # NoItem)
    /\ pos' = pos + 1 /\ text' = text
Pushes(item) ==
    /\ Moves /\ Fits(item, ToSet(comments')) /\ PushItem(item)
    /\ comments' \in {<<>>, comments} /\ deprecated' = deprecated
    /\ anon_enum_counter' = anon_enum_counter
Opens(item) ==
    /\ Moves /\ Fits(item, {}) /\ open = NoItem /\ open' = item /\ sp_items' = sp_items
    /\ text[pos + 1].kind \in Containers /\ Len(item.key) = 1
    /\ item.doc.deprecated = Deprecation(Row(pos + 1))
    /\ comments' = <<>> /\ deprecated' = deprecated
    /\ anon_enum_counter' \in {anon_enum_counter, anon_enum_counter + 1}

\* The comments and the pragmas left after a node are nodes that were visited.
LEMMA VisitedOn ==
    ASSUME BasicInv, Moves,
           anon_enum_counter' \in {anon_enum_counter, anon_enum_counter + 1},
           \/ comments' = <<>> \/ comments' = comments
           \/ comments' = Append(comments, pos + 1) /\ text[pos + 1].kind = "comment",
           \/ deprecated' = deprecated
           \/ deprecated' = Append(deprecated, pos + 1) /\ text[pos + 1].kind = "pragma",
           \/ open' = NoItem \/ comments' = <<>>
           \/ open # NoItem /\ open'.node = open.node
    PROVE  Visited'
<1>1. /\ Len(text) \in Nat /\ pos \in Nat /\ pos + 1 \in 1..Len(text) /\ anon_enum_counter \in 0..pos
      /\ comments \in Seq(1..pos) /\ deprecated \in Seq(1..pos)
      /\ \A k \in DOMAIN comments : text[comments[k]].kind = "comment"
      /\ \A k \in DOMAIN deprecated : text[deprecated[k]].kind = "pragma"
  BY TextIsShaped DEF BasicInv, Visited, TextShape, Moves
<1>2. 1..pos \subseteq 1..(pos + 1) /\ pos + 1 \in 1..(pos + 1)
  BY <1>1
<1>3. comments \in Seq(1..(pos + 1)) /\ deprecated \in Seq(1..(pos + 1))
  BY <1>1, <1>2, SeqWidens
<1>4. /\ comments' \in Seq(1..(pos + 1))
      /\ \A k \in DOMAIN comments' : comments'[k] = pos + 1 \/ (k \in DOMAIN comments /\ comments'[k] = comments[k])
      /\ \A k \in DOMAIN comments' : text[comments'[k]].kind = "comment"
  <2>1. CASE comments' = <<>>
    BY <2>1
  <2>2. CASE comments' = comments
    BY <1>1, <1>3, <2>2
  <2>3. CASE comments' = Append(comments, pos + 1) /\ text[pos + 1].kind = "comment"
    <3>1. Append(comments, pos + 1) \in Seq(1..(pos + 1))
      BY <1>2, <1>3
    <3>2. \A k \in DOMAIN Append(comments, pos + 1) :
             \/ Append(comments, pos + 1)[k] = pos + 1
             \/ k \in DOMAIN comments /\ Append(comments, pos + 1)[k] = comments[k]
      BY <1>2, <1>3
    <3> QED BY <1>1, <2>3, <3>1, <3>2
  <2> QED BY <2>1, <2>2, <2>3
<1>5. /\ deprecated' \in Seq(1..(pos + 1))
      /\ \A k \in DOMAIN deprecated' : text[deprecated'[k]].kind = "pragma"
  <2>1. CASE deprecated' = deprecated
    BY <1>1, <1>3, <2>1
  <2>2. CASE deprecated' = Append(deprecated, pos + 1) /\ text[pos + 1].kind = "pragma"
    <3>1. Append(deprecated, pos + 1) \in Seq(1..(pos + 1))
      BY <1>2, <1>3
    <3>2. \A k \in DOMAIN Append(deprecated, pos + 1) :
             \/ Append(deprecated, pos + 1)[k] = pos + 1
             \/ k \in DOMAIN deprecated /\ Append(deprecated, pos + 1)[k] = deprecated[k]
      BY <1>2, <1>3
    <3> QED BY <1>1, <2>2, <3>1, <3>2
  <2> QED BY <2>1, <2>2
<1>6. open' # NoItem => \A k \in DOMAIN comments' : comments'[k] > open'.node
  <2>1. CASE open' = NoItem \/ comments' = <<>>
    BY <2>1
  <2>2. CASE open # NoItem /\ open'.node = open.node
    <3>1. open.node \in 1..pos /\ \A k \in DOMAIN comments : comments[k] > open.node
      BY <2>2 DEF BasicInv, Visited, OpenShape
    <3>2. pos + 1 > open.node
      BY <1>1, <3>1
    <3>3. \A k \in DOMAIN comments' : comments'[k] > open.node
      BY <1>4, <3>1, <3>2
    <3> QED BY <2>2, <3>3
  <2> QED BY <2>1, <2>2
<1>7. /\ text' = text /\ pos' = pos + 1 /\ text \in Texts
      /\ anon_enum_counter' \in 0..(pos + 1) /\ pos + 1 \in 0..Len(text)
  BY <1>1 DEF Moves, BasicInv, Visited
<1> QED BY <1>4, <1>5, <1>6, <1>7 DEF Visited

LEMMA SameText ==
    ASSUME text' = text
    PROVE  \A item : DeprecatedInside(item)' <=> DeprecatedInside(item)
BY DEF DeprecatedInside, DeprecatedAbove, OfItsTypeset, Row

LEMMA SameDeprecation ==
    ASSUME text' = text, deprecated' = deprecated
    PROVE  \A n : open'.node = n => Deprecation(Row(open.node))' = Deprecation(Row(n))
BY DEF Deprecation, Row

\* A pragma that is not above a row does not deprecate what is on it.
LEMMA PragmaBelow ==
    ASSUME BasicInv, pos < Len(text), text' = text, deprecated' = Append(deprecated, pos + 1),
           NEW row \in Nat, row <= Row(pos + 1)
    PROVE  Deprecation(row)' = Deprecation(row)
<1> DEFINE above == {k \in DOMAIN deprecated : text[deprecated[k]].last < row}
           later == {k \in DOMAIN deprecated' : text[deprecated'[k]].last < row}
<1>1. /\ Len(deprecated) \in Nat /\ DOMAIN deprecated = 1..Len(deprecated)
      /\ deprecated \in Seq(1..pos) /\ pos \in Nat /\ pos + 1 \in 1..Len(text)
  BY TextIsShaped DEF BasicInv, Visited, TextShape
<1>2. /\ DOMAIN deprecated' = 1..(Len(deprecated) + 1)
      /\ deprecated'[Len(deprecated) + 1] = pos + 1
      /\ \A k \in DOMAIN deprecated : deprecated'[k] = deprecated[k]
  BY <1>1
<1>3. text[pos + 1].last >= row
  BY <1>1, TextIsShaped DEF TextShape, BasicInv, Row
<1>4. later = above
  <2>1. text[pos + 1].last \in Nat
    BY <1>1, TextIsShaped DEF TextShape, BasicInv
  <2>2. ~(text[pos + 1].last < row)
    BY <1>3, <2>1
  <2>3. \A k : k \in DOMAIN deprecated' <=> k \in DOMAIN deprecated \/ k = Len(deprecated) + 1
    BY <1>1, <1>2
  <2> QED BY <1>2, <2>2, <2>3
<1>5. above # {} => deprecated'[Max(above)] = deprecated[Max(above)]
  <2>1. above \in SUBSET (0..Len(deprecated)) /\ above \subseteq DOMAIN deprecated
    BY <1>1
  <2> HIDE DEF above
  <2> QED BY <1>1, <1>2, <2>1, GreatestUpTo
<1>6. Deprecation(row) = IF above # {} /\ text[deprecated[Max(above)]].last + 1 = row
                         THEN deprecated[Max(above)] ELSE 0
  BY DEF Deprecation
<1>7. Deprecation(row)' = IF later # {} /\ text[deprecated'[Max(later)]].last + 1 = row
                          THEN deprecated'[Max(later)] ELSE 0
  BY DEF Deprecation
<1> HIDE DEF above, later
<1> QED BY <1>4, <1>5, <1>6, <1>7

\* Where an item that is pushed goes.
Outside(item) == open = NoItem /\ sp_items' = Append(sp_items, item) /\ open' = NoItem
Inside(item) == open # NoItem /\ sp_items' = sp_items /\ Grown(open, item, open')

LEMMA PushGoes ==
    ASSUME BasicInv, NEW item, Moves, item \in Member, PushItem(item)
    PROVE  Outside(item) \/ Inside(item)
<1>1. CASE open = NoItem
  <2>1. ~text[pos + 1].inside
    BY <1>1 DEF Moves
  <2> QED BY <1>1, <2>1 DEF PushItem, Node, Outside
<1>2. CASE open # NoItem
  <2>1. text[pos + 1].inside /\ open \in Items
    BY <1>2 DEF Moves, BasicInv, OpenShape
  <2>2. sp_items' = sp_items /\ open' = [open EXCEPT !.children = Append(@, item)]
    BY <2>1 DEF PushItem, Node
  <2>3. Grown(open, item, [open EXCEPT !.children = Append(@, item)])
    BY <2>1, GrownIs
  <2>4. Grown(open, item, open')
    BY <2>2, <2>3
  <2> QED BY <1>2, <2>2, <2>4 DEF Inside
<1> QED BY <1>1, <1>2

\* What is held after a push was held before, or is of the new item.
LEMMA PushHolds ==
    ASSUME BasicInv, NEW item, Moves, Fits(item, ToSet(comments')), Outside(item) \/ Inside(item),
           NEW d \in Documented'
    PROVE  d \in Documented \/ NewDoc(d, ToSet(comments'))
<1>1. (\E i \in DOMAIN sp_items' : Holds(sp_items'[i], d)) \/ (open' # NoItem /\ Holds(open', d))
  <2> HIDE DEF Documented, Holds
  <2> QED BY DocumentedNext
<1>2. ASSUME Holds(item, d) PROVE NewDoc(d, ToSet(comments'))
  <2>1. d = <<pos + 1, item.doc>> \/ d = <<pos + 1, NoDoc>>
    BY <1>2 DEF Holds, Fits
  <2> QED BY <2>1, NoDocIsNew DEF Fits, BasicInv
<1>3. CASE Outside(item)
  <2>1. sp_items \in Seq(Items)
    BY DEF BasicInv, ItemsShape
  <2>2. item \in Items
    BY LeavesAreMembers DEF Fits
  <2>3. \A i \in DOMAIN Append(sp_items, item) :
           Append(sp_items, item)[i] = item \/ (i \in DOMAIN sp_items /\ Append(sp_items, item)[i] = sp_items[i])
    BY <2>1, <2>2
  <2>4. Holds(item, d) \/ \E i \in DOMAIN sp_items : Holds(sp_items[i], d)
    BY <1>1, <1>3, <2>3 DEF Outside
  <2> QED BY <1>2, <2>4, DocumentedIs
<1>4. CASE Inside(item)
  <2>1. Holds(open', d) => Holds(open, d) \/ d = <<item.node, item.doc>>
    BY <1>4 DEF Inside, Grown, Holds
  <2>2. d = <<item.node, item.doc>> \/ d \in Documented
    BY <1>1, <1>4, <2>1, DocumentedIs DEF Inside
  <2> QED BY <2>2, <1>2 DEF Holds
<1> QED BY <1>3, <1>4

LEMMA PushKeepsBasics ==
    ASSUME BasicInv, NEW item, Pushes(item), Outside(item) \/ Inside(item)
    PROVE  BasicInv'
<1>1. pos \in Nat /\ pos' = pos + 1 /\ text' = text /\ item \in Member /\ item.node = pos + 1
  BY TextIsShaped DEF BasicInv, Visited, TextShape, Pushes, Moves, Fits
<1>2. sp_items \in Seq(Items) /\ \A i \in DOMAIN sp_items : sp_items[i].node \in 1..pos
  BY DEF BasicInv, ItemsShape
<1>3. CASE Outside(item)
  <2>1. Visited'
    BY <1>3, VisitedOn DEF Pushes, Outside
  <2>2. item \in Items
    BY <1>1, LeavesAreMembers
  <2>3. ItemsShape'
    <3>1. Append(sp_items, item) \in Seq(Items)
      BY <1>2, <2>2
    <3>2. \A i \in DOMAIN Append(sp_items, item) :
             \/ Append(sp_items, item)[i] = item
             \/ i \in DOMAIN sp_items /\ Append(sp_items, item)[i] = sp_items[i]
      BY <1>2, <2>2
    <3>3. \A i \in DOMAIN Append(sp_items, item) : Append(sp_items, item)[i].node \in 1..(pos + 1)
      BY <1>1, <1>2, <3>2
    <3> QED BY <1>1, <1>3, <3>1, <3>3 DEF ItemsShape, Outside
  <2>4. OpenShape'
    BY <1>3 DEF OpenShape, Outside
  <2> QED BY <2>1, <2>3, <2>4 DEF BasicInv
<1>4. CASE Inside(item)
  <2>1. /\ open' \in Items /\ open'.node = open.node /\ open'.key = open.key
        /\ open # NoItem /\ sp_items' = sp_items
    BY <1>4 DEF Inside, Grown
  <2>2. Visited'
    BY <2>1, VisitedOn DEF Pushes
  <2>3. ItemsShape'
    BY <1>1, <1>2, <2>1 DEF ItemsShape
  <2>4. OpenShape'
    BY <1>1, <2>1 DEF OpenShape, BasicInv
  <2> QED BY <2>2, <2>3, <2>4 DEF BasicInv
<1> QED BY <1>3, <1>4

LEMMA PushKeepsDocs ==
    ASSUME BasicInv, DocsInv, NEW item, Pushes(item), Outside(item) \/ Inside(item)
    PROVE  DocsInv'
<1>1. pos \in Nat /\ pos' = pos + 1 /\ text' = text /\ Moves /\ Fits(item, ToSet(comments'))
  BY TextIsShaped DEF BasicInv, Visited, TextShape, Pushes, Moves
<1>2. ToSet(comments') \subseteq ToSet(comments)
  BY DEF Pushes, ToSet
<1>3. \A d \in Documented' : d \in Documented \/ NewDoc(d, ToSet(comments'))
  BY <1>1, PushHolds
<1>4. pos' \in Nat /\ pos' >= pos /\ pos' # pos
  BY <1>1
<1> HIDE DEF Documented
<1> QED BY <1>1, <1>2, <1>3, <1>4, DocsGrow

LEMMA PushKeepsDeprecation ==
    ASSUME BasicInv, DeprecationInv, NEW item, Pushes(item), Outside(item) \/ Inside(item)
    PROVE  DeprecationInv'
<1>1. /\ pos \in Nat /\ pos + 1 \in Nat /\ text' = text /\ deprecated' = deprecated /\ item \in Member
      /\ Row(pos + 1) \in Nat /\ item.node = pos + 1
  BY TextIsShaped DEF BasicInv, Visited, TextShape, Pushes, Moves, Fits, Row
<1>2. \A x : DeprecatedInside(x)' <=> DeprecatedInside(x)
  BY <1>1, SameText
<1>3. \A n : open'.node = n => Deprecation(Row(open.node))' = Deprecation(Row(n))
  BY <1>1, SameDeprecation
<1>4. item.doc.deprecated = Deprecation(Row(pos + 1)) => DeprecatedAbove(item)
  BY <1>1, DeprecationIs DEF DeprecatedAbove, BasicInv
<1>5. item.doc.deprecated \in {0, Deprecation(Row(pos + 1))} => DeprecatedAbove(item)
  BY <1>4 DEF DeprecatedAbove
<1>6. CASE Outside(item)
  <2>1. DeprecatedInside(item)
    BY <1>5, <1>6 DEF DeprecatedInside, DeprecatedAbove, Fits, Pushes, NoDoc, Outside
  <2>2. sp_items \in Seq(Items) /\ item \in Items
    BY <1>1, LeavesAreMembers DEF BasicInv, ItemsShape
  <2>3. \A i \in DOMAIN Append(sp_items, item) :
           \/ Append(sp_items, item)[i] = item
           \/ i \in DOMAIN sp_items /\ Append(sp_items, item)[i] = sp_items[i]
    BY <2>2
  <2>4. \A i \in DOMAIN sp_items' : DeprecatedInside(sp_items'[i])
    BY <1>6, <2>1, <2>3 DEF Outside, DeprecationInv
  <2> HIDE DEF DeprecatedInside
  <2> QED BY <1>2, <1>6, <2>4 DEF Outside, DeprecationInv
<1>7. CASE Inside(item)
  <2>1. /\ open'.node = open.node /\ open'.doc = open.doc /\ open # NoItem /\ sp_items' = sp_items
        /\ \A j \in DOMAIN open'.children :
              \/ open'.children[j] = item
              \/ j \in DOMAIN open.children /\ open'.children[j] = open.children[j]
    BY <1>7 DEF Inside, Grown
  <2>2. DeprecatedInside(open) /\ open.doc.deprecated = Deprecation(Row(open.node))
    BY <2>1 DEF DeprecationInv
  <2>3. DeprecatedAbove(item) \/ OfItsTypeset(item, open)
    BY <1>1, <1>5, <2>2 DEF Pushes, Fits, OfItsTypeset
  <2>4. DeprecatedInside(open')
    BY <2>1, <2>2, <2>3 DEF DeprecatedInside, DeprecatedAbove, OfItsTypeset
  <2>5. open'.doc.deprecated = Deprecation(Row(open.node))'
    BY <1>3, <2>1, <2>2
  <2> HIDE DEF DeprecatedInside
  <2> QED BY <1>2, <2>1, <2>4, <2>5 DEF DeprecationInv
<1> QED BY <1>6, <1>7

-----------------------------------------------------------------------------
(* A container is opened.                                                  *)
LEMMA OpenKeepsBasics ==
    ASSUME BasicInv, NEW item, Opens(item)
    PROVE  BasicInv'
<1>1. /\ pos \in Nat /\ pos' = pos + 1 /\ text' = text /\ item \in Items /\ item.node = pos + 1
      /\ sp_items' = sp_items /\ open' = item
      /\ text[pos + 1].kind \in Containers /\ Len(item.key) = 1
  BY TextIsShaped, LeavesAreMembers DEF BasicInv, Visited, TextShape, Opens, Moves, Fits
<1>2. Visited'
  BY VisitedOn DEF Opens
<1>3. ItemsShape'
  BY <1>1 DEF ItemsShape, BasicInv
<1>4. OpenShape'
  BY <1>1 DEF OpenShape
<1> QED BY <1>2, <1>3, <1>4 DEF BasicInv

LEMMA OpenKeepsDocs ==
    ASSUME BasicInv, DocsInv, NEW item, Opens(item)
    PROVE  DocsInv'
<1>1. /\ pos \in Nat /\ pos' = pos + 1 /\ text' = text /\ sp_items' = sp_items /\ open' = item
      /\ Fits(item, {}) /\ open = NoItem
  BY TextIsShaped DEF BasicInv, Visited, TextShape, Opens, Moves
<1>2. ToSet(comments') = {}
  BY DEF Opens, ToSet
<1>3. ASSUME NEW d \in Documented' PROVE d \in Documented \/ NewDoc(d, ToSet(comments'))
  <2>1. ASSUME Holds(item, d) PROVE NewDoc(d, {})
    <3>1. d = <<pos + 1, item.doc>> \/ d = <<pos + 1, NoDoc>>
      BY <1>1, <2>1 DEF Holds, Fits
    <3> QED BY <1>1, <3>1, NoDocIsNew DEF Fits, BasicInv
  <2>2. Holds(item, d) \/ \E i \in DOMAIN sp_items : Holds(sp_items[i], d)
    <3> HIDE DEF Documented, Holds
    <3> QED BY <1>1, <1>3, DocumentedNext
  <2> QED BY <1>2, <2>1, <2>2, DocumentedIs
<1>4. pos' \in Nat /\ pos' >= pos /\ pos' # pos
  BY <1>1
<1> HIDE DEF Documented
<1> QED BY <1>1, <1>2, <1>3, <1>4, DocsGrow

LEMMA OpenKeepsDeprecation ==
    ASSUME BasicInv, DeprecationInv, NEW item, Opens(item)
    PROVE  DeprecationInv'
<1>1. /\ pos \in Nat /\ pos + 1 \in Nat /\ text' = text /\ deprecated' = deprecated
      /\ Row(pos + 1) \in Nat /\ item.node = pos + 1 /\ sp_items' = sp_items /\ open' = item
      /\ item.doc.deprecated = Deprecation(Row(pos + 1))
      /\ \A j \in DOMAIN item.children : item.children[j].doc = NoDoc
  BY TextIsShaped DEF BasicInv, Visited, TextShape, Opens, Moves, Fits, Row
<1>2. \A x : DeprecatedInside(x)' <=> DeprecatedInside(x)
  BY <1>1, SameText
<1>3. Deprecation(Row(open.node))' = Deprecation(Row(pos + 1))
  BY <1>1, SameDeprecation
<1>4. DeprecatedAbove(item)
  BY <1>1, DeprecationIs DEF DeprecatedAbove, BasicInv
<1>5. DeprecatedInside(item)
  BY <1>1, <1>4 DEF DeprecatedInside, DeprecatedAbove, NoDoc
<1> HIDE DEF DeprecatedInside
<1> QED BY <1>1, <1>2, <1>3, <1>5 DEF DeprecationInv

-----------------------------------------------------------------------------
(* A container is closed.                                                  *)
LEMMA CloseKeeps ==
    ASSUME BasicInv, DocsInv, DeprecationInv, CloseContainer
    PROVE  BasicInv' /\ DocsInv' /\ DeprecationInv'
<1>1. /\ open # NoItem /\ open \in Items /\ open.node \in 1..pos /\ open' = NoItem
      /\ sp_items' = Append(sp_items, open) /\ sp_items \in Seq(Items)
      /\ text' = text /\ pos' = pos /\ comments' = comments /\ deprecated' = deprecated
      /\ anon_enum_counter' = anon_enum_counter /\ pos \in Nat
  BY TextIsShaped DEF CloseContainer, BasicInv, OpenShape, ItemsShape, Visited, TextShape
<1>2. /\ Append(sp_items, open) \in Seq(Items)
      /\ \A i \in DOMAIN Append(sp_items, open) :
            \/ Append(sp_items, open)[i] = open
            \/ i \in DOMAIN sp_items /\ Append(sp_items, open)[i] = sp_items[i]
  BY <1>1
<1>3. BasicInv'
  <2>1. Visited'
    BY <1>1 DEF BasicInv, Visited
  <2>2. ItemsShape'
    BY <1>1, <1>2 DEF BasicInv, ItemsShape
  <2> QED BY <1>1, <2>1, <2>2 DEF BasicInv, OpenShape
<1>4. DocsInv'
  <2>1. \A d \in Documented' : d \in Documented
    <3> HIDE DEF Documented, Holds
    <3> QED BY <1>1, <1>2, DocumentedNext, DocumentedIs
  <2>2. ToSet(comments') = ToSet(comments)
    BY <1>1
  <2> HIDE DEF Documented
  <2> QED BY <1>1, <2>1, <2>2, DocsGrow
<1>5. DeprecationInv'
  <2>1. \A x : DeprecatedInside(x)' <=> DeprecatedInside(x)
    BY <1>1, SameText
  <2> HIDE DEF DeprecatedInside
  <2>2. \A i \in DOMAIN sp_items' : DeprecatedInside(sp_items'[i])
    BY <1>1, <1>2 DEF DeprecationInv
  <2> QED BY <1>1, <2>1, <2>2 DEF DeprecationInv
<1> QED BY <1>3, <1>4, <1>5

-----------------------------------------------------------------------------
(* A pragma.                                                               *)
LEMMA PragmaKeeps ==
    ASSUME BasicInv, DocsInv, DeprecationInv, PushDeprecated
    PROVE  BasicInv' /\ DocsInv' /\ DeprecationInv'
<1>1. /\ Moves /\ text' = text /\ pos' = pos + 1 /\ pos \in Nat /\ text[pos + 1].kind = "pragma"
      /\ comments' = comments /\ deprecated' = Append(deprecated, pos + 1)
      /\ anon_enum_counter' = anon_enum_counter /\ open' = open /\ sp_items' = sp_items
      /\ pos + 1 \in 1..Len(text)
  BY TextIsShaped DEF PushDeprecated, At, Moves, BasicInv, Visited, TextShape
<1>2. BasicInv'
  <2>1. Visited'
    BY <1>1, VisitedOn
  <2>2. ItemsShape' /\ OpenShape'
    BY <1>1 DEF BasicInv, ItemsShape, OpenShape
  <2> QED BY <2>1, <2>2 DEF BasicInv
<1>3. DocsInv'
  <2>1. \A d \in Documented' : d \in Documented
    <3> HIDE DEF Documented, Holds
    <3> QED BY <1>1, DocumentedNext, DocumentedIs
  <2>2. ToSet(comments') = ToSet(comments) /\ pos' \in Nat /\ pos' >= pos /\ pos' # pos
    BY <1>1
  <2> HIDE DEF Documented
  <2> QED BY <1>1, <2>1, <2>2, DocsGrow
<1>4. DeprecationInv'
  <2>1. \A x : DeprecatedInside(x)' <=> DeprecatedInside(x)
    BY <1>1, SameText
  <2>2. ASSUME open # NoItem
        PROVE  Deprecation(Row(open.node))' = Deprecation(Row(open.node))
    <3>1. open.node \in 1..pos /\ open.node < pos + 1
      BY <1>1, <2>2 DEF BasicInv, OpenShape
    <3>2. Row(open.node) \in Nat /\ Row(open.node) <= Row(pos + 1)
      BY <1>1, <3>1, TextIsShaped DEF BasicInv, TextShape, Row
    <3>3. \A row \in Nat : row <= Row(pos + 1) => Deprecation(row)' = Deprecation(row)
      BY <1>1, PragmaBelow DEF Moves
    <3> QED BY <1>1, <3>2, <3>3 DEF Row
  <2> HIDE DEF DeprecatedInside
  <2> QED BY <1>1, <2>1, <2>2 DEF DeprecationInv
<1> QED BY <1>2, <1>3, <1>4

-----------------------------------------------------------------------------
(* Variables.                                                              *)
LEMMA NamesAre ==
    ASSUME BasicInv, pos < Len(text)
    PROVE  /\ text[pos + 1].name \in STRING /\ text[pos + 1].inside \in BOOLEAN
           /\ text[pos + 1].locals \in Seq(STRING) /\ text[pos + 1].params \in Seq(STRING)
           /\ pos \in Nat /\ pos + 1 \in 1..Len(text)
<1>1. pos \in Nat /\ pos + 1 \in 1..Len(text)
  BY TextIsShaped DEF BasicInv, Visited, TextShape
<1> QED BY <1>1, TextIsShaped DEF BasicInv, TextShape

LEMMA ChildIs ==
    ASSUME NEW n \in Nat, NEW key \in Key
    PROVE  Child(n, key) \in Leaf /\ Child(n, key).node = n /\ Child(n, key).doc = NoDoc
<1>1. NoDoc \in Docs
  BY DEF NoDoc, Docs
<1> QED BY <1>1 DEF Child, Item, Leaf

LEMMA NewVariables ==
    ASSUME NEW n \in Nat, NEW names \in Seq(STRING), NEW new,
           new = [i \in DOMAIN names |-> Child(n, <<names[i]>>)]
    PROVE  /\ new \in Seq(Items)
           /\ \A i \in DOMAIN new : new[i].node = n /\ new[i].doc = NoDoc /\ new[i].children = <<>>
<1>1. Len(names) \in Nat /\ DOMAIN names = 1..Len(names) /\ \A i \in DOMAIN names : names[i] \in STRING
  OBVIOUS
<1>2. \A i \in DOMAIN names : <<names[i]>> \in Key
  BY <1>1 DEF Key
<1>3. \A i \in DOMAIN names : /\ Child(n, <<names[i]>>) \in Items
                              /\ Child(n, <<names[i]>>).node = n
                              /\ Child(n, <<names[i]>>).doc = NoDoc
                              /\ Child(n, <<names[i]>>).children = <<>>
  BY <1>2, ChildIs, LeavesAreMembers DEF Child, Item
<1>4. new \in [1..Len(names) -> Items]
  BY <1>1, <1>3
<1> QED BY <1>1, <1>3, <1>4

LEMMA JoinedIs ==
    ASSUME NEW S, NEW s \in Seq(S), NEW t \in Seq(S)
    PROVE  /\ s \o t \in Seq(S)
           /\ \A i \in DOMAIN (s \o t) : \/ i \in DOMAIN s /\ (s \o t)[i] = s[i]
                                         \/ \E j \in DOMAIN t : (s \o t)[i] = t[j]
<1>1. /\ Len(s) \in Nat /\ Len(t) \in Nat /\ DOMAIN s = 1..Len(s) /\ DOMAIN t = 1..Len(t)
      /\ s \o t \in Seq(S) /\ Len(s \o t) = Len(s) + Len(t)
      /\ DOMAIN (s \o t) = 1..(Len(s) + Len(t))
  OBVIOUS
<1>2. ASSUME NEW i \in 1..(Len(s) + Len(t))
      PROVE  \/ i \in DOMAIN s /\ (s \o t)[i] = s[i]
             \/ \E j \in DOMAIN t : (s \o t)[i] = t[j]
  <2>1. CASE i <= Len(s)
    BY <1>1, <2>1
  <2>2. CASE i > Len(s)
    <3>1. i - Len(s) \in DOMAIN t /\ (s \o t)[i] = t[i - Len(s)]
      BY <1>1, <2>2
    <3> QED BY <3>1
  <2> QED BY <1>1, <2>1, <2>2
<1> QED BY <1>1, <1>2

LEMMA VariableKeeps ==
    ASSUME BasicInv, DocsInv, DeprecationInv, ParseVariable
    PROVE  BasicInv' /\ DocsInv' /\ DeprecationInv'
<1> DEFINE new == [i \in DOMAIN Node.locals |-> Child(pos + 1, <<Node.locals[i]>>)]
<1>1. /\ Moves /\ text' = text /\ pos' = pos + 1 /\ pos \in Nat /\ open = NoItem
      /\ sp_items' = sp_items \o new
      /\ comments' = comments /\ deprecated' = deprecated
      /\ anon_enum_counter' = anon_enum_counter /\ open' = open
      /\ pos + 1 \in 1..Len(text)
  BY TextIsShaped DEF ParseVariable, At, Moves, BasicInv, Visited, TextShape
<1>2. /\ new \in Seq(Items)
      /\ \A i \in DOMAIN new : new[i].node = pos + 1 /\ new[i].doc = NoDoc /\ new[i].children = <<>>
  BY <1>1, NamesAre, NewVariables DEF Node, Moves
<1> HIDE DEF new
<1>3. /\ sp_items \in Seq(Items) /\ sp_items' \in Seq(Items)
      /\ \A i \in DOMAIN sp_items' : \/ i \in DOMAIN sp_items /\ sp_items'[i] = sp_items[i]
                                     \/ \E j \in DOMAIN new : sp_items'[i] = new[j]
  BY <1>1, <1>2, JoinedIs DEF BasicInv, ItemsShape
<1>4. BasicInv'
  <2>1. Visited'
    BY <1>1, VisitedOn
  <2>2. ItemsShape'
    BY <1>1, <1>2, <1>3 DEF BasicInv, ItemsShape
  <2> QED BY <1>1, <2>1, <2>2 DEF BasicInv, OpenShape
<1>5. DocsInv'
  <2>1. ASSUME NEW d \in Documented' PROVE d \in Documented \/ NewDoc(d, ToSet(comments'))
    <3>1. PICK i \in DOMAIN sp_items' : Holds(sp_items'[i], d)
      <4> HIDE DEF Documented, Holds
      <4> QED BY <1>1, <2>1, DocumentedNext
    <3>2. CASE i \in DOMAIN sp_items /\ sp_items'[i] = sp_items[i]
      BY <3>1, <3>2, DocumentedIs
    <3>3. ASSUME NEW j \in DOMAIN new, sp_items'[i] = new[j]
          PROVE  d = <<pos + 1, NoDoc>>
      BY <1>2, <3>1, <3>3 DEF Holds
    <3> QED BY <1>3, <3>2, <3>3, NoDocIsNew DEF BasicInv
  <2>2. ToSet(comments') = ToSet(comments) /\ pos' \in Nat /\ pos' >= pos /\ pos' # pos
    BY <1>1
  <2> HIDE DEF Documented
  <2> QED BY <1>1, <2>1, <2>2, DocsGrow
<1>6. DeprecationInv'
  <2>1. \A x : DeprecatedInside(x)' <=> DeprecatedInside(x)
    BY <1>1, SameText
  <2>2. \A j \in DOMAIN new : DeprecatedInside(new[j])
    BY <1>2 DEF DeprecatedInside, DeprecatedAbove, NoDoc
  <2> HIDE DEF DeprecatedInside
  <2>3. \A i \in DOMAIN sp_items' : DeprecatedInside(sp_items'[i])
    BY <1>3, <2>2 DEF DeprecationInv
  <2> QED BY <1>1, <2>1, <2>3 DEF DeprecationInv
<1> QED BY <1>4, <1>5, <1>6

-----------------------------------------------------------------------------
(* Comments.                                                               *)

\* A comment changes the documentation of the last item at most.
Inlined(items, among, new) ==
    \/ new = items
    \/ /\ items # <<>> /\ DOMAIN new = DOMAIN items
       /\ text[Last(items).node].kind \in {"variable", "define", "entry"}
       /\ \A i \in DOMAIN items :
             \/ new[i] = items[i]
             \/ /\ items[i] = Last(items) /\ new[i] \in Items
                /\ new[i].node = items[i].node /\ new[i].key = items[i].key
                /\ new[i].children = items[i].children
                /\ new[i].doc = FindTrailing(Row(items[i].node), among)

LEMMA NewDocOf ==
    ASSUME NEW item \in Items, NEW doc \in Docs
    PROVE  /\ [item EXCEPT !.doc = doc] \in Items
           /\ item \in Member => [item EXCEPT !.doc = doc] \in Member
           /\ [item EXCEPT !.doc = doc].node = item.node
           /\ [item EXCEPT !.doc = doc].key = item.key
           /\ [item EXCEPT !.doc = doc].children = item.children
           /\ [item EXCEPT !.doc = doc].doc = doc
<1>1. item = [node |-> item.node, key |-> item.key, doc |-> item.doc, children |-> item.children]
  BY DEF Items
<1>2. item.node \in Nat /\ item.key \in Key /\ item.children \in Seq(Member)
  BY DEF Items
<1>3. item \in Member => item.children \in Seq(Leaf)
  BY DEF Member
<1>4. [item EXCEPT !.doc = doc]
        = [node |-> item.node, key |-> item.key, doc |-> doc, children |-> item.children]
  BY <1>1
<1> QED BY <1>2, <1>3, <1>4 DEF Items, Member

LEMMA InlineIs ==
    ASSUME NEW S \in {Items, Member}, NEW items \in Seq(S), NEW among,
           \A i \in DOMAIN items :
              text[items[i].node].kind \in {"variable", "define", "entry"} =>
                  FindTrailing(Row(items[i].node), among) \in Docs
    PROVE  /\ Inline(items, among) \in Seq(S)
           /\ Inlined(items, among, Inline(items, among))
<1> DEFINE n == Len(items)
           doc == FindTrailing(text[Last(items).node].row, among)
           changed == [Last(items) EXCEPT !.doc = doc]
<1>1. CASE items = <<>> \/ text[Last(items).node].kind \notin {"variable", "define", "entry"}
  BY <1>1 DEF Inline, Inlined
<1>2. CASE ~(items = <<>> \/ text[Last(items).node].kind \notin {"variable", "define", "entry"})
  <2>1. n \in Nat /\ n \in DOMAIN items /\ DOMAIN items = 1..n /\ Last(items) = items[n]
    BY <1>2 DEF Last
  <2>2. Last(items) \in S /\ Last(items) \in Items
    BY <2>1, LeavesAreMembers
  <2>3. doc \in Docs
    BY <1>2, <2>1 DEF Row
  <2>4. /\ changed \in Items /\ (Last(items) \in Member => changed \in Member)
        /\ changed.node = Last(items).node /\ changed.key = Last(items).key
        /\ changed.children = Last(items).children /\ changed.doc = doc
    <3> HIDE DEF doc
    <3> QED BY <2>2, <2>3, NewDocOf
  <2>5. Inline(items, among) = [items EXCEPT ![n] = changed]
    BY <1>2, <2>1 DEF Inline
  <2>6. changed \in S
    BY <2>2, <2>4
  <2> HIDE DEF changed
  <2>7. [items EXCEPT ![n] = changed] \in Seq(S)
    BY <2>1, <2>6
  <2>8. /\ DOMAIN [items EXCEPT ![n] = changed] = DOMAIN items
        /\ \A i \in DOMAIN items : \/ [items EXCEPT ![n] = changed][i] = items[i]
                                   \/ i = n /\ [items EXCEPT ![n] = changed][i] = changed
    BY <2>1
  <2>9. Inlined(items, among, [items EXCEPT ![n] = changed])
    BY <1>2, <2>1, <2>4, <2>8 DEF Inlined, Row
  <2> QED BY <2>5, <2>7, <2>9
<1> QED BY <1>1, <1>2

\* The last item of a document, or of the container, has what is on its row.
LEMMA CommentGoes ==
    ASSUME BasicInv, DocsInv, Comment
    PROVE  \/ open' = open /\ sp_items' = sp_items
           \/ /\ open = NoItem /\ open' = open
              /\ sp_items' \in Seq(Items) /\ Inlined(sp_items, comments', sp_items')
           \/ /\ open # NoItem /\ sp_items' = sp_items /\ open' \in Items
              /\ open'.node = open.node /\ open'.key = open.key /\ open'.doc = open.doc
              /\ Inlined(open.children, comments', open'.children)
<1>1. /\ Moves /\ pos \in Nat /\ pos + 1 \in 1..Len(text) /\ comments' = Append(comments, pos + 1)
      /\ comments \in Seq(1..pos)
  BY TextIsShaped DEF Comment, At, Moves, BasicInv, Visited, TextShape
<1>2. comments' \in Seq(1..(pos + 1)) /\ ToSet(comments') \subseteq ToSet(comments) \cup {pos + 1}
  <2>1. 1..pos \subseteq 1..(pos + 1) /\ pos + 1 \in 1..(pos + 1)
    BY <1>1
  <2>2. comments \in Seq(1..(pos + 1))
    BY <1>1, <2>1, SeqWidens
  <2>3. \A k \in DOMAIN Append(comments, pos + 1) :
           \/ Append(comments, pos + 1)[k] = pos + 1
           \/ k \in DOMAIN comments /\ Append(comments, pos + 1)[k] = comments[k]
    BY <2>1, <2>2
  <2>4. ToSet(Append(comments, pos + 1)) \subseteq ToSet(comments) \cup {pos + 1}
    BY <2>3 DEF ToSet
  <2> QED BY <1>1, <2>1, <2>2, <2>4
<1>3. ASSUME NEW n \in 1..pos, text[n].kind \in {"variable", "define", "entry"}
      PROVE  FindTrailing(Row(n), comments') \in Docs
  <2>1. n \in 1..(pos + 1)
    BY <1>1
  <2>2. NewDoc(<<n, FindTrailing(Row(n), comments')>>, {})
    BY <1>1, <1>2, <1>3, <2>1, TrailingIsNew DEF BasicInv, Moves
  <2> QED BY <2>2 DEF NewDoc
<1>4. CASE open = NoItem
  <2>1. ~Node.inside
    BY <1>1, <1>4 DEF Moves, Node
  <2>2. sp_items' = Inline(sp_items, comments') /\ open' = open
    BY <2>1 DEF Comment
  <2>3. sp_items \in Seq(Items) /\ \A i \in DOMAIN sp_items : sp_items[i].node \in 1..pos
    BY DEF BasicInv, ItemsShape
  <2>4. /\ Inline(sp_items, comments') \in Seq(Items)
        /\ Inlined(sp_items, comments', Inline(sp_items, comments'))
    <3>1. \A among : (among = comments') =>
              (/\ Inline(sp_items, among) \in Seq(Items)
               /\ Inlined(sp_items, among, Inline(sp_items, among)))
      BY <1>3, <2>3, InlineIs
    <3> QED BY <3>1
  <2> QED BY <1>4, <2>2, <2>4
<1>5. CASE open # NoItem /\ text[open.node].kind = "enum"
  <2>1. Node.inside
    BY <1>1, <1>5 DEF Moves, Node
  <2>2. open' = [open EXCEPT !.children = Inline(@, comments')] /\ sp_items' = sp_items
    BY <1>5, <2>1 DEF Comment
  <2>3. /\ open \in Items /\ open.children \in Seq(Member)
        /\ open = [node |-> open.node, key |-> open.key, doc |-> open.doc, children |-> open.children]
    BY <1>5 DEF BasicInv, OpenShape, Items
  <2>4. \A i \in DOMAIN open.children : open.children[i].node \in 1..pos
    <3> TAKE i \in DOMAIN open.children
    <3> DEFINE d == <<open.children[i].node, open.children[i].doc>>
    <3>1. d \in Documented
      <4>1. Holds(open, d)
        BY DEF Holds
      <4> QED BY <1>5, <4>1, DocumentedIs
    <3> QED BY <3>1 DEF DocsInv
  <2>5. /\ Inline(open.children, comments') \in Seq(Member)
        /\ Inlined(open.children, comments', Inline(open.children, comments'))
    <3>1. \A among : (among = comments') =>
              (/\ Inline(open.children, among) \in Seq(Member)
               /\ Inlined(open.children, among, Inline(open.children, among)))
      BY <1>3, <2>3, <2>4, InlineIs
    <3> QED BY <3>1
  <2> DEFINE children == Inline(open.children, comments')
  <2>6. open' = [node |-> open.node, key |-> open.key, doc |-> open.doc, children |-> children]
    <3>1. open' = [open EXCEPT !.children = children]
      BY <2>2
    <3> HIDE DEF children
    <3> QED BY <2>3, <3>1
  <2> HIDE DEF children
  <2>7. open' \in Items
    BY <2>3, <2>5, <2>6 DEF Items, children
  <2> QED BY <1>5, <2>2, <2>5, <2>6, <2>7 DEF children
<1>6. CASE open # NoItem /\ text[open.node].kind # "enum"
  <2>1. Node.inside
    BY <1>1, <1>6 DEF Moves, Node
  <2> QED BY <1>6, <2>1 DEF Comment
<1> QED BY <1>4, <1>5, <1>6

LEMMA CommentKeeps ==
    ASSUME BasicInv, DocsInv, DeprecationInv, Comment
    PROVE  BasicInv' /\ DocsInv' /\ DeprecationInv'
<1>1. /\ Moves /\ text' = text /\ pos' = pos + 1 /\ pos \in Nat /\ pos + 1 \in 1..Len(text)
      /\ text[pos + 1].kind = "comment"
      /\ comments' = Append(comments, pos + 1) /\ deprecated' = deprecated
      /\ anon_enum_counter' = anon_enum_counter /\ comments \in Seq(1..pos)
  BY TextIsShaped DEF Comment, At, Moves, BasicInv, Visited, TextShape
<1>2. comments' \in Seq(1..(pos + 1)) /\ ToSet(comments') \subseteq ToSet(comments) \cup {pos + 1}
  <2>1. 1..pos \subseteq 1..(pos + 1) /\ pos + 1 \in 1..(pos + 1)
    BY <1>1
  <2>2. comments \in Seq(1..(pos + 1))
    BY <1>1, <2>1, SeqWidens
  <2>3. \A k \in DOMAIN Append(comments, pos + 1) :
           \/ Append(comments, pos + 1)[k] = pos + 1
           \/ k \in DOMAIN comments /\ Append(comments, pos + 1)[k] = comments[k]
    BY <2>1, <2>2
  <2>4. ToSet(Append(comments, pos + 1)) \subseteq ToSet(comments) \cup {pos + 1}
    BY <2>3 DEF ToSet
  <2> QED BY <1>1, <2>1, <2>2, <2>4
<1>3. \A d \in Documented : d[1] \in 1..(pos + 1)
  BY <1>1 DEF DocsInv
<1>4. ASSUME NEW n \in 1..(pos + 1), text[n].kind \in {"variable", "define", "entry"}
      PROVE  /\ NewDoc(<<n, FindTrailing(Row(n), comments')>>, ToSet(comments'))
             /\ FindTrailing(Row(n), comments').deprecated # 0 =>
                   Row(n) = text[FindTrailing(Row(n), comments').deprecated].last + 1
  <2>1. \A among \in Seq(1..(pos + 1)) :
           ToSet(among) \subseteq ToSet(comments) \cup {pos + 1} =>
              /\ \A left : NewDoc(<<n, FindTrailing(Row(n), among)>>, left)
              /\ FindTrailing(Row(n), among).deprecated = Deprecation(Row(n))
    BY <1>1, <1>4, TrailingIsNew DEF BasicInv, Moves
  <2>2. FindTrailing(Row(n), comments').deprecated = Deprecation(Row(n))
    BY <1>2, <2>1
  <2>3. Deprecation(Row(n)) # 0 => text[Deprecation(Row(n))].last + 1 = Row(n)
    BY DeprecationIs DEF BasicInv
  <2> QED BY <1>2, <2>1, <2>2, <2>3
<1>5. \/ open' = open /\ sp_items' = sp_items
      \/ /\ open = NoItem /\ open' = open
         /\ sp_items' \in Seq(Items) /\ Inlined(sp_items, comments', sp_items')
      \/ /\ open # NoItem /\ sp_items' = sp_items /\ open' \in Items
         /\ open'.node = open.node /\ open'.key = open.key /\ open'.doc = open.doc
         /\ Inlined(open.children, comments', open'.children)
  BY CommentGoes
<1>6. BasicInv'
  <2>1. Visited'
    BY <1>1, <1>5, VisitedOn
  <2>2. CASE open' = open /\ sp_items' = sp_items
    BY <1>1, <2>1, <2>2 DEF BasicInv, ItemsShape, OpenShape
  <2>3. CASE /\ open = NoItem /\ open' = open
             /\ sp_items' \in Seq(Items) /\ Inlined(sp_items, comments', sp_items')
    <3>1. \A i \in DOMAIN sp_items' : sp_items'[i].node \in 1..pos
      BY <2>3 DEF Inlined, BasicInv, ItemsShape
    <3>2. ItemsShape'
      BY <1>1, <2>3, <3>1 DEF ItemsShape
    <3> QED BY <2>1, <2>3, <3>2 DEF BasicInv, OpenShape
  <2>4. CASE /\ open # NoItem /\ sp_items' = sp_items /\ open' \in Items
             /\ open'.node = open.node /\ open'.key = open.key /\ open'.doc = open.doc
    BY <1>1, <2>1, <2>4 DEF BasicInv, ItemsShape, OpenShape
  <2> QED BY <1>5, <2>2, <2>3, <2>4
<1>7. DocsInv'
  <2>1. ASSUME NEW d \in Documented' PROVE d \in Documented \/ NewDoc(d, ToSet(comments'))
    <3>1. (\E i \in DOMAIN sp_items' : Holds(sp_items'[i], d)) \/ (open' # NoItem /\ Holds(open', d))
      <4> HIDE DEF Documented, Holds
      <4> QED BY <2>1, DocumentedNext
    <3>2. CASE open' = open /\ sp_items' = sp_items
      <4> HIDE DEF Documented, Holds
      <4> QED BY <3>1, <3>2, DocumentedIs
    <3>3. CASE /\ open = NoItem /\ open' = open
               /\ sp_items' \in Seq(Items) /\ Inlined(sp_items, comments', sp_items')
      <4>1. PICK i \in DOMAIN sp_items' : Holds(sp_items'[i], d)
        BY <3>1, <3>3
      <4>2. CASE i \in DOMAIN sp_items /\ sp_items'[i] = sp_items[i]
        <5> HIDE DEF Documented, Holds
        <5> QED BY <4>1, <4>2, DocumentedIs
      <4>3. CASE /\ i \in DOMAIN sp_items
                 /\ text[sp_items[i].node].kind \in {"variable", "define", "entry"}
                 /\ sp_items'[i].node = sp_items[i].node
                 /\ sp_items'[i].children = sp_items[i].children
                 /\ sp_items'[i].doc = FindTrailing(Row(sp_items[i].node), comments')
        <5>1. \/ d = <<sp_items[i].node, FindTrailing(Row(sp_items[i].node), comments')>>
              \/ Holds(sp_items[i], d)
          BY <4>1, <4>3 DEF Holds
        <5>2. sp_items[i].node \in 1..(pos + 1)
          BY <1>1, <4>3 DEF BasicInv, ItemsShape
        <5> QED BY <1>4, <4>3, <5>1, <5>2, DocumentedIs
      <4>4. \/ i \in DOMAIN sp_items /\ sp_items'[i] = sp_items[i]
            \/ /\ i \in DOMAIN sp_items
               /\ text[sp_items[i].node].kind \in {"variable", "define", "entry"}
               /\ sp_items'[i].node = sp_items[i].node
               /\ sp_items'[i].children = sp_items[i].children
               /\ sp_items'[i].doc = FindTrailing(Row(sp_items[i].node), comments')
        BY <3>3 DEF Inlined
      <4> QED BY <4>2, <4>3, <4>4
    <3>4. CASE /\ open # NoItem /\ sp_items' = sp_items
               /\ open'.node = open.node /\ open'.doc = open.doc
               /\ Inlined(open.children, comments', open'.children)
      <4>1. Holds(open', d) => \/ Holds(open, d)
                               \/ \E j \in DOMAIN open.children :
                                     /\ text[open.children[j].node].kind \in {"variable", "define", "entry"}
                                     /\ d = <<open.children[j].node,
                                              FindTrailing(Row(open.children[j].node), comments')>>
        BY <3>4 DEF Holds, Inlined
      <4>2. \A j \in DOMAIN open.children : open.children[j].node \in 1..(pos + 1)
        <5> TAKE j \in DOMAIN open.children
        <5> DEFINE e == <<open.children[j].node, open.children[j].doc>>
        <5>1. Holds(open, e)
          BY DEF Holds
        <5>2. e \in Documented
          BY <3>4, <5>1, DocumentedIs
        <5> QED BY <1>3, <5>2
      <4> HIDE DEF Documented, Holds
      <4>3. d \in Documented \/ Holds(open', d)
        BY <3>1, <3>4, DocumentedIs
      <4>4. Holds(open, d) => d \in Documented
        BY <3>4, DocumentedIs
      <4> QED BY <1>4, <4>1, <4>2, <4>3, <4>4
    <3> QED BY <1>5, <3>2, <3>3, <3>4
  <2>2. pos' \in Nat /\ pos' >= pos /\ pos' # pos
    BY <1>1
  <2> HIDE DEF Documented
  <2> QED BY <1>1, <1>2, <2>1, <2>2, DocsGrow
<1>8. DeprecationInv'
  <2>1. \A x : DeprecatedInside(x)' <=> DeprecatedInside(x)
    BY <1>1, SameText
  <2>2. \A n : open'.node = n => Deprecation(Row(open.node))' = Deprecation(Row(n))
    BY <1>1, SameDeprecation
  <2>3. CASE open' = open /\ sp_items' = sp_items
    <3> HIDE DEF DeprecatedInside
    <3> QED BY <2>1, <2>2, <2>3 DEF DeprecationInv
  <2>4. CASE /\ open = NoItem /\ open' = open
             /\ sp_items' \in Seq(Items) /\ Inlined(sp_items, comments', sp_items')
    <3>1. \A i \in DOMAIN sp_items' :
             \/ i \in DOMAIN sp_items /\ sp_items'[i] = sp_items[i]
             \/ /\ i \in DOMAIN sp_items
                /\ text[sp_items[i].node].kind \in {"variable", "define", "entry"}
                /\ sp_items'[i].node = sp_items[i].node
                /\ sp_items'[i].children = sp_items[i].children
                /\ sp_items'[i].doc = FindTrailing(Row(sp_items[i].node), comments')
      BY <2>4 DEF Inlined
    <3>2. ASSUME NEW i \in DOMAIN sp_items',
                 i \in DOMAIN sp_items, DeprecatedInside(sp_items[i]),
                 text[sp_items[i].node].kind \in {"variable", "define", "entry"},
                 sp_items'[i].node = sp_items[i].node,
                 sp_items'[i].children = sp_items[i].children,
                 sp_items'[i].doc = FindTrailing(Row(sp_items[i].node), comments')
          PROVE  DeprecatedInside(sp_items'[i])
      <4>1. sp_items[i].node \in 1..(pos + 1)
        BY <1>1, <3>2 DEF BasicInv, ItemsShape
      <4>2. DeprecatedAbove(sp_items'[i])
        BY <1>4, <3>2, <4>1 DEF DeprecatedAbove
      <4>3. \A j \in DOMAIN sp_items[i].children : DeprecatedAbove(sp_items[i].children[j])
        BY <3>2 DEF DeprecatedInside, OfItsTypeset
      <4> QED BY <3>2, <4>2, <4>3 DEF DeprecatedInside
    <3> HIDE DEF DeprecatedInside
    <3>3. \A i \in DOMAIN sp_items' : DeprecatedInside(sp_items'[i])
      BY <3>1, <3>2 DEF DeprecationInv
    <3> QED BY <2>1, <2>4, <3>3 DEF DeprecationInv
  <2>5. CASE /\ open # NoItem /\ sp_items' = sp_items
             /\ open'.node = open.node /\ open'.doc = open.doc
             /\ Inlined(open.children, comments', open'.children)
    <3>1. DeprecatedInside(open) /\ open.doc.deprecated = Deprecation(Row(open.node))
      BY <2>5 DEF DeprecationInv
    <3>2. \A j \in DOMAIN open'.children :
             \/ j \in DOMAIN open.children /\ open'.children[j] = open.children[j]
             \/ /\ j \in DOMAIN open.children
                /\ text[open.children[j].node].kind \in {"variable", "define", "entry"}
                /\ open'.children[j].node = open.children[j].node
                /\ open'.children[j].doc = FindTrailing(Row(open.children[j].node), comments')
      BY <2>5 DEF Inlined
    <3>3. \A j \in DOMAIN open.children : open.children[j].node \in 1..(pos + 1)
      <4> TAKE j \in DOMAIN open.children
      <4> DEFINE e == <<open.children[j].node, open.children[j].doc>>
      <4>1. Holds(open, e)
        BY DEF Holds
      <4>2. e \in Documented
        BY <2>5, <4>1, DocumentedIs
      <4> QED BY <1>3, <4>2
    <3>4. ASSUME NEW j \in DOMAIN open'.children
          PROVE  DeprecatedAbove(open'.children[j]) \/ OfItsTypeset(open'.children[j], open')
      <4>1. CASE j \in DOMAIN open.children /\ open'.children[j] = open.children[j]
        BY <2>5, <3>1, <4>1 DEF DeprecatedInside, OfItsTypeset
      <4>2. CASE /\ j \in DOMAIN open.children
                 /\ text[open.children[j].node].kind \in {"variable", "define", "entry"}
                 /\ open'.children[j].node = open.children[j].node
                 /\ open'.children[j].doc = FindTrailing(Row(open.children[j].node), comments')
        BY <1>4, <3>3, <4>2 DEF DeprecatedAbove
      <4> QED BY <3>2, <4>1, <4>2
    <3>5. DeprecatedInside(open')
      BY <2>5, <3>1, <3>4 DEF DeprecatedInside, DeprecatedAbove
    <3> HIDE DEF DeprecatedInside
    <3> QED BY <2>1, <2>2, <2>5, <3>1, <3>5 DEF DeprecationInv
  <2> QED BY <1>5, <2>3, <2>4, <2>5
<1> QED BY <1>6, <1>7, <1>8

-----------------------------------------------------------------------------
(* Which steps make an item.                                               *)
LEMMA ItemIs ==
    ASSUME NEW n \in Nat, NEW key \in Key, NEW doc \in Docs
    PROVE  /\ Item(n, key, doc) \in Leaf /\ Item(n, key, doc).node = n
           /\ Item(n, key, doc).key = key /\ Item(n, key, doc).doc = doc
           /\ Item(n, key, doc).children = <<>>
BY DEF Item, Leaf

LEMMA AppendIs ==
    ASSUME NEW S, NEW s \in Seq(S), NEW e \in S
    PROVE  Append(s, e) \in Seq(S)
OBVIOUS

LEMMA KeyGrows ==
    ASSUME NEW key \in Key, NEW name \in STRING
    PROVE  Append(key, name) \in Key
<1>1. name \in STRING \cup Nat
  OBVIOUS
<1>2. key \in Seq(STRING \cup Nat)
  BY DEF Key
<1>3. Append(key, name) \in Seq(STRING \cup Nat)
  BY <1>1, <1>2, AppendIs
<1> QED BY <1>3 DEF Key

LEMMA HereIs ==
    ASSUME BasicInv, pos < Len(text), text[pos + 1].inside = (open # NoItem), NEW name \in STRING
    PROVE  /\ Here(name) \in Leaf /\ Here(name).node = pos + 1 /\ Here(name).children = <<>>
           /\ Here(name).doc = FindDoc(Row(pos + 1))
           /\ Here(name).key \in Key
           /\ Here(name).key = IF open # NoItem THEN Append(open.key, name) ELSE <<name>>
<1>1. pos + 1 \in Nat
  BY NamesAre
<1>2. FindDoc(Row(pos + 1)) \in Docs
  BY FindDocIsNew DEF NewDoc, BasicInv
<1> DEFINE key == IF open # NoItem THEN Append(open.key, name) ELSE <<name>>
<1>3. key \in Key
  <2>1. CASE open = NoItem
    BY <2>1 DEF Key
  <2>2. CASE open # NoItem
    <3>1. open.key \in Seq(STRING \cup Nat)
      BY <2>2 DEF BasicInv, OpenShape, Items, Key
    <3> QED BY <2>2, <3>1 DEF Key
  <2> QED BY <2>1, <2>2
<1>4. Here(name) = Item(pos + 1, key, FindDoc(Row(pos + 1)))
  BY DEF Here, Node, Row
<1> HIDE DEF key
<1>5. /\ Item(pos + 1, key, FindDoc(Row(pos + 1))) \in Leaf
      /\ Item(pos + 1, key, FindDoc(Row(pos + 1))).node = pos + 1
      /\ Item(pos + 1, key, FindDoc(Row(pos + 1))).key = key
      /\ Item(pos + 1, key, FindDoc(Row(pos + 1))).doc = FindDoc(Row(pos + 1))
      /\ Item(pos + 1, key, FindDoc(Row(pos + 1))).children = <<>>
  BY <1>1, <1>2, <1>3, ItemIs
<1> QED BY <1>3, <1>4, <1>5 DEF key

\* An item with the documentation above it uses the comments up.
LEMMA DocumentedFits ==
    ASSUME BasicInv, pos < Len(text), NEW item \in Member,
           item.node = pos + 1, item.doc = FindDoc(Row(pos + 1)),
           \A j \in DOMAIN item.children :
              item.children[j].node = pos + 1 /\ item.children[j].doc = NoDoc
    PROVE  Fits(item, {})
BY FindDocIsNew DEF Fits, BasicInv

LEMMA ToSetOfNone == ToSet(<<>>) = {}
BY DEF ToSet

\* The variables of a function have no documentation.
LEMMA NamedChildren ==
    ASSUME NEW n \in Nat, NEW key \in Key, NEW names \in Seq(STRING), NEW children,
           children = [i \in DOMAIN names |-> Child(n, Append(key, names[i]))]
    PROVE  /\ children \in Seq(Leaf)
           /\ \A i \in DOMAIN children : children[i].node = n /\ children[i].doc = NoDoc
<1>1. Len(names) \in Nat /\ DOMAIN names = 1..Len(names) /\ \A i \in DOMAIN names : names[i] \in STRING
  OBVIOUS
<1>2. \A i \in DOMAIN names : Append(key, names[i]) \in Key
  BY <1>1, KeyGrows
<1>3. \A i \in DOMAIN names : /\ Child(n, Append(key, names[i])) \in Leaf
                              /\ Child(n, Append(key, names[i])).node = n
                              /\ Child(n, Append(key, names[i])).doc = NoDoc
  BY <1>2, ChildIs
<1>4. children \in [1..Len(names) -> Leaf]
  BY <1>1, <1>3
<1> QED BY <1>1, <1>3, <1>4

LEMMA FunctionPushes ==
    ASSUME BasicInv, ParseFunction
    PROVE  \E item : Pushes(item) /\ item.key = Here(Node.name).key /\ Declare(item)
<1> DEFINE here == Here(Node.name)
           children == ReadBodyVariables(here) \o ReadFunctionParameters(here)
           function == [here EXCEPT !.children = children]
<1>1. Moves /\ text[pos + 1].name \in STRING /\ pos \in Nat /\ pos + 1 \in Nat
  BY NamesAre DEF ParseFunction, At, Moves
<1>2. /\ here \in Leaf /\ here.node = pos + 1 /\ here.key \in Key
      /\ here.doc = FindDoc(Row(pos + 1)) /\ here.doc \in Docs
  <2>1. /\ here \in Leaf /\ here.node = pos + 1 /\ here.key \in Key
        /\ here.doc = FindDoc(Row(pos + 1))
    BY <1>1, HereIs DEF Node, Moves
  <2> QED BY <2>1 DEF Leaf
<1>3. /\ children \in Seq(Leaf)
      /\ \A j \in DOMAIN children : children[j].node = pos + 1 /\ children[j].doc = NoDoc
  <2> DEFINE s == ReadBodyVariables(here)
             t == ReadFunctionParameters(here)
  <2>1. /\ s = [i \in DOMAIN Node.locals |-> Child(pos + 1, Append(here.key, Node.locals[i]))]
        /\ t = [i \in DOMAIN Node.params |-> Child(pos + 1, Append(here.key, Node.params[i]))]
    BY <1>2 DEF ReadBodyVariables, ReadFunctionParameters
  <2>2. Node.locals \in Seq(STRING) /\ Node.params \in Seq(STRING)
    BY <1>1, NamesAre DEF Node, Moves
  <2>3. here.key \in Key
    BY <1>2
  <2> HIDE DEF here, s, t
  <2>4. /\ s \in Seq(Leaf) /\ \A i \in DOMAIN s : s[i].node = pos + 1 /\ s[i].doc = NoDoc
        /\ t \in Seq(Leaf) /\ \A i \in DOMAIN t : t[i].node = pos + 1 /\ t[i].doc = NoDoc
    BY <1>1, <2>1, <2>2, <2>3, NamedChildren
  <2>5. /\ s \o t \in Seq(Leaf)
        /\ \A i \in DOMAIN (s \o t) : \/ i \in DOMAIN s /\ (s \o t)[i] = s[i]
                                      \/ \E j \in DOMAIN t : (s \o t)[i] = t[j]
    BY <2>4, JoinedIs
  <2>6. \A i \in DOMAIN (s \o t) : (s \o t)[i].node = pos + 1 /\ (s \o t)[i].doc = NoDoc
    BY <2>4, <2>5
  <2> QED BY <2>5, <2>6 DEF s, t
<1>4. /\ PushItem(function) /\ Declare(function)
      /\ comments' = <<>> /\ deprecated' = deprecated /\ anon_enum_counter' = anon_enum_counter
  BY DEF ParseFunction
<1> HIDE DEF here, children
<1>5. /\ function \in Member /\ function.node = pos + 1 /\ function.doc = FindDoc(Row(pos + 1))
      /\ function.children = children /\ function.key = here.key
  <2>1. here = [node |-> here.node, key |-> here.key, doc |-> here.doc, children |-> here.children]
    BY <1>2 DEF Leaf
  <2>2. function = [node |-> here.node, key |-> here.key, doc |-> here.doc, children |-> children]
    BY <2>1
  <2> QED BY <1>1, <1>2, <1>3, <2>2 DEF Member
<1> HIDE DEF function
<1>6. Fits(function, {})
  BY <1>1, <1>3, <1>5, DocumentedFits DEF Moves
<1>7. Pushes(function)
  BY <1>1, <1>4, <1>6, ToSetOfNone DEF Pushes
<1> QED BY <1>4, <1>5, <1>7 DEF here

LEMMA TypedefPushes ==
    ASSUME BasicInv, ParseTypedef \/ ParseProperty
    PROVE  Pushes(Here(Node.name))
<1> DEFINE here == Here(Node.name)
<1>1. Moves /\ text[pos + 1].name \in STRING /\ pos + 1 \in Nat
  BY NamesAre DEF ParseTypedef, ParseProperty, At, Moves
<1>2. here \in Leaf /\ here.node = pos + 1 /\ here.doc = FindDoc(Row(pos + 1)) /\ here.children = <<>>
  BY <1>1, HereIs DEF Node, Moves
<1>3. /\ PushItem(here)
      /\ comments' = <<>> /\ deprecated' = deprecated /\ anon_enum_counter' = anon_enum_counter
  BY DEF ParseTypedef, ParseProperty
<1> HIDE DEF here
<1>4. Fits(here, {})
  BY <1>1, <1>2, LeavesAreMembers, DocumentedFits DEF Moves
<1>5. Pushes(here)
  BY <1>1, <1>3, <1>4, ToSetOfNone DEF Pushes
<1> QED BY <1>5 DEF here

LEMMA DefinePushes ==
    ASSUME BasicInv, ParseDefine
    PROVE  Pushes(Item(pos + 1, <<Node.name>>, FindTrailing(Node.row, comments)))
<1> DEFINE doc == FindTrailing(Node.row, comments)
           item == Item(pos + 1, <<Node.name>>, doc)
<1>1. /\ Moves /\ Node.name \in STRING /\ pos \in Nat /\ pos + 1 \in Nat
      /\ text[pos + 1].kind = "define" /\ comments \in Seq(1..pos)
  BY NamesAre DEF ParseDefine, At, Moves, Node, BasicInv, Visited
<1>2. comments \in Seq(1..(pos + 1)) /\ pos + 1 \in 1..(pos + 1)
  <2>1. 1..pos \subseteq 1..(pos + 1)
    BY <1>1
  <2> QED BY <1>1, <2>1, SeqWidens
<1>3. /\ NewDoc(<<pos + 1, doc>>, ToSet(comments))
      /\ doc.deprecated = Deprecation(Row(pos + 1))
  BY <1>1, <1>2, TrailingIsNew DEF BasicInv, Moves, Node, Row
<1>4. /\ PushItem(item)
      /\ comments' = comments /\ deprecated' = deprecated /\ anon_enum_counter' = anon_enum_counter
  BY DEF ParseDefine
<1>5. doc \in Docs /\ <<Node.name>> \in Key
  BY <1>1, <1>3 DEF NewDoc, Key
<1> HIDE DEF doc
<1>6. item \in Leaf /\ item.node = pos + 1 /\ item.doc = doc /\ item.children = <<>>
  BY <1>1, <1>5, ItemIs
<1> HIDE DEF item
<1>7. Fits(item, ToSet(comments))
  BY <1>3, <1>6, LeavesAreMembers DEF Fits
<1>8. Pushes(item)
  BY <1>1, <1>4, <1>7 DEF Pushes
<1> QED BY <1>8 DEF item, doc

LEMMA MemberPushes ==
    ASSUME BasicInv, ReadEnumEntry \/ ParseEnumStructField
    PROVE  \E item : Pushes(item)
<1> DEFINE key == IF text[open.node].kind = "enum" THEN <<Node.name>> ELSE Append(open.key, Node.name)
           item == Child(pos + 1, key)
<1>1. /\ Moves /\ Node.name \in STRING /\ pos \in Nat /\ pos + 1 \in Nat
      /\ open # NoItem /\ open.key \in Seq(STRING \cup Nat)
  BY NamesAre DEF ReadEnumEntry, ParseEnumStructField, At, Moves, Node, BasicInv, OpenShape, Items, Key
<1>2. key \in Key
  <2>1. <<Node.name>> \in Key
    BY <1>1 DEF Key
  <2>2. open.key \in Key
    BY <1>1 DEF Key
  <2> QED BY <1>1, <2>1, <2>2, KeyGrows
<1>3. /\ PushItem(item)
      /\ comments' = comments /\ deprecated' = deprecated /\ anon_enum_counter' = anon_enum_counter
  BY DEF ReadEnumEntry, ParseEnumStructField
<1> HIDE DEF key
<1>4. item \in Leaf /\ item.node = pos + 1 /\ item.doc = NoDoc /\ item.children = <<>>
  BY <1>1, <1>2, ChildIs DEF Child, Item
<1> HIDE DEF item
<1>5. NewDoc(<<pos + 1, NoDoc>>, ToSet(comments)) /\ NoDoc.deprecated = 0
  BY NoDocIsNew DEF BasicInv, NoDoc
<1>6. Fits(item, ToSet(comments))
  BY <1>4, <1>5, LeavesAreMembers DEF Fits
<1>7. Pushes(item)
  BY <1>1, <1>3, <1>6 DEF Pushes
<1> QED BY <1>7

\* The comments inside a typeset are not above it.
LEMMA ExpressionPushes ==
    ASSUME BasicInv, ParseTypesetExpression
    PROVE  \E item : Pushes(item)
<1> DEFINE row == Row(open.node)
           doc == FindDoc(row)
           key == <<Head(open.key), Len(open.children)>>
           item == Item(pos + 1, key, doc)
<1>0. Moves /\ text[open.node].kind = "typeset" /\ text[pos + 1].kind = "expression" /\ open # NoItem
  BY NamesAre DEF ParseTypesetExpression, At, Moves
<1>1. /\ pos \in Nat /\ pos + 1 \in Nat /\ pos + 1 \in 1..(pos + 1)
      /\ open.key \in Seq(STRING \cup Nat) /\ Len(open.key) = 1
      /\ open.children \in Seq(Member) /\ open.node \in 1..pos
      /\ Len(text) \in Nat /\ pos <= Len(text) /\ open.node \in 1..Len(text)
  <2>1. /\ pos \in Nat /\ pos + 1 \in 1..Len(text) /\ Len(text) \in Nat
    BY <1>0, NamesAre, TextIsShaped DEF Moves, BasicInv, TextShape
  <2>2. open \in Items /\ Len(open.key) = 1 /\ open.node \in 1..pos
    BY <1>0 DEF BasicInv, OpenShape
  <2>3. open.key \in Seq(STRING \cup Nat) /\ open.children \in Seq(Member)
    BY <2>2 DEF Items, Key
  <2> QED BY <2>1, <2>2, <2>3
<1>2. key \in Key
  <2>1. Head(open.key) \in STRING \cup Nat /\ Len(open.children) \in STRING \cup Nat
    BY <1>1
  <2> QED BY <2>1 DEF Key
<1>3. row \in Nat /\ Above(row) = <<>>
  <2>1. row \in Nat
    BY <1>1, TextIsShaped DEF BasicInv, TextShape, Row
  <2>2. ASSUME NEW c \in ToSet(comments) PROVE text[c].last >= row
    <3>1. PICK k \in DOMAIN comments : c = comments[k]
      BY DEF ToSet
    <3>2. c > open.node /\ comments \in Seq(1..pos)
      BY <1>0, <3>1 DEF BasicInv, Visited
    <3>3. c \in 1..pos
      BY <3>2, SeqIs
    <3>4. c \in 1..Len(text) /\ open.node < c
      BY <1>1, <3>2, <3>3
    <3>5. text[open.node].row <= text[c].row /\ text[c].row <= text[c].last
          /\ text[c].row \in Nat /\ text[c].last \in Nat
      BY <1>1, <3>4, TextIsShaped DEF BasicInv, TextShape
    <3> QED BY <2>1, <3>5 DEF Row
  <2> HIDE DEF row
  <2> QED BY <2>1, <2>2, AboveNothing DEF BasicInv
<1>4. doc = [text |-> <<>>, deprecated |-> Deprecation(row)] /\ Deprecation(row) \in Nat
  BY <1>1, <1>3, DeprecationIs DEF FindDoc, BasicInv
<1>5. doc \in Docs /\ NewDoc(<<pos + 1, doc>>, {}) /\ doc.deprecated = Deprecation(row)
  <2>1. <<>> \in Seq(Nat)
    OBVIOUS
  <2>2. [text |-> <<>>, deprecated |-> Deprecation(row)] \in Docs
    BY <1>4, <2>1 DEF Docs
  <2> QED BY <1>1, <1>4, <2>2, ToSetOfNone DEF NewDoc, Adjacent
<1>6. /\ PushItem(item)
      /\ comments' = <<>> /\ deprecated' = deprecated /\ anon_enum_counter' = anon_enum_counter
  BY DEF ParseTypesetExpression, Row
<1> HIDE DEF doc, key
<1>7. item \in Leaf /\ item.node = pos + 1 /\ item.doc = doc /\ item.children = <<>>
  <2>1. pos + 1 \in Nat /\ key \in Key /\ doc \in Docs
    BY <1>1, <1>2, <1>5
  <2> QED BY <2>1, ItemIs
<1> HIDE DEF item
<1>8. Fits(item, {})
  BY <1>0, <1>1, <1>5, <1>7, LeavesAreMembers DEF Fits
<1>9. Pushes(item)
  BY <1>0, <1>6, <1>8, ToSetOfNone DEF Pushes
<1> QED BY <1>9

LEMMA ContainerOpens ==
    ASSUME BasicInv, NEW name \in STRING,
           At(Containers, FALSE), open' = Here(name), comments' = <<>>,
           deprecated' = deprecated, sp_items' = sp_items,
           anon_enum_counter' \in {anon_enum_counter, anon_enum_counter + 1}
    PROVE  Opens(Here(name))
<1>1. Moves /\ pos + 1 \in Nat /\ open = NoItem /\ text[pos + 1].kind \in Containers
  BY NamesAre DEF At, Moves
<1> DEFINE here == Here(name)
<1>2. /\ here \in Leaf /\ here.node = pos + 1 /\ here.doc = FindDoc(Row(pos + 1))
      /\ here.children = <<>> /\ here.key = <<name>>
  BY <1>1, HereIs DEF Moves
<1>3. here.doc.deprecated = Deprecation(Row(pos + 1))
  BY <1>1, <1>2, FindDocIsNew DEF Moves, BasicInv
<1> HIDE DEF here
<1>4. Fits(here, {})
  BY <1>1, <1>2, LeavesAreMembers, DocumentedFits DEF Moves
<1> QED BY <1>1, <1>2, <1>3, <1>4 DEF Opens, here

LEMMA EnumOpens ==
    ASSUME BasicInv, OpenContainer \/ OpenEnum
    PROVE  \E item : Opens(item)
<1>1. CASE OpenContainer
  <2>1. Node.name \in STRING /\ At(Containers, FALSE)
    BY <1>1, NamesAre DEF OpenContainer, At, Node
  <2> QED BY <1>1, <2>1, ContainerOpens DEF OpenContainer
<1>2. CASE OpenEnum
  <2> DEFINE name == EnumName(anon_enum_counter)
  <2>1. At(Containers, FALSE)
    BY <1>2 DEF OpenEnum, At, Containers
  <2>2. name \in STRING
    <3>1. Node.name \in STRING
      BY <2>1, NamesAre DEF At, Node
    <3>2. text \in Texts /\ anon_enum_counter \in 0..Len(text)
      BY TextIsShaped DEF BasicInv, Visited, TextShape
    <3> QED BY <3>1, <3>2, NamesAssumption DEF EnumName
  <2>3. /\ open' = Here(name) /\ comments' = <<>> /\ deprecated' = deprecated /\ sp_items' = sp_items
        /\ anon_enum_counter' \in {anon_enum_counter, anon_enum_counter + 1}
    <3>1. anon_enum_counter \in Nat
      BY TextIsShaped DEF BasicInv, Visited, TextShape
    <3>2. open' = Here(name) /\ comments' = <<>> /\ deprecated' = deprecated /\ sp_items' = sp_items
      BY <1>2 DEF OpenEnum
    <3>3. anon_enum_counter' = anon_enum_counter + (IF Node.name = "" THEN 1 ELSE 0)
      BY <1>2 DEF OpenEnum
    <3>4. anon_enum_counter' \in {anon_enum_counter, anon_enum_counter + 1}
      <4>1. CASE Node.name = ""
        BY <3>3, <4>1
      <4>2. CASE Node.name # ""
        <5>1. anon_enum_counter' = anon_enum_counter + 0
          BY <3>3, <4>2
        <5> QED BY <3>1, <5>1
      <4> QED BY <4>1, <4>2
    <3> QED BY <3>2, <3>4
  <2> HIDE DEF name
  <2> QED BY <2>1, <2>2, <2>3, ContainerOpens
<1> QED BY <1>1, <1>2

-----------------------------------------------------------------------------
(* The pass keeps all of it.                                               *)
WalkInv == BasicInv /\ DocsInv /\ DeprecationInv

LEMMA PushKeeps ==
    ASSUME WalkInv, NEW item, Pushes(item)
    PROVE  WalkInv'
<1>1. Outside(item) \/ Inside(item)
  BY PushGoes DEF WalkInv, Pushes, Fits
<1> QED BY <1>1, PushKeepsBasics, PushKeepsDocs, PushKeepsDeprecation DEF WalkInv

LEMMA WalkInit == Init => WalkInv
<1> SUFFICES ASSUME Init PROVE WalkInv
  OBVIOUS
<1>1. /\ text \in Texts /\ Len(text) \in Nat /\ pos = 0 /\ comments = <<>> /\ deprecated = <<>>
      /\ anon_enum_counter = 0 /\ open = NoItem /\ sp_items = <<>>
  BY NodesAssumption DEF Init
<1>2. BasicInv
  <2>1. <<>> \in Seq(1..0) /\ <<>> \in Seq(Items) /\ 0 \in 0..Len(text) /\ 0 \in 0..0
    BY <1>1
  <2> QED BY <1>1, <2>1 DEF BasicInv, Visited, OpenShape, ItemsShape
<1>3. \A d : d \notin Documented
  BY <1>1, DocumentedIs
<1>4. DocsInv
  BY <1>3 DEF DocsInv
<1>5. DeprecationInv
  BY <1>1 DEF DeprecationInv
<1> QED BY <1>2, <1>4, <1>5 DEF WalkInv

LEMMA WalkNext == WalkInv /\ [Next]_vars => WalkInv'
<1> SUFFICES ASSUME WalkInv, [Next]_vars PROVE WalkInv'
  OBVIOUS
<1>1. BasicInv /\ DocsInv /\ DeprecationInv
  BY DEF WalkInv
<1>2. CASE Comment
  BY <1>1, <1>2, CommentKeeps DEF WalkInv
<1>3. CASE PushDeprecated
  BY <1>1, <1>3, PragmaKeeps DEF WalkInv
<1>4. CASE ParseFunction
  BY <1>1, <1>4, FunctionPushes, PushKeeps
<1>5. CASE ParseVariable
  BY <1>1, <1>5, VariableKeeps DEF WalkInv
<1>6. CASE ParseDefine
  BY <1>1, <1>6, DefinePushes, PushKeeps
<1>7. CASE ParseTypedef \/ ParseProperty
  BY <1>1, <1>7, TypedefPushes, PushKeeps
<1>8. CASE OpenContainer \/ OpenEnum
  <2>1. PICK item : Opens(item)
    BY <1>1, <1>8, EnumOpens
  <2> QED BY <1>1, <2>1, OpenKeepsBasics, OpenKeepsDocs, OpenKeepsDeprecation DEF WalkInv
<1>9. CASE ReadEnumEntry \/ ParseEnumStructField
  BY <1>1, <1>9, MemberPushes, PushKeeps
<1>10. CASE ParseTypesetExpression
  BY <1>1, <1>10, ExpressionPushes, PushKeeps
<1>11. CASE CloseContainer
  BY <1>1, <1>11, CloseKeeps DEF WalkInv
<1>12. CASE UNCHANGED vars
  <2>1. /\ text' = text /\ pos' = pos /\ comments' = comments /\ deprecated' = deprecated
        /\ anon_enum_counter' = anon_enum_counter /\ open' = open /\ sp_items' = sp_items
    BY <1>12 DEF vars
  <2>2. BasicInv'
    BY <1>1, <2>1 DEF BasicInv, Visited, OpenShape, ItemsShape
  <2>3. DocsInv'
    <3>1. \A d \in Documented' : d \in Documented
      <4> HIDE DEF Documented, Holds
      <4> QED BY <2>1, DocumentedNext, DocumentedIs
    <3>2. pos \in Nat /\ ToSet(comments') = ToSet(comments)
      BY <1>1, <2>1, TextIsShaped DEF BasicInv, Visited, TextShape
    <3> HIDE DEF Documented
    <3> QED BY <1>1, <2>1, <3>1, <3>2, DocsGrow
  <2>4. DeprecationInv'
    <3>1. \A x : DeprecatedInside(x)' <=> DeprecatedInside(x)
      BY <2>1, SameText
    <3>2. \A n : open'.node = n => Deprecation(Row(open.node))' = Deprecation(Row(n))
      BY <2>1, SameDeprecation
    <3> HIDE DEF DeprecatedInside
    <3> QED BY <1>1, <2>1, <3>1, <3>2 DEF DeprecationInv
  <2> QED BY <2>2, <2>3, <2>4 DEF WalkInv
<1> QED BY <1>2, <1>3, <1>4, <1>5, <1>6, <1>7, <1>8, <1>9, <1>10, <1>11, <1>12 DEF Next

LEMMA WalkAlways == Spec => []WalkInv
BY WalkInit, WalkNext, PTL DEF Spec

LEMMA ItemIsDocumented ==
    ASSUME NEW item \in AllItems
    PROVE  <<item.node, item.doc>> \in Documented
BY DEF Documented

\* Whatever was declared, commented and left behind before, what documents a
\* declaration is next to it: the inductive invariant is that this holds of
\* what was read and that a comment that is still kept is shared with none
\* but what is on its row (find_doc clears what it returns).
THEOREM DocsAreAdjacent == Spec => []DocIsAdjacent
<1>1. ASSUME DocsInv PROVE DocIsAdjacent
  <2> SUFFICES ASSUME NEW item \in AllItems
               PROVE  LET doc == item.doc.text IN
                        \/ doc = <<>>
                        \/ Len(doc) = 1 /\ OnItsRow(item, doc[1])
                        \/ \A i \in DOMAIN doc :
                             LET below == IF i = 1 THEN Row(item.node) ELSE Row(doc[i - 1])
                             IN  below - text[doc[i]].last = IF item.doc.deprecated = 0 THEN 1 ELSE 2
    BY DEF DocIsAdjacent
  <2>1. Adjacent(<<item.node, item.doc>>)
    BY <1>1, ItemIsDocumented DEF DocsInv
  <2> QED BY <2>1 DEF Adjacent, OnItsRow
<1> QED BY <1>1, WalkAlways, PTL DEF WalkInv

\* A comment documents one declaration, but for one that ends the row of a
\* variable, a define or an enum member: no sequence of declarations makes
\* two of them share what find_doc found above one.
THEOREM CommentsAreUsedOnce == Spec => []CommentsDocumentOnce
<1>1. ASSUME DocsInv PROVE CommentsDocumentOnce
  <2> SUFFICES ASSUME NEW a \in AllItems, NEW b \in AllItems,
                      a.node < b.node, ToSet(a.doc.text) \cap ToSet(b.doc.text) # {}
               PROVE  /\ text[a.node].kind \in {"variable", "define", "entry"}
                      /\ \A c \in ToSet(a.doc.text) : OnItsRow(a, c)
    BY DEF CommentsDocumentOnce
  <2>1. <<a.node, a.doc>> \in Documented /\ <<b.node, b.doc>> \in Documented
    BY ItemIsDocumented
  <2>2. OfItsRow(<<a.node, a.doc>>)
    BY <1>1, <2>1 DEF DocsInv
  <2> QED BY <2>2 DEF OfItsRow, OnItsRow
<1> QED BY <1>1, WalkAlways, PTL DEF WalkInv

\* A #pragma deprecated deprecates what is on the row below it and the members
\* of a typeset that is, though the pragmas are kept to the end of the text.
THEOREM DeprecatedFromAbove == Spec => []DeprecationIsAbove
<1>1. ASSUME BasicInv, DeprecationInv PROVE DeprecationIsAbove
  <2> SUFFICES ASSUME NEW item \in AllItems, item.doc.deprecated # 0
               PROVE  LET p == item.doc.deprecated
                      IN  \/ Row(item.node) = text[p].last + 1
                          \/ /\ text[item.node].kind = "expression"
                             /\ \E set \in ToSet(sp_items) \cup {open} :
                                  set # NoItem /\ item \in ToSet(set.children) /\ set.doc.deprecated = p
    BY DEF DeprecationIsAbove
  <2>1. PICK set \in ToSet(sp_items) \cup {open} :
           set # NoItem /\ DeprecatedInside(set) /\ (item = set \/ item \in ToSet(set.children))
    <3>1. \/ \E set \in ToSet(sp_items) : item = set \/ item \in ToSet(set.children)
          \/ open # NoItem /\ (item = open \/ item \in ToSet(open.children))
      BY DEF AllItems
    <3>2. ASSUME NEW set \in ToSet(sp_items) PROVE set # NoItem /\ DeprecatedInside(set)
      <4>1. PICK i \in DOMAIN sp_items : set = sp_items[i]
        BY DEF ToSet
      <4>2. set.node \in 1..pos /\ pos \in Nat
        BY <1>1, <4>1, TextIsShaped DEF BasicInv, ItemsShape, Visited, TextShape
      <4>3. set.node # 0
        BY <4>2
      <4> QED BY <1>1, <4>1, <4>3 DEF NoItem, DeprecationInv
    <3>3. open # NoItem => DeprecatedInside(open)
      BY <1>1 DEF DeprecationInv
    <3> HIDE DEF DeprecatedInside
    <3> QED BY <3>1, <3>2, <3>3
  <2>2. CASE item = set
    BY <2>1, <2>2 DEF DeprecatedInside, DeprecatedAbove
  <2>3. CASE item \in ToSet(set.children)
    <3>1. PICK j \in DOMAIN set.children : item = set.children[j]
      BY <2>3 DEF ToSet
    <3>2. DeprecatedAbove(item) \/ OfItsTypeset(item, set)
      BY <2>1, <3>1 DEF DeprecatedInside
    <3> QED BY <2>1, <2>3, <3>2 DEF DeprecatedAbove, OfItsTypeset
  <2> QED BY <2>1, <2>2, <2>3
<1> QED BY <1>1, WalkAlways, PTL DEF WalkInv

-----------------------------------------------------------------------------
(* Declarations: what a step declares, and what it takes the place of.     *)
OpenKeyed ==
    open # NoItem => IF text[open.node].name # "" THEN open.key = <<text[open.node].name>>
                     ELSE anon_enum_counter > 0 /\ open.key = <<Label(anon_enum_counter - 1)>>
BeforeOpen ==
    open # NoItem => \A key \in DOMAIN declarations :
                        Len(key) = 1 => declarations[key].node < open.node
KeysAre ==
    \A key \in DOMAIN declarations :
        /\ Len(key) \in {1, 2} /\ declarations[key].node \in 1..pos
        /\ text[declarations[key].node].kind \in Declared => KeyOf(key, declarations[key].node, Settled)
        /\ text[declarations[key].node].kind \notin Declared => \A k \in 0..Len(text) : key # <<Label(k)>>
AllDeclared ==
    \A i \in 1..pos :
        text[i].kind \in Declared /\ (open # NoItem => i # open.node) => IsDeclared(i)

LEMMA DeclarationsParts == DeclarationsInv <=> KeysAre /\ OpenKeyed /\ BeforeOpen /\ AllDeclared
BY DEF DeclarationsInv, KeysAre, OpenKeyed, BeforeOpen, AllDeclared

\* Each of the keys is given to the item at node n, and is no label in use.
Gives(keys, n) ==
    /\ DOMAIN declarations' = DOMAIN declarations \cup keys
    /\ \A key \in DOMAIN declarations \ keys : declarations'[key] = declarations[key]
    /\ \A key \in keys : declarations'[key].node = n
    /\ \A key \in keys : Len(key) \in {1, 2} /\ \A k \in 0..(Settled - 1) : key # <<Label(k)>>
    /\ \A key \in keys \cap DOMAIN declarations : declarations[key].node < n

\* It takes the place of nothing that is not found again.
LEMMA GivesKeeps ==
    ASSUME Visited, KeysAre, text' = text, NEW keys, NEW n \in Nat, Gives(keys, n),
           NEW i \in 1..pos, text[i].kind \in Declared, IsDeclared(i)
    PROVE  IsDeclared(i)'
<1>1. PICK key \in DOMAIN declarations : declarations[key].node = i \/ Replaced(i, key)
  BY DEF IsDeclared
<1>2. key \in DOMAIN declarations' /\ pos \in Nat /\ declarations[key].node \in 1..pos
  BY TextIsShaped DEF Gives, KeysAre, Visited, TextShape
<1>3. CASE key \notin keys
  <2>1. declarations'[key] = declarations[key]
    BY <1>3 DEF Gives
  <2> QED BY <1>1, <1>2, <2>1 DEF IsDeclared, Replaced
<1>4. CASE key \in keys
  <2>1. declarations'[key].node = n /\ declarations[key].node < n
    BY <1>4 DEF Gives
  <2>2. text[i].name # "" /\ Last(key) = text[i].name
    <3>1. CASE Replaced(i, key)
      BY <3>1 DEF Replaced
    <3>2. CASE declarations[key].node = i
      <4>1. KeyOf(key, i, Settled)
        BY <3>2 DEF KeysAre
      <4>2. \A k \in 0..(Settled - 1) : key # <<Label(k)>>
        BY <1>4 DEF Gives
      <4> QED BY <4>1, <4>2 DEF KeyOf
    <3> QED BY <1>1, <3>1, <3>2
  <2>3. declarations'[key].node > i
    <3> DEFINE old == declarations[key].node
    <3>1. old = i \/ old > i
      BY <1>1 DEF Replaced
    <3>2. old \in Nat /\ i \in Nat /\ old < n
      BY <1>2, <2>1
    <3> HIDE DEF old
    <3>3. n > i
      BY <3>1, <3>2
    <3> QED BY <2>1, <3>3
  <2> QED BY <1>2, <2>2, <2>3 DEF IsDeclared, Replaced
<1> QED BY <1>3, <1>4

\* What is declared keeps its name, and labels given stay given.
LEMMA KeysKeep ==
    ASSUME Visited, KeysAre, text' = text, NEW keys, NEW n \in 1..pos', Gives(keys, n),
           pos' \in Nat, pos' >= pos, Settled \in Int, Settled' \in Int, Settled' >= Settled,
           \A key \in keys :
              /\ text[n].kind \in Declared => KeyOf(key, n, Settled')
              /\ text[n].kind \notin Declared => \A k \in 0..Len(text) : key # <<Label(k)>>
    PROVE  KeysAre'
<1>1. pos \in Nat
  BY TextIsShaped DEF Visited, TextShape
<1> SUFFICES ASSUME NEW key \in DOMAIN declarations'
             PROVE  /\ Len(key) \in {1, 2} /\ declarations'[key].node \in 1..pos'
                    /\ text[declarations'[key].node].kind \in Declared
                          => KeyOf(key, declarations'[key].node, Settled')
                    /\ text[declarations'[key].node].kind \notin Declared
                          => \A k \in 0..Len(text) : key # <<Label(k)>>
  BY DEF KeysAre, KeyOf
<1>2. CASE key \in keys
  BY <1>2 DEF Gives
<1>3. CASE key \notin keys
  <2>1. key \in DOMAIN declarations /\ declarations'[key] = declarations[key]
    BY <1>3 DEF Gives
  <2>2. /\ Len(key) \in {1, 2} /\ declarations[key].node \in 1..pos
        /\ text[declarations[key].node].kind \in Declared => KeyOf(key, declarations[key].node, Settled)
        /\ text[declarations[key].node].kind \notin Declared => \A k \in 0..Len(text) : key # <<Label(k)>>
    BY <2>1 DEF KeysAre
  <2>3. \A i : KeyOf(key, i, Settled) => KeyOf(key, i, Settled')
    <3>1. \A k \in 0..(Settled - 1) : k \in 0..(Settled' - 1)
      <4> DEFINE a == Settled
                 b == Settled'
      <4>1. a \in Int /\ b \in Int /\ b >= a
        OBVIOUS
      <4> HIDE DEF a, b
      <4>2. \A k \in 0..(a - 1) : k \in 0..(b - 1)
        BY <4>1
      <4> QED BY <4>2 DEF a, b
    <3> QED BY <3>1 DEF KeyOf
  <2>4. declarations[key].node \in 1..pos'
    BY <1>1, <2>2
  <2> QED BY <2>1, <2>2, <2>3, <2>4
<1> QED BY <1>2, <1>3

\* The container that is read stays the same one.
SameOpen ==
    \/ open' = open
    \/ open # NoItem /\ open' # NoItem /\ open'.node = open.node /\ open'.key = open.key

LEMMA SettledIs ==
    ASSUME BasicInv, DeclarationsInv
    PROVE  Settled \in 0..Len(text) /\ Settled <= anon_enum_counter /\ anon_enum_counter \in Nat
<1>1. Len(text) \in Nat /\ pos \in 0..Len(text) /\ anon_enum_counter \in 0..pos
  BY TextIsShaped DEF BasicInv, Visited, TextShape
<1>2. CASE OpenUnnamed
  <2>1. anon_enum_counter > 0
    BY <1>2 DEF OpenUnnamed, DeclarationsInv
  <2> QED BY <1>1, <1>2, <2>1 DEF Settled
<1>3. CASE ~OpenUnnamed
  BY <1>1, <1>3 DEF Settled
<1> QED BY <1>2, <1>3

LEMMA SettledStays ==
    ASSUME SameOpen, text' = text, anon_enum_counter' = anon_enum_counter
    PROVE  Settled' = Settled
BY DEF SameOpen, Settled, OpenUnnamed

\* A step that reads a node and declares it, or nothing.
LEMMA DeclareKeeps ==
    ASSUME BasicInv, DeclarationsInv, Moves, SameOpen, anon_enum_counter' = anon_enum_counter,
           NEW keys, Gives(keys, pos + 1),
           text[pos + 1].kind \in Declared => keys # {},
           \A key \in keys :
              /\ open # NoItem => Len(key) = 2
              /\ text[pos + 1].kind \in Declared => KeyOf(key, pos + 1, Settled)
              /\ text[pos + 1].kind \notin Declared => \A k \in 0..Len(text) : key # <<Label(k)>>
    PROVE  DeclarationsInv'
<1>1. /\ pos \in Nat /\ pos' = pos + 1 /\ text' = text /\ pos + 1 \in Nat /\ pos + 1 \in 1..pos'
      /\ Visited
  BY TextIsShaped DEF BasicInv, Visited, TextShape, Moves
<1>2. KeysAre /\ OpenKeyed /\ BeforeOpen /\ AllDeclared
  BY DeclarationsParts
<1>3. Settled' = Settled /\ Settled \in Int
  BY <1>1, SettledStays, SettledIs
<1>4. KeysAre'
  BY <1>1, <1>2, <1>3, KeysKeep
<1>5. OpenKeyed'
  BY <1>1, <1>2 DEF OpenKeyed, SameOpen
<1>6. BeforeOpen'
  <2> SUFFICES ASSUME open' # NoItem, NEW key \in DOMAIN declarations', Len(key) = 1
               PROVE  declarations'[key].node < open'.node
    BY DEF BeforeOpen
  <2>1. open # NoItem /\ open'.node = open.node
    BY DEF SameOpen
  <2>2. key \notin keys
    BY <2>1
  <2>3. key \in DOMAIN declarations /\ declarations'[key] = declarations[key]
    BY <2>2 DEF Gives
  <2> QED BY <1>2, <2>1, <2>3 DEF BeforeOpen
<1>7. AllDeclared'
  <2> SUFFICES ASSUME NEW i \in 1..(pos + 1), text[i].kind \in Declared,
                      open' # NoItem => i # open'.node
               PROVE  IsDeclared(i)'
    BY <1>1 DEF AllDeclared
  <2>1. CASE i = pos + 1
    <3>1. PICK key \in keys : TRUE
      BY <2>1
    <3>2. key \in DOMAIN declarations' /\ declarations'[key].node = i
      BY <2>1, <3>1 DEF Gives
    <3> QED BY <3>2 DEF IsDeclared
  <2>2. CASE i # pos + 1
    <3>1. i \in 1..pos
      BY <1>1, <2>2
    <3>2. open # NoItem => i # open.node
      BY DEF SameOpen
    <3>3. IsDeclared(i)
      BY <1>2, <3>1, <3>2 DEF AllDeclared
    <3> QED BY <1>1, <1>2, <3>1, <3>3, GivesKeeps
  <2> QED BY <2>1, <2>2
<1>8. (KeysAre /\ OpenKeyed /\ BeforeOpen /\ AllDeclared => DeclarationsInv)'
  BY DeclarationsParts, PTL
<1> QED BY <1>4, <1>5, <1>6, <1>7, <1>8

LEMMA PushSameOpen ==
    ASSUME BasicInv, NEW item, Moves, item \in Member, PushItem(item)
    PROVE  SameOpen
<1>1. CASE Outside(item)
  BY <1>1 DEF Outside, SameOpen
<1>2. CASE Inside(item)
  <2>1. open # NoItem /\ open'.node = open.node /\ open'.key = open.key
    BY <1>2 DEF Inside, Grown
  <2>2. open.node \in 1..pos /\ pos \in Nat
    BY <2>1, TextIsShaped DEF BasicInv, OpenShape, Visited, TextShape
  <2>3. open'.node # 0
    BY <2>1, <2>2
  <2>4. open' # NoItem
    BY <2>3 DEF NoItem
  <2> QED BY <2>1, <2>4 DEF SameOpen
<1> QED BY <1>1, <1>2, PushGoes

LEMMA DeclaredBefore ==
    ASSUME BasicInv, DeclarationsInv
    PROVE  \A key \in DOMAIN declarations : declarations[key].node < pos + 1
<1>1. pos \in Nat
  BY TextIsShaped DEF BasicInv, Visited, TextShape
<1>2. \A key \in DOMAIN declarations : declarations[key].node \in 1..pos
  BY DEF DeclarationsInv
<1> QED BY <1>1, <1>2

\* A step that declares nothing.
LEMMA QuietKeeps ==
    ASSUME BasicInv, DeclarationsInv, Moves, SameOpen, anon_enum_counter' = anon_enum_counter,
           declarations' = declarations, text[pos + 1].kind \notin Declared
    PROVE  DeclarationsInv'
<1>1. Gives({}, pos + 1)
  BY DEF Gives
<1> QED BY <1>1, DeclareKeeps

LEMMA NamesAreNoLabels ==
    ASSUME BasicInv, DeclarationsInv, pos < Len(text)
    PROVE  /\ \A k \in 0..Len(text) : text[pos + 1].name # Label(k)
           /\ \A k \in 0..Len(text), l \in DOMAIN text[pos + 1].locals : text[pos + 1].locals[l] # Label(k)
           /\ \A k \in 0..(Settled - 1) : k \in 0..Len(text)
           /\ text[pos + 1].kind \in Declared \ {"enum"} => text[pos + 1].name # ""
<1>1. pos + 1 \in 1..Len(text) /\ text \in Texts /\ Len(text) \in Nat
  BY NamesAre, TextIsShaped DEF BasicInv, Visited, TextShape
<1>2. Settled \in 0..Len(text)
  BY SettledIs
<1>3. \A k \in 0..(Settled - 1) : k \in 0..Len(text)
  <2> DEFINE c == Settled
  <2>1. c \in 0..Len(text)
    BY <1>2
  <2> HIDE DEF c
  <2>2. \A k \in 0..(c - 1) : k \in 0..Len(text)
    BY <1>1, <2>1
  <2> QED BY <2>2 DEF c
<1>4. \A k \in 0..Len(text), l \in DOMAIN text[pos + 1].locals : text[pos + 1].locals[l] # Label(k)
  BY <1>1, NamesAssumption
<1>5. \A k \in 0..Len(text) : text[pos + 1].name # Label(k)
  BY <1>1, NamesAssumption
<1>6. text[pos + 1].kind \in Declared \ {"enum"} => text[pos + 1].name # ""
  BY <1>1, NamesAssumption
<1> QED BY <1>3, <1>4, <1>5, <1>6

LEMMA LastOfAppend ==
    ASSUME NEW S, NEW s \in Seq(S), NEW e \in S
    PROVE  Len(Append(s, e)) = Len(s) + 1 /\ Append(s, e)[Len(s) + 1] = e
<1>1. Len(s) \in Nat
  OBVIOUS
<1>2. Append(s, e)[Len(s) + 1] = e
  BY <1>1
<1>3. Len(Append(s, e)) = Len(s) + 1
  BY <1>1
<1> QED BY <1>2, <1>3

\* The key of what is declared inside a container has two names.
LEMMA MemberKey ==
    ASSUME NEW S, NEW key \in Seq(S), Len(key) = 1, NEW name \in S
    PROVE  Len(Append(key, name)) = 2 /\ Last(Append(key, name)) = name
<1>1. Len(Append(key, name)) = Len(key) + 1 /\ Append(key, name)[Len(key) + 1] = name
  BY LastOfAppend
<1> QED BY <1>1 DEF Last

\* A step that declares one item, by its name.
IsNamed(item) ==
    /\ text[pos + 1].kind \in Declared \ {"enum"} /\ item.node = pos + 1
    /\ item.key = IF open # NoItem THEN Append(open.key, text[pos + 1].name)
                  ELSE <<text[pos + 1].name>>

LEMMA NamedKeeps ==
    ASSUME BasicInv, DeclarationsInv, Moves, SameOpen, anon_enum_counter' = anon_enum_counter,
           NEW item, IsNamed(item), Declare(item)
    PROVE  DeclarationsInv'
<1> DEFINE name == text[pos + 1].name
<1>0. /\ text[pos + 1].kind \in Declared \ {"enum"} /\ item.node = pos + 1
      /\ item.key = IF open # NoItem THEN Append(open.key, name) ELSE <<name>>
  BY DEF IsNamed
<1>1. /\ name \in STRING /\ name # "" /\ pos \in Nat
      /\ \A k \in 0..Len(text) : name # Label(k)
      /\ \A k \in 0..(Settled - 1) : k \in 0..Len(text)
  BY <1>0, NamesAre, NamesAreNoLabels DEF Moves
<1>2. /\ Last(item.key) = name /\ Len(item.key) \in {1, 2}
      /\ open # NoItem => Len(item.key) = 2
      /\ \A k \in 0..Len(text) : item.key # <<Label(k)>>
  <2> HIDE DEF name
  <2>1. CASE open = NoItem
    <3>1. item.key = <<name>>
      BY <1>0, <2>1 DEF name
    <3>2. Last(<<name>>) = name /\ Len(<<name>>) = 1
      BY DEF Last
    <3>3. \A k \in 0..Len(text) : <<name>> # <<Label(k)>>
      BY <1>1
    <3> QED BY <2>1, <3>1, <3>2, <3>3
  <2>2. CASE open # NoItem
    <3>1. item.key = Append(open.key, name)
      BY <1>0, <2>2 DEF name
    <3>2. open.key \in Seq(STRING \cup Nat) /\ Len(open.key) = 1 /\ name \in STRING \cup Nat
      BY <1>1, <2>2 DEF BasicInv, OpenShape, Items, Key
    <3>3. Len(Append(open.key, name)) = 2 /\ Last(Append(open.key, name)) = name
      BY <3>2, MemberKey
    <3>4. Len(item.key) = 2 /\ Last(item.key) = name
      BY <3>1, <3>3
    <3>5. ASSUME NEW k \in 0..Len(text) PROVE item.key # <<Label(k)>>
      <4>1. Len(<<Label(k)>>) = 1
        OBVIOUS
      <4> QED BY <3>4, <4>1
    <3> QED BY <3>4, <3>5
  <2> QED BY <2>1, <2>2
<1>3. Gives({item.key}, pos + 1)
  <2>1. \A key \in DOMAIN declarations : declarations[key].node < pos + 1
    BY DeclaredBefore
  <2>2. declarations' = [key \in DOMAIN declarations \cup {item.key} |->
                           IF key = item.key THEN item ELSE declarations[key]]
    BY DEF Declare
  <2> QED BY <1>0, <1>1, <1>2, <2>1, <2>2 DEF Gives
<1>4. KeyOf(item.key, pos + 1, Settled)
  BY <1>1, <1>2 DEF KeyOf
<1>5. \A key \in {item.key} :
         /\ open # NoItem => Len(key) = 2
         /\ text[pos + 1].kind \in Declared => KeyOf(key, pos + 1, Settled)
         /\ text[pos + 1].kind \notin Declared => \A k \in 0..Len(text) : key # <<Label(k)>>
  BY <1>0, <1>2, <1>4
<1> DEFINE keys == {item.key}
<1>6. keys # {} /\ Gives(keys, pos + 1)
  BY <1>3
<1> HIDE DEF keys
<1> QED BY <1>5, <1>6, DeclareKeeps DEF keys

LEMMA VariableDeclares ==
    ASSUME BasicInv, DeclarationsInv, ParseVariable
    PROVE  DeclarationsInv'
<1> DEFINE new == [i \in DOMAIN Node.locals |-> Child(pos + 1, <<Node.locals[i]>>)]
           keys == {v.key : v \in ToSet(new)}
<1>0. \A v \in ToSet(new) : v.node = pos + 1 /\ \E l \in DOMAIN Node.locals : v.key = <<Node.locals[l]>>
  <2> SUFFICES ASSUME NEW v \in ToSet(new)
               PROVE  v.node = pos + 1 /\ \E l \in DOMAIN Node.locals : v.key = <<Node.locals[l]>>
    OBVIOUS
  <2>1. PICK l \in DOMAIN new : v = new[l]
    <3> HIDE DEF new
    <3> QED BY DEF ToSet
  <2>2. l \in DOMAIN Node.locals /\ v = Child(pos + 1, <<Node.locals[l]>>)
    BY <2>1
  <2> HIDE DEF new
  <2>3. v.node = pos + 1 /\ v.key = <<Node.locals[l]>>
    BY <2>2 DEF Child, Item
  <2> QED BY <2>2, <2>3
<1>1. /\ Moves /\ open = NoItem /\ open' = open /\ anon_enum_counter' = anon_enum_counter
      /\ text[pos + 1].kind = "variable" /\ pos \in Nat
  BY NamesAre DEF ParseVariable, At, Moves
<1>2. /\ \A k \in 0..Len(text), l \in DOMAIN Node.locals : Node.locals[l] # Label(k)
      /\ \A k \in 0..(Settled - 1) : k \in 0..Len(text)
  BY <1>1, NamesAreNoLabels DEF Moves, Node
<1>3. ASSUME NEW key \in keys
      PROVE  Len(key) = 1 /\ \A k \in 0..Len(text) : key # <<Label(k)>>
  <2>1. PICK l \in DOMAIN Node.locals : key = <<Node.locals[l]>>
    BY <1>0
  <2>2. Len(key) = 1
    BY <2>1
  <2>3. \A k \in 0..Len(text) : <<Node.locals[l]>> # <<Label(k)>>
    BY <1>2
  <2> QED BY <2>1, <2>2, <2>3
<1>4. \A v \in ToSet(new) : v.node = pos + 1
  BY <1>0
<1>5. declarations' = [key \in DOMAIN declarations \cup keys |->
                         IF \E v \in ToSet(new) : v.key = key
                         THEN CHOOSE v \in ToSet(new) : v.key = key ELSE declarations[key]]
  BY DEF ParseVariable
<1>6. Gives(keys, pos + 1)
  <2>1. \A key \in DOMAIN declarations : declarations[key].node < pos + 1
    BY DeclaredBefore
  <2>2. ASSUME NEW key \in keys PROVE declarations'[key].node = pos + 1
    <3>1. \E v \in ToSet(new) : v.key = key
      OBVIOUS
    <3> HIDE DEF new
    <3>2. declarations'[key] = CHOOSE v \in ToSet(new) : v.key = key
      BY <1>5, <3>1
    <3>3. declarations'[key] \in ToSet(new)
      BY <3>1, <3>2
    <3> QED BY <1>4, <3>3
  <2>3. \A key \in DOMAIN declarations \ keys : declarations'[key] = declarations[key]
    <3> HIDE DEF new
    <3> QED BY <1>5
  <2> HIDE DEF keys
  <2> QED BY <1>2, <1>3, <1>5, <2>1, <2>2, <2>3 DEF Gives
<1>7. "variable" \notin Declared
  BY DEF Declared, Containers
<1> HIDE DEF keys
<1> QED BY <1>1, <1>3, <1>6, <1>7, DeclareKeeps DEF SameOpen

\* A container that is read is not declared yet, but its name is taken.
OpensNamed(item) ==
    /\ text[pos + 1].name # "" /\ item.key = <<text[pos + 1].name>>
    /\ anon_enum_counter' = anon_enum_counter
OpensNumbered(item) ==
    /\ text[pos + 1].name = "" /\ item.key = <<Label(anon_enum_counter)>>
    /\ anon_enum_counter' = anon_enum_counter + 1

LEMMA OpenDeclares ==
    ASSUME BasicInv, DeclarationsInv, NEW item, Opens(item), declarations' = declarations,
           OpensNamed(item) \/ OpensNumbered(item)
    PROVE  DeclarationsInv'
<1>1. /\ pos \in Nat /\ pos' = pos + 1 /\ text' = text /\ open = NoItem /\ open' = item
      /\ item.node = pos + 1 /\ Visited /\ anon_enum_counter \in Nat
  BY TextIsShaped, SettledIs DEF BasicInv, Visited, TextShape, Opens, Moves, Fits
<1>2. KeysAre /\ OpenKeyed /\ BeforeOpen /\ AllDeclared
  BY DeclarationsParts
<1>3. open' # NoItem /\ open'.node = pos + 1
  BY <1>1 DEF NoItem
<1>4. Settled = anon_enum_counter
  BY <1>1 DEF Settled, OpenUnnamed
<1>5. Settled' = anon_enum_counter
  <2>1. Settled' = IF text[pos + 1].name = "" THEN anon_enum_counter' - 1 ELSE anon_enum_counter'
    BY <1>1, <1>3 DEF Settled, OpenUnnamed
  <2>2. CASE OpensNamed(item)
    BY <2>1, <2>2 DEF OpensNamed
  <2>3. CASE OpensNumbered(item)
    <3>1. Settled' = anon_enum_counter' - 1
      BY <2>1, <2>3 DEF OpensNumbered
    <3>2. anon_enum_counter' = anon_enum_counter + 1
      BY <2>3 DEF OpensNumbered
    <3>3. anon_enum_counter \in Nat
      BY <1>1
    <3> QED BY <3>1, <3>2, <3>3
  <2> QED BY <2>2, <2>3
<1>6. Gives({}, pos + 1) /\ pos + 1 \in Nat /\ pos + 1 \in 1..pos'
  BY <1>1 DEF Gives
<1>7. KeysAre'
  BY <1>1, <1>2, <1>4, <1>5, <1>6, KeysKeep
<1>8. OpenKeyed'
  <2>1. CASE OpensNamed(item)
    BY <1>1, <1>3, <2>1 DEF OpenKeyed, OpensNamed
  <2>2. CASE OpensNumbered(item)
    <3>0. anon_enum_counter' = anon_enum_counter + 1 /\ anon_enum_counter \in Nat
      BY <1>1, <2>2 DEF OpensNumbered
    <3>1. anon_enum_counter' > 0 /\ anon_enum_counter' - 1 = anon_enum_counter
      BY <3>0
    <3> QED BY <1>1, <1>3, <2>2, <3>1 DEF OpenKeyed, OpensNumbered
  <2> QED BY <2>1, <2>2
<1>9. BeforeOpen'
  BY <1>1, <1>2, <1>3 DEF BeforeOpen, KeysAre
<1>10. AllDeclared'
  <2> SUFFICES ASSUME NEW i \in 1..(pos + 1), text[i].kind \in Declared, i # pos + 1
               PROVE  IsDeclared(i)'
    BY <1>1, <1>3 DEF AllDeclared
  <2>1. i \in 1..pos
    BY <1>1
  <2>2. IsDeclared(i)
    BY <1>1, <1>2, <2>1 DEF AllDeclared
  <2> QED BY <1>1, <1>2, <1>6, <2>1, <2>2, GivesKeeps
<1>11. (KeysAre /\ OpenKeyed /\ BeforeOpen /\ AllDeclared => DeclarationsInv)'
  BY DeclarationsParts, PTL
<1> QED BY <1>7, <1>8, <1>9, <1>10, <1>11

LEMMA EnumDeclares ==
    ASSUME BasicInv, DeclarationsInv, OpenContainer \/ OpenEnum
    PROVE  DeclarationsInv'
<1> DEFINE name == IF text[pos + 1].name = "" THEN Label(anon_enum_counter) ELSE text[pos + 1].name
<1>1. At(Containers, FALSE) /\ text[pos + 1].inside = (open # NoItem) /\ open = NoItem /\ pos < Len(text)
  BY NamesAre DEF OpenContainer, OpenEnum, At, Containers
<1>2. text[pos + 1].name \in STRING /\ name \in STRING
  <2>1. text[pos + 1].name \in STRING
    BY <1>1, NamesAre
  <2>2. text \in Texts /\ anon_enum_counter \in 0..Len(text)
    BY TextIsShaped DEF BasicInv, Visited, TextShape
  <2> QED BY <2>1, <2>2, NamesAssumption
<1>3. /\ open' = Here(name) /\ comments' = <<>> /\ deprecated' = deprecated /\ sp_items' = sp_items
      /\ declarations' = declarations
      /\ \/ text[pos + 1].name # "" /\ anon_enum_counter' = anon_enum_counter
         \/ text[pos + 1].name = "" /\ anon_enum_counter' = anon_enum_counter + 1
  <2>1. CASE OpenContainer
    <3>1. text[pos + 1].kind \in Declared \ {"enum"}
      BY <2>1 DEF OpenContainer, At, Declared
    <3>2. text[pos + 1].name # ""
      BY <1>1, <3>1, NamesAreNoLabels
    <3> QED BY <2>1, <3>2 DEF OpenContainer, Node
  <2>2. CASE OpenEnum
    <3>1. open' = Here(name) /\ comments' = <<>> /\ deprecated' = deprecated /\ sp_items' = sp_items
          /\ declarations' = declarations
      BY <2>2 DEF OpenEnum, EnumName, Node
    <3>2. anon_enum_counter' = anon_enum_counter + (IF Node.name = "" THEN 1 ELSE 0)
      BY <2>2 DEF OpenEnum
    <3>3. anon_enum_counter \in Nat
      BY SettledIs
    <3>4. CASE Node.name = ""
      BY <3>1, <3>2, <3>4 DEF Node
    <3>5. CASE Node.name # ""
      <4>1. anon_enum_counter' = anon_enum_counter + 0
        BY <3>2, <3>5
      <4>2. anon_enum_counter' = anon_enum_counter
        BY <3>3, <4>1
      <4> QED BY <3>1, <3>5, <4>2 DEF Node
    <3> QED BY <3>4, <3>5
  <2> QED BY <2>1, <2>2
<1>4. Here(name).key = <<name>>
  BY <1>1, <1>2, HereIs
<1>5. /\ text[pos + 1].name # "" => name = text[pos + 1].name
      /\ text[pos + 1].name = "" => name = Label(anon_enum_counter)
  OBVIOUS
<1> HIDE DEF name
<1>6. Opens(Here(name))
  BY <1>1, <1>2, <1>3, ContainerOpens
<1>7. OpensNamed(Here(name)) \/ OpensNumbered(Here(name))
  BY <1>3, <1>4, <1>5 DEF OpensNamed, OpensNumbered
<1> QED BY <1>3, <1>6, <1>7, OpenDeclares

\* What is read is declared under a key that only what came before has.
LEMMA CloseDeclares ==
    ASSUME BasicInv, DeclarationsInv, CloseContainer
    PROVE  DeclarationsInv'
<1>1. /\ open # NoItem /\ open' = NoItem /\ text' = text /\ pos' = pos /\ pos \in Nat
      /\ anon_enum_counter' = anon_enum_counter /\ anon_enum_counter \in 0..Len(text)
      /\ open.node \in 1..pos /\ open.node \in Nat /\ Len(open.key) = 1
      /\ Visited /\ text \in Texts /\ Len(text) \in Nat /\ open.node \in 1..Len(text)
      /\ text[open.node].kind \in Declared
  <2>1. /\ open # NoItem /\ open' = NoItem /\ text' = text /\ pos' = pos
        /\ anon_enum_counter' = anon_enum_counter
    BY DEF CloseContainer
  <2>2. /\ Visited /\ text \in Texts /\ Len(text) \in Nat /\ pos \in 0..Len(text)
        /\ anon_enum_counter \in 0..pos
    BY TextIsShaped DEF BasicInv, Visited, TextShape
  <2>3. open.node \in 1..pos /\ Len(open.key) = 1 /\ text[open.node].kind \in Containers
    BY <2>1 DEF BasicInv, OpenShape
  <2> QED BY <2>1, <2>2, <2>3 DEF Declared
<1>2. KeysAre /\ OpenKeyed /\ BeforeOpen /\ AllDeclared
  BY DeclarationsParts
<1>3. Settled' = anon_enum_counter /\ Settled \in Int /\ Settled' \in Int /\ Settled' >= Settled
  <2>1. Settled' = anon_enum_counter'
    BY <1>1 DEF Settled, OpenUnnamed
  <2>2. Settled \in 0..Len(text) /\ Settled <= anon_enum_counter
    BY SettledIs
  <2> DEFINE c == Settled
             d == Settled'
  <2>3. d = anon_enum_counter /\ c \in 0..Len(text) /\ c <= anon_enum_counter
    BY <1>1, <2>1, <2>2
  <2> HIDE DEF c, d
  <2>4. d = anon_enum_counter /\ c \in Int /\ d \in Int /\ d >= c
    BY <1>1, <2>3
  <2> QED BY <2>4 DEF c, d
<1>4. \A k \in 0..(Settled - 1) : open.key # <<Label(k)>>
  <2>1. CASE text[open.node].name # ""
    <3>1. open.key = <<text[open.node].name>>
      BY <1>1, <1>2, <2>1 DEF OpenKeyed
    <3>2. \A k \in 0..Len(text) : text[open.node].name # Label(k)
      BY <1>1, NamesAssumption
    <3>3. \A k \in 0..(Settled - 1) : k \in 0..Len(text)
      <4> DEFINE c == Settled
      <4>1. c \in 0..Len(text)
        BY SettledIs
      <4> HIDE DEF c
      <4>2. \A k \in 0..(c - 1) : k \in 0..Len(text)
        BY <1>1, <4>1
      <4> QED BY <4>2 DEF c
    <3> QED BY <3>1, <3>2, <3>3
  <2>2. CASE text[open.node].name = ""
    <3>1. anon_enum_counter > 0 /\ open.key = <<Label(anon_enum_counter - 1)>>
      BY <1>1, <1>2, <2>2 DEF OpenKeyed
    <3>2. Settled = anon_enum_counter - 1
      BY <1>1, <2>2 DEF Settled, OpenUnnamed
    <3>3. \A j, k \in 0..Len(text) : Label(j) = Label(k) => j = k
      BY <1>1, NamesAssumption
    <3>4. ASSUME NEW k \in 0..(anon_enum_counter - 2) PROVE Label(anon_enum_counter - 1) # Label(k)
      <4>1. k \in 0..Len(text) /\ anon_enum_counter - 1 \in 0..Len(text) /\ k # anon_enum_counter - 1
        BY <1>1, <3>1
      <4> QED BY <3>3, <4>1
    <3>5. \A k \in 0..((anon_enum_counter - 1) - 1) : k \in 0..(anon_enum_counter - 2)
      BY <1>1
    <3> QED BY <3>1, <3>2, <3>4, <3>5
  <2> QED BY <2>1, <2>2
<1>5. declarations' = [key \in DOMAIN declarations \cup {open.key} |->
                         IF key = open.key THEN open ELSE declarations[key]]
  BY DEF CloseContainer, Declare
<1>6. Gives({open.key}, open.node)
  <2>1. open.key \in DOMAIN declarations => declarations[open.key].node < open.node
    BY <1>1, <1>2 DEF BeforeOpen
  <2> QED BY <1>1, <1>4, <1>5, <2>1 DEF Gives
<1>7. KeyOf(open.key, open.node, Settled')
  <2>1. CASE text[open.node].name # ""
    <3>1. open.key = <<text[open.node].name>>
      BY <1>1, <1>2, <2>1 DEF OpenKeyed
    <3>2. \A x : Last(<<x>>) = x
      BY DEF Last
    <3> QED BY <2>1, <3>1, <3>2 DEF KeyOf
  <2>2. CASE text[open.node].name = ""
    <3>1. anon_enum_counter > 0 /\ open.key = <<Label(anon_enum_counter - 1)>>
      BY <1>1, <1>2, <2>2 DEF OpenKeyed
    <3>2. anon_enum_counter - 1 \in 0..(anon_enum_counter - 1)
      BY <1>1, <3>1
    <3> QED BY <1>3, <2>2, <3>1, <3>2 DEF KeyOf
  <2> QED BY <2>1, <2>2
<1>8. KeysAre'
  BY <1>1, <1>2, <1>3, <1>6, <1>7, KeysKeep
<1>9. OpenKeyed' /\ BeforeOpen'
  BY <1>1 DEF OpenKeyed, BeforeOpen
<1>10. AllDeclared'
  <2> SUFFICES ASSUME NEW i \in 1..pos, text[i].kind \in Declared PROVE IsDeclared(i)'
    BY <1>1 DEF AllDeclared
  <2>1. CASE i = open.node
    <3>1. open.key \in DOMAIN declarations' /\ declarations'[open.key].node = i
      BY <1>5, <2>1
    <3> QED BY <3>1 DEF IsDeclared
  <2>2. CASE i # open.node
    <3>1. IsDeclared(i)
      BY <1>2, <2>2 DEF AllDeclared
    <3> QED BY <1>1, <1>2, <1>6, <3>1, GivesKeeps
  <2> QED BY <2>1, <2>2
<1>11. (KeysAre /\ OpenKeyed /\ BeforeOpen /\ AllDeclared => DeclarationsInv)'
  BY DeclarationsParts, PTL
<1> QED BY <1>8, <1>9, <1>10, <1>11

LEMMA PushIsMoved ==
    ASSUME BasicInv, NEW item, Pushes(item)
    PROVE  Moves /\ SameOpen /\ anon_enum_counter' = anon_enum_counter /\ item.node = pos + 1
BY PushSameOpen DEF Pushes, Fits

LEMMA DeclaredNext == WalkInv /\ DeclarationsInv /\ [Next]_vars => DeclarationsInv'
<1> SUFFICES ASSUME WalkInv, DeclarationsInv, [Next]_vars PROVE DeclarationsInv'
  OBVIOUS
<1>1. BasicInv /\ DocsInv
  BY DEF WalkInv
<1>2. CASE Comment
  <2>1. Moves /\ anon_enum_counter' = anon_enum_counter /\ declarations' = declarations
    BY <1>1, <1>2, NamesAre DEF Comment, At, Moves
  <2>2. text[pos + 1].kind \notin Declared
    BY <1>2 DEF Comment, At, Declared, Containers
  <2>3. SameOpen
    <3>1. \/ open' = open
          \/ open # NoItem /\ open'.node = open.node /\ open'.key = open.key
      BY <1>1, <1>2, CommentGoes
    <3>2. CASE open # NoItem /\ open'.node = open.node /\ open'.key = open.key
      <4>1. open.node \in 1..pos /\ pos \in Nat
        BY <1>1, <3>2, TextIsShaped DEF BasicInv, OpenShape, Visited, TextShape
      <4>2. open'.node # 0
        BY <3>2, <4>1
      <4>3. open' # NoItem
        BY <4>2 DEF NoItem
      <4> QED BY <3>2, <4>3 DEF SameOpen
    <3> QED BY <3>1, <3>2 DEF SameOpen
  <2> QED BY <1>1, <2>1, <2>2, <2>3, QuietKeeps
<1>3. CASE PushDeprecated
  <2>1. /\ Moves /\ anon_enum_counter' = anon_enum_counter /\ declarations' = declarations
        /\ SameOpen
    BY <1>1, <1>3, NamesAre DEF PushDeprecated, At, Moves, SameOpen
  <2>2. text[pos + 1].kind \notin Declared
    BY <1>3 DEF PushDeprecated, At, Declared, Containers
  <2> QED BY <1>1, <2>1, <2>2, QuietKeeps
<1>4. CASE ParseFunction
  <2>1. PICK item : Pushes(item) /\ item.key = Here(Node.name).key /\ Declare(item)
    BY <1>1, <1>4, FunctionPushes
  <2>2. Moves /\ SameOpen /\ anon_enum_counter' = anon_enum_counter /\ item.node = pos + 1
    BY <1>1, <2>1, PushIsMoved
  <2>3. IsNamed(item)
    <3>1. text[pos + 1].kind \in Declared \ {"enum"}
      BY <1>4 DEF ParseFunction, At, Declared, Containers
    <3>2. item.key = IF open # NoItem THEN Append(open.key, Node.name) ELSE <<Node.name>>
      BY <1>1, <2>1, <2>2, NamesAre, HereIs DEF Moves, Node
    <3> QED BY <2>2, <3>1, <3>2 DEF IsNamed, Node
  <2> QED BY <1>1, <2>1, <2>2, <2>3, NamedKeeps
<1>5. CASE ParseVariable
  BY <1>1, <1>5, VariableDeclares
<1>6. CASE ParseDefine
  <2> DEFINE item == Item(pos + 1, <<Node.name>>, FindTrailing(Node.row, comments))
  <2>1. Pushes(item) /\ Declare(item) /\ item.key = <<Node.name>>
    BY <1>1, <1>6, DefinePushes DEF ParseDefine, Item
  <2> HIDE DEF item
  <2>2. Moves /\ SameOpen /\ anon_enum_counter' = anon_enum_counter /\ item.node = pos + 1
    BY <1>1, <2>1, PushIsMoved
  <2>3. IsNamed(item)
    <3>1. text[pos + 1].kind \in Declared \ {"enum"} /\ open = NoItem
      BY <1>6, <2>2 DEF ParseDefine, At, Declared, Containers, Moves
    <3> QED BY <2>1, <2>2, <3>1 DEF IsNamed, Node
  <2> QED BY <1>1, <2>1, <2>2, <2>3, NamedKeeps
<1>7. CASE ParseTypedef \/ ParseProperty
  <2> DEFINE item == Here(Node.name)
  <2>1. Pushes(item) /\ Declare(item)
    BY <1>1, <1>7, TypedefPushes DEF ParseTypedef, ParseProperty
  <2> HIDE DEF item
  <2>2. Moves /\ SameOpen /\ anon_enum_counter' = anon_enum_counter /\ item.node = pos + 1
    BY <1>1, <2>1, PushIsMoved
  <2>3. IsNamed(item)
    <3>1. text[pos + 1].kind \in Declared \ {"enum"}
      BY <1>7 DEF ParseTypedef, ParseProperty, At, Declared, Containers
    <3>2. item.key = IF open # NoItem THEN Append(open.key, Node.name) ELSE <<Node.name>>
      BY <1>1, <2>2, NamesAre, HereIs DEF Moves, Node, item
    <3> QED BY <2>2, <3>1, <3>2 DEF IsNamed, Node
  <2> QED BY <1>1, <2>1, <2>2, <2>3, NamedKeeps
<1>8. CASE OpenContainer \/ OpenEnum
  BY <1>1, <1>8, EnumDeclares
<1>9. CASE ReadEnumEntry \/ ParseEnumStructField \/ ParseTypesetExpression
  <2>1. PICK item : Pushes(item)
    BY <1>1, <1>9, MemberPushes, ExpressionPushes
  <2>2. Moves /\ SameOpen /\ anon_enum_counter' = anon_enum_counter
    BY <1>1, <2>1, PushIsMoved
  <2>3. text[pos + 1].kind \notin Declared /\ declarations' = declarations
    BY <1>9 DEF ReadEnumEntry, ParseEnumStructField, ParseTypesetExpression, At, Declared, Containers
  <2> QED BY <1>1, <2>2, <2>3, QuietKeeps
<1>10. CASE CloseContainer
  BY <1>1, <1>10, CloseDeclares
<1>11. CASE UNCHANGED vars
  BY <1>11 DEF vars, DeclarationsInv, KeyOf, Settled, OpenUnnamed, IsDeclared, Replaced
<1> QED BY <1>2, <1>3, <1>4, <1>5, <1>6, <1>7, <1>8, <1>9, <1>10, <1>11 DEF Next

LEMMA DeclaredInit == Init => DeclarationsInv
<1> SUFFICES ASSUME Init PROVE DeclarationsInv
  OBVIOUS
<1>1. open = NoItem /\ pos = 0 /\ DOMAIN declarations = {}
  BY DEF Init
<1>2. \A i \in 1..pos : FALSE
  BY <1>1
<1> QED BY <1>1, <1>2 DEF DeclarationsInv

LEMMA DeclaredAlways == Spec => [](WalkInv /\ DeclarationsInv)
BY WalkInit, WalkNext, DeclaredInit, DeclaredNext, PTL DEF Spec

\* Once a text is read, what it declares is declared, or gave way to a later
\* declaration of the same name.  The invariant is that the numbers of the
\* enums that were read are below the counter, so that none is given twice,
\* and that what was declared under the key of the container that is read was
\* declared before it, so that it is the later one that stays.
THEOREM ItemsAreDeclared == Spec => []EveryItemIsDeclared
<1>1. ASSUME BasicInv, DeclarationsInv PROVE EveryItemIsDeclared
  <2> SUFFICES ASSUME Done, NEW i \in 1..Len(text), text[i].kind \in Declared
               PROVE  \E key \in DOMAIN declarations :
                        \/ declarations[key].node = i
                        \/ text[i].name # "" /\ Last(key) = text[i].name /\ declarations[key].node > i
    BY DEF EveryItemIsDeclared
  <2>1. pos = Len(text) /\ open = NoItem
    BY DEF Done
  <2>2. IsDeclared(i)
    BY <1>1, <2>1 DEF DeclarationsInv
  <2> QED BY <2>2 DEF IsDeclared, Replaced
<1> QED BY <1>1, DeclaredAlways, PTL DEF WalkInv
=============================================================================
