------------------------- MODULE Preprocessor_proofs -------------------------
(***************************************************************************)
(* Proofs about module Preprocessor, for any documents, texts and nesting  *)
(* of includes: its types, that an include that is being read is not read  *)
(* again, that lines and rows stay in step, and that the lines which are   *)
(* kept are those of the selected branches.                                *)
(*                                                                         *)
(* The second half is about module Evaluator, for any table of macros, any *)
(* conditions and any width of integers: BalancedIsSafe.                   *)
(***************************************************************************)
EXTENDS Preprocessor, Evaluator, Induction, SequenceTheorems

(* What is true of one preprocessor: it has read the lines before pos, and *)
(* has a row for each when they take one row each.                         *)
FrameInSync(f) ==
    /\ f.pos <= Len(f.text) + 1
    /\ f.pos = 0 => f.at = <<>> /\ f.out = <<>>
    /\ f.pos > 0 => Len(f.at) = f.pos - 1
    /\ f.pos > 0 /\ OneRow(f.text) => Len(f.out) = f.pos - 1

(* The inductive invariant.  Only the first preprocessor is of a document  *)
(* that was opened: all the others hold their document busy, one each.     *)
OpenedFirst == \A k \in DOMAIN stack : stack[k].opened <=> k = 1
BusyBelow == \A k \in DOMAIN stack : k # 1 => store[stack[k].doc].busy
OneEach == \A j, k \in DOMAIN stack :
              j # 1 /\ k # 1 /\ stack[j].doc = stack[k].doc => j = k
AllInSync == \A k \in DOMAIN stack : FrameInSync(stack[k])
Inv == TypeOK /\ OpenedFirst /\ BusyBelow /\ OneEach /\ AllInSync

USE DEF Kept, Blank

-----------------------------------------------------------------------------
(* Rows(n, row) is n rows.                                                 *)
LEMMA RowsType ==
    ASSUME NEW n \in Nat, NEW row \in {Kept, Blank}
    PROVE  Rows(n, row) \in Seq({Kept, Blank}) /\ Len(Rows(n, row)) = n
BY DEF Rows

(* A line that is done leaves a preprocessor of the same document, one     *)
(* line further, with the rows of the line.                                *)
LEMMA AdvancedType ==
    ASSUME NEW f \in Frame, f.pos \in Nat \ {0}, f.pos <= Len(f.text), FrameInSync(f),
           NEW conds \in Seq(ConditionState), NEW macros \in SUBSET Name,
           NEW rows \in Seq({Kept, Blank}), NEW disabled \in BOOLEAN,
           OneRow(f.text) => Len(rows) = 1
    PROVE  LET g == Advanced(f, conds, macros, rows, disabled)
           IN  /\ g \in Frame /\ FrameInSync(g)
               /\ g.doc = f.doc /\ g.opened = f.opened
<1> DEFINE g == Advanced(f, conds, macros, rows, disabled)
           skipped == IF disabled THEN f.skipped \cup {f.pos} ELSE f.skipped
           out == f.out \o rows
           at == Append(f.at, f.macros)
<1>1. f.pos + 1 \in Nat /\ skipped \in SUBSET Nat
      BY DEF Frame
<1>2. out \in Seq({Kept, Blank}) /\ Len(out) = Len(f.out) + Len(rows)
      BY DEF Frame
<1>3. at \in Seq(SUBSET Name) /\ Len(at) = Len(f.at) + 1
      BY DEF Frame
<1>4. g = [f EXCEPT !.pos = f.pos + 1, !.conds = conds, !.macros = macros,
                    !.out = out, !.skipped = skipped, !.at = at]
      BY DEF Advanced, Frame
<1>5. /\ g \in Frame
      /\ g.doc = f.doc /\ g.opened = f.opened /\ g.text = f.text
      /\ g.pos = f.pos + 1 /\ g.out = out /\ g.at = at
  <2> HIDE DEF skipped, out, at, g
  <2> QED BY <1>1, <1>2, <1>3, <1>4 DEF Frame
<1>6. Len(f.text) \in Nat /\ Len(f.out) \in Nat /\ Len(f.at) \in Nat
      BY DEF Frame
<1>7. FrameInSync(g)
  <2> HIDE DEF out, at, g
  <2>1. Len(f.at) = f.pos - 1 /\ (OneRow(f.text) => Len(f.out) = f.pos - 1)
        BY DEF FrameInSync
  <2>2. g.pos <= Len(g.text) + 1 /\ g.pos > 0
        BY <1>5, <1>6
  <2>3. Len(g.at) = g.pos - 1
        BY <2>1, <1>3, <1>5, <1>6
  <2>4. OneRow(g.text) => Len(g.out) = g.pos - 1
    <3>1. ASSUME OneRow(f.text) PROVE Len(g.out) = g.pos - 1
      <4>1. Len(rows) = 1 /\ Len(f.out) = f.pos - 1
            BY <3>1, <2>1, Zenon
      <4> QED BY <4>1, <1>2, <1>5, <1>6
    <3>2. OneRow(g.text) => OneRow(f.text)
          BY <1>5, Zenon
    <3> QED BY <3>1, <3>2
  <2> QED BY <2>2, <2>3, <2>4 DEF FrameInSync
<1> QED BY <1>5, <1>7

(* The preprocessor on top is replaced by one of the same document.        *)
LEMMA Replaced ==
    ASSUME Inv, Running, NEW g \in Frame, FrameInSync(g),
           g.doc = Top.doc, g.opened = Top.opened,
           stack' = [stack EXCEPT ![Len(stack)] = g], UNCHANGED <<store, opens>>
    PROVE  Inv'
<1>1. /\ Len(stack) \in Nat \ {0} /\ stack \in Seq(Frame)
      /\ DOMAIN stack = 1..Len(stack)
      BY DEF Inv, TypeOK, Running
<1>2. /\ stack' \in Seq(Frame) /\ DOMAIN stack' = DOMAIN stack
      /\ \A k \in DOMAIN stack : stack'[k] = IF k = Len(stack) THEN g ELSE stack[k]
      BY <1>1
<1>3. \A k \in DOMAIN stack : stack'[k].doc = stack[k].doc /\ stack'[k].opened = stack[k].opened
      BY <1>1, <1>2 DEF Top
<1>4. TypeOK'
      BY <1>2 DEF Inv, TypeOK
<1>5. OpenedFirst' /\ BusyBelow' /\ OneEach'
      BY <1>2, <1>3 DEF Inv, OpenedFirst, BusyBelow, OneEach
<1>6. AllInSync'
      BY <1>1, <1>2 DEF Inv, AllInSync
<1> QED BY <1>4, <1>5, <1>6 DEF Inv

(* The preprocessor on top, and the line it reads.                         *)
LEMMA TopType ==
    ASSUME Inv, Running
    PROVE  /\ Len(stack) \in Nat \ {0} /\ Len(stack) \in DOMAIN stack
           /\ Top \in Frame /\ FrameInSync(Top)
<1>1. Len(stack) \in Nat \ {0} /\ Len(stack) \in DOMAIN stack /\ Top \in Frame
      BY DEF Inv, TypeOK, Running, Top
<1>2. FrameInSync(Top)
      BY <1>1 DEF Inv, AllInSync, Top
<1> QED BY <1>1, <1>2

LEMMA CurrentType ==
    ASSUME Inv, Reading
    PROVE  /\ Running /\ Top.pos \in Nat \ {0} /\ Top.pos <= Len(Top.text)
           /\ Current \in Line
           /\ OneRow(Top.text) => Current.rows = 1
<1>1. Running /\ Top.pos \in 1..Len(Top.text)
      BY DEF Reading
<1>2. Top \in Frame
      BY <1>1, TopType
<1>3. Top.text \in Seq(Line) /\ Len(Top.text) \in Nat /\ DOMAIN Top.text = 1..Len(Top.text)
      BY <1>2 DEF Frame
<1>4. Current \in Line
      BY <1>1, <1>3 DEF Current
<1>5. OneRow(Top.text) => Current.rows = 1
      BY <1>1, <1>3 DEF OneRow, Current
<1> QED BY <1>1, <1>3, <1>4, <1>5

(* A line is read.                                                         *)
LEMMA ReadStep ==
    ASSUME Inv, Reading, NEW conds \in Seq(ConditionState), NEW macros \in SUBSET Name,
           NEW n \in Nat, OneRow(Top.text) => n = 1,
           NEW row \in {Kept, Blank}, NEW disabled \in BOOLEAN,
           Read(conds, macros, Rows(n, row), disabled)
    PROVE  Inv'
<1> DEFINE g == Advanced(Top, conds, macros, Rows(n, row), disabled)
<1>1. Running /\ Top.pos \in Nat \ {0} /\ Top.pos <= Len(Top.text)
      BY CurrentType
<1>2. Top \in Frame /\ FrameInSync(Top)
      BY <1>1, TopType
<1>3. Rows(n, row) \in Seq({Kept, Blank}) /\ Len(Rows(n, row)) = n
      BY RowsType
<1>4. OneRow(Top.text) => Len(Rows(n, row)) = 1
      BY <1>3, Zenon
<1>5. g \in Frame /\ FrameInSync(g) /\ g.doc = Top.doc /\ g.opened = Top.opened
      BY <1>1, <1>2, <1>3, <1>4, AdvancedType, ZenonT(60)
<1>6. stack' = [stack EXCEPT ![Len(stack)] = g] /\ UNCHANGED <<store, opens>>
      BY DEF Read
<1> HIDE DEF g
<1> QED BY <1>1, <1>5, <1>6, Replaced

(* The include is behind.                                                  *)
LEMMA PastIncludeType ==
    ASSUME Inv, Including, NEW macros \in SUBSET Name
    PROVE  LET g == PastInclude(macros)
           IN  /\ Running
               /\ g \in Frame /\ FrameInSync(g)
               /\ g.doc = Top.doc /\ g.opened = Top.opened
<1> DEFINE g == PastInclude(macros)
<1>1. CASE Running /\ Top.pos = 0
  <2>1. Top \in Frame /\ FrameInSync(Top)
        BY <1>1, TopType
  <2>2. g = [Top EXCEPT !.pos = 1, !.macros = macros]
        BY <1>1 DEF PastInclude
  <2>3. /\ g \in Frame /\ g.doc = Top.doc /\ g.opened = Top.opened
        /\ g.pos = 1 /\ g.text = Top.text /\ g.out = Top.out /\ g.at = Top.at
    <3> HIDE DEF g
    <3> QED BY <2>1, <2>2 DEF Frame
  <2>4. Top.out = <<>> /\ Top.at = <<>> /\ Len(Top.text) \in Nat
        BY <1>1, <2>1 DEF FrameInSync, Frame
  <2>5. FrameInSync(g)
    <3> HIDE DEF g
    <3> QED BY <2>3, <2>4 DEF FrameInSync
  <2> QED BY <1>1, <2>3, <2>5
<1>2. CASE Reading
  <2>1. /\ Running /\ Top.pos \in Nat \ {0} /\ Top.pos <= Len(Top.text)
        /\ Current \in Line /\ (OneRow(Top.text) => Current.rows = 1)
        BY <1>2, CurrentType
  <2>2. Top \in Frame /\ FrameInSync(Top) /\ Top.conds \in Seq(ConditionState)
        BY <2>1, TopType DEF Frame
  <2>3. Current.rows \in Nat
        BY <2>1 DEF Line
  <2>4. Rows(Current.rows, Kept) \in Seq({Kept, Blank})
          /\ Len(Rows(Current.rows, Kept)) = Current.rows
        BY <2>3, RowsType
  <2>5. OneRow(Top.text) => Len(Rows(Current.rows, Kept)) = 1
        BY <2>1, <2>4, Zenon
  <2>6. FALSE \in BOOLEAN
        OBVIOUS
  <2>7. LET a == Advanced(Top, Top.conds, macros, Rows(Current.rows, Kept), FALSE)
        IN  a \in Frame /\ FrameInSync(a) /\ a.doc = Top.doc /\ a.opened = Top.opened
        BY <2>1, <2>2, <2>4, <2>5, <2>6, AdvancedType, Zenon
  <2>8. g = Advanced(Top, Top.conds, macros, Rows(Current.rows, Kept), FALSE)
        BY <2>1 DEF PastInclude
  <2> QED BY <2>1, <2>7, <2>8
<1> QED BY <1>1, <1>2 DEF Including

-----------------------------------------------------------------------------
LEMMA InitInv == Init => Inv
<1> SUFFICES ASSUME Init PROVE Inv
    OBVIOUS
<1>1. PICK texts \in Projects :
         store = [d \in Doc |-> [text |-> texts[d], macros |-> {}, out |-> <<>>, busy |-> FALSE]]
      BY DEF Init
<1>2. texts \in [Doc -> Seq(Line)]
      BY TextsAssumption
<1>3. store \in [Doc -> Document]
      BY <1>1, <1>2 DEF Document
<1>4. stack = <<>> /\ opens = 0
      BY DEF Init
<1>5. TypeOK
      BY <1>3, <1>4, TextsAssumption DEF TypeOK
<1> QED BY <1>4, <1>5 DEF Inv, OpenedFirst, BusyBelow, OneEach, AllInSync

(* A new preprocessor.                                                     *)
LEMMA NewFrameType ==
    ASSUME NEW d \in Doc, NEW opened \in BOOLEAN, NEW text \in Seq(Line)
    PROVE  LET g == NewFrame(d, opened, text)
           IN  g \in Frame /\ FrameInSync(g) /\ g.doc = d /\ g.opened = opened
<1> DEFINE g == NewFrame(d, opened, text)
<1>1. g \in Frame /\ g.doc = d /\ g.opened = opened /\ g.pos = 0 /\ g.at = <<>> /\ g.out = <<>>
      BY DEF NewFrame, Frame
<1>2. Len(g.text) \in Nat
      BY DEF NewFrame
<1>3. FrameInSync(g)
  <2> HIDE DEF g
  <2> QED BY <1>1, <1>2 DEF FrameInSync
<1> QED BY <1>1, <1>3

LEMMA OpenStep ==
    ASSUME Inv, NEW d \in Doc, NEW text \in Edits[d] \cup {store[d].text}, Open(d, text)
    PROVE  Inv'
<1> DEFINE g == NewFrame(d, TRUE, text)
<1>1. text \in Seq(Line)
      BY TextsAssumption DEF Inv, TypeOK, Document
<1>2. g \in Frame /\ FrameInSync(g) /\ g.doc = d /\ g.opened = TRUE
      BY <1>1, NewFrameType
<1>3. stack' = <<g>> /\ store' = store /\ opens' \in 0..MaxOpens
      BY TextsAssumption DEF Open, Inv, TypeOK
<1> HIDE DEF g
<1>4. stack' \in Seq(Frame) /\ DOMAIN stack' = {1} /\ stack'[1] = g
      BY <1>2, <1>3
<1>5. TypeOK'
      BY <1>3, <1>4 DEF Inv, TypeOK
<1> QED BY <1>2, <1>4, <1>5 DEF Inv, OpenedFirst, BusyBelow, OneEach, AllInSync

-----------------------------------------------------------------------------
(* An include that is not read yet: its document was not busy, so that no  *)
(* preprocessor but the first can be of it.                                *)
LEMMA IncludeNewStep ==
    ASSUME Inv, IncludeNew
    PROVE  Inv'
<1> DEFINE n == Len(stack)
           g == PastInclude(Top.macros)
           h == NewFrame(Target, FALSE, store[Target].text)
<1>1. /\ Running /\ Target \in Doc /\ ~store[Target].busy
      /\ store' = [store EXCEPT ![Target].busy = TRUE]
      /\ stack' = Append([stack EXCEPT ![n] = g], h) /\ opens' = opens
      BY DEF IncludeNew, Including, Reading, Preprocessed
<1>2. n \in Nat \ {0} /\ n \in DOMAIN stack /\ Top \in Frame /\ Top.macros \in SUBSET Name
      BY <1>1, TopType DEF Frame
<1>3. g \in Frame /\ FrameInSync(g) /\ g.doc = Top.doc /\ g.opened = Top.opened
      BY <1>2, PastIncludeType DEF IncludeNew
<1>4. store[Target].text \in Seq(Line)
      BY <1>1 DEF Inv, TypeOK, Document
<1>5. h \in Frame /\ FrameInSync(h) /\ h.doc = Target /\ h.opened = FALSE
      BY <1>1, <1>4, NewFrameType
<1> HIDE DEF g, h
<1>6. stack \in Seq(Frame) /\ DOMAIN stack = 1..n /\ stack[n] = Top
      BY <1>2 DEF Inv, TypeOK, Top
<1>7. /\ stack' \in Seq(Frame) /\ DOMAIN stack' = 1..(n + 1) /\ stack'[n + 1] = h
      /\ \A k \in 1..n : stack'[k] = IF k = n THEN g ELSE stack[k]
  <2> DEFINE mid == [stack EXCEPT ![n] = g]
  <2>1. /\ mid \in Seq(Frame) /\ Len(mid) = n
        /\ \A k \in 1..n : mid[k] = IF k = n THEN g ELSE stack[k]
        BY <1>2, <1>3, <1>6
  <2>2. stack' = Append(mid, h)
        BY <1>1
  <2> HIDE DEF mid, n
  <2> QED BY <1>2, <1>5, <2>1, <2>2
<1> HIDE DEF n
<1>8. \A k \in 1..n : stack'[k].doc = stack[k].doc /\ stack'[k].opened = stack[k].opened
      BY <1>3, <1>6, <1>7
<1>9. /\ store' \in [Doc -> Document]
      /\ \A d \in Doc : store'[d].busy = (store[d].busy \/ d = Target)
      BY <1>1 DEF Inv, TypeOK, Document
<1>10. TypeOK'
       BY <1>1, <1>7, <1>9 DEF Inv, TypeOK
<1>11. OpenedFirst'
  <2>1. \A k \in 1..n : stack[k].opened <=> k = 1
        BY <1>6 DEF Inv, OpenedFirst
  <2>2. \A k \in 1..n : stack'[k].opened <=> k = 1
        BY <1>8, <2>1
  <2>3. ~stack'[n + 1].opened /\ n + 1 # 1
        BY <1>2, <1>5, <1>7
  <2>4. \A k \in 1..(n + 1) : k \in 1..n \/ k = n + 1
        BY <1>2
  <2> QED BY <1>7, <2>2, <2>3, <2>4 DEF OpenedFirst
<1>12. \A k \in 1..n : stack[k].doc \in Doc /\ (k # 1 => store[stack[k].doc].busy)
  <2>1. \A k \in 1..n : stack[k] \in Frame
        BY <1>6 DEF n
  <2>2. \A k \in 1..n : stack[k].doc \in Doc
        BY <2>1 DEF Frame
  <2>3. \A k \in 1..n : k # 1 => store[stack[k].doc].busy
        BY <1>6, Zenon DEF Inv, BusyBelow
  <2> QED BY <2>2, <2>3
<1>13. BusyBelow'
  <2>1. \A k \in 1..n : k # 1 => store'[stack'[k].doc].busy
        BY <1>8, <1>9, <1>12
  <2>2. store'[stack'[n + 1].doc].busy
        BY <1>1, <1>5, <1>7, <1>9
  <2>3. \A k \in 1..(n + 1) : k \in 1..n \/ k = n + 1
        BY <1>2
  <2> QED BY <1>7, <2>1, <2>2, <2>3 DEF BusyBelow
<1>14. OneEach'
  <2>1. \A k \in 1..n : k # 1 => stack'[k].doc # stack'[n + 1].doc
        BY <1>1, <1>5, <1>7, <1>8, <1>12
  <2>2. \A j, k \in 1..n : j # 1 /\ k # 1 /\ stack'[j].doc = stack'[k].doc => j = k
        BY <1>6, <1>8 DEF Inv, OneEach
  <2>3. \A k \in 1..(n + 1) : k \in 1..n \/ k = n + 1
        BY <1>2
  <2> QED BY <1>7, <2>1, <2>2, <2>3 DEF OneEach
<1>15. AllInSync'
  <2>1. \A k \in 1..n : FrameInSync(stack[k])
        BY <1>6 DEF Inv, AllInSync
  <2>2. \A k \in 1..n : FrameInSync(stack'[k])
    <3>1. ASSUME NEW k \in 1..n PROVE FrameInSync(stack'[k])
      <4>1. CASE k = n
            BY <4>1, <1>3, <1>7, Zenon
      <4>2. CASE k # n
            BY <4>2, <2>1, <1>7, Zenon
      <4> QED BY <4>1, <4>2
    <3> QED BY <3>1
  <2>3. FrameInSync(stack'[n + 1])
        BY <1>5, <1>7, Zenon
  <2>4. \A k \in 1..(n + 1) : k \in 1..n \/ k = n + 1
        BY <1>2
  <2> QED BY <1>7, <2>2, <2>3, <2>4, Zenon DEF AllInSync
<1> QED BY <1>10, <1>11, <1>13, <1>14, <1>15 DEF Inv

(* A document is done: it gives its text and macros to the store, and its  *)
(* macros to the preprocessor below, which goes on.                        *)
LEMMA ReturnStep ==
    ASSUME Inv, Running, NEW out \in Seq({Kept, Blank}), Return(out)
    PROVE  Inv'
<1> DEFINE n == Len(stack)
           g == [stack[n - 1] EXCEPT !.macros = @ \cup Top.macros]
           e == [text |-> Top.text, macros |-> Top.macros, out |-> out, busy |-> ~Top.opened]
<1>1. /\ n \in Nat \ {0} /\ n \in DOMAIN stack
      /\ Top \in Frame /\ stack \in Seq(Frame) /\ DOMAIN stack = 1..n /\ Top = stack[n]
      BY TopType DEF Inv, TypeOK, Top
<1>2. e \in Document /\ e.busy = ~Top.opened /\ Top.doc \in Doc
      BY <1>1 DEF Document, Frame
<1>3. store' = [store EXCEPT ![Top.doc] = e] /\ opens' = opens
      BY DEF Return
<1>4. n # 1 => stack' = [i \in 1..(n - 1) |-> IF i = n - 1 THEN g ELSE stack[i]]
      BY DEF Return
<1>5. n = 1 => stack' = <<>>
      BY DEF Return
<1> HIDE DEF e
<1>6. store' \in [Doc -> Document]
      /\ \A d \in Doc : store'[d].busy = IF d = Top.doc THEN ~Top.opened ELSE store[d].busy
      BY <1>2, <1>3 DEF Inv, TypeOK
<1>7. CASE n = 1
  <2>1. stack' = <<>>
        BY <1>5, <1>7
  <2>2. TypeOK'
        BY <1>3, <1>6, <2>1 DEF Inv, TypeOK
  <2> QED BY <2>1, <2>2 DEF Inv, OpenedFirst, BusyBelow, OneEach, AllInSync
<1>8. CASE n # 1
  <2>1. stack[n - 1] \in Frame /\ n - 1 \in 1..n /\ n - 1 \in Nat \ {0}
        BY <1>1, <1>8
  <2>2. /\ g \in Frame /\ g.doc = stack[n - 1].doc /\ g.opened = stack[n - 1].opened
        /\ g.pos = stack[n - 1].pos /\ g.text = stack[n - 1].text
        /\ g.out = stack[n - 1].out /\ g.at = stack[n - 1].at
    <3> DEFINE f == stack[n - 1]
               m == f.macros \cup Top.macros
    <3>1. f \in Frame /\ m \in SUBSET Name
          BY <1>1, <2>1 DEF Frame
    <3>2. g = [f EXCEPT !.macros = m]
          BY <3>1 DEF Frame
    <3> HIDE DEF f, m, g
    <3>3. /\ g \in Frame /\ g.doc = f.doc /\ g.opened = f.opened /\ g.pos = f.pos
          /\ g.text = f.text /\ g.out = f.out /\ g.at = f.at
          BY <3>1, <3>2 DEF Frame
    <3> QED BY <3>3 DEF f
  <2>3. FrameInSync(stack[n - 1])
        BY <1>1, <2>1 DEF Inv, AllInSync
  <2> HIDE DEF g
  <2>4. FrameInSync(g)
        BY <2>2, <2>3 DEF FrameInSync
  <2>5. stack' = [i \in 1..(n - 1) |-> IF i = n - 1 THEN g ELSE stack[i]]
        BY <1>4, <1>8
  <2>6. /\ stack' \in Seq(Frame) /\ DOMAIN stack' = 1..(n - 1)
        /\ \A k \in 1..(n - 1) : /\ k \in 1..n /\ k # n
                                 /\ stack'[k] = IF k = n - 1 THEN g ELSE stack[k]
    <3> HIDE DEF n
    <3> QED BY <1>1, <2>1, <2>2, <2>5
  <2> HIDE DEF n
  <2>7. \A k \in 1..(n - 1) : stack'[k].doc = stack[k].doc /\ stack'[k].opened = stack[k].opened
        BY <2>2, <2>6
  <2>8. \A k \in 1..n : stack[k].opened <=> k = 1
        BY <1>1 DEF Inv, OpenedFirst
  <2>9. ~Top.opened
        BY <1>1, <1>8, <2>8
  <2>10. TypeOK'
         BY <1>3, <1>6, <2>6 DEF Inv, TypeOK
  <2>11. OpenedFirst'
         BY <2>6, <2>7, <2>8 DEF OpenedFirst
  <2>12. BusyBelow'
    <3>1. \A k \in 1..n : k # 1 => store[stack[k].doc].busy
          BY <1>1 DEF Inv, BusyBelow
    <3>2. \A k \in 1..n : stack[k].doc \in Doc
      <4>1. \A k \in 1..n : stack[k] \in Frame
            BY <1>1
      <4> QED BY <4>1 DEF Frame
    <3>3. \A k \in 1..(n - 1) : k # 1 => store'[stack'[k].doc].busy
          BY <1>6, <2>6, <2>7, <2>9, <3>1, <3>2
    <3> QED BY <2>6, <3>3 DEF BusyBelow
  <2>13. OneEach'
    <3>1. \A j, k \in 1..n : j # 1 /\ k # 1 /\ stack[j].doc = stack[k].doc => j = k
          BY <1>1 DEF Inv, OneEach
    <3> QED BY <2>6, <2>7, <3>1 DEF OneEach
  <2>14. AllInSync'
    <3>1. \A k \in 1..n : FrameInSync(stack[k])
          BY <1>1 DEF Inv, AllInSync
    <3>2. ASSUME NEW k \in 1..(n - 1) PROVE FrameInSync(stack'[k])
      <4>1. CASE k = n - 1
            BY <4>1, <2>4, <2>6, Zenon
      <4>2. CASE k # n - 1
            BY <4>2, <3>1, <2>6, Zenon
      <4> QED BY <4>1, <4>2
    <3> QED BY <2>6, <3>2, Zenon DEF AllInSync
  <2> QED BY <2>10, <2>11, <2>12, <2>13, <2>14 DEF Inv
<1> QED BY <1>7, <1>8

-----------------------------------------------------------------------------
(* What a line is read with.                                               *)
LEMMA LineType ==
    ASSUME Inv, Reading
    PROVE  /\ Top.conds \in Seq(ConditionState) /\ Top.macros \in SUBSET Name
           /\ Current.rows \in Nat /\ Current.name \in Name
           /\ OneRow(Top.text) => Current.rows = 1
           /\ Kept \in {Kept, Blank} /\ Blank \in {Kept, Blank}
           /\ TRUE \in BOOLEAN /\ FALSE \in BOOLEAN /\ 1 \in Nat
<1>1. Running /\ Current \in Line /\ (OneRow(Top.text) => Current.rows = 1)
      BY CurrentType, Zenon
<1>2. Top \in Frame
      BY <1>1, TopType
<1>3. Top.conds \in Seq(ConditionState) /\ Top.macros \in SUBSET Name
      BY <1>2 DEF Frame
<1>4. Current.rows \in Nat /\ Current.name \in Name
      BY <1>1 DEF Line
<1> QED BY <1>1, <1>3, <1>4

(* One condition more, one less, another one.                              *)
LEMMA ConditionsType ==
    ASSUME NEW conds \in Seq(ConditionState), NEW c \in ConditionState
    PROVE  /\ Append(conds, c) \in Seq(ConditionState)
           /\ conds # <<>> => /\ Popped(conds) \in Seq(ConditionState)
                              /\ Append(Popped(conds), c) \in Seq(ConditionState)
<1>1. ASSUME conds # <<>> PROVE Popped(conds) \in Seq(ConditionState)
      BY <1>1 DEF Popped
<1>2. ASSUME NEW s \in Seq(ConditionState) PROVE Append(s, c) \in Seq(ConditionState)
      OBVIOUS
<1> QED BY <1>1, <1>2, Zenon

LEMMA ConditionStates ==
    "Active" \in ConditionState /\ "Activated" \in ConditionState
      /\ "NotActivated" \in ConditionState
BY DEF ConditionState

LEMMA SkipStep == ASSUME Inv, Skip PROVE Inv'
<1>1. Reading /\ Read(Top.conds, Top.macros, Rows(1, Blank), TRUE)
      BY DEF Skip
<1> QED BY <1>1, LineType, ReadStep, Zenon

LEMMA CodeStep == ASSUME Inv, Code PROVE Inv'
<1> DEFINE n == IF Current.kind = "call" /\ Current.name \in Top.macros THEN 1 ELSE Current.rows
<1>1. Reading /\ Read(Top.conds, Top.macros, Rows(n, Kept), FALSE)
      BY DEF Code
<1>2. n \in Nat /\ (OneRow(Top.text) => n = 1)
      BY <1>1, LineType, Zenon
<1> HIDE DEF n
<1> QED BY <1>1, <1>2, LineType, ReadStep, Zenon

LEMMA DefineStep == ASSUME Inv, Define PROVE Inv'
<1> DEFINE m == Top.macros \cup {Current.name}
<1>1. Reading /\ Read(Top.conds, m, Rows(Current.rows, Kept), FALSE)
      BY DEF Define
<1>2. m \in SUBSET Name
      BY <1>1, LineType
<1> HIDE DEF m
<1> QED BY <1>1, <1>2, LineType, ReadStep, Zenon

LEMMA UndefStep == ASSUME Inv, Undef PROVE Inv'
<1> DEFINE m == Top.macros \ {Current.name}
<1>1. Reading /\ Read(Top.conds, m, Rows(Current.rows, Kept), FALSE)
      BY DEF Undef
<1>2. m \in SUBSET Name
      BY <1>1, LineType
<1> HIDE DEF m
<1> QED BY <1>1, <1>2, LineType, ReadStep, Zenon

(* process_if_directive, of an #if and of an #elseif.                      *)
LEMMA ProcessIfStep ==
    ASSUME Inv, Reading, NEW conds \in Seq(ConditionState), ProcessIf(conds)
    PROVE  Inv'
<1> DEFINE c == IF Holds(Current, Top.macros) THEN "Active" ELSE "NotActivated"
           new == Append(conds, c)
<1>1. Read(new, Top.macros, Rows(Current.rows, Blank), FALSE)
      BY DEF ProcessIf
<1>2. c \in ConditionState
      BY ConditionStates
<1> HIDE DEF c
<1>3. new \in Seq(ConditionState)
      BY <1>2, ConditionsType
<1> HIDE DEF new
<1> QED BY <1>1, <1>3, LineType, ReadStep, Zenon

LEMMA IfStep == ASSUME Inv, If PROVE Inv'
<1>1. Reading
      BY DEF If
<1>2. CASE ProcessIf(Top.conds)
      BY <1>1, <1>2, LineType, ProcessIfStep, Zenon
<1>3. CASE Read(Append(Top.conds, "Activated"), Top.macros, Rows(1, Blank), TRUE)
  <2>1. Append(Top.conds, "Activated") \in Seq(ConditionState)
        BY <1>1, LineType, ConditionStates, ConditionsType, Zenon
  <2> QED BY <1>1, <1>3, <2>1, LineType, ReadStep, Zenon
<1> QED BY <1>2, <1>3 DEF If

LEMMA ElseifStep == ASSUME Inv, Elseif PROVE Inv'
<1> DEFINE outer == Popped(Top.conds)
<1>1. Reading /\ Top.conds # <<>>
      BY DEF Elseif
<1>2. outer \in Seq(ConditionState) /\ Append(outer, "Activated") \in Seq(ConditionState)
      BY <1>1, LineType, ConditionStates, ConditionsType, Zenon
<1>3. CASE ProcessIf(outer)
      BY <1>1, <1>2, <1>3, ProcessIfStep, Zenon
<1>4. CASE Read(Append(outer, "Activated"), Top.macros, Rows(1, Blank), TRUE)
      BY <1>1, <1>2, <1>4, LineType, ReadStep, Zenon
<1> QED BY <1>3, <1>4 DEF Elseif

LEMMA ElseStep == ASSUME Inv, Else PROVE Inv'
<1> DEFINE outer == Popped(Top.conds)
<1>1. Reading /\ Top.conds # <<>>
      BY DEF Else
<1>2. /\ Append(outer, "Active") \in Seq(ConditionState)
      /\ Append(outer, "Activated") \in Seq(ConditionState)
      BY <1>1, LineType, ConditionStates, ConditionsType, Zenon
<1>3. CASE Read(Append(outer, "Active"), Top.macros, Rows(1, Blank), FALSE)
      BY <1>1, <1>2, <1>3, LineType, ReadStep, Zenon
<1>4. CASE Read(Append(outer, "Activated"), Top.macros, Rows(1, Blank), TRUE)
      BY <1>1, <1>2, <1>4, LineType, ReadStep, Zenon
<1> QED BY <1>3, <1>4 DEF Else

LEMMA EndifStep == ASSUME Inv, Endif PROVE Inv'
<1> DEFINE outer == Popped(Top.conds)
           disabled == ~Positive(outer)
<1>1. Reading /\ Top.conds # <<>> /\ Read(outer, Top.macros, Rows(1, Blank), disabled)
      BY DEF Endif
<1>2. outer \in Seq(ConditionState)
      BY <1>1, LineType, ConditionStates, ConditionsType, Zenon
<1>3. disabled \in BOOLEAN
      BY DEF Positive
<1> HIDE DEF disabled
<1> QED BY <1>1, <1>2, <1>3, LineType, ReadStep, Zenon

(* An include that is not known, or that was read before.                  *)
LEMMA IncludeReadStep ==
    ASSUME Inv, Including, NEW macros \in SUBSET Name,
           stack' = [stack EXCEPT ![Len(stack)] = PastInclude(macros)],
           UNCHANGED <<store, opens>>
    PROVE  Inv'
<1> DEFINE g == PastInclude(macros)
<1>1. Running /\ g \in Frame /\ FrameInSync(g) /\ g.doc = Top.doc /\ g.opened = Top.opened
      BY PastIncludeType
<1>2. stack' = [stack EXCEPT ![Len(stack)] = g]
      OBVIOUS
<1> HIDE DEF g
<1> QED BY <1>1, <1>2, Replaced

LEMMA IncludeUnresolvedStep == ASSUME Inv, IncludeUnresolved PROVE Inv'
<1>1. Including /\ Running
      BY DEF IncludeUnresolved, Including, Reading
<1>2. Top.macros \in SUBSET Name
      BY <1>1, TopType DEF Frame
<1> QED BY <1>1, <1>2, IncludeReadStep, Zenon DEF IncludeUnresolved

LEMMA IncludeDoneStep == ASSUME Inv, IncludeDone PROVE Inv'
<1> DEFINE m == Top.macros \cup store[Target].macros
<1>1. Including /\ Running /\ Target \in Doc
      BY DEF IncludeDone, Including, Reading
<1>2. Top.macros \in SUBSET Name
      BY <1>1, TopType DEF Frame
<1>3. m \in SUBSET Name
      BY <1>1, <1>2 DEF Inv, TypeOK, Document
<1>4. stack' = [stack EXCEPT ![Len(stack)] = PastInclude(m)] /\ UNCHANGED <<store, opens>>
      BY DEF IncludeDone
<1> HIDE DEF m
<1> QED BY <1>1, <1>3, <1>4, IncludeReadStep, Zenon

LEMMA FinishStep == ASSUME Inv, Finish PROVE Inv'
<1> DEFINE out == IF Positive(Top.conds) THEN Append(Top.out, Blank) ELSE Top.out
<1>1. Running /\ Return(out)
      BY DEF Finish
<1>2. Top.out \in Seq({Kept, Blank})
      BY <1>1, TopType DEF Frame
<1>3. out \in Seq({Kept, Blank})
      BY <1>2
<1> HIDE DEF out
<1> QED BY <1>1, <1>3, ReturnStep, Zenon

LEMMA FailStep == ASSUME Inv, Fail PROVE Inv'
<1> DEFINE out == AllRows(Top.text)
<1>1. Running /\ Return(out)
      BY DEF Fail, Reading
<1>2. Len(Top.text) + 1 \in Nat
      BY <1>1, TopType DEF Frame
<1>3. out \in Seq({Kept, Blank})
      BY <1>2, RowsType DEF AllRows
<1> HIDE DEF out
<1> QED BY <1>1, <1>3, ReturnStep, Zenon

(* Every step keeps the invariant.                                         *)
LEMMA NextInv == Inv /\ [Next]_vars => Inv'
<1> SUFFICES ASSUME Inv, [Next]_vars PROVE Inv'
    OBVIOUS
<1>1. CASE Step
      BY <1>1, SkipStep, CodeStep, DefineStep, UndefStep, IfStep, ElseifStep, ElseStep,
         EndifStep, IncludeUnresolvedStep, IncludeDoneStep, IncludeNewStep, FinishStep,
         FailStep, Zenon DEF Step
<1>2. CASE \E d \in Doc : \E text \in Edits[d] \cup {store[d].text} : Open(d, text)
      BY <1>2, OpenStep
<1>3. CASE UNCHANGED vars
      BY <1>3 DEF vars, Inv, TypeOK, OpenedFirst, BusyBelow, OneEach, AllInSync
<1> QED BY <1>1, <1>2, <1>3 DEF Next

-----------------------------------------------------------------------------
(* Every reachable state has the invariant.                                *)
THEOREM Invariance == Spec => []Inv
BY InitInv, NextInv, PTL DEF Spec

(* The variables keep their types.                                         *)
THEOREM TypeCorrect == Spec => []TypeOK
<1>1. Inv => TypeOK
      BY DEF Inv
<1> QED BY <1>1, Invariance, PTL

(* The flag being_preprocessed (store.rs) stops every cycle of includes:   *)
(* of the preprocessors that wait for one another two are of the same      *)
(* document only when one of them is of the document that was opened.      *)
THEOREM ReadOnce == Spec => []ReadOnceAtATime
<1>1. Inv => ReadOnceAtATime
  <2> SUFFICES ASSUME Inv PROVE ReadOnceAtATime
      OBVIOUS
  <2>1. /\ \A k \in DOMAIN stack : stack[k].opened <=> k = 1
        /\ \A k \in DOMAIN stack : k # 1 => store[stack[k].doc].busy
        BY DEF Inv, OpenedFirst, BusyBelow
  <2>2. \A j, k \in DOMAIN stack : j # 1 /\ k # 1 /\ stack[j].doc = stack[k].doc => j = k
        BY DEF Inv, OneEach
  <2> QED BY <2>1, <2>2 DEF ReadOnceAtATime
<1> QED BY <1>1, Invariance, PTL

(* Whatever the directives, their nesting and what they are worth, a text  *)
(* whose lines take one row each has as many rows behind it as lines were  *)
(* read (preprocessor.rs, "Keep the newline to keep the line numbers in    *)
(* sync").                                                                 *)
THEOREM InSync == Spec => []LinesInSync
<1>1. Inv => LinesInSync
      BY DEF Inv, AllInSync, FrameInSync, LinesInSync
<1> QED BY <1>1, Invariance, PTL

-----------------------------------------------------------------------------
(* Branches.  How many #if are open at line p since line f.                *)
Bal(t, f, p) == Count(t, f, p - 1, "if") - Count(t, f, p - 1, "endif")
Opens(line) == IF line.kind = "if" THEN 1 ELSE IF line.kind = "endif" THEN -1 ELSE 0

\* Counting goes on by one line.
LEMMA CountNext ==
    ASSUME NEW t \in Seq(Line), NEW f \in Nat, NEW p \in Nat, f <= p, NEW kind
    PROVE  /\ Count(t, f, p - 1, kind) \in Nat /\ Count(t, f, p, kind) \in Nat
           /\ Count(t, f, p, kind) =
                 IF t[p].kind = kind THEN Count(t, f, p - 1, kind) + 1
                 ELSE Count(t, f, p - 1, kind)
<1> DEFINE S == {j \in f..(p - 1) : t[j].kind = kind}
           T == {j \in f..p : t[j].kind = kind}
<1>1. IsFiniteSet(f..(p - 1)) /\ S \in SUBSET (f..(p - 1))
  <2>1. f \in Int /\ p - 1 \in Int
    OBVIOUS
  <2> QED BY <2>1, FS_Interval
<1>2. IsFiniteSet(S)
  BY <1>1, FS_Subset
<1>3. T = IF t[p].kind = kind THEN S \cup {p} ELSE S
  OBVIOUS
<1>4. p \notin S
  OBVIOUS
<1>5. Count(t, f, p - 1, kind) = Cardinality(S) /\ Count(t, f, p, kind) = Cardinality(T)
  BY DEF Count
<1> HIDE DEF S, T
<1>6. Cardinality(S) \in Nat
  BY <1>2, FS_CardinalityType
<1>7. Cardinality(S \cup {p}) = Cardinality(S) + 1
  BY <1>2, <1>4, FS_AddElement
<1> QED BY <1>3, <1>5, <1>6, <1>7

\* A line of another kind does not count.
LEMMA CountSame ==
    ASSUME NEW t \in Seq(Line), NEW f \in Nat, NEW p \in Nat, f <= p, NEW kind, t[p].kind # kind
    PROVE  /\ Count(t, f, p - 1, kind) \in Nat
           /\ Count(t, f, p, kind) = Count(t, f, p - 1, kind)
BY CountNext

LEMMA BalNext ==
    ASSUME NEW t \in Seq(Line), NEW f \in Nat, NEW p \in Nat, f <= p
    PROVE  /\ Bal(t, f, p) \in Int
           /\ Bal(t, f, p + 1) = Bal(t, f, p) + Opens(t[p])
<1>1. p + 1 - 1 = p
  OBVIOUS
<1>2. /\ Count(t, f, p - 1, "if") \in Nat /\ Count(t, f, p - 1, "endif") \in Nat
      /\ Count(t, f, p, "if") = IF t[p].kind = "if" THEN Count(t, f, p - 1, "if") + 1
                                ELSE Count(t, f, p - 1, "if")
      /\ Count(t, f, p, "endif") = IF t[p].kind = "endif" THEN Count(t, f, p - 1, "endif") + 1
                                   ELSE Count(t, f, p - 1, "endif")
  BY CountNext
<1>3. Bal(t, f, p + 1) = Count(t, f, p, "if") - Count(t, f, p, "endif")
  BY <1>1 DEF Bal
<1> QED BY <1>2, <1>3 DEF Bal, Opens

\* At the line of the #if nothing is open yet.
LEMMA BalSelf ==
    ASSUME NEW t \in Seq(Line), NEW p \in Nat
    PROVE  Bal(t, p, p) = 0
<1>1. ASSUME NEW kind PROVE Count(t, p, p - 1, kind) = 0
  <2>1. {j \in p..(p - 1) : t[j].kind = kind} = {}
    OBVIOUS
  <2> QED BY <2>1, FS_EmptySet DEF Count
<1> QED BY <1>1 DEF Bal

\* A line is inside an #if as long as the #if is open after each line.
LEMMA InsideNext ==
    ASSUME NEW t \in Seq(Line), NEW f \in Nat, NEW p \in Nat, f <= p
    PROVE  Inside(t, f, p + 1) <=> Inside(t, f, p) /\ Bal(t, f, p + 1) > 0
<1>1. p + 1 - 1 = p
  OBVIOUS
<1>2. Count(t, f, p, "if") \in Nat /\ Count(t, f, p, "endif") \in Nat
  BY CountNext
<1>3. Bal(t, f, p + 1) > 0 <=> Count(t, f, p, "if") > Count(t, f, p, "endif")
  BY <1>1, <1>2 DEF Bal
<1>4. f..p = f..(p - 1) \cup {p}
  OBVIOUS
<1>5. Inside(t, f, p + 1) <=> \A j \in f..p : Count(t, f, j, "if") > Count(t, f, j, "endif")
  BY <1>1 DEF Inside
<1>6. Inside(t, f, p) <=> \A j \in f..(p - 1) : Count(t, f, j, "if") > Count(t, f, j, "endif")
  BY DEF Inside
<1> QED BY <1>3, <1>4, <1>5, <1>6

LEMMA InsideSelf ==
    ASSUME NEW t \in Seq(Line), NEW p \in Nat
    PROVE  Inside(t, p, p)
BY DEF Inside

\* What is around the next line.
LEMMA EnclosingNext ==
    ASSUME NEW t \in Seq(Line), NEW p \in Nat \ {0}
    PROVE  Enclosing(t, p + 1) = {f \in Enclosing(t, p) : Bal(t, f, p + 1) > 0}
                                   \cup (IF t[p].kind = "if" THEN {p} ELSE {})
<1>1. ASSUME NEW f \in 1..(p - 1)
      PROVE  f \in Enclosing(t, p + 1) <=> f \in Enclosing(t, p) /\ Bal(t, f, p + 1) > 0
  <2>1. f \in Nat /\ f <= p /\ f \in 1..(p + 1 - 1)
    OBVIOUS
  <2>2. Inside(t, f, p + 1) <=> Inside(t, f, p) /\ Bal(t, f, p + 1) > 0
    BY <2>1, InsideNext
  <2> QED BY <2>1, <2>2 DEF Enclosing
<1>2. p \in Enclosing(t, p + 1) <=> t[p].kind = "if"
  <2>1. t[p].kind = "if" <=> Bal(t, p, p + 1) > 0
    <3>1. p \in Nat /\ p <= p
      OBVIOUS
    <3>2. Bal(t, p, p) = 0
      BY <3>1, BalSelf
    <3>3. Bal(t, p, p + 1) = Bal(t, p, p) + Opens(t[p])
      BY <3>1, BalNext
    <3> QED BY <3>2, <3>3 DEF Opens
  <2>2. Inside(t, p, p + 1) <=> Bal(t, p, p + 1) > 0
    BY InsideSelf, InsideNext
  <2>3. p \in 1..(p + 1 - 1)
    OBVIOUS
  <2>4. p \in Enclosing(t, p + 1) <=>
           p \in 1..(p + 1 - 1) /\ t[p].kind = "if" /\ Inside(t, p, p + 1)
    BY DEF Enclosing
  <2> QED BY <2>1, <2>2, <2>3, <2>4
<1>3. /\ Enclosing(t, p + 1) \subseteq 1..p /\ Enclosing(t, p) \subseteq 1..(p - 1)
      /\ 1..p = 1..(p - 1) \cup {p} /\ p \notin 1..(p - 1)
  BY DEF Enclosing
<1> HIDE DEF Enclosing
<1> QED BY <1>1, <1>2, <1>3

\* A line is a head of an #if around it.
NewHead(t, f, p) == t[p].kind \in {"elseif", "else"} /\ Bal(t, f, p) = 1

LEMMA HeadsNext ==
    ASSUME NEW t \in Seq(Line), NEW p \in Nat \ {0}, NEW f \in Enclosing(t, p)
    PROVE  /\ Heads(t, f, p) \subseteq 1..(p - 1) /\ Heads(t, f, p) # {}
           /\ Heads(t, f, p + 1) = Heads(t, f, p) \cup (IF NewHead(t, f, p) THEN {p} ELSE {})
<1>1. f \in 1..(p - 1) /\ Inside(t, f, p) /\ f \in Nat /\ f <= p
  BY DEF Enclosing
<1>2. Heads(t, f, p) \subseteq 1..(p - 1) /\ Heads(t, f, p) # {}
  BY <1>1 DEF Heads
<1>3. /\ (f + 1)..(p + 1 - 1) = ((f + 1)..(p - 1)) \cup {p} /\ p # f
  BY <1>1
<1> DEFINE Branch(h) == /\ t[h].kind \in {"elseif", "else"} /\ Inside(t, f, h)
                        /\ Count(t, f, h, "if") = Count(t, f, h, "endif") + 1
<1>4. Branch(p) <=> NewHead(t, f, p)
  <2>1. ASSUME t[p].kind \in {"elseif", "else"}
        PROVE  Bal(t, f, p) = 1 <=> Count(t, f, p, "if") = Count(t, f, p, "endif") + 1
    <3>1. /\ Count(t, f, p - 1, "if") \in Nat /\ Count(t, f, p - 1, "endif") \in Nat
          /\ Count(t, f, p, "if") = Count(t, f, p - 1, "if")
          /\ Count(t, f, p, "endif") = Count(t, f, p - 1, "endif")
      <4>1. t[p].kind # "if" /\ t[p].kind # "endif"
        BY <2>1
      <4>2. f \in Nat /\ p \in Nat /\ f <= p
        BY <1>1
      <4> HIDE DEF Branch
      <4>3. Count(t, f, p - 1, "if") \in Nat /\ Count(t, f, p, "if") = Count(t, f, p - 1, "if")
        BY <4>1, <4>2, CountSame, Zenon
      <4>4. Count(t, f, p - 1, "endif") \in Nat
              /\ Count(t, f, p, "endif") = Count(t, f, p - 1, "endif")
        BY <4>1, <4>2, CountSame, Zenon
      <4> QED BY <4>3, <4>4
    <3>2. Bal(t, f, p) = Count(t, f, p - 1, "if") - Count(t, f, p - 1, "endif")
      BY DEF Bal
    <3> HIDE DEF Branch
    <3> QED BY <3>1, <3>2
  <2> QED BY <1>1, <2>1 DEF NewHead
<1>5. /\ Heads(t, f, p) = {f} \cup {h \in (f + 1)..(p - 1) : Branch(h)}
      /\ Heads(t, f, p + 1) = {f} \cup {h \in (f + 1)..(p + 1 - 1) : Branch(h)}
  BY DEF Heads
<1> HIDE DEF Branch
<1> QED BY <1>2, <1>3, <1>4, <1>5

LEMMA HeadsSelf ==
    ASSUME NEW t \in Seq(Line), NEW p \in Nat
    PROVE  Heads(t, p, p + 1) = {p}
BY DEF Heads

-----------------------------------------------------------------------------
(* The head of a branch whose condition holds, with the macros it was read *)
(* with; and what the conditions of an #if have come to at line p.         *)
Hold(t, at, h) == t[h].kind = "else" \/ Holds(t[h], at[h])
Held(t, at, f, p) == {h \in Heads(t, f, p) : Hold(t, at, h)}
BranchState(t, at, f, p) ==
    IF Held(t, at, f, p) = {} THEN "NotActivated"
    ELSE IF Selected(t, at, f, p) THEN "Active" ELSE "Activated"

LEMMA SelectedHeld ==
    ASSUME NEW t, NEW at, NEW f, NEW p
    PROVE  Selected(t, at, f, p) <=>
              \E h \in Heads(t, f, p) :
                  (\A g \in Heads(t, f, p) : g <= h) /\ Held(t, at, f, p) = {h}
<1>1. ASSUME NEW h \in Heads(t, f, p)
      PROVE  Held(t, at, f, p) = {h} <=>
                \A g \in Heads(t, f, p) : Hold(t, at, g) <=> g = h
  BY DEF Held
<1>2. Selected(t, at, f, p) <=>
         \E h \in Heads(t, f, p) :
             /\ \A g \in Heads(t, f, p) : g <= h
             /\ \A g \in Heads(t, f, p) : Hold(t, at, g) <=> g = h
  BY Zenon DEF Selected, Hold
<1> QED BY <1>1, <1>2, Zenon

\* A branch is the active one exactly when it is the selected one.
LEMMA ActiveIsSelected ==
    ASSUME NEW t, NEW at, NEW f, NEW p
    PROVE  BranchState(t, at, f, p) = "Active" <=> Selected(t, at, f, p)
<1>1. Selected(t, at, f, p) => Held(t, at, f, p) # {}
  BY SelectedHeld
<1> QED BY <1>1 DEF BranchState

(* The macros of a line matter to no line before it.                       *)
SameBranch(t, f, at, p, up, q) ==
    /\ Held(t, up, f, q) = Held(t, at, f, p)
    /\ Selected(t, up, f, q) <=> Selected(t, at, f, p)
    /\ BranchState(t, up, f, q) = BranchState(t, at, f, p)

LEMMA SameHeads ==
    ASSUME NEW t, NEW f, NEW at, NEW p, NEW up, NEW q,
           Heads(t, f, q) = Heads(t, f, p),
           \A h \in Heads(t, f, p) : Hold(t, up, h) <=> Hold(t, at, h)
    PROVE  SameBranch(t, f, at, p, up, q)
<1>1. Held(t, up, f, q) = Held(t, at, f, p)
  BY DEF Held
<1>2. Selected(t, up, f, q) <=> Selected(t, at, f, p)
  BY <1>1, SelectedHeld, Zenon
<1> QED BY <1>1, <1>2, Zenon DEF SameBranch, BranchState

LEMMA MacrosUnread ==
    ASSUME NEW t \in Seq(Line), NEW at \in Seq(SUBSET Name), NEW m \in SUBSET Name,
           NEW q \in Nat \ {0}, q <= Len(at) + 1, NEW f \in Enclosing(t, q)
    PROVE  \A h \in Heads(t, f, q) : Hold(t, Append(at, m), h) <=> Hold(t, at, h)
<1>1. \A h \in Heads(t, f, q) : h \in 1..Len(at)
  BY HeadsNext
<1>2. \A h \in 1..Len(at) : Append(at, m)[h] = at[h]
  OBVIOUS
<1> QED BY <1>1, <1>2 DEF Hold

LEMMA StaysActive ==
    ASSUME NEW t \in Seq(Line), NEW at \in Seq(SUBSET Name), NEW m \in SUBSET Name,
           NEW q \in Nat \ {0}, q <= Len(at) + 1
    PROVE  IsActive(t, Append(at, m), q) <=> IsActive(t, at, q)
<1>1. ASSUME NEW f \in Enclosing(t, q)
      PROVE  Selected(t, Append(at, m), f, q) <=> Selected(t, at, f, q)
  <2>1. SameBranch(t, f, at, q, Append(at, m), q)
    BY MacrosUnread, SameHeads
  <2> QED BY <2>1 DEF SameBranch
<1> QED BY <1>1 DEF IsActive

LEMMA BranchStays ==
    ASSUME NEW t \in Seq(Line), NEW p \in Nat \ {0}, NEW at \in Seq(SUBSET Name),
           Len(at) = p - 1, NEW m \in SUBSET Name,
           NEW f \in Enclosing(t, p), ~ NewHead(t, f, p)
    PROVE  SameBranch(t, f, at, p, Append(at, m), p + 1)
<1>1. Heads(t, f, p + 1) = Heads(t, f, p)
  <2>1. Heads(t, f, p + 1) = Heads(t, f, p) \cup (IF NewHead(t, f, p) THEN {p} ELSE {})
    BY HeadsNext
  <2> HIDE DEF NewHead, Heads
  <2> QED BY <2>1
<1>2. \A h \in Heads(t, f, p) : Hold(t, Append(at, m), h) <=> Hold(t, at, h)
  BY MacrosUnread
<1> QED BY <1>1, <1>2, SameHeads

\* What a condition is worth when no branch before it was selected.
Worth(line, m) == IF line.kind = "else" \/ Holds(line, m) THEN "Active" ELSE "NotActivated"

LEMMA NextBranch ==
    ASSUME NEW t \in Seq(Line), NEW p \in Nat \ {0}, NEW at \in Seq(SUBSET Name),
           Len(at) = p - 1, NEW m \in SUBSET Name,
           NEW f \in Enclosing(t, p), NewHead(t, f, p)
    PROVE  BranchState(t, Append(at, m), f, p + 1) =
              IF BranchState(t, at, f, p) = "NotActivated" THEN Worth(t[p], m) ELSE "Activated"
<1> DEFINE up == Append(at, m)
<1>1. /\ Heads(t, f, p + 1) = Heads(t, f, p) \cup {p}
      /\ Heads(t, f, p) \subseteq 1..(p - 1) /\ Heads(t, f, p) # {}
  BY HeadsNext
<1>2. \A h \in Heads(t, f, p) : Hold(t, up, h) <=> Hold(t, at, h)
  BY MacrosUnread
<1>3. up[p] = m
  OBVIOUS
<1>4. Held(t, up, f, p + 1) = Held(t, at, f, p) \cup (IF Hold(t, up, p) THEN {p} ELSE {})
  BY <1>1, <1>2 DEF Held
<1>5. Held(t, at, f, p) \subseteq 1..(p - 1)
  BY <1>1 DEF Held
<1>6. Selected(t, up, f, p + 1) <=> Held(t, up, f, p + 1) = {p}
  <2>1. ASSUME NEW h \in Heads(t, f, p + 1), \A g \in Heads(t, f, p + 1) : g <= h PROVE h = p
    BY <1>1, <2>1
  <2>2. p \in Heads(t, f, p + 1) /\ \A g \in Heads(t, f, p + 1) : g <= p
    BY <1>1
  <2> QED BY <2>1, <2>2, SelectedHeld
<1>7. Hold(t, up, p) <=> Worth(t[p], m) = "Active"
  BY <1>3 DEF Hold, Worth
<1>8. BranchState(t, at, f, p) = "NotActivated" <=> Held(t, at, f, p) = {}
  BY DEF BranchState
<1>9. p \notin Held(t, at, f, p)
  BY <1>5
<1>10. BranchState(t, up, f, p + 1) =
          IF BranchState(t, at, f, p) = "NotActivated" THEN Worth(t[p], m) ELSE "Activated"
  <2> HIDE DEF up
  <2>1. Hold(t, up, p) \/ Worth(t[p], m) = "NotActivated"
    BY <1>7 DEF Worth
  <2>2. CASE Held(t, at, f, p) = {}
    BY <1>4, <1>6, <1>7, <1>8, <2>1, <2>2 DEF BranchState
  <2>3. CASE Held(t, at, f, p) # {}
    <3>1. Held(t, up, f, p + 1) # {} /\ Held(t, up, f, p + 1) # {p}
      BY <1>4, <1>9, <2>3
    <3> QED BY <1>6, <1>8, <2>3, <3>1 DEF BranchState
  <2> QED BY <2>2, <2>3
<1> QED BY <1>10

LEMMA FirstBranch ==
    ASSUME NEW t \in Seq(Line), NEW p \in Nat \ {0}, NEW at \in Seq(SUBSET Name),
           Len(at) = p - 1, NEW m \in SUBSET Name
    PROVE  BranchState(t, Append(at, m), p, p + 1) = Worth(t[p], m)
<1> DEFINE up == Append(at, m)
<1>1. Heads(t, p, p + 1) = {p} /\ up[p] = m
  BY HeadsSelf
<1>2. Held(t, up, p, p + 1) = IF Worth(t[p], m) = "Active" THEN {p} ELSE {}
  BY <1>1 DEF Held, Hold, Worth
<1>3. Selected(t, up, p, p + 1) <=> Held(t, up, p, p + 1) = {p}
  <2>1. Selected(t, up, p, p + 1) <=>
           \E h \in Heads(t, p, p + 1) :
               (\A g \in Heads(t, p, p + 1) : g <= h) /\ Held(t, up, p, p + 1) = {h}
    BY SelectedHeld
  <2>2. \A h : h \in Heads(t, p, p + 1) <=> h = p
    BY <1>1
  <2>3. p <= p
    OBVIOUS
  <2> HIDE DEF up
  <2> QED BY <2>1, <2>2, <2>3, Zenon
<1>4. BranchState(t, up, p, p + 1) = Worth(t[p], m)
  <2> HIDE DEF up
  <2> QED BY <1>2, <1>3 DEF BranchState, Worth
<1> QED BY <1>4

-----------------------------------------------------------------------------
(* The condition stack and the nesting of the lines.  The stack has one    *)
(* entry for each #if around the line; it says what its conditions have    *)
(* come to, unless a branch around it is not the selected one.             *)
Outer(t, at, p, e, k) == \A j \in 1..(k - 1) : Selected(t, at, e[j], p)
Entry(t, at, p, e, k) ==
    IF Outer(t, at, p, e, k) THEN BranchState(t, at, e[k], p) ELSE "Activated"
Nest(t, at, p, conds, e) ==
    /\ e \in [1..Len(conds) -> 1..(p - 1)]
    /\ Enclosing(t, p) = {e[k] : k \in 1..Len(conds)}
    /\ \A k \in 1..Len(conds) : Bal(t, e[k], p) = Len(conds) - k + 1
    /\ \A k \in 1..Len(conds) : conds[k] = Entry(t, at, p, e, k)
Branches(t, at, p, conds) == \E e : Nest(t, at, p, conds, e)

\* An entry is Active when all the branches up to it are selected.
LEMMA OuterActive ==
    ASSUME NEW t, NEW at, NEW p, NEW conds \in Seq(ConditionState), NEW e,
           Nest(t, at, p, conds, e), NEW k \in 1..Len(conds)
    PROVE  conds[k] = "Active" <=> Outer(t, at, p, e, k + 1)
<1>1. conds[k] = Entry(t, at, p, e, k)
  BY DEF Nest
<1>2. BranchState(t, at, e[k], p) = "Active" <=> Selected(t, at, e[k], p)
  BY ActiveIsSelected
<1>3. 1..(k + 1 - 1) = 1..(k - 1) \cup {k}
  OBVIOUS
<1>4. Outer(t, at, p, e, k + 1) <=> Outer(t, at, p, e, k) /\ Selected(t, at, e[k], p)
  BY <1>3 DEF Outer
<1> QED BY <1>1, <1>2, <1>4 DEF Entry

\* Positive, which looks at the top of the stack, tells for all of it.
LEMMA PositiveIsActive ==
    ASSUME NEW t, NEW at, NEW p, NEW conds \in Seq(ConditionState), NEW e,
           Nest(t, at, p, conds, e)
    PROVE  /\ Positive(conds) <=> Outer(t, at, p, e, Len(conds) + 1)
           /\ Positive(conds) <=> IsActive(t, at, p)
<1>1. Positive(conds) <=> Outer(t, at, p, e, Len(conds) + 1)
  <2>1. CASE conds = <<>>
    BY <2>1 DEF Positive, Outer
  <2>2. CASE conds # <<>>
    <3>1. Len(conds) \in 1..Len(conds)
      BY <2>2
    <3> QED BY <2>2, <3>1, OuterActive DEF Positive
  <2> QED BY <2>1, <2>2
<1>2. Len(conds) + 1 - 1 = Len(conds)
  OBVIOUS
<1>3. Outer(t, at, p, e, Len(conds) + 1) <=> \A k \in 1..Len(conds) : Selected(t, at, e[k], p)
  BY <1>2 DEF Outer
<1>4. IsActive(t, at, p) <=> \A k \in 1..Len(conds) : Selected(t, at, e[k], p)
  BY DEF IsActive, Nest
<1> QED BY <1>1, <1>3, <1>4

\* Entries are the same when the branches up to them are.
LEMMA SameEntry ==
    ASSUME NEW t, NEW at, NEW p, NEW up, NEW q, NEW e, NEW d, NEW k \in Nat,
           \A j \in 1..k : d[j] = e[j],
           \A j \in 1..k : SameBranch(t, e[j], at, p, up, q)
    PROVE  k # 0 => Entry(t, up, q, d, k) = Entry(t, at, p, e, k)
<1> SUFFICES ASSUME k # 0 PROVE Entry(t, up, q, d, k) = Entry(t, at, p, e, k)
  OBVIOUS
<1>1. \A j \in 1..k : Selected(t, up, d[j], q) <=> Selected(t, at, e[j], p)
  BY DEF SameBranch
<1>2. BranchState(t, up, d[k], q) = BranchState(t, at, e[k], p)
  BY DEF SameBranch
<1>3. Outer(t, up, q, d, k) <=> Outer(t, at, p, e, k)
  BY <1>1 DEF Outer
<1> QED BY <1>2, <1>3 DEF Entry

\* At a line all but the innermost #if keep their branches.
LEMMA InnerMoves ==
    ASSUME NEW t \in Seq(Line), NEW p \in Nat \ {0}, NEW at \in Seq(SUBSET Name),
           Len(at) = p - 1, NEW m \in SUBSET Name,
           NEW conds \in Seq(ConditionState), NEW e, Nest(t, at, p, conds, e),
           NEW k \in 1..Len(conds),
           k # Len(conds) \/ t[p].kind \notin {"elseif", "else"}
    PROVE  SameBranch(t, e[k], at, p, Append(at, m), p + 1)
<1>1. e[k] \in Enclosing(t, p) /\ Bal(t, e[k], p) = Len(conds) - k + 1
  BY DEF Nest
<1>2. ~ NewHead(t, e[k], p)
  BY <1>1 DEF NewHead
<1> QED BY <1>1, <1>2, BranchStays

-----------------------------------------------------------------------------
(* What each kind of line does to the stack: the four ways of a line.      *)
LEMMA BranchesStay ==
    ASSUME NEW t \in Seq(Line), NEW p \in Nat \ {0}, NEW at \in Seq(SUBSET Name),
           Len(at) = p - 1, NEW m \in SUBSET Name,
           NEW conds \in Seq(ConditionState), Branches(t, at, p, conds),
           t[p].kind \notin {"if", "elseif", "else", "endif"}
    PROVE  Branches(t, Append(at, m), p + 1, conds)
<1> DEFINE up == Append(at, m)
           n == Len(conds)
<1>1. PICK e : Nest(t, at, p, conds, e)
  BY DEF Branches
<1>2. e \in [1..n -> 1..(p + 1 - 1)]
  BY <1>1 DEF Nest
<1>3. \A k \in 1..n : Bal(t, e[k], p + 1) = n - k + 1
  <2> SUFFICES ASSUME NEW k \in 1..n PROVE Bal(t, e[k], p + 1) = n - k + 1
    OBVIOUS
  <2>1. e[k] \in Nat /\ e[k] <= p /\ Bal(t, e[k], p) = n - k + 1
    BY <1>1 DEF Nest
  <2>2. Bal(t, e[k], p + 1) = Bal(t, e[k], p) + Opens(t[p])
    BY <2>1, BalNext
  <2>3. Opens(t[p]) = 0
    BY DEF Opens
  <2> QED BY <2>1, <2>2, <2>3
<1>4. Enclosing(t, p + 1) = {e[k] : k \in 1..n}
  <2>1. Enclosing(t, p + 1) = {f \in Enclosing(t, p) : Bal(t, f, p + 1) > 0}
    BY EnclosingNext
  <2>2. Enclosing(t, p) = {e[k] : k \in 1..n}
    BY <1>1 DEF Nest
  <2>3. \A k \in 1..n : Bal(t, e[k], p + 1) > 0
    BY <1>3
  <2> QED BY <2>1, <2>2, <2>3
<1>5. \A k \in 1..n : conds[k] = Entry(t, up, p + 1, e, k)
  <2> SUFFICES ASSUME NEW k \in 1..n PROVE conds[k] = Entry(t, up, p + 1, e, k)
    OBVIOUS
  <2>1. \A j \in 1..n : SameBranch(t, e[j], at, p, up, p + 1)
    BY <1>1, InnerMoves
  <2>2. \A j \in 1..k : SameBranch(t, e[j], at, p, up, p + 1)
    BY <2>1
  <2>3. k \in Nat /\ k # 0 /\ \A j \in 1..k : e[j] = e[j]
    OBVIOUS
  <2> HIDE DEF up
  <2>4. Entry(t, up, p + 1, e, k) = Entry(t, at, p, e, k)
    BY <2>2, <2>3, SameEntry
  <2> QED BY <1>1, <2>4 DEF Nest
<1>6. Nest(t, up, p + 1, conds, e)
  BY <1>2, <1>3, <1>4, <1>5 DEF Nest
<1> QED BY <1>6 DEF Branches

LEMMA BranchesOpen ==
    ASSUME NEW t \in Seq(Line), NEW p \in Nat \ {0}, NEW at \in Seq(SUBSET Name),
           Len(at) = p - 1, NEW m \in SUBSET Name,
           NEW conds \in Seq(ConditionState), Branches(t, at, p, conds),
           t[p].kind = "if"
    PROVE  Branches(t, Append(at, m), p + 1,
                    Append(conds, IF Positive(conds) THEN Worth(t[p], m) ELSE "Activated"))
<1> DEFINE up == Append(at, m)
           n == Len(conds)
           c == IF Positive(conds) THEN Worth(t[p], m) ELSE "Activated"
           conds2 == Append(conds, c)
<1>1. PICK e : Nest(t, at, p, conds, e)
  BY DEF Branches
<1> DEFINE d == [k \in 1..(n + 1) |-> IF k = n + 1 THEN p ELSE e[k]]
<1>2. /\ n \in Nat /\ Len(conds2) = n + 1 /\ conds2[n + 1] = c
      /\ \A k \in 1..n : conds2[k] = conds[k]
  OBVIOUS
<1>3. e \in [1..n -> 1..(p - 1)]
  BY <1>1 DEF Nest
<1>4. d \in [1..(n + 1) -> 1..(p + 1 - 1)] /\ d[n + 1] = p /\ \A k \in 1..n : d[k] = e[k]
  BY <1>2, <1>3
<1> HIDE DEF d, c, conds2, up
<1>5. \A k \in 1..(n + 1) : Bal(t, d[k], p + 1) = (n + 1) - k + 1
  <2>1. Opens(t[p]) = 1
    BY DEF Opens
  <2>2. ASSUME NEW k \in 1..n PROVE Bal(t, d[k], p + 1) = (n + 1) - k + 1
    <3>1. e[k] \in Nat /\ e[k] <= p
      BY <1>3
    <3>0. Bal(t, e[k], p) = n - k + 1
      BY <1>1 DEF Nest
    <3>2. Bal(t, e[k], p + 1) = Bal(t, e[k], p) + 1
      BY <2>1, <3>1, BalNext
    <3> QED BY <1>2, <1>4, <3>0, <3>2
  <2>3. Bal(t, d[n + 1], p + 1) = 1
    <3>1. p \in Nat /\ p <= p
      OBVIOUS
    <3>2. Bal(t, p, p) = 0
      BY <3>1, BalSelf
    <3>3. Bal(t, p, p + 1) = Bal(t, p, p) + Opens(t[p])
      BY <3>1, BalNext
    <3> QED BY <1>4, <2>1, <3>2, <3>3
  <2>4. (n + 1) - (n + 1) + 1 = 1
    BY <1>2
  <2>5. Bal(t, d[n + 1], p + 1) = (n + 1) - (n + 1) + 1
    BY <2>3, <2>4
  <2>6. ASSUME NEW k \in 1..(n + 1) PROVE Bal(t, d[k], p + 1) = (n + 1) - k + 1
    <3>1. CASE k = n + 1
      BY <2>5, <3>1
    <3>2. CASE k # n + 1
      <4>1. k \in 1..n
        BY <1>2, <3>2
      <4> QED BY <2>2, <4>1
    <3> QED BY <3>1, <3>2
  <2> QED BY <2>6
<1>6. Enclosing(t, p + 1) = {d[k] : k \in 1..(n + 1)}
  <2>1. Enclosing(t, p + 1) = {f \in Enclosing(t, p) : Bal(t, f, p + 1) > 0} \cup {p}
    BY EnclosingNext
  <2>2. Enclosing(t, p) = {d[k] : k \in 1..n}
    BY <1>1, <1>4 DEF Nest
  <2>3. \A k \in 1..n : k \in 1..(n + 1) /\ Bal(t, d[k], p + 1) > 0
    BY <1>2, <1>5
  <2>4. Enclosing(t, p + 1) = {d[k] : k \in 1..n} \cup {p}
    BY <2>1, <2>2, <2>3
  <2>5. 1..(n + 1) = 1..n \cup {n + 1}
    BY <1>2
  <2> QED BY <1>4, <2>4, <2>5
<1>7. ASSUME NEW k \in 1..n PROVE Entry(t, up, p + 1, d, k) = Entry(t, at, p, e, k)
  <2>1. \A j \in 1..n : SameBranch(t, e[j], at, p, up, p + 1)
    BY <1>1, InnerMoves DEF up
  <2>2. \A j \in 1..k : SameBranch(t, e[j], at, p, up, p + 1)
    BY <2>1
  <2>3. k \in Nat /\ k # 0 /\ \A j \in 1..k : d[j] = e[j]
    BY <1>4
  <2> QED BY <2>2, <2>3, SameEntry
<1>8. Entry(t, up, p + 1, d, n + 1) = c
  <2>1. \A j \in 1..n : Selected(t, up, e[j], p + 1) <=> Selected(t, at, e[j], p)
    <3>1. \A j \in 1..n : SameBranch(t, e[j], at, p, up, p + 1)
      BY <1>1, InnerMoves DEF up
    <3> QED BY <3>1 DEF SameBranch
  <2>2. n + 1 - 1 = n
    BY <1>2
  <2>3. Outer(t, up, p + 1, d, n + 1) <=> Outer(t, at, p, e, n + 1)
    BY <1>4, <2>1, <2>2 DEF Outer
  <2>4. Outer(t, at, p, e, n + 1) <=> Positive(conds)
    BY <1>1, PositiveIsActive
  <2>5. BranchState(t, up, p, p + 1) = Worth(t[p], m)
    BY FirstBranch DEF up
  <2> QED BY <1>4, <2>3, <2>4, <2>5 DEF Entry, c
<1>9. \A k \in 1..(n + 1) : conds2[k] = Entry(t, up, p + 1, d, k)
  <2>1. \A k \in 1..(n + 1) : k \in 1..n \/ k = n + 1
    BY <1>2
  <2>2. \A k \in 1..n : conds[k] = Entry(t, at, p, e, k)
    BY <1>1 DEF Nest
  <2> QED BY <1>2, <1>7, <1>8, <2>1, <2>2
<1> HIDE DEF n
<1>10. Nest(t, up, p + 1, conds2, d)
  BY <1>2, <1>4, <1>5, <1>6, <1>9 DEF Nest
<1>11. Branches(t, up, p + 1, conds2)
  BY <1>10 DEF Branches
<1> QED BY <1>11 DEF up, conds2, c

\* The stack without its last entry.
LEMMA PoppedIs ==
    ASSUME NEW conds \in Seq(ConditionState), conds # <<>>
    PROVE  /\ Len(conds) \in Nat /\ Len(conds) # 0
           /\ Popped(conds) \in Seq(ConditionState)
           /\ Len(Popped(conds)) = Len(conds) - 1
           /\ \A k \in 1..(Len(conds) - 1) : Popped(conds)[k] = conds[k]
<1>1. Len(conds) \in Nat /\ Len(conds) # 0
  OBVIOUS
<1>2. \A k \in 1..(Len(conds) - 1) : k \in 1..Len(conds) /\ k + 1 - 1 = k
  OBVIOUS
<1>3. Popped(conds) \in Seq(ConditionState)
  BY DEF Popped
<1>5. Len(Popped(conds)) = Len(conds) - 1
  <2> DEFINE n == Len(conds) - 1
  <2>1. n \in Nat
    BY <1>1
  <2>2. n \in Int /\ 1 \in Int /\ \A i \in 1..n : conds[i] \in ConditionState
    BY <1>1
  <2> HIDE DEF n
  <2>3. Len(SubSeq(conds, 1, n)) = IF 1 <= n THEN n - 1 + 1 ELSE 0
    BY <2>2, SubSeqProperties
  <2>4. Len(SubSeq(conds, 1, n)) = n
    BY <2>3, <2>1
  <2> QED BY <2>4, Zenon DEF n, Popped
<1>4. \A k \in 1..(Len(conds) - 1) : Popped(conds)[k] = conds[k]
  BY <1>1, <1>2 DEF Popped
<1> QED BY <1>1, <1>3, <1>4, <1>5

\* The last entry of a stack after another branch.
LEMMA BranchesSwitch ==
    ASSUME NEW t \in Seq(Line), NEW p \in Nat \ {0}, NEW at \in Seq(SUBSET Name),
           Len(at) = p - 1, NEW m \in SUBSET Name,
           NEW conds \in Seq(ConditionState), Branches(t, at, p, conds),
           conds # <<>>, t[p].kind \in {"elseif", "else"}
    PROVE  Branches(t, Append(at, m), p + 1,
                    Append(Popped(conds), IF conds[Len(conds)] = "NotActivated"
                                          THEN Worth(t[p], m) ELSE "Activated"))
<1> DEFINE up == Append(at, m)
           n == Len(conds)
           c == IF conds[n] = "NotActivated" THEN Worth(t[p], m) ELSE "Activated"
           conds2 == Append(Popped(conds), c)
<1>1. PICK e : Nest(t, at, p, conds, e)
  BY DEF Branches
<1>2. /\ n \in Nat \ {0} /\ Len(conds2) = n /\ conds2[n] = c
      /\ \A k \in 1..(n - 1) : conds2[k] = conds[k]
  <2> DEFINE q == Popped(conds)
  <2>1. q \in Seq(ConditionState) /\ Len(q) = n - 1 /\ n \in Nat /\ n # 0
    BY PoppedIs
  <2>2. \A k \in 1..(n - 1) : q[k] = conds[k]
    BY PoppedIs
  <2> HIDE DEF q, n, c
  <2>3. /\ Len(Append(q, c)) = n /\ Append(q, c)[n] = c
        /\ \A k \in 1..(n - 1) : Append(q, c)[k] = q[k]
    BY <2>1
  <2> QED BY <2>1, <2>2, <2>3 DEF q
<1>3. e \in [1..n -> 1..(p - 1)] /\ e \in [1..n -> 1..(p + 1 - 1)]
  BY <1>1 DEF Nest
<1> HIDE DEF c, conds2, up
<1>4. \A k \in 1..n : Bal(t, e[k], p + 1) = n - k + 1
  <2> SUFFICES ASSUME NEW k \in 1..n PROVE Bal(t, e[k], p + 1) = n - k + 1
    OBVIOUS
  <2>1. e[k] \in Nat /\ e[k] <= p
    BY <1>3
  <2>2. Bal(t, e[k], p) = n - k + 1
    BY <1>1 DEF Nest
  <2>3. Bal(t, e[k], p + 1) = Bal(t, e[k], p) + Opens(t[p])
    BY <2>1, BalNext
  <2>4. Opens(t[p]) = 0
    BY DEF Opens
  <2> QED BY <1>2, <2>2, <2>3, <2>4
<1>5. Enclosing(t, p + 1) = {e[k] : k \in 1..n}
  <2>1. Enclosing(t, p + 1) = {f \in Enclosing(t, p) : Bal(t, f, p + 1) > 0}
    BY EnclosingNext
  <2>2. Enclosing(t, p) = {e[k] : k \in 1..n}
    BY <1>1 DEF Nest
  <2>3. \A k \in 1..n : Bal(t, e[k], p + 1) > 0
    BY <1>2, <1>4
  <2> QED BY <2>1, <2>2, <2>3
<1>6. \A k \in 1..(n - 1) : SameBranch(t, e[k], at, p, up, p + 1)
  <2> SUFFICES ASSUME NEW k \in 1..(n - 1) PROVE SameBranch(t, e[k], at, p, up, p + 1)
    OBVIOUS
  <2>1. k \in 1..n /\ k # n
    BY <1>2
  <2> QED BY <1>1, <2>1, InnerMoves DEF up
<1>7. ASSUME NEW k \in 1..(n - 1) PROVE conds2[k] = Entry(t, up, p + 1, e, k)
  <2>1. \A j \in 1..k : SameBranch(t, e[j], at, p, up, p + 1)
    <3>1. \A j \in 1..k : j \in 1..(n - 1)
      BY <1>2
    <3> QED BY <1>6, <3>1, Zenon
  <2>2. k \in Nat /\ k # 0 /\ \A j \in 1..k : e[j] = e[j]
    OBVIOUS
  <2>3. Entry(t, up, p + 1, e, k) = Entry(t, at, p, e, k)
    BY <2>1, <2>2, SameEntry
  <2>4. conds[k] = Entry(t, at, p, e, k)
    BY <1>1, <1>2 DEF Nest
  <2> QED BY <1>2, <2>3, <2>4
<1>8. conds2[n] = Entry(t, up, p + 1, e, n)
  <2>1. n \in 1..n
    BY <1>2
  <2>2. e[n] \in Enclosing(t, p) /\ Bal(t, e[n], p) = n - n + 1
    BY <1>1, <2>1 DEF Nest
  <2>3. NewHead(t, e[n], p)
    BY <1>2, <2>2 DEF NewHead
  <2>4. BranchState(t, up, e[n], p + 1) =
           IF BranchState(t, at, e[n], p) = "NotActivated" THEN Worth(t[p], m) ELSE "Activated"
    BY <2>2, <2>3, NextBranch DEF up
  <2>5. Outer(t, up, p + 1, e, n) <=> Outer(t, at, p, e, n)
    <3>1. \A j \in 1..(n - 1) : Selected(t, up, e[j], p + 1) <=> Selected(t, at, e[j], p)
      BY <1>6 DEF SameBranch
    <3> QED BY <3>1 DEF Outer
  <2>6. conds[n] = Entry(t, at, p, e, n)
    BY <1>1, <2>1 DEF Nest
  <2> QED BY <1>2, <2>4, <2>5, <2>6 DEF Entry, c
<1>9. \A k \in 1..n : conds2[k] = Entry(t, up, p + 1, e, k)
  <2>1. \A k \in 1..n : k \in 1..(n - 1) \/ k = n
    BY <1>2
  <2> QED BY <1>7, <1>8, <2>1
<1> HIDE DEF n
<1>10. Nest(t, up, p + 1, conds2, e)
  BY <1>2, <1>3, <1>4, <1>5, <1>9 DEF Nest
<1>11. Branches(t, up, p + 1, conds2)
  BY <1>10 DEF Branches
<1> QED BY <1>11 DEF up, conds2, c, n

LEMMA BranchesClose ==
    ASSUME NEW t \in Seq(Line), NEW p \in Nat \ {0}, NEW at \in Seq(SUBSET Name),
           Len(at) = p - 1, NEW m \in SUBSET Name,
           NEW conds \in Seq(ConditionState), Branches(t, at, p, conds),
           conds # <<>>, t[p].kind = "endif"
    PROVE  Branches(t, Append(at, m), p + 1, Popped(conds))
<1> DEFINE up == Append(at, m)
           n == Len(conds)
           conds2 == Popped(conds)
<1>1. PICK e : Nest(t, at, p, conds, e)
  BY DEF Branches
<1> DEFINE d == [k \in 1..(n - 1) |-> e[k]]
<1>2. /\ n \in Nat \ {0} /\ Len(conds2) = n - 1
      /\ \A k \in 1..(n - 1) : conds2[k] = conds[k]
  BY PoppedIs
<1>3. e \in [1..n -> 1..(p - 1)]
  BY <1>1 DEF Nest
<1>4. d \in [1..(n - 1) -> 1..(p + 1 - 1)] /\ \A k \in 1..(n - 1) : d[k] = e[k]
  BY <1>2, <1>3
<1> HIDE DEF d, conds2, up
<1>5. \A k \in 1..n : Bal(t, e[k], p + 1) = n - k
  <2> SUFFICES ASSUME NEW k \in 1..n PROVE Bal(t, e[k], p + 1) = n - k
    OBVIOUS
  <2>1. e[k] \in Nat /\ e[k] <= p
    BY <1>3
  <2>2. Bal(t, e[k], p) = n - k + 1
    BY <1>1 DEF Nest
  <2>3. Bal(t, e[k], p + 1) = Bal(t, e[k], p) + Opens(t[p])
    BY <2>1, BalNext
  <2>4. Opens(t[p]) = -1
    BY DEF Opens
  <2> QED BY <1>2, <2>2, <2>3, <2>4
<1>6. Enclosing(t, p + 1) = {d[k] : k \in 1..(n - 1)}
  <2>1. Enclosing(t, p + 1) = {f \in Enclosing(t, p) : Bal(t, f, p + 1) > 0}
    BY EnclosingNext
  <2>2. Enclosing(t, p) = {e[k] : k \in 1..n}
    BY <1>1 DEF Nest
  <2>3. \A k \in 1..n : Bal(t, e[k], p + 1) > 0 <=> k \in 1..(n - 1)
    BY <1>2, <1>5
  <2>4. 1..(n - 1) \subseteq 1..n
    BY <1>2
  <2>5. Enclosing(t, p + 1) = {e[k] : k \in 1..(n - 1)}
    BY <2>1, <2>2, <2>3, <2>4
  <2> QED BY <1>4, <2>5
<1>7. ASSUME NEW k \in 1..(n - 1) PROVE conds2[k] = Entry(t, up, p + 1, d, k)
  <2>1. \A j \in 1..k : j \in 1..n /\ j # n
    BY <1>2
  <2>2. ASSUME NEW j \in 1..k PROVE SameBranch(t, e[j], at, p, up, p + 1)
    <3>1. j \in 1..n /\ (j # n \/ t[p].kind \notin {"elseif", "else"})
      BY <2>1
    <3> QED BY <1>1, <3>1, InnerMoves DEF up
  <2>3. k \in Nat /\ k # 0 /\ \A j \in 1..k : d[j] = e[j]
    BY <1>4
  <2>4. Entry(t, up, p + 1, d, k) = Entry(t, at, p, e, k)
    BY <2>2, <2>3, SameEntry
  <2>5. conds[k] = Entry(t, at, p, e, k)
    BY <1>1, <1>2 DEF Nest
  <2> QED BY <1>2, <2>4, <2>5
<1>8. \A k \in 1..(n - 1) : Bal(t, d[k], p + 1) = (n - 1) - k + 1
  <2> SUFFICES ASSUME NEW k \in 1..(n - 1) PROVE Bal(t, d[k], p + 1) = (n - 1) - k + 1
    OBVIOUS
  <2>1. k \in 1..n /\ d[k] = e[k]
    BY <1>2, <1>4
  <2>2. Bal(t, d[k], p + 1) = n - k
    BY <1>5, <2>1
  <2> QED BY <1>2, <2>2
<1> HIDE DEF n
<1>9. Nest(t, up, p + 1, conds2, d)
  BY <1>2, <1>4, <1>6, <1>7, <1>8 DEF Nest
<1>10. Branches(t, up, p + 1, conds2)
  BY <1>9 DEF Branches
<1> QED BY <1>10 DEF up, conds2

-----------------------------------------------------------------------------
(* The inductive invariant of the branches: the stack of each preprocessor *)
(* tells the nesting of its line and what the branches around it have come *)
(* to, and the lines behind it are reported and kept as they should be.    *)
Plain(line) == line.kind \notin {"if", "elseif", "else", "endif"}
AsSelected(f, i) ==
    /\ i \in f.skipped <=> ~ IsActive(f.text, f.at, i)
    /\ OneRow(f.text) => (f.out[i] = Kept <=> IsActive(f.text, f.at, i))
Survives(f) == \A i \in 1..(f.pos - 1) : Plain(f.text[i]) => AsSelected(f, i)
FrameNested(f) ==
    IF f.pos = 0 THEN f.conds = <<>> /\ f.skipped = {}
    ELSE /\ Branches(f.text, f.at, f.pos, f.conds)
         /\ f.skipped \subseteq 1..(f.pos - 1)
         /\ Survives(f)
AllNested == \A k \in DOMAIN stack : FrameNested(stack[k])

(* What a line should leave: the conditions, and when it is none of them   *)
(* whether it counts as disabled and is kept.                              *)
RightConds(f, conds) ==
    Branches(f.text, Append(f.at, f.macros), f.pos + 1, conds)
RightRows(f, row, disabled) ==
    Plain(f.text[f.pos]) => /\ disabled <=> ~ Positive(f.conds)
                            /\ row = Kept <=> Positive(f.conds)

\* A text of rows with one more row.
LEMMA OneRowMore ==
    ASSUME NEW S, NEW out \in Seq(S), NEW rows \in Seq(S), Len(rows) = 1
    PROVE  /\ (out \o rows)[Len(out) + 1] = rows[1]
           /\ \A i \in 1..Len(out) : (out \o rows)[i] = out[i]
<1>1. \A i \in 1..(Len(out) + Len(rows)) :
         (out \o rows)[i] = IF i <= Len(out) THEN out[i] ELSE rows[i - Len(out)]
  BY ConcatProperties
<1>2. Len(out) \in Nat /\ Len(out) + Len(rows) = Len(out) + 1
  OBVIOUS
<1>3. Len(out) + 1 \in 1..(Len(out) + Len(rows)) /\ ~ (Len(out) + 1 <= Len(out))
      /\ (Len(out) + 1) - Len(out) = 1
  BY <1>2
<1>4. (out \o rows)[Len(out) + 1] = rows[1]
  BY <1>1, <1>3, Zenon
<1>5. \A i \in 1..Len(out) : i \in 1..(Len(out) + Len(rows)) /\ i <= Len(out)
  BY <1>2
<1>6. \A i \in 1..Len(out) : (out \o rows)[i] = out[i]
  BY <1>1, <1>5, Zenon
<1> QED BY <1>4, <1>6

AdvancedTo(f, g, conds, rows, disabled) ==
    /\ g.text = f.text /\ g.pos = f.pos + 1 /\ g.conds = conds
    /\ g.out = f.out \o rows /\ g.at = Append(f.at, f.macros)
    /\ g.skipped = IF disabled THEN f.skipped \cup {f.pos} ELSE f.skipped

LEMMA AdvancedFields ==
    ASSUME NEW f \in Frame, NEW conds \in Seq(ConditionState), NEW macros \in SUBSET Name,
           NEW rows \in Seq({Kept, Blank}), NEW disabled \in BOOLEAN
    PROVE  AdvancedTo(f, Advanced(f, conds, macros, rows, disabled), conds, rows, disabled)
<1> DEFINE skipped == IF disabled THEN f.skipped \cup {f.pos} ELSE f.skipped
           out == f.out \o rows
           at == Append(f.at, f.macros)
           g == Advanced(f, conds, macros, rows, disabled)
<1>1. g = [f EXCEPT !.pos = f.pos + 1, !.conds = conds, !.macros = macros,
                    !.out = out, !.skipped = skipped, !.at = at]
      BY DEF Advanced, Frame
<1> HIDE DEF skipped, out, at, g
<1>2. /\ g.text = f.text /\ g.pos = f.pos + 1 /\ g.conds = conds
      /\ g.out = out /\ g.at = at /\ g.skipped = skipped
      BY <1>1 DEF Frame
<1>3. AdvancedTo(f, g, conds, rows, disabled)
      BY <1>2, Zenon DEF AdvancedTo, skipped, out, at
<1> QED BY <1>3 DEF g

LEMMA AdvancedNested ==
    ASSUME NEW f \in Frame, f.pos \in Nat \ {0}, f.pos <= Len(f.text),
           FrameInSync(f), FrameNested(f),
           NEW conds \in Seq(ConditionState), NEW macros \in SUBSET Name,
           NEW n \in Nat, OneRow(f.text) => n = 1,
           NEW row \in {Kept, Blank}, NEW disabled \in BOOLEAN,
           RightConds(f, conds), RightRows(f, row, disabled)
    PROVE  FrameNested(Advanced(f, conds, macros, Rows(n, row), disabled))
<1> DEFINE rows == Rows(n, row)
           g == Advanced(f, conds, macros, rows, disabled)
           p == f.pos
<1>1. rows \in Seq({Kept, Blank}) /\ Len(rows) = n /\ (n = 1 => rows[1] = row)
  <2>1. rows \in Seq({Kept, Blank}) /\ Len(rows) = n
    BY RowsType
  <2>2. n = 1 => rows[1] = row
    BY DEF Rows
  <2> QED BY <2>1, <2>2
<1> HIDE DEF rows
<1>2. /\ g.text = f.text /\ g.pos = p + 1 /\ g.conds = conds
      /\ g.out = f.out \o rows /\ g.at = Append(f.at, f.macros)
      /\ g.skipped = IF disabled THEN f.skipped \cup {p} ELSE f.skipped
  <2>1. AdvancedTo(f, g, conds, rows, disabled)
    BY <1>1, AdvancedFields, Zenon
  <2> HIDE DEF g
  <2> QED BY <2>1, Zenon DEF AdvancedTo
<1> HIDE DEF g
<1>3. /\ f.text \in Seq(Line) /\ f.at \in Seq(SUBSET Name) /\ f.macros \in SUBSET Name
      /\ f.conds \in Seq(ConditionState)
  BY DEF Frame
<1>4. Len(f.at) = p - 1 /\ (OneRow(f.text) => Len(f.out) = p - 1)
  BY DEF FrameInSync
<1>5. /\ Branches(f.text, f.at, p, f.conds) /\ f.skipped \subseteq 1..(p - 1) /\ Survives(f)
  BY DEF FrameNested
<1>6. Branches(g.text, g.at, g.pos, g.conds)
  BY <1>2, Zenon DEF RightConds
<1>7. g.skipped \subseteq 1..(g.pos - 1)
  BY <1>2, <1>5
<1>8. \A i \in 1..p : IsActive(g.text, g.at, i) <=> IsActive(f.text, f.at, i)
  <2> SUFFICES ASSUME NEW i \in 1..p
               PROVE  IsActive(g.text, g.at, i) <=> IsActive(f.text, f.at, i)
    OBVIOUS
  <2>1. i \in Nat \ {0} /\ i <= Len(f.at) + 1
    BY <1>4
  <2>2. IsActive(f.text, Append(f.at, f.macros), i) <=> IsActive(f.text, f.at, i)
    BY <1>3, <2>1, StaysActive
  <2> QED BY <1>2, <2>2, Zenon
<1>9. Positive(f.conds) <=> IsActive(f.text, f.at, p)
  <2>1. PICK e : Nest(f.text, f.at, p, f.conds, e)
    BY <1>5 DEF Branches
  <2> QED BY <1>3, <2>1, PositiveIsActive
<1>10. ASSUME OneRow(f.text)
       PROVE  g.out[p] = row /\ \A i \in 1..(p - 1) : g.out[i] = f.out[i]
  <2>1. Len(f.out) = p - 1 /\ Len(rows) = 1 /\ rows[1] = row /\ f.out \in Seq({Kept, Blank})
    BY <1>1, <1>4, <1>10 DEF Frame
  <2>2. /\ (f.out \o rows)[p] = rows[1]
        /\ \A i \in 1..(p - 1) : (f.out \o rows)[i] = f.out[i]
    <3> DEFINE out == f.out
    <3>1. out \in Seq({Kept, Blank}) /\ Len(out) = p - 1
      BY <2>1
    <3> HIDE DEF out, p
    <3>2. /\ (out \o rows)[Len(out) + 1] = rows[1]
          /\ \A i \in 1..Len(out) : (out \o rows)[i] = out[i]
      BY <1>1, <2>1, <3>1, OneRowMore, Zenon
    <3>3. Len(out) + 1 = p /\ 1..Len(out) = 1..(p - 1)
      BY <3>1 DEF p
    <3> QED BY <3>2, <3>3, Zenon DEF out
  <2> QED BY <1>2, <2>1, <2>2
<1>11. Survives(g)
  <2> SUFFICES ASSUME NEW i \in 1..p, Plain(f.text[i]) PROVE AsSelected(g, i)
    <3>1. p + 1 - 1 = p
      OBVIOUS
    <3> QED BY <1>2, <3>1 DEF Survives
  <2>1. OneRow(g.text) => OneRow(f.text)
    BY <1>2, Zenon
  <2>2. CASE i = p
    <3>1. p \in g.skipped <=> disabled
      BY <1>2, <1>5
    <3>2. /\ disabled <=> ~ Positive(f.conds)
          /\ row = Kept <=> Positive(f.conds)
      BY <2>2 DEF RightRows
    <3>3. IsActive(g.text, g.at, p) <=> Positive(f.conds)
      BY <1>8, <1>9
    <3>4. OneRow(g.text) => g.out[p] = row
      BY <1>10, <2>1
    <3> QED BY <2>2, <3>1, <3>2, <3>3, <3>4 DEF AsSelected
  <2>3. CASE i # p
    <3>1. i \in 1..(p - 1)
      BY <2>3
    <3>2. AsSelected(f, i)
      BY <1>5, <3>1 DEF Survives
    <3>3. i \in g.skipped <=> i \in f.skipped
      BY <1>2, <2>3
    <3>4. IsActive(g.text, g.at, i) <=> IsActive(f.text, f.at, i)
      BY <1>8
    <3>5. OneRow(g.text) => g.out[i] = f.out[i]
      BY <1>10, <2>1, <3>1
    <3> QED BY <2>1, <3>2, <3>3, <3>4, <3>5 DEF AsSelected
  <2> QED BY <2>2, <2>3
<1>12. FrameNested(g)
  <2>1. g.pos # 0
    BY <1>2
  <2> QED BY <1>6, <1>7, <1>11, <2>1 DEF FrameNested
<1> QED BY <1>12 DEF g, rows

-----------------------------------------------------------------------------
(* The preprocessor on top is replaced.                                    *)
LEMMA ReplacedNested ==
    ASSUME Inv, AllNested, Running, NEW g, FrameNested(g),
           stack' = [stack EXCEPT ![Len(stack)] = g]
    PROVE  AllNested'
<1>1. stack \in Seq(Frame) /\ DOMAIN stack = 1..Len(stack) /\ Len(stack) \in DOMAIN stack
  BY TopType DEF Inv, TypeOK
<1>2. DOMAIN stack' = DOMAIN stack
      /\ \A k \in DOMAIN stack : stack'[k] = IF k = Len(stack) THEN g ELSE stack[k]
  BY <1>1
<1>3. ASSUME NEW k \in DOMAIN stack PROVE FrameNested(stack'[k])
  <2>1. CASE k = Len(stack)
    BY <1>2, <2>1, Zenon
  <2>2. CASE k # Len(stack)
    BY <1>2, <2>2, Zenon DEF AllNested
  <2> QED BY <2>1, <2>2
<1> QED BY <1>2, <1>3, Zenon DEF AllNested

LEMMA ReadNested ==
    ASSUME Inv, AllNested, Reading, NEW conds \in Seq(ConditionState),
           NEW macros \in SUBSET Name, NEW n \in Nat, OneRow(Top.text) => n = 1,
           NEW row \in {Kept, Blank}, NEW disabled \in BOOLEAN,
           RightConds(Top, conds), RightRows(Top, row, disabled),
           Read(conds, macros, Rows(n, row), disabled)
    PROVE  AllNested'
<1> DEFINE g == Advanced(Top, conds, macros, Rows(n, row), disabled)
<1>1. Running /\ Top.pos \in Nat \ {0} /\ Top.pos <= Len(Top.text)
  BY CurrentType
<1>2. Top \in Frame /\ FrameInSync(Top) /\ Len(stack) \in DOMAIN stack
  BY <1>1, TopType
<1>3. FrameNested(Top)
  BY <1>2 DEF AllNested, Top
<1>4. FrameNested(g)
  BY <1>1, <1>2, <1>3, AdvancedNested, Zenon
<1>5. stack' = [stack EXCEPT ![Len(stack)] = g]
  BY DEF Read
<1> HIDE DEF g
<1> QED BY <1>1, <1>4, <1>5, ReplacedNested

-----------------------------------------------------------------------------
(* What the invariants give for the line on top.                           *)
TopNested ==
    /\ Branches(Top.text, Top.at, Top.pos, Top.conds)
    /\ Top.text \in Seq(Line) /\ Top.at \in Seq(SUBSET Name) /\ Top.macros \in SUBSET Name
    /\ Top.conds \in Seq(ConditionState)
    /\ Top.pos \in Nat \ {0} /\ Len(Top.at) = Top.pos - 1
    /\ Top.text[Top.pos] = Current

LEMMA TopIsNested == ASSUME Inv, AllNested, Reading PROVE TopNested
<1>1. Running /\ Top.pos \in Nat \ {0}
  BY CurrentType
<1>2. Top \in Frame /\ FrameInSync(Top) /\ Len(stack) \in DOMAIN stack
  BY <1>1, TopType
<1>3. FrameNested(Top)
  BY <1>2 DEF AllNested, Top
<1>4. Branches(Top.text, Top.at, Top.pos, Top.conds)
  BY <1>1, <1>3 DEF FrameNested
<1>5. Len(Top.at) = Top.pos - 1
  BY <1>1, <1>2 DEF FrameInSync
<1>6. /\ Top.text \in Seq(Line) /\ Top.at \in Seq(SUBSET Name) /\ Top.macros \in SUBSET Name
      /\ Top.conds \in Seq(ConditionState)
  BY <1>2 DEF Frame
<1>7. Top.text[Top.pos] = Current
  BY DEF Current
<1> QED BY <1>1, <1>4, <1>5, <1>6, <1>7 DEF TopNested

\* A line that is not a condition leaves the conditions.
LEMMA PlainConds ==
    ASSUME TopNested, Plain(Current)
    PROVE  RightConds(Top, Top.conds)
BY BranchesStay DEF TopNested, Plain, RightConds

LEMMA PlainKinds ==
    ASSUME Current.kind \in {"code", "call", "define", "undef", "include"}
    PROVE  Plain(Current)
BY DEF Plain

\* A plain line is right when it is kept in a selected branch.
LEMMA PlainRows ==
    ASSUME Positive(Top.conds)
    PROVE  RightRows(Top, Kept, FALSE)
BY DEF RightRows

\* The line of a condition is right anyway.
LEMMA ConditionRows ==
    ASSUME TopNested, Current.kind \in {"if", "elseif", "else", "endif"},
           NEW row, NEW disabled
    PROVE  RightRows(Top, row, disabled)
BY DEF TopNested, RightRows, Plain

LEMMA SkipNested == ASSUME Inv, AllNested, Skip PROVE AllNested'
<1>1. /\ Reading /\ Read(Top.conds, Top.macros, Rows(1, Blank), TRUE)
      /\ ~ Positive(Top.conds) /\ Plain(Current)
  BY DEF Skip, Plain
<1>2. TopNested
  BY <1>1, TopIsNested
<1>3. RightConds(Top, Top.conds)
  BY <1>1, <1>2, PlainConds
<1>4. RightRows(Top, Blank, TRUE)
  BY <1>1 DEF RightRows
<1> QED BY <1>1, <1>3, <1>4, LineType, ReadNested, Zenon

LEMMA CodeNested == ASSUME Inv, AllNested, Code PROVE AllNested'
<1> DEFINE n == IF Current.kind = "call" /\ Current.name \in Top.macros THEN 1 ELSE Current.rows
<1>1. /\ Reading /\ Read(Top.conds, Top.macros, Rows(n, Kept), FALSE)
      /\ Positive(Top.conds) /\ Plain(Current)
  BY PlainKinds DEF Code
<1>2. n \in Nat /\ (OneRow(Top.text) => n = 1)
  BY <1>1, LineType, Zenon
<1> HIDE DEF n
<1>3. RightConds(Top, Top.conds) /\ RightRows(Top, Kept, FALSE)
  BY <1>1, TopIsNested, PlainConds, PlainRows, Zenon
<1> QED BY <1>1, <1>2, <1>3, LineType, ReadNested, Zenon

LEMMA DefineNested == ASSUME Inv, AllNested, Define PROVE AllNested'
<1> DEFINE m == Top.macros \cup {Current.name}
<1>1. /\ Reading /\ Read(Top.conds, m, Rows(Current.rows, Kept), FALSE)
      /\ Positive(Top.conds) /\ Plain(Current)
  BY PlainKinds DEF Define
<1>2. m \in SUBSET Name
  BY <1>1, LineType
<1> HIDE DEF m
<1>3. RightConds(Top, Top.conds) /\ RightRows(Top, Kept, FALSE)
  BY <1>1, TopIsNested, PlainConds, PlainRows, Zenon
<1> QED BY <1>1, <1>2, <1>3, LineType, ReadNested, Zenon

LEMMA UndefNested == ASSUME Inv, AllNested, Undef PROVE AllNested'
<1> DEFINE m == Top.macros \ {Current.name}
<1>1. /\ Reading /\ Read(Top.conds, m, Rows(Current.rows, Kept), FALSE)
      /\ Positive(Top.conds) /\ Plain(Current)
  BY PlainKinds DEF Undef
<1>2. m \in SUBSET Name
  BY <1>1, LineType
<1> HIDE DEF m
<1>3. RightConds(Top, Top.conds) /\ RightRows(Top, Kept, FALSE)
  BY <1>1, TopIsNested, PlainConds, PlainRows, Zenon
<1> QED BY <1>1, <1>2, <1>3, LineType, ReadNested, Zenon

-----------------------------------------------------------------------------
\* process_if_directive, when the stack under it is outer.
LEMMA ProcessIfNested ==
    ASSUME Inv, AllNested, Reading, Current.kind \in {"if", "elseif"},
           NEW outer \in Seq(ConditionState), ProcessIf(outer),
           RightConds(Top, Append(outer, Worth(Current, Top.macros)))
    PROVE  AllNested'
<1> DEFINE c == Worth(Current, Top.macros)
           conds == Append(outer, c)
<1>1. c = IF Holds(Current, Top.macros) THEN "Active" ELSE "NotActivated"
  BY DEF Worth
<1>2. c \in ConditionState
  BY <1>1, ConditionStates
<1>3. Read(conds, Top.macros, Rows(Current.rows, Blank), FALSE)
  BY <1>1 DEF ProcessIf
<1>4. RightRows(Top, Blank, FALSE)
  BY TopIsNested, ConditionRows
<1> HIDE DEF c
<1>5. conds \in Seq(ConditionState)
  BY <1>2, ConditionsType
<1>6. RightConds(Top, conds)
  BY DEF c
<1> HIDE DEF conds
<1> QED BY <1>3, <1>4, <1>5, <1>6, LineType, ReadNested, Zenon

LEMMA IfNested == ASSUME Inv, AllNested, If PROVE AllNested'
<1>1. Reading /\ Current.kind = "if"
  BY DEF If
<1>2. TopNested
  BY <1>1, TopIsNested
<1>3. RightConds(Top, Append(Top.conds, IF Positive(Top.conds)
                                        THEN Worth(Current, Top.macros) ELSE "Activated"))
  BY <1>1, <1>2, BranchesOpen DEF TopNested, RightConds
<1>4. Top.conds \in Seq(ConditionState)
  BY <1>2 DEF TopNested
<1>5. CASE Positive(Top.conds) /\ ProcessIf(Top.conds)
  <2>1. RightConds(Top, Append(Top.conds, Worth(Current, Top.macros)))
    BY <1>3, <1>5
  <2>2. Current.kind \in {"if", "elseif"}
    BY <1>1
  <2> QED BY <1>1, <1>4, <1>5, <2>1, <2>2, ProcessIfNested, Zenon
<1>6. CASE /\ ~ Positive(Top.conds)
           /\ Read(Append(Top.conds, "Activated"), Top.macros, Rows(1, Blank), TRUE)
  <2>1. RightConds(Top, Append(Top.conds, "Activated"))
    BY <1>3, <1>6
  <2>2. Append(Top.conds, "Activated") \in Seq(ConditionState)
    BY <1>1, LineType, ConditionStates, ConditionsType, Zenon
  <2>3. RightRows(Top, Blank, TRUE)
    BY <1>1, <1>2, ConditionRows
  <2> QED BY <1>1, <1>6, <2>1, <2>2, <2>3, LineType, ReadNested, Zenon
<1> QED BY <1>5, <1>6 DEF If

\* The conditions after an #elseif or an #else.
LEMMA SwitchedConds ==
    ASSUME TopNested, Top.conds # <<>>, Current.kind \in {"elseif", "else"}
    PROVE  RightConds(Top, Append(Popped(Top.conds),
                                  IF Top.conds[Len(Top.conds)] = "NotActivated"
                                  THEN Worth(Current, Top.macros) ELSE "Activated"))
BY BranchesSwitch DEF TopNested, RightConds

LEMMA ElseifNested == ASSUME Inv, AllNested, Elseif PROVE AllNested'
<1> DEFINE outer == Popped(Top.conds)
<1>1. Reading /\ Current.kind = "elseif" /\ Top.conds # <<>>
  BY DEF Elseif
<1>2. TopNested
  BY <1>1, TopIsNested
<1>3. RightConds(Top, Append(outer, IF Top.conds[Len(Top.conds)] = "NotActivated"
                                    THEN Worth(Current, Top.macros) ELSE "Activated"))
  BY <1>1, <1>2, SwitchedConds
<1>4. outer \in Seq(ConditionState) /\ Append(outer, "Activated") \in Seq(ConditionState)
  BY <1>1, LineType, ConditionStates, ConditionsType, Zenon
<1>5. CASE Top.conds[Len(Top.conds)] = "NotActivated"
  <2>1. RightConds(Top, Append(outer, Worth(Current, Top.macros)))
    BY <1>3, <1>5
  <2>2. Current.kind \in {"if", "elseif"}
    BY <1>1
  <2>3. ProcessIf(outer)
    BY <1>5 DEF Elseif
  <2> QED BY <1>1, <1>4, <2>1, <2>2, <2>3, ProcessIfNested, Zenon
<1>6. CASE Top.conds[Len(Top.conds)] # "NotActivated"
  <2>1. RightConds(Top, Append(outer, "Activated"))
    BY <1>3, <1>6
  <2>2. Read(Append(outer, "Activated"), Top.macros, Rows(1, Blank), TRUE)
    BY <1>6 DEF Elseif
  <2>3. RightRows(Top, Blank, TRUE)
    BY <1>1, <1>2, ConditionRows
  <2> QED BY <1>1, <1>4, <2>1, <2>2, <2>3, LineType, ReadNested, Zenon
<1> QED BY <1>5, <1>6

LEMMA ElseNested == ASSUME Inv, AllNested, Else PROVE AllNested'
<1> DEFINE outer == Popped(Top.conds)
<1>1. Reading /\ Current.kind = "else" /\ Top.conds # <<>>
  BY DEF Else
<1>2. TopNested
  BY <1>1, TopIsNested
<1>3. RightConds(Top, Append(outer, IF Top.conds[Len(Top.conds)] = "NotActivated"
                                    THEN Worth(Current, Top.macros) ELSE "Activated"))
  BY <1>1, <1>2, SwitchedConds
<1>4. /\ Append(outer, "Active") \in Seq(ConditionState)
      /\ Append(outer, "Activated") \in Seq(ConditionState)
  BY <1>1, LineType, ConditionStates, ConditionsType, Zenon
<1>5. CASE Top.conds[Len(Top.conds)] = "NotActivated"
  <2>1. Worth(Current, Top.macros) = "Active"
    BY <1>1 DEF Worth
  <2>2. RightConds(Top, Append(outer, "Active"))
    BY <1>3, <1>5, <2>1
  <2>3. Read(Append(outer, "Active"), Top.macros, Rows(1, Blank), FALSE)
    BY <1>5 DEF Else
  <2>4. RightRows(Top, Blank, FALSE)
    BY <1>1, <1>2, ConditionRows
  <2> QED BY <1>1, <1>4, <2>2, <2>3, <2>4, LineType, ReadNested, Zenon
<1>6. CASE Top.conds[Len(Top.conds)] # "NotActivated"
  <2>1. RightConds(Top, Append(outer, "Activated"))
    BY <1>3, <1>6
  <2>2. Read(Append(outer, "Activated"), Top.macros, Rows(1, Blank), TRUE)
    BY <1>6 DEF Else
  <2>3. RightRows(Top, Blank, TRUE)
    BY <1>1, <1>2, ConditionRows
  <2> QED BY <1>1, <1>4, <2>1, <2>2, <2>3, LineType, ReadNested, Zenon
<1> QED BY <1>5, <1>6

LEMMA EndifNested == ASSUME Inv, AllNested, Endif PROVE AllNested'
<1> DEFINE outer == Popped(Top.conds)
           disabled == ~ Positive(outer)
<1>1. /\ Reading /\ Current.kind = "endif" /\ Top.conds # <<>>
      /\ Read(outer, Top.macros, Rows(1, Blank), disabled)
  BY DEF Endif
<1>2. TopNested
  BY <1>1, TopIsNested
<1>3. RightConds(Top, outer)
  BY <1>1, <1>2, BranchesClose DEF TopNested, RightConds
<1>4. outer \in Seq(ConditionState)
  BY <1>1, LineType, ConditionStates, ConditionsType, Zenon
<1>5. disabled \in BOOLEAN
  BY DEF Positive
<1> HIDE DEF disabled
<1>6. RightRows(Top, Blank, disabled)
  BY <1>1, <1>2, ConditionRows
<1> QED BY <1>1, <1>3, <1>4, <1>5, <1>6, LineType, ReadNested, Zenon

-----------------------------------------------------------------------------
\* At the first line nothing is around it.
LEMMA NothingAround ==
    ASSUME NEW t, NEW at
    PROVE  Branches(t, at, 1, <<>>)
<1> DEFINE e == [k \in 1..0 |-> 0]
<1>1. Enclosing(t, 1) = {} /\ 1..0 = {} /\ Len(<<>>) = 0
  BY DEF Enclosing
<1>2. e \in [1..0 -> 1..(1 - 1)] /\ {e[k] : k \in 1..0} = {}
  BY <1>1
<1> HIDE DEF e
<1>3. Nest(t, at, 1, <<>>, e)
  BY <1>1, <1>2 DEF Nest
<1> QED BY <1>3 DEF Branches

LEMMA PastIncludeNested ==
    ASSUME Inv, AllNested, Including, NEW macros \in SUBSET Name
    PROVE  Running /\ FrameNested(PastInclude(macros))
<1> DEFINE g == PastInclude(macros)
<1>1. CASE Running /\ Top.pos = 0
  <2>1. Top \in Frame /\ FrameInSync(Top) /\ Len(stack) \in DOMAIN stack
    BY <1>1, TopType
  <2>2. FrameNested(Top)
    BY <2>1 DEF AllNested, Top
  <2>3. g = [Top EXCEPT !.pos = 1, !.macros = macros]
    BY <1>1 DEF PastInclude
  <2>4. /\ g.pos = 1 /\ g.text = Top.text /\ g.at = Top.at
        /\ g.conds = Top.conds /\ g.skipped = Top.skipped
    <3> HIDE DEF g
    <3> QED BY <2>1, <2>3 DEF Frame
  <2> HIDE DEF g
  <2>5. g.conds = <<>> /\ g.skipped = {}
    BY <1>1, <2>2, <2>4 DEF FrameNested
  <2>6. Branches(g.text, g.at, g.pos, g.conds)
    BY <2>4, <2>5, NothingAround, Zenon
  <2>7. Survives(g) /\ g.skipped \subseteq 1..(g.pos - 1)
    BY <2>4, <2>5 DEF Survives
  <2>8. FrameNested(g)
    BY <2>4, <2>6, <2>7 DEF FrameNested
  <2> QED BY <1>1, <2>8 DEF g
<1>2. CASE Reading /\ Positive(Top.conds) /\ Current.kind = "include"
  <2>1. Running /\ Top.pos \in Nat \ {0} /\ Top.pos <= Len(Top.text)
    BY <1>2, CurrentType
  <2>2. Top \in Frame /\ FrameInSync(Top) /\ Len(stack) \in DOMAIN stack
    BY <2>1, TopType
  <2>3. FrameNested(Top)
    BY <2>2 DEF AllNested, Top
  <2>4. RightConds(Top, Top.conds) /\ RightRows(Top, Kept, FALSE)
    <3>1. Plain(Current)
      BY <1>2, PlainKinds
    <3> QED BY <1>2, <3>1, TopIsNested, PlainConds, PlainRows, Zenon
  <2>5. /\ Top.conds \in Seq(ConditionState) /\ Current.rows \in Nat
        /\ (OneRow(Top.text) => Current.rows = 1)
        /\ Kept \in {Kept, Blank} /\ FALSE \in BOOLEAN
    BY <1>2, LineType, Zenon
  <2>6. FrameNested(Advanced(Top, Top.conds, macros, Rows(Current.rows, Kept), FALSE))
    BY <2>1, <2>2, <2>3, <2>4, <2>5, AdvancedNested, Zenon
  <2>7. g = Advanced(Top, Top.conds, macros, Rows(Current.rows, Kept), FALSE)
    BY <2>1 DEF PastInclude
  <2> QED BY <2>1, <2>6, <2>7
<1> QED BY <1>1, <1>2 DEF Including

LEMMA IncludeUnresolvedNested == ASSUME Inv, AllNested, IncludeUnresolved PROVE AllNested'
<1>1. Including /\ Running /\ stack' = [stack EXCEPT ![Len(stack)] = PastInclude(Top.macros)]
  BY DEF IncludeUnresolved, Including, Reading
<1>2. Top.macros \in SUBSET Name
  BY <1>1, TopType DEF Frame
<1> QED BY <1>1, <1>2, PastIncludeNested, ReplacedNested, Zenon

LEMMA IncludeDoneNested == ASSUME Inv, AllNested, IncludeDone PROVE AllNested'
<1> DEFINE m == Top.macros \cup store[Target].macros
<1>1. Including /\ Running /\ Target \in Doc
  BY DEF IncludeDone, Including, Reading
<1>2. Top.macros \in SUBSET Name
  BY <1>1, TopType DEF Frame
<1>3. m \in SUBSET Name
  BY <1>1, <1>2 DEF Inv, TypeOK, Document
<1>4. stack' = [stack EXCEPT ![Len(stack)] = PastInclude(m)]
  BY DEF IncludeDone
<1> HIDE DEF m
<1> QED BY <1>1, <1>3, <1>4, PastIncludeNested, ReplacedNested, Zenon

\* A preprocessor that has read nothing.
LEMMA NewFrameNested ==
    ASSUME NEW d, NEW opened, NEW text
    PROVE  FrameNested(NewFrame(d, opened, text))
BY DEF NewFrame, FrameNested

LEMMA IncludeNewNested == ASSUME Inv, AllNested, IncludeNew PROVE AllNested'
<1> DEFINE n == Len(stack)
           g == PastInclude(Top.macros)
           h == NewFrame(Target, FALSE, store[Target].text)
           mid == [stack EXCEPT ![n] = g]
<1>1. Including /\ Running /\ stack' = Append(mid, h)
  BY DEF IncludeNew, Including, Reading
<1>2. n \in Nat \ {0} /\ n \in DOMAIN stack /\ Top \in Frame /\ Top.macros \in SUBSET Name
  BY <1>1, TopType DEF Frame
<1>3. FrameNested(g) /\ g \in Frame
  BY <1>1, <1>2, PastIncludeNested, PastIncludeType
<1>4. FrameNested(h)
  BY NewFrameNested
<1> HIDE DEF g, h
<1>5. mid \in Seq(Frame) /\ Len(mid) = n /\ \A k \in 1..n : mid[k] = IF k = n THEN g ELSE stack[k]
  BY <1>2, <1>3 DEF Inv, TypeOK
<1> HIDE DEF mid
<1>6. DOMAIN stack = 1..n
  BY DEF Inv, TypeOK
<1> HIDE DEF n
<1>7. /\ DOMAIN stack' = 1..(n + 1) /\ stack'[n + 1] = h
      /\ \A k \in 1..n : stack'[k] = mid[k]
  BY <1>1, <1>2, <1>5
<1>8. ASSUME NEW k \in 1..(n + 1) PROVE FrameNested(stack'[k])
  <2>1. CASE k = n + 1
    BY <1>4, <1>7, <2>1, Zenon
  <2>2. CASE k = n
    <3>1. k \in 1..n
      BY <1>2, <2>2
    <3>2. stack'[k] = g
      BY <1>5, <1>7, <2>2, <3>1
    <3> QED BY <1>3, <3>2, Zenon
  <2>3. CASE k # n + 1 /\ k # n
    <3>1. k \in 1..n
      BY <1>2, <2>3
    <3>2. stack'[k] = stack[k]
      BY <1>5, <1>7, <2>3, <3>1
    <3> QED BY <1>6, <3>1, <3>2, Zenon DEF AllNested
  <2> QED BY <2>1, <2>2, <2>3
<1> QED BY <1>7, <1>8, Zenon DEF AllNested

LEMMA OpenNested ==
    ASSUME Inv, AllNested, NEW d \in Doc, NEW text, Open(d, text)
    PROVE  AllNested'
<1> DEFINE g == NewFrame(d, TRUE, text)
<1>1. FrameNested(g) /\ stack' = <<g>>
  BY NewFrameNested DEF Open
<1> HIDE DEF g
<1>2. DOMAIN stack' = {1} /\ stack'[1] = g
  BY <1>1
<1> QED BY <1>1, <1>2, Zenon DEF AllNested

(* The preprocessor below only gets macros: what its branches have come to *)
(* was said with the macros each of its lines was read with.               *)
LEMMA ReturnNested ==
    ASSUME Inv, AllNested, Running, NEW out, Return(out)
    PROVE  AllNested'
<1> DEFINE n == Len(stack)
           f == stack[n - 1]
           g == [f EXCEPT !.macros = @ \cup Top.macros]
<1>1. n \in Nat \ {0} /\ stack \in Seq(Frame) /\ DOMAIN stack = 1..n
  BY TopType DEF Inv, TypeOK
<1>2. CASE n = 1
  <2>1. stack' = <<>>
    BY <1>2 DEF Return
  <2>2. DOMAIN stack' = {}
    BY <2>1
  <2> QED BY <2>2, Zenon DEF AllNested
<1>3. CASE n # 1
  <2>1. stack' = [i \in 1..(n - 1) |-> IF i = n - 1 THEN g ELSE stack[i]]
    BY <1>3 DEF Return
  <2>2. n - 1 \in 1..n /\ f \in Frame
    BY <1>1, <1>3
  <2>3. FrameNested(f)
    BY <1>1, <2>2, Zenon DEF AllNested
  <2>4. /\ g.pos = f.pos /\ g.text = f.text /\ g.at = f.at /\ g.conds = f.conds
        /\ g.skipped = f.skipped /\ g.out = f.out
    <3> HIDE DEF f
    <3> QED BY <2>2 DEF Frame
  <2> HIDE DEF f, g
  <2>5. Survives(f) => Survives(g)
    <3>1. \A i : AsSelected(f, i) => AsSelected(g, i)
      BY <2>4, Zenon DEF AsSelected
    <3> QED BY <2>4, <3>1, Zenon DEF Survives
  <2>6. FrameNested(g)
    BY <2>3, <2>4, <2>5, Zenon DEF FrameNested
  <2>7. /\ DOMAIN stack' = 1..(n - 1)
        /\ \A k \in 1..(n - 1) : stack'[k] = IF k = n - 1 THEN g ELSE stack[k]
    BY <2>1
  <2>8. ASSUME NEW k \in 1..(n - 1) PROVE FrameNested(stack'[k])
    <3>1. CASE k = n - 1
      BY <2>6, <2>7, <3>1, Zenon
    <3>2. CASE k # n - 1
      <4>1. k \in 1..n
        BY <1>1
      <4> QED BY <1>1, <2>7, <3>2, <4>1, Zenon DEF AllNested
    <3> QED BY <3>1, <3>2
  <2> QED BY <2>7, <2>8, Zenon DEF AllNested
<1> QED BY <1>2, <1>3

LEMMA NextNested == Inv /\ AllNested /\ [Next]_vars => AllNested'
<1> SUFFICES ASSUME Inv, AllNested, [Next]_vars PROVE AllNested'
  OBVIOUS
<1>1. CASE Skip \/ Code \/ Define \/ Undef \/ If \/ Elseif \/ Else \/ Endif
  BY <1>1, SkipNested, CodeNested, DefineNested, UndefNested, IfNested, ElseifNested,
     ElseNested, EndifNested, Zenon
<1>2. CASE IncludeUnresolved \/ IncludeDone \/ IncludeNew
  BY <1>2, IncludeUnresolvedNested, IncludeDoneNested, IncludeNewNested, Zenon
<1>3. CASE Finish \/ Fail
  BY <1>3, ReturnNested DEF Finish, Fail, Reading
<1>4. CASE \E d \in Doc : \E text \in Edits[d] \cup {store[d].text} : Open(d, text)
  BY <1>4, OpenNested
<1>5. CASE UNCHANGED vars
  BY <1>5, Zenon DEF vars, AllNested
<1> QED BY <1>1, <1>2, <1>3, <1>4, <1>5, Zenon DEF Next, Step

(* The condition stack of a preprocessor is the nesting of its line: for   *)
(* every #if around it what the conditions have come to, innermost last.   *)
THEOREM StackIsTheNesting == Spec => []AllNested
<1>1. Init => AllNested
  BY DEF Init, AllNested
<1> QED BY <1>1, NextNested, Invariance, PTL DEF Spec

(* With any text, any nesting, any includes and whatever they define: the  *)
(* lines a document keeps are those of the branches whose conditions hold  *)
(* first, and the ones it reports as disabled are the others               *)
(* (preprocessor.rs, process_if_directive and the condition stack).        *)
THEOREM OnlySelectedLinesSurvive == Spec => []SelectedLinesSurvive
<1>1. Inv /\ AllNested => SelectedLinesSurvive
  <2> SUFFICES ASSUME Inv, AllNested, NEW k \in DOMAIN stack,
                      NEW i \in 1..(stack[k].pos - 1), Plain(stack[k].text[i])
               PROVE  AsSelected(stack[k], i)
    BY Zenon DEF SelectedLinesSurvive, Plain, AsSelected
  <2>1. stack[k] \in Frame
    BY DEF Inv, TypeOK
  <2>2. stack[k].pos # 0
    OBVIOUS
  <2>3. FrameNested(stack[k])
    BY Zenon DEF AllNested
  <2> QED BY <2>2, <2>3, Zenon DEF FrameNested, Survives
<1> QED BY <1>1, Invariance, StackIsTheNesting, PTL

-----------------------------------------------------------------------------
(* EVALUATOR.  The symbols that are still to be read, with the parentheses *)
(* that are open on the stack of operators before them and the symbols of  *)
(* macros that are expanded among them, have matching parentheses, as the  *)
(* condition has: Matched, the heart of the invariant Following.  A symbol *)
(* that is read closes what the stack of operators opens; a macro is       *)
(* replaced by its body, which matches too; and a call takes symbols from  *)
(* the line up to the parenthesis that closes it.                          *)

(* Folds.                                                                  *)

\* What holds of the base and goes on over each element holds of the fold.
LEMMA FoldKeeps ==
    ASSUME NEW S, NEW C, NEW base \in S, NEW step, NEW s \in Seq(C), NEW v,
           FoldsTo(S, base, step, s, v),
           NEW I \in [0..Len(s) -> SUBSET S], base \in I[0],
           \A i \in 1..Len(s) : \A x \in I[i - 1] : step[<<x, s[i]>>] \in I[i]
    PROVE  v \in I[Len(s)]
<1>1. PICK a : FoldsSegments(S, base, step, s, a) /\ v = a[Len(s)]
  BY DEF FoldsTo
<1> DEFINE GoesOn == {i \in 0..Len(s) : a[i] \in I[i]}
<1>2. Len(s) \in Nat
  OBVIOUS
<1>3. 0 \in GoesOn
  BY <1>1, <1>2 DEF FoldsSegments
<1>4. ASSUME NEW i \in 0..(Len(s) - 1), i \in GoesOn PROVE i + 1 \in GoesOn
  <2>1. i + 1 \in 1..Len(s) /\ (i + 1) - 1 = i /\ i + 1 \in 0..Len(s) /\ i \in 0..Len(s)
    BY <1>2
  <2>2. a[i] \in I[i] /\ a[i] \in S
    BY <1>4, <2>1
  <2>3. a[i + 1] = step[<<a[i], s[i + 1]>>]
    BY <1>1, <2>1, <2>2 DEF FoldsSegments
  <2> QED BY <2>1, <2>2, <2>3
<1> HIDE DEF GoesOn
<1>5. \A i \in 0..Len(s) : i \in GoesOn
  BY <1>2, <1>3, <1>4, BoundedInduction
<1>6. Len(s) \in GoesOn
  BY <1>2, <1>5
<1> QED BY <1>1, <1>6 DEF GoesOn

-----------------------------------------------------------------------------
(* The depth of parentheses.                                               *)

Weight(s) == IF s.kind = "lparen" THEN 1 ELSE IF s.kind = "rparen" THEN -1 ELSE 0

\* A symbol opens a parenthesis, closes one, or does neither.
LEMMA WeightIs == \A s : Weight(s) \in {-1, 0, 1}
BY DEF Weight

\* Nothing is open before the first symbol.
LEMMA DepthOfNone == \A t : Depth(t, 0) = 0
<1> TAKE t
<1>1. {j \in 1..0 : t[j].kind = "lparen"} = {} /\ {j \in 1..0 : t[j].kind = "rparen"} = {}
  OBVIOUS
<1> QED BY <1>1, FS_EmptySet DEF Depth, Quantify

\* How many of the first i symbols are of kind k.
CountUpTo(t, i, k) == Cardinality({j \in 1..i : t[j].kind = k})

\* One more symbol is counted when the test holds of it.
LEMMA CountUpToNext ==
    ASSUME NEW t, NEW i \in Nat, NEW k
    PROVE  /\ CountUpTo(t, i, k) \in Nat
           /\ CountUpTo(t, i + 1, k) = CountUpTo(t, i, k) + (IF t[i + 1].kind = k THEN 1 ELSE 0)
<1> DEFINE A == {j \in 1..i : t[j].kind = k}
           B == {j \in 1..(i + 1) : t[j].kind = k}
<1>1. IsFiniteSet(1..i)
  BY FS_Interval
<1>2. IsFiniteSet(A) /\ Cardinality(A) \in Nat
  BY <1>1, FS_Subset, FS_CardinalityType
<1>5. CountUpTo(t, i, k) = Cardinality(A) /\ CountUpTo(t, i + 1, k) = Cardinality(B)
  BY DEF CountUpTo
<1>3. CASE t[i + 1].kind = k
  <2>1. B = A \cup {i + 1} /\ i + 1 \notin A
    BY <1>3
  <2>2. Cardinality(A \cup {i + 1}) = Cardinality(A) + 1
    BY <1>2, <2>1, FS_AddElement
  <2> HIDE DEF A, B
  <2> QED BY <1>2, <1>3, <1>5, <2>1, <2>2
<1>4. CASE t[i + 1].kind # k
  <2>1. B = A
    BY <1>4
  <2> HIDE DEF A, B
  <2> QED BY <1>2, <1>4, <1>5, <2>1
<1> QED BY <1>3, <1>4

\* The depth after a symbol is the depth before it and its weight.
LEMMA DepthNext ==
    ASSUME NEW t, NEW i \in Nat
    PROVE  Depth(t, i) \in Int /\ Depth(t, i + 1) = Depth(t, i) + Weight(t[i + 1])
<1>1. \A n : Depth(t, n) = CountUpTo(t, n, "lparen") - CountUpTo(t, n, "rparen")
  BY DEF Depth, Quantify, CountUpTo
<1>2. /\ CountUpTo(t, i, "lparen") \in Nat
      /\ CountUpTo(t, i + 1, "lparen")
           = CountUpTo(t, i, "lparen") + (IF t[i + 1].kind = "lparen" THEN 1 ELSE 0)
  BY CountUpToNext
<1>3. /\ CountUpTo(t, i, "rparen") \in Nat
      /\ CountUpTo(t, i + 1, "rparen")
           = CountUpTo(t, i, "rparen") + (IF t[i + 1].kind = "rparen" THEN 1 ELSE 0)
  BY CountUpToNext
<1> QED BY <1>1, <1>2, <1>3 DEF Weight

\* The n symbols of t after k are those of u, as far as parentheses go.
Alike(t, k, u, n) == \A j \in 1..n : Weight(t[k + j]) = Weight(u[j])
AsDeep(t, k, u, n) == \A j \in 0..n : Depth(t, k + j) = Depth(t, k) + Depth(u, j)

\* The depths of a part are those of the whole, from where it starts.
LEMMA DepthFrom ==
    ASSUME NEW t, NEW u, NEW k \in Nat, NEW n \in Nat, Alike(t, k, u, n)
    PROVE  AsDeep(t, k, u, n)
<1> DEFINE S == {j \in 0..n : Depth(t, k + j) = Depth(t, k) + Depth(u, j)}
<1>1. 0 \in S
  BY DepthOfNone, DepthNext
<1>2. ASSUME NEW j \in 0..(n - 1), j \in S PROVE j + 1 \in S
  <2>1. j \in Nat /\ k + j \in Nat /\ j + 1 \in 1..n /\ k + (j + 1) = (k + j) + 1
    OBVIOUS
  <2>2. /\ Depth(t, k + j) \in Int /\ Depth(t, k) \in Int /\ Depth(u, j) \in Int
        /\ Depth(t, (k + j) + 1) = Depth(t, k + j) + Weight(t[(k + j) + 1])
        /\ Depth(u, j + 1) = Depth(u, j) + Weight(u[j + 1])
    BY <2>1, DepthNext
  <2>3. Weight(t[(k + j) + 1]) = Weight(u[j + 1]) /\ Weight(u[j + 1]) \in Int
    BY <2>1, WeightIs DEF Alike
  <2>4. Depth(t, k + j) = Depth(t, k) + Depth(u, j)
    BY <1>2
  <2> QED BY <2>1, <2>2, <2>3, <2>4
<1> HIDE DEF S
<1>3. \A j \in 0..n : j \in S
  BY <1>1, <1>2, BoundedInduction
<1> QED BY <1>3 DEF S, AsDeep

\* Sequences that differ in what is no parenthesis have the same depths.
LEMMA DepthAlike ==
    ASSUME NEW t, NEW u, NEW n \in Nat, \A j \in 1..n : Weight(t[j]) = Weight(u[j])
    PROVE  \A j \in 0..n : Depth(t, j) = Depth(u, j)
<1>1. Alike(t, 0, u, n)
  BY DEF Alike
<1>2. AsDeep(t, 0, u, n)
  BY <1>1, DepthFrom
<1>3. ASSUME NEW j \in 0..n PROVE Depth(t, j) = Depth(u, j)
  <2>1. Depth(u, j) \in Int /\ 0 + j = j
    BY DepthNext
  <2> QED BY <1>2, <2>1, DepthOfNone DEF AsDeep
<1> QED BY <1>3

\* Depth goes on from the first sequence to the second.
LEMMA DepthOfConcat ==
    ASSUME NEW C, NEW a \in Seq(C), NEW b \in Seq(C)
    PROVE  /\ \A i \in 0..Len(a) : Depth(a \o b, i) = Depth(a, i)
           /\ \A i \in 0..Len(b) : Depth(a \o b, Len(a) + i) = Depth(a, Len(a)) + Depth(b, i)
<1>1. /\ Len(a) \in Nat /\ Len(b) \in Nat
      /\ \A j \in 1..Len(a) : (a \o b)[j] = a[j]
      /\ \A j \in 1..Len(b) : (a \o b)[Len(a) + j] = b[j]
  OBVIOUS
<1>2. \A i \in 0..Len(a) : Depth(a \o b, i) = Depth(a, i)
  BY <1>1, DepthAlike
<1>3. AsDeep(a \o b, Len(a), b, Len(b))
  <2>1. Alike(a \o b, Len(a), b, Len(b))
    BY <1>1 DEF Alike
  <2> QED BY <1>1, <2>1, DepthFrom
<1>4. Len(a) \in 0..Len(a)
  BY <1>1
<1> QED BY <1>2, <1>3, <1>4 DEF AsDeep

\* From depth d on, the symbols of t close no parenthesis too many.
Stays(t, d) == \A i \in 0..Len(t) : d + Depth(t, i) >= 0
Net(t) == Depth(t, Len(t))

\* The net weight of a sequence is an integer.
LEMMA NetType == ASSUME NEW C, NEW t \in Seq(C) PROVE Net(t) \in Int
<1>1. Len(t) \in Nat
  OBVIOUS
<1> QED BY <1>1, DepthNext DEF Net

\* Balanced, in terms of what a sequence opens and how low it goes.
LEMMA BalancedIs ==
    ASSUME NEW C, NEW t \in Seq(C)
    PROVE  Balanced(t) <=> Stays(t, 0) /\ Net(t) = 0
<1>1. Len(t) \in Nat /\ DOMAIN t = 1..Len(t)
  OBVIOUS
<1>2. \A i \in 0..Len(t) : Depth(t, i) \in Int
  BY <1>1, DepthNext
<1>3. Stays(t, 0) <=> \A i \in 1..Len(t) : Depth(t, i) >= 0
  <2>1. ASSUME Stays(t, 0), NEW i \in 1..Len(t) PROVE Depth(t, i) >= 0
    <3>1. i \in 0..Len(t)
      BY <1>1
    <3>2. 0 + Depth(t, i) >= 0
      BY <2>1, <3>1 DEF Stays
    <3> QED BY <1>2, <3>1, <3>2
  <2>2. ASSUME \A i \in 1..Len(t) : Depth(t, i) >= 0, NEW i \in 0..Len(t)
        PROVE  0 + Depth(t, i) >= 0
    <3>1. CASE i = 0
      BY <3>1, DepthOfNone
    <3>2. CASE i # 0
      <4>1. i \in 1..Len(t)
        BY <1>1, <3>2
      <4> QED BY <1>2, <2>2, <4>1
    <3> QED BY <3>1, <3>2
  <2> QED BY <2>1, <2>2 DEF Stays
<1> QED BY <1>1, <1>3 DEF Balanced, Net

Splits(a, b, d) ==
    /\ Stays(a \o b, d) <=> Stays(a, d) /\ Stays(b, d + Net(a))
    /\ Net(a \o b) = Net(a) + Net(b)

\* A concatenation stays up when both of its parts do.
LEMMA StaysOfConcat ==
    ASSUME NEW C, NEW a \in Seq(C), NEW b \in Seq(C), NEW d \in Int
    PROVE  Splits(a, b, d)
<1>1. /\ Len(a) \in Nat /\ Len(b) \in Nat /\ Len(a \o b) = Len(a) + Len(b)
  OBVIOUS
<1>2. \A i \in 0..Len(a) : Depth(a \o b, i) = Depth(a, i)
  BY DepthOfConcat
<1>3. \A i \in 0..Len(b) : Depth(a \o b, Len(a) + i) = Net(a) + Depth(b, i)
  BY DepthOfConcat DEF Net
<1>4. Net(a \o b) = Net(a) + Net(b)
  BY <1>1, <1>3 DEF Net
<1>5. Net(a) \in Int /\ \A i \in 0..Len(b) : Depth(b, i) \in Int
  BY <1>1, NetType, DepthNext
<1>6. ASSUME Stays(a \o b, d) PROVE Stays(a, d) /\ Stays(b, d + Net(a))
  <2>1. \A i \in 0..Len(a) : i \in 0..Len(a \o b)
    BY <1>1
  <2>2. \A i \in 0..Len(b) : Len(a) + i \in 0..Len(a \o b)
    BY <1>1
  <2>3. Stays(a, d)
    BY <1>2, <1>6, <2>1 DEF Stays
  <2>4. ASSUME NEW i \in 0..Len(b) PROVE (d + Net(a)) + Depth(b, i) >= 0
    <3>1. d + Depth(a \o b, Len(a) + i) >= 0
      BY <1>6, <2>2 DEF Stays
    <3>2. Depth(a \o b, Len(a) + i) = Net(a) + Depth(b, i)
      BY <1>3
    <3> QED BY <1>5, <3>1, <3>2
  <2> QED BY <2>3, <2>4 DEF Stays
<1>7. ASSUME Stays(a, d), Stays(b, d + Net(a)), NEW i \in 0..Len(a \o b)
      PROVE  d + Depth(a \o b, i) >= 0
  <2>1. CASE i \in 0..Len(a)
    BY <1>2, <1>7, <2>1 DEF Stays
  <2>2. CASE i \notin 0..Len(a)
    <3> DEFINE j == i - Len(a)
    <3>1. j \in 0..Len(b) /\ i = Len(a) + j
      BY <1>1, <2>2
    <3> HIDE DEF j
    <3>2. (d + Net(a)) + Depth(b, j) >= 0
      BY <1>7, <3>1 DEF Stays
    <3>3. Depth(a \o b, i) = Net(a) + Depth(b, j)
      BY <1>3, <3>1
    <3> QED BY <1>5, <3>1, <3>2, <3>3
  <2> QED BY <2>1, <2>2
<1> QED BY <1>4, <1>6, <1>7 DEF Stays, Splits

\* A part of balanced parentheses can be put in the place of another.
LEMMA BalancedSwap ==
    ASSUME NEW C, NEW a \in Seq(C), NEW x \in Seq(C), NEW y \in Seq(C), NEW b \in Seq(C),
           Balanced(a \o (x \o b)), Balanced(x), Balanced(y)
    PROVE  Balanced(a \o (y \o b))
<1>1. \A p, q \in Seq(C) : p \o q \in Seq(C)
  OBVIOUS
<1>2. /\ Stays(a \o (x \o b), 0) /\ Net(a \o (x \o b)) = 0
      /\ Net(x) = 0 /\ Net(y) = 0 /\ Stays(y, 0)
  BY <1>1, BalancedIs
<1>3. Net(a) \in Int /\ Net(b) \in Int /\ Net(x \o b) \in Int /\ Net(y \o b) \in Int
  BY <1>1, NetType
<1>4. /\ Stays(a, 0) /\ Stays(x \o b, 0 + Net(a))
      /\ Net(a \o (x \o b)) = Net(a) + Net(x \o b)
  <2>1. Splits(a, x \o b, 0)
    <3>1. x \o b \in Seq(C) /\ 0 \in Int
      BY <1>1
    <3> QED BY <3>1, StaysOfConcat
  <2> QED BY <1>2, <2>1 DEF Splits
<1>5. /\ Stays(x, 0 + Net(a)) /\ Stays(b, (0 + Net(a)) + Net(x))
      /\ Net(x \o b) = Net(x) + Net(b)
  <2>1. 0 + Net(a) \in Int
    BY <1>3
  <2>2. Splits(x, b, 0 + Net(a))
    BY <2>1, StaysOfConcat
  <2> QED BY <1>4, <2>2 DEF Splits
<1>6. Net(a) >= 0
  <2>1. Len(a) \in 0..Len(a)
    OBVIOUS
  <2>2. 0 + Depth(a, Len(a)) >= 0
    BY <1>4, <2>1 DEF Stays
  <2> QED BY <1>3, <2>2 DEF Net
<1>7. Stays(y, 0 + Net(a))
  <2>1. \A i \in 0..Len(y) : Depth(y, i) \in Int /\ 0 + Depth(y, i) >= 0
    BY <1>2, DepthNext DEF Stays
  <2> QED BY <1>3, <1>6, <2>1 DEF Stays
<1>8. Stays(b, (0 + Net(a)) + Net(y))
  BY <1>2, <1>5
<1>9. Stays(y \o b, 0 + Net(a)) /\ Net(y \o b) = Net(y) + Net(b)
  <2>1. 0 + Net(a) \in Int
    BY <1>3
  <2>2. Splits(y, b, 0 + Net(a))
    BY <2>1, StaysOfConcat
  <2> QED BY <1>7, <1>8, <2>2 DEF Splits
<1>10. Stays(a \o (y \o b), 0) /\ Net(a \o (y \o b)) = Net(a) + Net(y \o b)
  <2>1. Splits(a, y \o b, 0)
    <3>1. y \o b \in Seq(C) /\ 0 \in Int
      BY <1>1
    <3> QED BY <3>1, StaysOfConcat
  <2> QED BY <1>4, <1>9, <2>1 DEF Splits
<1>11. Net(a \o (y \o b)) = 0
  BY <1>2, <1>3, <1>4, <1>5, <1>9, <1>10
<1> QED BY <1>1, <1>10, <1>11, BalancedIs

Flat(t) == \A i \in DOMAIN t : Weight(t[i]) = 0

\* Symbols without parentheses are balanced.
LEMMA FlatIsBalanced ==
    ASSUME NEW C, NEW t \in Seq(C), Flat(t)
    PROVE  Balanced(t) /\ Stays(t, 0) /\ Net(t) = 0
<1> DEFINE S == {i \in 0..Len(t) : Depth(t, i) = 0}
<1>1. Len(t) \in Nat /\ DOMAIN t = 1..Len(t)
  OBVIOUS
<1>2. 0 \in S
  BY <1>1, DepthOfNone
<1>3. ASSUME NEW i \in 0..(Len(t) - 1), i \in S PROVE i + 1 \in S
  <2>1. i \in Nat /\ i + 1 \in DOMAIN t /\ i + 1 \in 0..Len(t)
    BY <1>1
  <2>2. Depth(t, i + 1) = Depth(t, i) + Weight(t[i + 1])
    BY <2>1, DepthNext
  <2>3. Weight(t[i + 1]) = 0
    BY <2>1 DEF Flat
  <2> QED BY <1>3, <2>1, <2>2, <2>3
<1> HIDE DEF S
<1>4. \A i \in 0..Len(t) : i \in S
  BY <1>1, <1>2, <1>3, BoundedInduction
<1>5. \A i \in 0..Len(t) : Depth(t, i) = 0
  BY <1>4 DEF S
<1>6. Stays(t, 0)
  BY <1>5 DEF Stays
<1>7. Net(t) = 0
  BY <1>1, <1>5 DEF Net
<1> QED BY <1>6, <1>7, BalancedIs

\* What one symbol opens.
LEMMA OneSymbol ==
    ASSUME NEW s
    PROVE  Net(<<s>>) = Weight(s) /\ \A d \in Int : Stays(<<s>>, d) <=> d >= 0 /\ d + Weight(s) >= 0
<1> DEFINE t == <<s>>
<1>1. Len(t) = 1 /\ t[0 + 1] = s /\ 0 \in Nat /\ 0 + 1 = 1
  OBVIOUS
<1> HIDE DEF t
<1>2. Depth(t, 0) = 0 /\ Depth(t, 0 + 1) = Depth(t, 0) + Weight(t[0 + 1])
  BY <1>1, DepthNext, DepthOfNone
<1>3. Weight(s) \in Int
  BY WeightIs
<1>4. Depth(t, 1) = Weight(s)
  BY <1>1, <1>2, <1>3
<1>5. Net(t) = Weight(s)
  BY <1>1, <1>4 DEF Net
<1>6. ASSUME NEW d \in Int PROVE Stays(t, d) <=> d >= 0 /\ d + Weight(s) >= 0
  <2>1. \A i : i \in 0..Len(t) <=> i = 0 \/ i = 1
    BY <1>1
  <2>2. Stays(t, d) <=> d + Depth(t, 0) >= 0 /\ d + Depth(t, 1) >= 0
    BY <2>1 DEF Stays
  <2> QED BY <1>2, <1>4, <2>2
<1> QED BY <1>5, <1>6 DEF t

\* What is between two parentheses that match.
LEMMA BalancedBetween ==
    ASSUME NEW C, NEW l \in C, NEW r \in C, NEW x \in Seq(C),
           Weight(l) = 1, Weight(r) = -1, Flat(x)
    PROVE  Balanced(<<l>> \o (x \o <<r>>))
<1>1. /\ <<l>> \in Seq(C) /\ <<r>> \in Seq(C) /\ x \o <<r>> \in Seq(C)
      /\ <<l>> \o (x \o <<r>>) \in Seq(C)
  OBVIOUS
<1>2. Net(<<l>>) = 1 /\ Stays(<<l>>, 0) /\ Net(<<r>>) = -1 /\ Stays(<<r>>, 1)
  BY OneSymbol
<1>3. Net(x) = 0 /\ Stays(x, 0)
  BY FlatIsBalanced
<1>4. Stays(x, 1)
  <2>1. \A i \in 0..Len(x) : Depth(x, i) \in Int /\ 0 + Depth(x, i) >= 0
    BY <1>3, DepthNext DEF Stays
  <2> QED BY <2>1 DEF Stays
<1>5. Splits(x, <<r>>, 1) /\ Splits(<<l>>, x \o <<r>>, 0)
  <2>1. 0 \in Int /\ 1 \in Int
    OBVIOUS
  <2>2. Splits(x, <<r>>, 1)
    BY <1>1, <2>1, StaysOfConcat
  <2>3. Splits(<<l>>, x \o <<r>>, 0)
    BY <1>1, <2>1, StaysOfConcat
  <2> QED BY <2>2, <2>3
<1>6. Stays(x \o <<r>>, 1) /\ Net(x \o <<r>>) = -1
  <2>1. 1 + Net(x) = 1 /\ Net(x) + Net(<<r>>) = -1
    BY <1>2, <1>3
  <2> QED BY <1>2, <1>4, <1>5, <2>1 DEF Splits
<1>7. Stays(<<l>> \o (x \o <<r>>), 0) /\ Net(<<l>> \o (x \o <<r>>)) = 0
  <2>1. 0 + Net(<<l>>) = 1 /\ Net(<<l>>) + Net(x \o <<r>>) = 0
    BY <1>2, <1>6
  <2> QED BY <1>2, <1>5, <1>6, <2>1 DEF Splits
<1> QED BY <1>1, <1>7, BalancedIs

-----------------------------------------------------------------------------
(* What evaluate has yet to read, with the parentheses that are open.  Of  *)
(* the stack of expand_symbol, what is nested too deep will be dropped.    *)

Nothing == Tok("comma")
OpenParens(o) == [i \in 1..Len(o) |-> IF o[i] = "(" THEN Tok("lparen") ELSE Nothing]
Seen(w) == [i \in 1..Len(w) |-> IF w[i].d = MaxDepth THEN Nothing ELSE w[i].s]
Behind(w, e, r) == Seen(w) \o (Reverse(e) \o r)
Unread(o, w, e, r) == OpenParens(o) \o Behind(w, e, r)

WorkEntry == [s : Symbols, d : 0..MaxDepth]
OpNames == Operators \cup {"("}

\* Symbols without a name or a value.
LEMMA TokIs ==
    /\ \A k \in BareKinds : Tok(k) \in Symbols /\ Tok(k).kind = k
    /\ Nothing \in Symbols /\ Weight(Nothing) = 0 /\ ~HasParams(Nothing)
    /\ Weight(Tok("lparen")) = 1
<1>1. ASSUME NEW k \in BareKinds PROVE Tok(k) \in Symbols /\ Tok(k).kind = k
  BY DEF Tok, Symbols
<1>2. "comma" \in BareKinds /\ "lparen" \in BareKinds
  BY DEF BareKinds
<1>3. Nothing \in Symbols /\ Nothing.kind = "comma" /\ Tok("lparen").kind = "lparen"
  BY <1>1, <1>2 DEF Nothing
<1> QED BY <1>1, <1>3 DEF Weight, HasParams

\* The parentheses that are open, one symbol for each operator.
LEMMA OpensIs ==
    ASSUME NEW o \in Seq(OpNames)
    PROVE  /\ OpenParens(o) \in Seq(Symbols) /\ Len(OpenParens(o)) = Len(o)
           /\ \A i \in 1..Len(o) : Weight(OpenParens(o)[i]) = IF o[i] = "(" THEN 1 ELSE 0
<1>1. Tok("lparen") \in Symbols
  BY TokIs DEF BareKinds
<1>2. Len(o) \in Nat
  OBVIOUS
<1>3. \A i \in 1..Len(o) : (IF o[i] = "(" THEN Tok("lparen") ELSE Nothing) \in Symbols
  BY <1>1, TokIs
<1>4. OpenParens(o) \in Seq(Symbols) /\ Len(OpenParens(o)) = Len(o)
  BY <1>2, <1>3 DEF OpenParens
<1>5. \A i \in 1..Len(o) : OpenParens(o)[i] = IF o[i] = "(" THEN Tok("lparen") ELSE Nothing
  BY DEF OpenParens
<1> QED BY <1>4, <1>5, TokIs

\* The parentheses of a part of the operators.
LEMMA OpensSplit ==
    ASSUME NEW a \in Seq(OpNames), NEW b \in Seq(OpNames)
    PROVE  OpenParens(a \o b) = OpenParens(a) \o OpenParens(b)
<1>1. Len(a) \in Nat /\ Len(b) \in Nat /\ Len(a \o b) = Len(a) + Len(b)
  OBVIOUS
<1>2. a \o b \in Seq(OpNames)
  OBVIOUS
<1>3. /\ OpenParens(a) \in Seq(Symbols) /\ OpenParens(b) \in Seq(Symbols)
      /\ OpenParens(a \o b) \in Seq(Symbols)
      /\ Len(OpenParens(a)) = Len(a) /\ Len(OpenParens(b)) = Len(b)
      /\ Len(OpenParens(a \o b)) = Len(a \o b)
  BY <1>2, OpensIs
<1>4. ASSUME NEW i \in 1..(Len(a) + Len(b))
      PROVE OpenParens(a \o b)[i] = (OpenParens(a) \o OpenParens(b))[i]
  <2>1. OpenParens(a \o b)[i] = IF (a \o b)[i] = "(" THEN Tok("lparen") ELSE Nothing
    BY <1>1 DEF OpenParens
  <2>2. CASE i <= Len(a)
    <3>1. i \in 1..Len(a) /\ (a \o b)[i] = a[i]
      BY <1>1, <2>2
    <3>2. (OpenParens(a) \o OpenParens(b))[i] = OpenParens(a)[i]
      BY <1>3, <3>1
    <3>3. OpenParens(a)[i] = IF a[i] = "(" THEN Tok("lparen") ELSE Nothing
      BY <3>1 DEF OpenParens
    <3> QED BY <2>1, <3>1, <3>2, <3>3
  <2>3. CASE ~(i <= Len(a))
    <3>1. i - Len(a) \in 1..Len(b) /\ (a \o b)[i] = b[i - Len(a)]
      BY <1>1, <2>3
    <3>2. (OpenParens(a) \o OpenParens(b))[i] = OpenParens(b)[i - Len(a)]
      BY <1>1, <1>3, <2>3
    <3>3. OpenParens(b)[i - Len(a)] = IF b[i - Len(a)] = "(" THEN Tok("lparen") ELSE Nothing
      BY <3>1 DEF OpenParens
    <3> QED BY <2>1, <3>1, <3>2, <3>3
  <2> QED BY <2>2, <2>3
<1>5. OpenParens(a) \o OpenParens(b) \in Seq(Symbols)
        /\ Len(OpenParens(a) \o OpenParens(b)) = Len(a) + Len(b)
  BY <1>3, ConcatProperties
<1> HIDE DEF OpenParens
<1> QED BY <1>1, <1>3, <1>4, <1>5, SeqEqual

\* The symbols on the stack of expand_symbol, in the order they are read.
LEMMA SeenIs ==
    ASSUME NEW w \in Seq(WorkEntry)
    PROVE  /\ Seen(w) \in Seq(Symbols) /\ Len(Seen(w)) = Len(w)
           /\ \A i \in 1..Len(w) : Seen(w)[i] = IF w[i].d = MaxDepth THEN Nothing ELSE w[i].s
<1>1. Len(w) \in Nat /\ \A i \in 1..Len(w) : w[i] \in WorkEntry
  OBVIOUS
<1>2. \A i \in 1..Len(w) : (IF w[i].d = MaxDepth THEN Nothing ELSE w[i].s) \in Symbols
  BY <1>1, TokIs DEF WorkEntry
<1> QED BY <1>1, <1>2 DEF Seen

\* The symbols of two parts of the stack.
LEMMA SeenSplit ==
    ASSUME NEW a \in Seq(WorkEntry), NEW b \in Seq(WorkEntry)
    PROVE  Seen(a \o b) = Seen(a) \o Seen(b)
<1>1. Len(a) \in Nat /\ Len(b) \in Nat /\ Len(a \o b) = Len(a) + Len(b)
  OBVIOUS
<1>2. a \o b \in Seq(WorkEntry)
  OBVIOUS
<1> DEFINE Of(x) == IF x.d = MaxDepth THEN Nothing ELSE x.s
<1>3. /\ Seen(a) \in Seq(Symbols) /\ Seen(b) \in Seq(Symbols) /\ Seen(a \o b) \in Seq(Symbols)
      /\ Len(Seen(a)) = Len(a) /\ Len(Seen(b)) = Len(b) /\ Len(Seen(a \o b)) = Len(a \o b)
      /\ \A i \in 1..Len(a) : Seen(a)[i] = Of(a[i])
      /\ \A i \in 1..Len(b) : Seen(b)[i] = Of(b[i])
      /\ \A i \in 1..Len(a \o b) : Seen(a \o b)[i] = Of((a \o b)[i])
  BY <1>2, SeenIs
<1> HIDE DEF Of
<1>4. ASSUME NEW i \in 1..(Len(a) + Len(b)) PROVE Seen(a \o b)[i] = (Seen(a) \o Seen(b))[i]
  <2>1. Seen(a \o b)[i] = Of((a \o b)[i])
    BY <1>1, <1>3
  <2>2. CASE i <= Len(a)
    <3>1. i \in 1..Len(a) /\ (a \o b)[i] = a[i]
      BY <1>1, <2>2
    <3>2. (Seen(a) \o Seen(b))[i] = Seen(a)[i]
      BY <1>3, <3>1
    <3> QED BY <1>3, <2>1, <3>1, <3>2
  <2>3. CASE ~(i <= Len(a))
    <3>1. i - Len(a) \in 1..Len(b) /\ (a \o b)[i] = b[i - Len(a)]
      BY <1>1, <2>3
    <3>2. (Seen(a) \o Seen(b))[i] = Seen(b)[i - Len(a)]
      BY <1>1, <1>3, <2>3
    <3> QED BY <1>3, <2>1, <3>1, <3>2
  <2> QED BY <2>2, <2>3
<1>5. Seen(a) \o Seen(b) \in Seq(Symbols) /\ Len(Seen(a) \o Seen(b)) = Len(a) + Len(b)
  <2>1. /\ Seen(a) \in Seq(Symbols) /\ Seen(b) \in Seq(Symbols)
        /\ Len(Seen(a)) = Len(a) /\ Len(Seen(b)) = Len(b)
    BY <1>3
  <2>2. /\ Seen(a) \o Seen(b) \in Seq(Symbols)
        /\ Len(Seen(a) \o Seen(b)) = Len(Seen(a)) + Len(Seen(b))
    BY <2>1, ConcatProperties
  <2> QED BY <2>1, <2>2
<1> QED BY <1>1, <1>3, <1>4, <1>5, SeqEqual

\* A sequence from its end to its start.
LEMMA ReverseIs ==
    ASSUME NEW C, NEW e \in Seq(C)
    PROVE  /\ Reverse(e) \in Seq(C) /\ Len(Reverse(e)) = Len(e)
           /\ \A i \in 1..Len(e) : Reverse(e)[i] = e[Len(e) - i + 1]
<1>1. Len(e) \in Nat /\ \A i \in 1..Len(e) : (Len(e) - i) + 1 \in 1..Len(e)
  OBVIOUS
<1> QED BY <1>1 DEF Reverse

\* A part of a sequence.
LEMMA PartIs ==
    ASSUME NEW C, NEW s \in Seq(C), NEW m \in Nat \ {0}, NEW n \in Nat,
           m - 1 <= n, n <= Len(s)
    PROVE  /\ SubSeq(s, m, n) \in Seq(C) /\ Len(SubSeq(s, m, n)) = n - m + 1
           /\ \A i \in 1..(n - m + 1) : SubSeq(s, m, n)[i] = s[m + i - 1]
<1>1. m \in Int /\ n \in Int /\ \A i \in m..n : s[i] \in C
  OBVIOUS
<1>2. /\ SubSeq(s, m, n) \in Seq(C)
      /\ Len(SubSeq(s, m, n)) = IF m <= n THEN n - m + 1 ELSE 0
      /\ \A i \in 1..(n - m + 1) : SubSeq(s, m, n)[i] = s[m + i - 1]
  BY <1>1, SubSeqProperties
<1>3. (IF m <= n THEN n - m + 1 ELSE 0) = n - m + 1
  BY <1>1
<1> QED BY <1>2, <1>3

\* A sequence without its last element.
LEMMA FrontIs ==
    ASSUME NEW C, NEW e \in Seq(C), e # <<>>
    PROVE  /\ Len(e) \in Nat \ {0}
           /\ Front(e) \in Seq(C) /\ Len(Front(e)) = Len(e) - 1
           /\ \A i \in 1..(Len(e) - 1) : Front(e)[i] = e[i]
           /\ Last(e) \in C /\ Last(e) = e[Len(e)]
           /\ e = Front(e) \o <<Last(e)>>
<1>1. Len(e) \in Nat \ {0}
  OBVIOUS
<1>2. /\ Front(e) \in Seq(C) /\ Len(Front(e)) = Len(e) - 1
      /\ \A i \in 1..(Len(e) - 1) : Front(e)[i] = e[i]
  <2> DEFINE n == Len(e) - 1
             f == SubSeq(e, 1, n)
  <2>1. 1 \in Nat \ {0} /\ n \in Nat /\ 1 - 1 <= n /\ n <= Len(e) /\ n - 1 + 1 = n
    BY <1>1
  <2>2. f = Front(e)
    BY DEF Front
  <2> HIDE DEF n
  <2>3. /\ f \in Seq(C) /\ Len(f) = n - 1 + 1 /\ \A i \in 1..(n - 1 + 1) : f[i] = e[1 + i - 1]
    BY <2>1, PartIs
  <2> HIDE DEF f
  <2>4. \A i \in 1..n : 1 + i - 1 = i
    BY <2>1
  <2>5. f \in Seq(C) /\ Len(f) = n /\ \A i \in 1..n : f[i] = e[i]
    BY <2>1, <2>3, <2>4
  <2> QED BY <2>2, <2>5 DEF n
<1>3. Last(e) \in C /\ Last(e) = e[Len(e)]
  BY <1>1 DEF Last
<1>4. e = Front(e) \o <<Last(e)>>
  <2> DEFINE f == Front(e)
             x == Last(e)
  <2>1. f \in Seq(C) /\ Len(f) = Len(e) - 1 /\ x = e[Len(e)] /\ x \in C
    BY <1>2, <1>3
  <2>2. \A i \in 1..(Len(e) - 1) : f[i] = e[i]
    BY <1>2
  <2> HIDE DEF f, x
  <2>3. f \o <<x>> \in Seq(C) /\ Len(f \o <<x>>) = Len(e)
    BY <1>1, <2>1
  <2>4. ASSUME NEW i \in 1..Len(e) PROVE e[i] = (f \o <<x>>)[i]
    <3>1. CASE i = Len(e)
      BY <1>1, <2>1, <3>1
    <3>2. CASE i # Len(e)
      <4>1. i \in 1..(Len(e) - 1)
        BY <1>1, <3>2
      <4>2. (f \o <<x>>)[i] = f[i]
        BY <1>1, <2>1, <4>1
      <4> QED BY <2>2, <4>1, <4>2
    <3> QED BY <3>1, <3>2
  <2>5. e = f \o <<x>>
    BY <2>3, <2>4, SeqEqual
  <2> QED BY <2>5 DEF f, x
<1> QED BY <1>1, <1>2, <1>3, <1>4

\* A symbol pushed is read first.
LEMMA ReversePush ==
    ASSUME NEW C, NEW e \in Seq(C), NEW s \in C
    PROVE  Reverse(Append(e, s)) = <<s>> \o Reverse(e)
<1> DEFINE r == Reverse(e)
           u == Append(e, s)
<1>1. /\ Len(e) \in Nat /\ u \in Seq(C) /\ Len(u) = Len(e) + 1
      /\ u[Len(e) + 1] = s /\ \A i \in 1..Len(e) : u[i] = e[i]
  OBVIOUS
<1>2. r \in Seq(C) /\ Len(r) = Len(e) /\ \A i \in 1..Len(e) : r[i] = e[Len(e) - i + 1]
  BY ReverseIs
<1> HIDE DEF r, u
<1>3. /\ Reverse(u) \in Seq(C) /\ Len(Reverse(u)) = Len(u)
      /\ \A i \in 1..Len(u) : Reverse(u)[i] = u[Len(u) - i + 1]
  BY <1>1, ReverseIs
<1>4. /\ <<s>> \o r \in Seq(C) /\ Len(<<s>> \o r) = Len(r) + 1
      /\ (<<s>> \o r)[1] = s /\ \A i \in 1..Len(r) : (<<s>> \o r)[i + 1] = r[i]
  BY <1>2
<1>5. ASSUME NEW i \in 1..Len(u) PROVE Reverse(u)[i] = (<<s>> \o r)[i]
  <2>1. Reverse(u)[i] = u[Len(u) - i + 1]
    BY <1>3
  <2>2. CASE i = 1
    <3>1. Len(u) - i + 1 = Len(e) + 1
      BY <1>1, <2>2
    <3> QED BY <1>1, <1>4, <2>1, <2>2, <3>1
  <2>3. CASE i # 1
    <3> DEFINE j == i - 1
    <3>1. j \in 1..Len(e) /\ i = j + 1 /\ Len(u) - i + 1 = Len(e) - j + 1
      BY <1>1, <2>3
    <3> HIDE DEF j
    <3>2. Len(e) - j + 1 \in 1..Len(e)
      BY <1>1, <3>1
    <3>3. Reverse(u)[i] = e[Len(e) - j + 1]
      BY <1>1, <2>1, <3>1, <3>2
    <3>4. (<<s>> \o r)[i] = r[j] /\ r[j] = e[Len(e) - j + 1]
      BY <1>2, <1>4, <3>1
    <3> QED BY <3>3, <3>4
  <2> QED BY <2>2, <2>3
<1>6. Len(Reverse(u)) = Len(<<s>> \o r)
  BY <1>1, <1>2, <1>3, <1>4
<1>7. Reverse(u) = <<s>> \o r
  <2>1. \A i \in 1..Len(Reverse(u)) : Reverse(u)[i] = (<<s>> \o r)[i]
    BY <1>3, <1>5
  <2> QED BY <1>3, <1>4, <1>6, <2>1, SeqEqual
<1> QED BY <1>7 DEF r, u

\* The element taken from the expansion stack is read first.
LEMMA ReversePop ==
    ASSUME NEW C, NEW e \in Seq(C), e # <<>>
    PROVE  Reverse(e) = <<Last(e)>> \o Reverse(Front(e))
<1>1. Front(e) \in Seq(C) /\ Last(e) \in C /\ e = Front(e) \o <<Last(e)>>
  BY FrontIs
<1>2. e = Append(Front(e), Last(e))
  BY <1>1, AppendIsConcat
<1>3. Reverse(Append(Front(e), Last(e))) = <<Last(e)>> \o Reverse(Front(e))
  BY <1>1, ReversePush
<1> QED BY <1>2, <1>3

-----------------------------------------------------------------------------
(* Operators that are processed.                                           *)

\* How operators other than an open parenthesis may leave process_op.
Orderly == {"running", "error", "division"}
Result(x, st) == [output |-> x, status |-> st]
IsOrderly(r) == \E x, st : st \in Orderly /\ r = Result(x, st)

\* An operator that is no parenthesis does not reach unreachable!().
LEMMA ProcessOpIs ==
    ASSUME NEW r, IsOrderly(r), NEW op, op # "("
    PROVE  IsOrderly(ProcessOp(r, op))
<1>1. PICK x, st : st \in Orderly /\ r = Result(x, st)
  BY DEF IsOrderly
<1> DEFINE n == Len(r.output)
           operands == IF op \in Unary THEN 1 ELSE 2
           left == SubSeq(r.output, 1, n - operands)
           applied == IF op \in Unary THEN Append(left, ApplyUnary(op, r.output[n]))
                      ELSE Append(left, ApplyBinary(op, r.output[n - 1], r.output[n]))
           panics == Panics(op, r.output[n - 1], r.output[n])
           few == n < operands
           many == n >= operands
<1>2. /\ r.output = x /\ r.status = st
      /\ \A v : [r EXCEPT !.output = v] = Result(v, st)
      /\ \A v : [r EXCEPT !.status = v] = Result(x, v)
  BY <1>1 DEF Result
<1>3. \A v : [r EXCEPT !.output = Append(SubSeq(@, 1, n - operands), v)]
                  = Result(Append(left, v), st)
  BY <1>1 DEF Result
<1>4. ProcessOp(r, op) =
        CASE r.status # "running" -> r
          [] r.status = "running" /\ few -> [r EXCEPT !.status = "error"]
          [] r.status = "running" /\ many /\ op \in Unary ->
               [r EXCEPT !.output = Append(SubSeq(@, 1, n - operands), ApplyUnary(op, r.output[n]))]
          [] r.status = "running" /\ many /\ op \notin Unary ->
               IF op = "(" THEN [r EXCEPT !.status = "unreachable"]
               ELSE IF panics
               THEN [r EXCEPT !.status = "division"]
               ELSE [r EXCEPT !.output = Append(SubSeq(@, 1, n - operands),
                                   ApplyBinary(op, r.output[n - 1], r.output[n]))]
  BY DEF ProcessOp
<1> DEFINE a == [r EXCEPT !.output = Append(SubSeq(@, 1, n - operands),
                                            ApplyUnary(op, r.output[n]))]
           b == [r EXCEPT !.output = Append(SubSeq(@, 1, n - operands),
                                   ApplyBinary(op, r.output[n - 1], r.output[n]))]
           e == [r EXCEPT !.status = "error"]
           d == [r EXCEPT !.status = "division"]
<1>5. /\ a = Result(Append(left, ApplyUnary(op, r.output[n])), st)
      /\ b = Result(Append(left, ApplyBinary(op, r.output[n - 1], r.output[n])), st)
      /\ e = Result(x, "error") /\ d = Result(x, "division")
  BY <1>2, <1>3
<1>6. IsOrderly(a) /\ IsOrderly(b) /\ IsOrderly(e) /\ IsOrderly(d)
  <2>1. st \in Orderly /\ "error" \in Orderly /\ "division" \in Orderly
    BY <1>1 DEF Orderly
  <2> HIDE DEF a, b, e, d, left, n, operands
  <2> QED BY <1>5, <2>1 DEF IsOrderly
<1>7. IsOrderly(IF op = "(" THEN [r EXCEPT !.status = "unreachable"] ELSE IF panics THEN d ELSE b)
  <2> HIDE DEF d, b, panics
  <2> QED BY <1>6
<1> DEFINE c == IF op = "(" THEN [r EXCEPT !.status = "unreachable"] ELSE IF panics THEN d ELSE b
<1>8. ProcessOp(r, op) = CASE r.status # "running" -> r
                           [] r.status = "running" /\ few -> e
                           [] r.status = "running" /\ many /\ op \in Unary -> a
                           [] r.status = "running" /\ many /\ op \notin Unary -> c
  BY <1>4
<1>9. IsOrderly(c)
  BY <1>7
<1> HIDE DEF a, c, e, few, many
<1> DEFINE w == r.status # "running"
           y == r.status = "running" /\ few
           z == r.status = "running" /\ many /\ op \in Unary
           q == r.status = "running" /\ many /\ op \notin Unary
<1>10. w \/ y \/ z \/ q
  <2>1. ~few => many
    BY DEF few, many
  <2> QED BY <2>1
<1> QED BY <1>8, <1>9, <1>10, <1>6

\* Operators without an open parenthesis among them leave process_op in order.
LEMMA ProcessFold ==
    ASSUME NEW base, IsOrderly(base), NEW s \in Seq(OpNames), \A i \in 1..Len(s) : s[i] # "("
    PROVE  IsOrderly(FoldLeft(ProcessOp, base, s))
<1> DEFINE Below2(k, f) == f = [q \in SUBSET (1..k) |->
                              IF q = {} THEN base
                              ELSE ProcessOp(f[q \ {Max(q)}], s[Max(q)])]
           K == {k \in Nat : \E f : Below2(k, f)}
<1>1. Len(s) \in Nat /\ DOMAIN s = 1..Len(s)
  OBVIOUS
<1>2. 0 \in K
  <2> DEFINE f == [q \in SUBSET (1..0) |-> base]
  <2>1. \A q \in SUBSET (1..0) : q = {}
    OBVIOUS
  <2>2. Below2(0, f)
    BY <2>1
  <2> HIDE DEF Below2
  <2> QED BY <2>2
<1>3. ASSUME NEW k \in K PROVE k + 1 \in K
  <2>1. PICK f : Below2(k, f)
    OBVIOUS
  <2>2. k \in Nat /\ k + 1 \in Nat
    OBVIOUS
  <2> DEFINE P == SUBSET (1..k)
             Q == SUBSET (1..(k + 1))
             g == [q \in Q |-> IF k + 1 \in q THEN ProcessOp(f[q \ {k + 1}], s[k + 1])
                               ELSE f[q]]
  <2>3. ASSUME NEW q \in Q, k + 1 \in q
        PROVE  Max(q) = k + 1 /\ q \ {Max(q)} \in Q /\ k + 1 \notin q \ {Max(q)}
    <3>1. q \in SUBSET (0..(k + 1)) /\ q # {}
      BY <2>2, <2>3
    <3>2. Max(q) \in q /\ \A y \in q : Max(q) >= y
      BY <2>2, <3>1, GreatestUpTo
    <3> DEFINE m == Max(q)
    <3>3. m \in 1..(k + 1) /\ m >= k + 1
      BY <2>3, <3>2
    <3> HIDE DEF m
    <3>4. m = k + 1
      BY <2>2, <3>3
    <3>5. Max(q) = k + 1
      BY <3>4 DEF m
    <3> QED BY <3>5
  <2>4. ASSUME NEW q \in Q, k + 1 \notin q
        PROVE  /\ q \in P /\ q \ {Max(q)} \in P /\ q \ {Max(q)} \in Q
               /\ k + 1 \notin q \ {Max(q)}
    <3>1. q \in P
      BY <2>2, <2>4
    <3>2. \A x : q \ {x} \in P /\ q \ {x} \in Q /\ k + 1 \notin q \ {x}
      BY <2>4, <3>1
    <3> QED BY <3>1, <3>2
  <2>5. \A q \in P : f[q] = IF q = {} THEN base ELSE ProcessOp(f[q \ {Max(q)}], s[Max(q)])
    BY <2>1
  <2>6. \A q \in Q : g[q] = IF k + 1 \in q THEN ProcessOp(f[q \ {k + 1}], s[k + 1]) ELSE f[q]
    OBVIOUS
  <2>7. ASSUME NEW q \in Q
        PROVE  g[q] = IF q = {} THEN base ELSE ProcessOp(g[q \ {Max(q)}], s[Max(q)])
    <3> HIDE DEF P, Q, g
    <3>1. CASE k + 1 \in q
      BY <2>3, <2>6, <3>1
    <3>2. CASE k + 1 \notin q
      BY <2>4, <2>5, <2>6, <3>2
    <3> QED BY <3>1, <3>2
  <2>8. Below2(k + 1, g)
    <3> DEFINE h == [q \in Q |-> IF q = {} THEN base ELSE ProcessOp(g[q \ {Max(q)}], s[Max(q)])]
    <3>1. g = h
      BY <2>7
    <3> QED BY <3>1
  <2> HIDE DEF Below2, g
  <2> QED BY <2>2, <2>8
<1>4. K = Nat
  <2>1. K \in SUBSET Nat
    OBVIOUS
  <2> HIDE DEF K
  <2> QED BY <1>2, <1>3, <2>1, SetInduction
<1> DEFINE D == SUBSET DOMAIN s
           E(it) == it = [q \in D |->
                            IF q = {} THEN base
                            ELSE ProcessOp(it[q \ {Max(q)}], s[Max(q)])]
           fold == CHOOSE it : E(it)
<1>5. E(fold)
  <2>1. Len(s) \in K
    BY <1>1, <1>4
  <2>2. PICK f : Below2(Len(s), f)
    BY <2>1
  <2>3. E(f)
    BY <1>1, <2>2
  <2> HIDE DEF E
  <2> QED BY <2>3
<1>6. FoldLeft(ProcessOp, base, s) = fold[DOMAIN s]
  BY DEF FoldLeft, MapThenFoldSet
<1>7. \A q \in D : fold[q] = IF q = {} THEN base ELSE ProcessOp(fold[q \ {Max(q)}], s[Max(q)])
  <2> HIDE DEF fold
  <2> QED BY <1>5
<1> HIDE DEF fold
<1> DEFINE I == {i \in 0..Len(s) : IsOrderly(fold[1..i])}
<1>8. 0 \in I
  <2>1. {} \in D /\ 1..0 = {}
    OBVIOUS
  <2>2. fold[1..0] = base
    BY <1>7, <2>1
  <2> QED BY <1>1, <2>2
<1>9. ASSUME NEW i \in 0..(Len(s) - 1), i \in I PROVE i + 1 \in I
  <2>1. i + 1 \in 1..Len(s) /\ i + 1 \in Nat /\ i + 1 # 0 /\ (i + 1) - 1 = i
    BY <1>1
  <2>2. Max(1..(i + 1)) = i + 1 /\ (1..(i + 1)) \ {i + 1} = 1..i
    BY <2>1, SegmentMax
  <2>3. 1..(i + 1) \in D /\ 1..(i + 1) # {}
    BY <1>1, <2>1
  <2>4. fold[1..(i + 1)] = ProcessOp(fold[1..i], s[i + 1])
    BY <1>7, <2>2, <2>3
  <2>5. IsOrderly(fold[1..i]) /\ s[i + 1] # "("
    BY <1>9, <2>1
  <2>6. IsOrderly(fold[1..(i + 1)])
    BY <2>4, <2>5, ProcessOpIs
  <2> QED BY <1>1, <2>1, <2>6
<1>10. Len(s) \in I
  <2> HIDE DEF I
  <2>1. \A i \in 0..Len(s) : i \in I
    BY <1>1, <1>8, <1>9, BoundedInduction
  <2> QED BY <1>1, <2>1
<1> QED BY <1>1, <1>6, <1>10

\* The operators above a place, when no parenthesis is open above it.
LEMMA ProcessAboveIs ==
    ASSUME ops \in Seq(OpNames), NEW keep \in 0..Len(ops),
           \A i \in (keep + 1)..Len(ops) : ops[i] # "("
    PROVE  IsOrderly(ProcessAbove(keep))
<1> DEFINE p == SubSeq(ops, keep + 1, Len(ops))
           base == [output |-> output, status |-> "running"]
<1>1. /\ keep \in Nat /\ Len(ops) \in Nat /\ keep + 1 \in Nat \ {0}
      /\ (keep + 1) - 1 <= Len(ops) /\ Len(ops) <= Len(ops)
  OBVIOUS
<1> DEFINE m == keep + 1
           n == Len(ops)
<1>2. /\ SubSeq(ops, m, n) \in Seq(OpNames) /\ Len(SubSeq(ops, m, n)) = n - m + 1
      /\ \A i \in 1..(n - m + 1) : SubSeq(ops, m, n)[i] = ops[m + i - 1]
  <2>1. m \in Nat \ {0} /\ n \in Nat /\ m - 1 <= n /\ n <= Len(ops)
    BY <1>1
  <2> HIDE DEF m, n
  <2> QED BY <2>1, PartIs
<1>3. \A i \in 1..(n - m + 1) : m + i - 1 \in (keep + 1)..Len(ops)
  BY <1>1
<1>4. p \in Seq(OpNames) /\ \A i \in 1..Len(p) : p[i] # "("
  <2>1. p = SubSeq(ops, m, n)
    OBVIOUS
  <2> HIDE DEF p, m, n
  <2> QED BY <1>2, <1>3, <2>1
<1> HIDE DEF p, m, n
<1>5. /\ Reverse(p) \in Seq(OpNames) /\ Len(Reverse(p)) = Len(p)
      /\ \A i \in 1..Len(p) : Reverse(p)[i] = p[Len(p) - i + 1]
  BY <1>4, ReverseIs
<1>6. \A i \in 1..Len(Reverse(p)) : Reverse(p)[i] # "("
  <2>1. Len(p) \in Nat /\ \A i \in 1..Len(p) : Len(p) - i + 1 \in 1..Len(p)
    BY <1>4
  <2> QED BY <1>4, <1>5, <2>1
<1>7. IsOrderly(base)
  <2>1. base = Result(output, "running") /\ "running" \in Orderly
    BY DEF Result, Orderly
  <2> QED BY <2>1 DEF IsOrderly
<1>8. ProcessAbove(keep) = FoldLeft(ProcessOp, base, Reverse(p))
  BY DEF ProcessAbove, p
<1> HIDE DEF base
<1> QED BY <1>5, <1>6, <1>7, <1>8, ProcessFold

-----------------------------------------------------------------------------
(* What a macro expands to.                                                *)

\* The symbols of the arguments of a call, when none of them is a call.
Soft == {s \in Symbols : Weight(s) = 0 /\ ~HasParams(s)}

GoodOut(t, d) == /\ t \in Seq(Symbols) /\ Stays(t, 0) /\ Net(t) = d
                 /\ \A i \in 1..Len(t) : ~HasParams(t[i])
EndsFlat(t) == t # <<>> /\ Weight(Last(t)) = 0

\* A sequence without its last element has the elements of its set.
LEMMA FrontTyped ==
    ASSUME NEW C, NEW e \in Seq(C)
    PROVE  Front(e) \in Seq(C)
<1>1. Len(e) \in Nat /\ 1 \in Int /\ Len(e) - 1 \in Int
  OBVIOUS
<1>2. \A i \in 1..(Len(e) - 1) : e[i] \in C
  OBVIOUS
<1> DEFINE n == Len(e) - 1
<1>3. SubSeq(e, 1, n) \in Seq(C)
  <2>1. n \in Int /\ 1 \in Int /\ \A i \in 1..n : e[i] \in C
    BY <1>1, <1>2
  <2> HIDE DEF n
  <2> QED BY <2>1, SubSeqProperties
<1> QED BY <1>3 DEF Front

\* A symbol of no weight ends a sequence.
LEMMA AppendEnds ==
    ASSUME NEW C, NEW t \in Seq(C), NEW s \in C
    PROVE  /\ Append(t, s) \in Seq(C) /\ Append(t, s) # <<>>
           /\ Last(Append(t, s)) = s /\ Front(Append(t, s)) = t
<1> DEFINE u == Append(t, s)
<1>1. /\ u \in Seq(C) /\ u # <<>> /\ Len(t) \in Nat /\ Len(u) = Len(t) + 1
      /\ u[Len(t) + 1] = s /\ \A i \in 1..Len(t) : u[i] = t[i]
  OBVIOUS
<1> HIDE DEF u
<1>2. /\ Front(u) \in Seq(C) /\ Len(Front(u)) = Len(u) - 1
      /\ \A i \in 1..(Len(u) - 1) : Front(u)[i] = u[i]
      /\ Last(u) = u[Len(u)]
  BY <1>1, FrontIs
<1>3. Len(Front(u)) = Len(t) /\ \A i \in 1..Len(t) : Front(u)[i] = t[i]
  BY <1>1, <1>2
<1>4. Front(u) = t
  BY <1>2, <1>3, SeqEqual
<1>5. Last(u) = s
  BY <1>1, <1>2
<1> QED BY <1>1, <1>4, <1>5 DEF u

\* A good output and one symbol of a body.
LEMMA GoodAppend ==
    ASSUME NEW t, NEW d \in Int, GoodOut(t, d), NEW s \in Symbols, ~HasParams(s),
           d + Weight(s) >= 0
    PROVE  GoodOut(Append(t, s), d + Weight(s))
<1>1. t \in Seq(Symbols) /\ Append(t, s) = t \o <<s>> /\ <<s>> \in Seq(Symbols)
  BY AppendIsConcat DEF GoodOut
<1>2. Splits(t, <<s>>, 0)
  <2>1. 0 \in Int
    OBVIOUS
  <2> QED BY <1>1, <2>1, StaysOfConcat
<1>3. /\ Stays(t \o <<s>>, 0) <=> Stays(t, 0) /\ Stays(<<s>>, 0 + Net(t))
      /\ Net(t \o <<s>>) = Net(t) + Net(<<s>>)
  BY <1>2 DEF Splits
<1>4. d >= 0
  <2>1. Stays(t, 0) /\ Net(t) = d /\ Len(t) \in 0..Len(t)
    BY <1>1 DEF GoodOut
  <2>2. 0 + Depth(t, Len(t)) >= 0
    BY <2>1 DEF Stays
  <2> QED BY <2>1, <2>2 DEF Net
<1>5. Weight(s) \in Int /\ Net(<<s>>) = Weight(s) /\ 0 + Net(t) = d
  BY WeightIs, OneSymbol DEF GoodOut
<1>6. Stays(<<s>>, d)
  BY <1>4, OneSymbol
<1>7. Net(t \o <<s>>) = d + Weight(s)
  BY <1>3, <1>5 DEF GoodOut
<1>8. Stays(t \o <<s>>, 0)
  BY <1>3, <1>5, <1>6 DEF GoodOut
<1>9. Append(t, s) \in Seq(Symbols) /\ \A i \in 1..Len(Append(t, s)) : ~HasParams(Append(t, s)[i])
  <2>1. \A i \in 1..Len(t) : ~HasParams(t[i])
    BY DEF GoodOut
  <2>2. /\ Append(t, s) \in Seq(Symbols) /\ Len(Append(t, s)) = Len(t) + 1
        /\ \A i \in 1..Len(t) : Append(t, s)[i] = t[i]
        /\ Append(t, s)[Len(t) + 1] = s /\ Len(t) \in Nat
    BY <1>1
  <2> QED BY <2>1, <2>2
<1> QED BY <1>1, <1>7, <1>8, <1>9 DEF GoodOut

\* Symbols of arguments open and close nothing.
LEMMA SoftIs ==
    ASSUME NEW u \in Seq(Soft)
    PROVE  /\ u \in Seq(Symbols) /\ Flat(u) /\ Balanced(u) /\ Stays(u, 0) /\ Net(u) = 0
           /\ \A i \in 1..Len(u) : ~HasParams(u[i])
<1>1. Len(u) \in Nat /\ DOMAIN u = 1..Len(u) /\ \A i \in 1..Len(u) : u[i] \in Soft
  OBVIOUS
<1>2. \A x \in Soft : x \in Symbols /\ Weight(x) = 0 /\ ~HasParams(x)
  BY DEF Soft
<1>3. u \in Seq(Symbols)
  BY <1>1, <1>2
<1>4. Flat(u)
  BY <1>1, <1>2 DEF Flat
<1> QED BY <1>1, <1>2, <1>3, <1>4, FlatIsBalanced

\* A good output and an argument.
LEMMA GoodConcat ==
    ASSUME NEW t, NEW d \in Int, GoodOut(t, d), NEW u \in Seq(Soft)
    PROVE  GoodOut(t \o u, d)
<1>1. t \in Seq(Symbols) /\ u \in Seq(Symbols) /\ Stays(u, 0) /\ Net(u) = 0
  BY SoftIs DEF GoodOut
<1>2. Splits(t, u, 0) /\ 0 \in Int
  BY <1>1, StaysOfConcat
<1>3. /\ Stays(t \o u, 0) <=> Stays(t, 0) /\ Stays(u, 0 + Net(t))
      /\ Net(t \o u) = Net(t) + Net(u)
  BY <1>2 DEF Splits
<1>4. d >= 0 /\ Net(t) = d /\ Stays(t, 0)
  <2>1. Stays(t, 0) /\ Net(t) = d /\ Len(t) \in 0..Len(t)
    BY <1>1 DEF GoodOut
  <2>2. 0 + Depth(t, Len(t)) >= 0
    BY <2>1 DEF Stays
  <2> QED BY <2>1, <2>2 DEF Net
<1>5. Stays(u, d)
  <2>1. \A i \in 0..Len(u) : Depth(u, i) \in Int /\ 0 + Depth(u, i) >= 0
    BY <1>1, DepthNext DEF Stays
  <2> QED BY <1>4, <2>1 DEF Stays
<1>6. Stays(t \o u, 0) /\ Net(t \o u) = d
  BY <1>1, <1>3, <1>4, <1>5
<1>7. t \o u \in Seq(Symbols) /\ \A i \in 1..Len(t \o u) : ~HasParams((t \o u)[i])
  <2>1. \A i \in 1..Len(t) : ~HasParams(t[i])
    BY DEF GoodOut
  <2>2. \A i \in 1..Len(u) : ~HasParams(u[i])
    BY SoftIs
  <2>3. /\ t \o u \in Seq(Symbols) /\ Len(t \o u) = Len(t) + Len(u)
        /\ Len(t) \in Nat /\ Len(u) \in Nat
        /\ \A i \in 1..Len(t \o u) : (t \o u)[i] = IF i <= Len(t) THEN t[i] ELSE u[i - Len(t)]
    BY <1>1, ConcatProperties
  <2>4. \A i \in 1..Len(t \o u) : (i <= Len(t) => i \in 1..Len(t))
                                    /\ (~(i <= Len(t)) => i - Len(t) \in 1..Len(u))
    BY <2>3
  <2> QED BY <2>1, <2>2, <2>3, <2>4
<1> QED BY <1>6, <1>7 DEF GoodOut

\* A good output without the % on its end.
LEMMA GoodFront ==
    ASSUME NEW t, NEW d \in Int, GoodOut(t, d), EndsFlat(t)
    PROVE  GoodOut(Front(t), d)
<1>1. t \in Seq(Symbols) /\ t # <<>> /\ Weight(Last(t)) = 0
  BY DEF GoodOut, EndsFlat
<1>2. /\ Front(t) \in Seq(Symbols) /\ Len(t) \in Nat \ {0} /\ Len(Front(t)) = Len(t) - 1
      /\ \A i \in 1..(Len(t) - 1) : Front(t)[i] = t[i]
      /\ Last(t) \in Symbols /\ t = Front(t) \o <<Last(t)>>
  BY <1>1, FrontIs
<1> DEFINE f == Front(t)
           l == Last(t)
<1>3. f \in Seq(Symbols) /\ l \in Symbols /\ <<l>> \in Seq(Symbols) /\ t = f \o <<l>>
        /\ Weight(l) = 0
  BY <1>1, <1>2
<1>4. \A i \in 1..Len(f) : ~HasParams(f[i])
  BY <1>2 DEF GoodOut
<1> HIDE DEF f, l
<1>5. Splits(f, <<l>>, 0)
  <2>1. 0 \in Int
    OBVIOUS
  <2> QED BY <1>3, <2>1, StaysOfConcat
<1>6. /\ Stays(t, 0) <=> Stays(f, 0) /\ Stays(<<l>>, 0 + Net(f))
      /\ Net(t) = Net(f) + Net(<<l>>) /\ Net(<<l>>) = 0
  BY <1>3, <1>5, OneSymbol DEF Splits
<1>7. Net(f) \in Int
  BY <1>3, NetType
<1>8. Net(f) = d /\ Stays(f, 0)
  BY <1>6, <1>7 DEF GoodOut
<1> QED BY <1>3, <1>4, <1>8 DEF GoodOut, f

Endings == {"ok", "error", "panicked"}
Building == [out : Seq(Symbols), percents : Nat, stringize : BOOLEAN, status : Endings]
ParamsOf == [Slots -> Nat \cup {-1}]
ArgsOf == [Slots -> Seq(Soft)]

\* What has been built, when the depth of the body is d.
Fits(b, d) == /\ GoodOut(b.out, d)
              /\ b.percents = 1 \/ b.stringize => EndsFlat(b.out)
              /\ b.percents = 1 /\ b.stringize => EndsFlat(Front(b.out))

FitsIfOk(b, d) == b \in Building /\ (b.status = "ok" => Fits(b, d))

\* A parameter is replaced.
LEMMA SubstituteFits ==
    ASSUME NEW b \in Building, NEW child \in Symbols, NEW args \in ArgsOf, NEW params \in ParamsOf,
           NEW d \in Int
    PROVE  /\ Substitute(b, child, args, params) \in Building
           /\ Fits(b, d) /\ b.percents = 1 => FitsIfOk(Substitute(b, child, args, params), d)
<1> DEFINE slot == IF child.value \in Slots THEN params[child.value] ELSE 10
           base == Front(b.out)
           out == IF b.stringize THEN Append(Front(base), Tok("string")) ELSE base \o args[slot]
           e == [b EXCEPT !.status = "error"]
           p == [b EXCEPT !.status = "panicked"]
           o == [b EXCEPT !.out = out, !.percents = 0, !.stringize = FALSE]
           r == Substitute(b, child, args, params)
<1>1. slot \in Nat \cup {-1}
  BY DEF ParamsOf
<1>2. r = CASE slot >= 10 -> e [] slot = -1 -> p [] OTHER -> o
  BY DEF Substitute
<1>3. /\ b.out \in Seq(Symbols) /\ b.percents \in Nat /\ b.stringize \in BOOLEAN
      /\ b = [out |-> b.out, percents |-> b.percents, stringize |-> b.stringize,
              status |-> b.status]
  BY DEF Building
<1>4. base \in Seq(Symbols) /\ Front(base) \in Seq(Symbols)
  <2>1. base \in Seq(Symbols)
    BY <1>3, FrontTyped
  <2> HIDE DEF base
  <2> QED BY <2>1, FrontTyped
<1>5. slot \in Slots => args[slot] \in Seq(Soft) /\ args[slot] \in Seq(Symbols)
  <2> HIDE DEF slot
  <2>1. ASSUME slot \in Slots PROVE args[slot] \in Seq(Soft)
    BY <2>1 DEF ArgsOf
  <2> QED BY <2>1, SoftIs
<1>6. e \in Building /\ e.status # "ok" /\ p \in Building /\ p.status # "ok"
  BY DEF Building, Endings
<1> DEFINE q == Tok("string")
<1>7. q \in Symbols /\ Weight(q) = 0 /\ ~HasParams(q)
  <2>1. q \in Symbols /\ q.kind = "string"
    BY TokIs DEF BareKinds
  <2> HIDE DEF q
  <2> QED BY <2>1 DEF Weight, HasParams
<1> HIDE DEF q
<1>8. /\ o.out = out /\ o.percents = 0 /\ o.stringize = FALSE
      /\ out \in Seq(Symbols) => o \in Building
  <2> HIDE DEF out
  <2> QED BY DEF Building
<1>9. CASE ~(slot >= 10) /\ slot # -1
  <2>1. slot \in Slots
    <3> HIDE DEF slot
    <3> QED BY <1>1, <1>9 DEF Slots
  <2>2. r = o
    <3> HIDE DEF slot, o, e, p
    <3> QED BY <1>2, <1>9
  <2>3. out = IF b.stringize THEN Append(Front(base), q) ELSE base \o args[slot]
    BY DEF q
  <2>4. out \in Seq(Symbols)
    <3> HIDE DEF out, base, slot
    <3>1. Append(Front(base), q) \in Seq(Symbols)
      BY <1>4, <1>7
    <3>2. base \o args[slot] \in Seq(Symbols)
      BY <1>4, <1>5, <2>1
    <3> QED BY <2>3, <3>1, <3>2
  <2>5. o \in Building
    <3> HIDE DEF o
    <3> QED BY <1>8, <2>4
  <2>6. ASSUME Fits(b, d), b.percents = 1 PROVE GoodOut(out, d)
    <3>1. GoodOut(b.out, d) /\ EndsFlat(b.out) /\ (b.stringize => EndsFlat(Front(b.out)))
      BY <2>6 DEF Fits
    <3>2. GoodOut(base, d)
      BY <3>1, GoodFront
    <3>3. ASSUME b.stringize PROVE GoodOut(Append(Front(base), q), d)
      <4>1. EndsFlat(base)
        BY <3>1, <3>3
      <4> HIDE DEF base
      <4>2. GoodOut(Front(base), d)
        BY <3>2, <4>1, GoodFront
      <4>3. Stays(Front(base), 0) /\ Net(Front(base)) = d
        BY <4>2 DEF GoodOut
      <4>4. d >= 0
        <5>1. Len(Front(base)) \in 0..Len(Front(base))
          BY <1>4
        <5>2. 0 + Depth(Front(base), Len(Front(base))) >= 0
          BY <4>3, <5>1 DEF Stays
        <5> QED BY <4>3, <5>2 DEF Net
      <4>5. d + Weight(q) = d /\ d + Weight(q) >= 0
        BY <1>7, <4>4
      <4>6. GoodOut(Append(Front(base), q), d + Weight(q))
        BY <1>7, <4>2, <4>5, GoodAppend
      <4> QED BY <4>5, <4>6
    <3>4. ASSUME ~b.stringize PROVE GoodOut(base \o args[slot], d)
      <4> HIDE DEF base, slot
      <4> QED BY <1>5, <2>1, <3>2, GoodConcat
    <3> HIDE DEF base, slot, out
    <3> QED BY <2>3, <3>3, <3>4
  <2>7. ASSUME Fits(b, d), b.percents = 1 PROVE FitsIfOk(o, d)
    <3>1. GoodOut(out, d) /\ o \in Building
      BY <2>5, <2>6, <2>7
    <3> HIDE DEF out, o
    <3>2. o.out = out /\ o.percents = 0 /\ o.stringize = FALSE
      BY <1>8
    <3>3. Fits(o, d)
      BY <3>1, <3>2 DEF Fits
    <3> QED BY <3>1, <3>3 DEF FitsIfOk
  <2> HIDE DEF o
  <2> QED BY <2>2, <2>5, <2>7
<1>10. CASE slot >= 10 \/ slot = -1
  <2>1. r = e \/ r = p
    <3> HIDE DEF slot, o, e, p
    <3>1. slot >= 10 => slot # -1
      BY <1>1
    <3> QED BY <1>2, <1>10, <3>1
  <2> HIDE DEF e, p, slot
  <2>2. r \in Building /\ r.status # "ok"
    BY <1>6, <2>1
  <2> QED BY <2>2 DEF FitsIfOk
<1> QED BY <1>9, <1>10

\* One symbol of the body more is built.
LEMMA ChildFits ==
    ASSUME NEW b \in Building, NEW child \in Symbols, NEW args \in ArgsOf, NEW params \in ParamsOf,
           NEW d \in Int
    PROVE  /\ ExpandChild(b, child, args, params) \in Building
           /\ FitsIfOk(b, d) /\ d + Weight(child) >= 0 /\ ~HasParams(child)
                => FitsIfOk(ExpandChild(b, child, args, params), d + Weight(child))
<1> DEFINE r == ExpandChild(b, child, args, params)
           more == Append(b.out, child)
           percent == [b EXCEPT !.percents = @ + 1,
                                !.out = IF b.percents % 2 = 0 THEN Append(@, child) ELSE @]
           hash == [b EXCEPT !.stringize = TRUE, !.out = Append(@, child)]
           subst == Substitute(b, child, args, params)
           number == [b EXCEPT !.percents = 0, !.out = Append(@, child)]
           other == [b EXCEPT !.percents = 0, !.stringize = FALSE, !.out = Append(@, child)]
           Typed(x) == x \in Building
           Goes(x) == FitsIfOk(b, d) /\ d + Weight(child) >= 0 /\ ~HasParams(child)
                        => FitsIfOk(x, d + Weight(child))
           c1 == b.status # "ok"
           c2 == child = Op("%")
           c3 == child = Op("#")
           c4 == child.kind = "int" /\ b.percents = 1
           c5 == child.kind = "int" /\ b.percents # 1
<1>1. r = IF c1 THEN b
          ELSE CASE c2 -> percent [] c3 -> hash [] c4 -> subst [] c5 -> number [] OTHER -> other
  BY DEF ExpandChild
<1>2. /\ b.out \in Seq(Symbols) /\ b.percents \in Nat /\ b.stringize \in BOOLEAN
      /\ b.status \in Endings
  BY DEF Building
<1>3. /\ more \in Seq(Symbols) /\ more # <<>> /\ Last(more) = child /\ Front(more) = b.out
  BY <1>2, AppendEnds
<1>4. ASSUME FitsIfOk(b, d), d + Weight(child) >= 0, ~HasParams(child), b.status = "ok"
      PROVE  /\ GoodOut(b.out, d) /\ GoodOut(more, d + Weight(child))
             /\ b.percents = 1 \/ b.stringize => EndsFlat(b.out)
             /\ b.percents = 1 /\ b.stringize => EndsFlat(Front(b.out))
  <2>1. Fits(b, d)
    BY <1>4 DEF FitsIfOk
  <2>2. GoodOut(b.out, d)
    BY <2>1 DEF Fits
  <2>3. GoodOut(more, d + Weight(child))
    BY <1>4, <2>2, GoodAppend
  <2> QED BY <2>1, <2>2, <2>3 DEF Fits
<1>5. d + Weight(child) \in Int /\ (Weight(child) = 0 => d + Weight(child) = d)
  BY WeightIs
<1>6. /\ Weight(Op("%")) = 0 /\ Weight(Op("#")) = 0
      /\ Op("%") # Op("#") /\ Op("%").kind # "int" /\ Op("#").kind # "int"
      /\ child.kind = "int" => Weight(child) = 0
  BY DEF Weight, Op
<1> HIDE DEF more
<1>7. ASSUME Weight(child) = 0 PROVE EndsFlat(more)
  BY <1>3, <1>7 DEF EndsFlat
<1>8. Typed(percent) /\ (c2 => Goes(percent))
  <2> DEFINE out == IF b.percents % 2 = 0 THEN more ELSE b.out
  <2>1. /\ percent.out = out /\ percent.percents = b.percents + 1
        /\ percent.stringize = b.stringize /\ percent.status = b.status
        /\ out \in Seq(Symbols) => percent \in Building
    <3>1. out = IF b.percents % 2 = 0 THEN Append(b.out, child) ELSE b.out
      BY DEF more
    <3> HIDE DEF out
    <3>2. percent = [b EXCEPT !.percents = b.percents + 1, !.out = out]
      BY <3>1
    <3>3. b.percents + 1 \in Nat
      BY <1>2
    <3> HIDE DEF percent
    <3> QED BY <3>2, <3>3 DEF Building
  <2>2. out \in Seq(Symbols) /\ b.percents + 1 \in Nat
    BY <1>2, <1>3
  <2>3. Typed(percent)
    <3> HIDE DEF percent, out
    <3> QED BY <1>2, <2>1, <2>2 DEF Building
  <2>4. ASSUME c2, FitsIfOk(b, d), d + Weight(child) >= 0, ~HasParams(child), b.status = "ok"
        PROVE  Fits(percent, d + Weight(child))
    <3>1. Weight(child) = 0 /\ d + Weight(child) = d
      BY <1>5, <1>6, <2>4
    <3>2. GoodOut(out, d)
      <4>1. GoodOut(b.out, d) /\ GoodOut(more, d)
        BY <1>4, <2>4, <3>1
      <4> QED BY <4>1
    <3>3. percent.out = out /\ percent.percents = b.percents + 1 /\ percent.stringize = b.stringize
      <4> HIDE DEF percent, out
      <4> QED BY <2>1
    <3>4. b.percents + 1 = 1 => out = more
      BY <1>2
    <3>5. b.stringize => EndsFlat(b.out)
      BY <1>4, <2>4
    <3>6. EndsFlat(more)
      BY <1>7, <3>1
    <3>7. b.percents + 1 = 1 \/ b.stringize => EndsFlat(out)
      <4>1. out = more \/ out = b.out
        OBVIOUS
      <4> HIDE DEF out
      <4> QED BY <3>4, <3>5, <3>6, <4>1
    <3>8. b.percents + 1 = 1 /\ b.stringize => EndsFlat(Front(out))
      <4> HIDE DEF out
      <4> QED BY <1>3, <3>4, <3>5
    <3> HIDE DEF percent, out
    <3> QED BY <3>1, <3>2, <3>3, <3>7, <3>8 DEF Fits
  <2>5. percent.status = b.status
    OBVIOUS
  <2> HIDE DEF percent
  <2> QED BY <2>3, <2>4, <2>5 DEF FitsIfOk
<1>9. Typed(hash) /\ (c3 => Goes(hash))
  <2>1. /\ hash.out = more /\ hash.percents = b.percents
        /\ hash.stringize = TRUE /\ hash.status = b.status
        /\ more \in Seq(Symbols) => hash \in Building
    <3>1. more = Append(b.out, child)
      BY DEF more
    <3> HIDE DEF more
    <3> QED BY <3>1 DEF Building
  <2>2. Typed(hash)
    <3> HIDE DEF hash
    <3> QED BY <1>2, <1>3, <2>1 DEF Building
  <2>3. ASSUME c3, FitsIfOk(b, d), d + Weight(child) >= 0, ~HasParams(child), b.status = "ok"
        PROVE  Fits(hash, d + Weight(child))
    <3>1. Weight(child) = 0 /\ EndsFlat(more)
      BY <1>6, <1>7, <2>3
    <3>2. GoodOut(more, d + Weight(child)) /\ (b.percents = 1 => EndsFlat(b.out))
      BY <1>4, <2>3
    <3>3. hash.out = more /\ hash.percents = b.percents /\ hash.stringize
      <4> HIDE DEF hash
      <4> QED BY <2>1
    <3> HIDE DEF hash
    <3> QED BY <1>3, <3>1, <3>2, <3>3 DEF Fits
  <2>4. hash.status = b.status
    OBVIOUS
  <2> HIDE DEF hash
  <2> QED BY <2>2, <2>3, <2>4 DEF FitsIfOk
<1>10. Typed(subst) /\ (c4 /\ ~c1 => Goes(subst))
  <2>1. Typed(subst)
    BY SubstituteFits
  <2>2. ASSUME c4, FitsIfOk(b, d), b.status = "ok" PROVE FitsIfOk(subst, d + Weight(child))
    <3>1. Fits(b, d) /\ b.percents = 1 /\ d + Weight(child) = d
      BY <1>5, <1>6, <2>2 DEF FitsIfOk
    <3>2. FitsIfOk(subst, d)
      BY <3>1, SubstituteFits
    <3> QED BY <3>1, <3>2
  <2> HIDE DEF subst
  <2> QED BY <2>1, <2>2
<1>11. Typed(number) /\ (c5 => Goes(number))
  <2>1. /\ number.out = more /\ number.percents = 0
        /\ number.stringize = b.stringize /\ number.status = b.status
        /\ more \in Seq(Symbols) => number \in Building
    <3>1. more = Append(b.out, child)
      BY DEF more
    <3> HIDE DEF more
    <3> QED BY <3>1 DEF Building
  <2>2. Typed(number)
    <3> HIDE DEF number
    <3> QED BY <1>2, <1>3, <2>1 DEF Building
  <2>3. ASSUME c5, FitsIfOk(b, d), d + Weight(child) >= 0, ~HasParams(child), b.status = "ok"
        PROVE  Fits(number, d + Weight(child))
    <3>1. EndsFlat(more)
      BY <1>6, <1>7, <2>3
    <3>2. GoodOut(more, d + Weight(child))
      BY <1>4, <2>3
    <3>3. number.out = more /\ number.percents = 0
      <4> HIDE DEF number
      <4> QED BY <2>1
    <3> HIDE DEF number
    <3> QED BY <3>1, <3>2, <3>3 DEF Fits
  <2>4. number.status = b.status
    OBVIOUS
  <2> HIDE DEF number
  <2> QED BY <2>2, <2>3, <2>4 DEF FitsIfOk
<1>12. Typed(other) /\ Goes(other)
  <2>1. /\ other.out = more /\ other.percents = 0
        /\ other.stringize = FALSE /\ other.status = b.status
        /\ more \in Seq(Symbols) => other \in Building
    <3>1. more = Append(b.out, child)
      BY DEF more
    <3> HIDE DEF more
    <3> QED BY <3>1 DEF Building
  <2>2. Typed(other)
    <3> HIDE DEF other
    <3> QED BY <1>2, <1>3, <2>1 DEF Building
  <2>3. ASSUME FitsIfOk(b, d), d + Weight(child) >= 0, ~HasParams(child), b.status = "ok"
        PROVE  Fits(other, d + Weight(child))
    <3>1. GoodOut(more, d + Weight(child))
      BY <1>4, <2>3
    <3>2. other.out = more /\ other.percents = 0 /\ other.stringize = FALSE
      <4> HIDE DEF other
      <4> QED BY <2>1
    <3> HIDE DEF other
    <3> QED BY <3>1, <3>2 DEF Fits
  <2>4. other.status = b.status
    OBVIOUS
  <2> HIDE DEF other
  <2> QED BY <2>2, <2>3, <2>4 DEF FitsIfOk
<1>13. Typed(b) /\ (c1 => Goes(b))
  BY DEF FitsIfOk
<1>14. c2 => ~c3 /\ ~c4 /\ ~c5
  BY <1>6
<1>15. c3 => ~c4 /\ ~c5
  BY <1>6
<1> HIDE DEF r, percent, hash, subst, number, other
<1>16. CASE c1
  <2>1. r = b
    BY <1>1, <1>16
  <2> QED BY <1>13, <1>16, <2>1 DEF r
<1>17. CASE ~c1
  <2>1. c2 => r = percent
    BY <1>1, <1>14, <1>17
  <2>2. c3 => r = hash
    BY <1>1, <1>14, <1>15, <1>17
  <2>3. c4 => r = subst
    BY <1>1, <1>14, <1>15, <1>17
  <2>4. c5 => r = number
    BY <1>1, <1>14, <1>15, <1>17
  <2>5. ~c2 /\ ~c3 /\ ~c4 /\ ~c5 => r = other
    BY <1>1, <1>17
  <2> HIDE DEF c2, c3, c4, c5, Typed, Goes
  <2>6. Typed(r) /\ Goes(r)
    BY <1>8, <1>9, <1>10, <1>11, <1>12, <1>17, <2>1, <2>2, <2>3, <2>4, <2>5
  <2> QED BY <2>6 DEF Typed, Goes, r
<1> QED BY <1>16, <1>17

\* A macro that closes the parentheses of its body expands to what does.
LEMMA ExpandMacroIs ==
    ASSUME NEW args \in ArgsOf, NEW macro, macro.params \in ParamsOf, macro.body \in Seq(Symbols),
           Balanced(macro.body), \A i \in DOMAIN macro.body : ~HasParams(macro.body[i])
    PROVE  FitsIfOk(ExpandMacro(args, macro), 0)
<1> DEFINE s == macro.body
           params == macro.params
           base == [out |-> <<>>, percents |-> 0, stringize |-> FALSE, status |-> "ok"]
           D == SUBSET DOMAIN s
           E(it) == it = [q \in D |->
                            IF q = {} THEN base
                            ELSE ExpandChild(it[q \ {Max(q)}], s[Max(q)], args, params)]
           fold == CHOOSE it : E(it)
           step == [p \in Building \X Symbols |-> ExpandChild(p[1], p[2], args, params)]
<1>1. s \in Seq(Symbols) /\ Len(s) \in Nat /\ DOMAIN s = 1..Len(s) /\ params \in ParamsOf
  OBVIOUS
<1>2. base \in Building
  BY DEF Building, Endings
<1>3. \A b \in Building, child \in Symbols : ExpandChild(b, child, args, params) \in Building
  <2>1. 0 \in Int
    OBVIOUS
  <2> HIDE DEF params
  <2> QED BY <1>1, <2>1, ChildFits
<1> HIDE DEF base
<1>4. /\ step \in [Building \X Symbols -> Building]
      /\ \A b \in Building, child \in Symbols :
            step[<<b, child>>] = ExpandChild(b, child, args, params)
  BY <1>3
<1>5. PICK f \in [D -> Building] : FoldsSets(Building, base, step, s, f)
  <2> HIDE DEF step, s
  <2> QED BY <1>1, <1>2, <1>4, FoldExists
<1>6. E(f)
  <2> HIDE DEF step, s
  <2>1. \A q \in D : f[q] = IF q = {} THEN base
                            ELSE ExpandChild(f[q \ {Max(q)}], s[Max(q)], args, params)
    BY <1>1, <1>4, <1>5, TakesApart DEF FoldsSets
  <2> QED BY <2>1
<1>7. E(fold)
  <2> HIDE DEF E
  <2> QED BY <1>6
<1>8. FoldsSets(Building, base, step, s, fold)
  <2> HIDE DEF fold, step, s
  <2>1. \A q \in D : fold[q] = IF q = {} THEN base
                               ELSE ExpandChild(fold[q \ {Max(q)}], s[Max(q)], args, params)
    BY <1>7
  <2>2. ASSUME NEW q \in D, q # {}, fold[q \ {Max(q)}] \in Building
        PROVE  fold[q] = step[<<fold[q \ {Max(q)}], s[Max(q)]>>]
    <3>1. q \in SUBSET DOMAIN s /\ s[Max(q)] \in Symbols
      BY <1>1, <2>2, TakesApart
    <3> QED BY <1>4, <2>1, <2>2, <3>1
  <2>3. fold[{}] = base
    BY <2>1
  <2> QED BY <2>2, <2>3 DEF FoldsSets
<1>9. ExpandMacro(args, macro) = fold[DOMAIN s]
  BY DEF ExpandMacro, FoldLeft, MapThenFoldSet, base
<1>10. FoldsTo(Building, base, step, s, fold[DOMAIN s])
  <2> HIDE DEF fold, step, s
  <2> QED BY <1>1, <1>2, <1>4, <1>8, FoldOfSets
<1> DEFINE I == [i \in 0..Len(s) |-> {b \in Building : FitsIfOk(b, Depth(s, i))}]
<1>11. I \in [0..Len(s) -> SUBSET Building]
  OBVIOUS
<1>12. base \in I[0]
  <2>1. Depth(s, 0) = 0 /\ 0 \in 0..Len(s)
    BY <1>1, DepthOfNone
  <2>2. GoodOut(<<>>, 0)
    <3>1. <<>> \in Seq(Soft)
      OBVIOUS
    <3>2. Stays(<<>>, 0) /\ Net(<<>>) = 0 /\ <<>> \in Seq(Symbols) /\ Len(<<>>) = 0
      BY <3>1, SoftIs
    <3> QED BY <3>2 DEF GoodOut
  <2>3. base.out = <<>> /\ base.percents = 0 /\ base.stringize = FALSE
    BY DEF base
  <2>4. FitsIfOk(base, 0)
    BY <1>2, <2>2, <2>3 DEF FitsIfOk, Fits
  <2> QED BY <1>2, <2>1, <2>4
<1>13. ASSUME NEW i \in 1..Len(s), NEW b \in I[i - 1] PROVE step[<<b, s[i]>>] \in I[i]
  <2>1. i - 1 \in 0..Len(s) /\ i \in 0..Len(s) /\ i - 1 \in Nat /\ (i - 1) + 1 = i
          /\ s[i] \in Symbols
    BY <1>1
  <2>2. b \in Building /\ FitsIfOk(b, Depth(s, i - 1))
    BY <2>1, <1>13
  <2>3. Depth(s, i - 1) \in Int /\ Depth(s, i) = Depth(s, i - 1) + Weight(s[i])
    BY <2>1, DepthNext
  <2>4. Depth(s, i) >= 0 /\ ~HasParams(s[i])
    BY <1>1 DEF Balanced
  <2>5. FitsIfOk(ExpandChild(b, s[i], args, params), Depth(s, i - 1) + Weight(s[i]))
    <3> HIDE DEF params, s
    <3> QED BY <1>1, <2>1, <2>2, <2>3, <2>4, ChildFits
  <2>6. step[<<b, s[i]>>] \in Building /\ FitsIfOk(step[<<b, s[i]>>], Depth(s, i))
    <3> HIDE DEF step
    <3> QED BY <1>4, <1>3, <2>1, <2>2, <2>3, <2>5
  <2> QED BY <2>1, <2>6
<1>14. fold[DOMAIN s] \in I[Len(s)]
  <2> HIDE DEF fold, step, s, I
  <2> QED BY <1>1, <1>2, <1>10, <1>11, <1>12, <1>13, FoldKeeps
<1>15. FitsIfOk(fold[DOMAIN s], Depth(s, Len(s))) /\ Depth(s, Len(s)) = 0
  BY <1>1, <1>14 DEF Balanced
<1> QED BY <1>9, <1>15

-----------------------------------------------------------------------------
(* The arguments of a call.                                                *)

\* The parenthesis that opens r is closed at m.
Closes(r, m) == /\ m \in 1..Len(r) /\ r[m].kind = "rparen" /\ Depth(r, m) = 0
                /\ \A k \in 1..(m - 1) : Depth(r, k) > 0

Collecting == [closed : BOOLEAN, depth : Int, idx : Nat, nested : Seq(Symbols),
               args : [Slots -> Seq(Symbols)], used : Nat]

\* One symbol of the call is read.
LEMMA ReadIs ==
    ASSUME NEW c \in Collecting, NEW s \in Symbols, NEW nb
    PROVE  LET x == ReadArgument(c, s, nb)
           IN  /\ x \in Collecting
               /\ c.closed => x = c
               /\ ~c.closed => /\ x.closed = (s.kind = "rparen" /\ c.depth + Weight(s) = 0)
                               /\ x.depth = c.depth + Weight(s)
                               /\ x.used = c.used + 1
               /\ c.args \in ArgsOf /\ (c.closed \/ ~HasParams(s)) => x.args \in ArgsOf
<1> DEFINE depth == CASE s.kind = "lparen" -> c.depth + 1
                      [] s.kind = "rparen" -> c.depth - 1
                      [] OTHER -> c.depth
           kept == (IF s.kind = "rparen" /\ c.depth > 1 THEN <<s>> ELSE <<>>)
                     \o (IF depth > 1 THEN <<s>> ELSE <<>>)
           next == s.kind = "comma" /\ c.depth = 1 /\ c.idx + 1 < nb
           isArg == c.depth = 1 /\ s.kind \notin {"lparen", "rparen"} /\ ~next
           closed == s.kind = "rparen" /\ depth = 0
           idx == IF next THEN c.idx + 1 ELSE c.idx
           args == IF isArg THEN [c.args EXCEPT ![c.idx] = Append(@, s)] ELSE c.args
           nested == IF s.kind = "rparen" /\ depth = 0 THEN c.nested ELSE c.nested \o kept
           more == [closed |-> closed, depth |-> depth, idx |-> idx, args |-> args,
                    nested |-> nested, used |-> c.used + 1]
           x == ReadArgument(c, s, nb)
<1>1. x = IF c.closed THEN c ELSE more
  BY DEF ReadArgument
<1>2. /\ c.closed \in BOOLEAN /\ c.depth \in Int /\ c.idx \in Nat /\ c.nested \in Seq(Symbols)
      /\ c.args \in [Slots -> Seq(Symbols)] /\ c.used \in Nat
  BY DEF Collecting
<1>3. depth = c.depth + Weight(s) /\ depth \in Int
  <2>1. Weight(s) = IF s.kind = "lparen" THEN 1 ELSE IF s.kind = "rparen" THEN -1 ELSE 0
    BY DEF Weight
  <2>2. CASE s.kind = "lparen"
    <3>1. depth = c.depth + 1
      BY <2>2
    <3> QED BY <1>2, <2>1, <2>2, <3>1
  <2>3. CASE s.kind = "rparen"
    <3>1. depth = c.depth - 1
      BY <2>3
    <3> QED BY <1>2, <2>1, <2>3, <3>1
  <2>4. CASE s.kind # "lparen" /\ s.kind # "rparen"
    <3>1. depth = c.depth
      BY <2>4
    <3> QED BY <1>2, <2>1, <2>4, <3>1
  <2> QED BY <2>2, <2>3, <2>4
<1>4. isArg /\ ~HasParams(s) => s \in Soft
  BY DEF Soft, Weight
<1> HIDE DEF depth, next
<1>5. kept \in Seq(Symbols)
  <2>1. <<s>> \in Seq(Symbols) /\ <<>> \in Seq(Symbols)
    OBVIOUS
  <2>2. \A a, b \in Seq(Symbols) : a \o b \in Seq(Symbols)
    BY ConcatProperties
  <2>3. /\ (IF s.kind = "rparen" /\ c.depth > 1 THEN <<s>> ELSE <<>>) \in Seq(Symbols)
        /\ (IF depth > 1 THEN <<s>> ELSE <<>>) \in Seq(Symbols)
    BY <2>1
  <2> QED BY <2>2, <2>3
<1> HIDE DEF kept
<1>6. nested \in Seq(Symbols)
  BY <1>2, <1>5, ConcatProperties
<1>7. idx \in Nat
  BY <1>2
<1>8. ASSUME NEW f, NEW A, f \in [Slots -> Seq(A)], s \in A
      PROVE  [f EXCEPT ![c.idx] = Append(@, s)] \in [Slots -> Seq(A)]
  <2>1. \A i \in Slots : Append(f[i], s) \in Seq(A)
    BY <1>8
  <2> QED BY <1>8, <2>1
<1>9. args \in [Slots -> Seq(Symbols)]
  BY <1>2, <1>8
<1>10. c.args \in ArgsOf /\ ~HasParams(s) => args \in ArgsOf
  <2> HIDE DEF isArg
  <2> QED BY <1>4, <1>8 DEF ArgsOf
<1>11. closed \in BOOLEAN /\ closed = (s.kind = "rparen" /\ c.depth + Weight(s) = 0)
  BY <1>3
<1>12. more \in Collecting
  <2> HIDE DEF closed, idx, args, nested
  <2> QED BY <1>2, <1>3, <1>6, <1>7, <1>9, <1>11 DEF Collecting
<1>13. more.closed = closed /\ more.depth = depth /\ more.used = c.used + 1 /\ more.args = args
  OBVIOUS
<1> HIDE DEF more, closed, args
<1>14. CASE c.closed
  BY <1>1, <1>14
<1>15. CASE ~c.closed
  <2>1. x = more
    BY <1>1, <1>15
  <2> QED BY <1>3, <1>10, <1>11, <1>12, <1>13, <1>15, <2>1
<1> QED BY <1>14, <1>15

\* The arguments are read up to the parenthesis that closes the call.
LEMMA CollectIs ==
    ASSUME NEW r \in Seq(Symbols), NEW nb, NEW m, Closes(r, m),
           \A i \in 1..m : ~HasParams(r[i])
    PROVE  /\ CollectArguments(r, nb).args \in ArgsOf
           /\ CollectArguments(r, nb).used = m
           /\ CollectArguments(r, nb).nested \in Seq(Symbols)
<1> DEFINE base == [closed |-> FALSE, depth |-> 0, idx |-> 0, nested |-> <<>>,
                    args |-> [i \in Slots |-> <<>>], used |-> 0]
           D == SUBSET DOMAIN r
           E(it) == it = [q \in D |->
                            IF q = {} THEN base
                            ELSE ReadArgument(it[q \ {Max(q)}], r[Max(q)], nb)]
           fold == CHOOSE it : E(it)
           step == [p \in Collecting \X Symbols |-> ReadArgument(p[1], p[2], nb)]
<1>1. /\ Len(r) \in Nat /\ DOMAIN r = 1..Len(r) /\ m \in 1..Len(r)
      /\ r[m].kind = "rparen" /\ Depth(r, m) = 0 /\ \A k \in 1..(m - 1) : Depth(r, k) > 0
  BY DEF Closes
<1>2. base \in Collecting
  <2>1. \A i \in Slots : <<>> \in Seq(Symbols)
    OBVIOUS
  <2> QED BY <2>1 DEF Collecting
<1>3. \A c \in Collecting, s \in Symbols : ReadArgument(c, s, nb) \in Collecting
  BY ReadIs
<1>4. /\ base.closed = FALSE /\ base.depth = 0 /\ base.used = 0
      /\ base.args \in ArgsOf
  <2>1. \A i \in Slots : <<>> \in Seq(Soft)
    OBVIOUS
  <2> QED BY <2>1 DEF ArgsOf
<1> HIDE DEF base
<1>5. /\ step \in [Collecting \X Symbols -> Collecting]
      /\ \A c \in Collecting, s \in Symbols : step[<<c, s>>] = ReadArgument(c, s, nb)
  BY <1>3
<1>6. PICK f \in [D -> Collecting] : FoldsSets(Collecting, base, step, r, f)
  <2> HIDE DEF step
  <2> QED BY <1>1, <1>2, <1>5, FoldExists
<1>7. E(f)
  <2> HIDE DEF step
  <2>1. ASSUME NEW q \in D
        PROVE  f[q] = IF q = {} THEN base ELSE ReadArgument(f[q \ {Max(q)}], r[Max(q)], nb)
    <3>1. CASE q = {}
      BY <1>6, <3>1 DEF FoldsSets
    <3>2. CASE q # {}
      <4>1. q \ {Max(q)} \in D /\ r[Max(q)] \in Symbols
        BY <3>2, TakesApart
      <4>2. f[q \ {Max(q)}] \in Collecting
        BY <1>6, <4>1
      <4>3. f[q] = step[<<f[q \ {Max(q)}], r[Max(q)]>>]
        BY <1>6, <3>2, <4>2 DEF FoldsSets
      <4> QED BY <1>5, <3>2, <4>1, <4>2, <4>3
    <3> QED BY <3>1, <3>2
  <2> QED BY <2>1
<1>8. E(fold)
  <2> HIDE DEF E
  <2> QED BY <1>7
<1>9. FoldsSets(Collecting, base, step, r, fold)
  <2> HIDE DEF fold, step
  <2>1. \A q \in D : fold[q] = IF q = {} THEN base
                               ELSE ReadArgument(fold[q \ {Max(q)}], r[Max(q)], nb)
    BY <1>8
  <2>2. ASSUME NEW q \in D, q # {}, fold[q \ {Max(q)}] \in Collecting
        PROVE  fold[q] = step[<<fold[q \ {Max(q)}], r[Max(q)]>>]
    <3>1. q \in SUBSET DOMAIN r /\ r[Max(q)] \in Symbols
      BY <2>2, TakesApart
    <3> QED BY <1>5, <2>1, <2>2, <3>1
  <2>3. fold[{}] = base
    BY <2>1
  <2> QED BY <2>2, <2>3 DEF FoldsSets
<1>10. CollectArguments(r, nb) = fold[DOMAIN r]
  BY DEF CollectArguments, FoldLeft, MapThenFoldSet, base
<1>11. FoldsTo(Collecting, base, step, r, fold[DOMAIN r])
  <2> HIDE DEF fold, step
  <2> QED BY <1>1, <1>2, <1>5, <1>9, FoldOfSets
<1> DEFINE Reads(c, i) == /\ c \in Collecting /\ c.args \in ArgsOf
                          /\ i < m => c.closed = FALSE /\ c.used = i /\ c.depth = Depth(r, i)
                          /\ i >= m => c.closed = TRUE /\ c.used = m
           I == [i \in 0..Len(r) |-> {c \in Collecting : Reads(c, i)}]
<1>12. I \in [0..Len(r) -> SUBSET Collecting]
  OBVIOUS
<1>13. base \in I[0]
  <2>1. Depth(r, 0) = 0 /\ 0 \in 0..Len(r) /\ 0 < m /\ ~(0 >= m)
    BY <1>1, DepthOfNone
  <2> QED BY <1>2, <1>4, <2>1
<1>14. ASSUME NEW i \in 1..Len(r), NEW c \in I[i - 1] PROVE step[<<c, r[i]>>] \in I[i]
  <2> DEFINE s == r[i]
             x == ReadArgument(c, s, nb)
  <2>1. /\ i - 1 \in 0..Len(r) /\ i \in 0..Len(r) /\ i - 1 \in Nat /\ (i - 1) + 1 = i
        /\ s \in Symbols
    BY <1>1
  <2>2. c \in Collecting /\ Reads(c, i - 1)
    BY <2>1, <1>14
  <2>3. Depth(r, i - 1) \in Int /\ Depth(r, i) = Depth(r, i - 1) + Weight(s)
    BY <2>1, DepthNext
  <2> HIDE DEF s
  <2>4. /\ x \in Collecting
        /\ c.closed => x = c
        /\ ~c.closed => /\ x.closed = (s.kind = "rparen" /\ c.depth + Weight(s) = 0)
                        /\ x.depth = c.depth + Weight(s)
                        /\ x.used = c.used + 1
        /\ c.args \in ArgsOf /\ (c.closed \/ ~HasParams(s)) => x.args \in ArgsOf
    BY <2>1, <2>2, ReadIs
  <2>5. step[<<c, s>>] = x
    BY <1>5, <2>1, <2>2
  <2> HIDE DEF x
  <2>6. CASE i > m
    <3>1. i - 1 >= m /\ i >= m /\ ~(i < m)
      BY <1>1, <2>6
    <3>2. c.closed /\ c.used = m /\ x = c
      BY <2>2, <2>4, <3>1
    <3>3. Reads(x, i)
      BY <2>2, <3>1, <3>2
    <3> QED BY <2>1, <2>4, <2>5, <3>3 DEF s
  <2>7. CASE i <= m
    <3>1. i - 1 < m /\ i \in 1..m
      BY <1>1, <2>7
    <3>2. c.closed = FALSE /\ c.used = i - 1 /\ c.depth = Depth(r, i - 1) /\ c.args \in ArgsOf
      BY <2>2, <3>1
    <3>3. ~HasParams(s)
      BY <3>1 DEF s
    <3>4. /\ x.closed = (s.kind = "rparen" /\ Depth(r, i) = 0)
          /\ x.depth = Depth(r, i) /\ x.used = i /\ x.args \in ArgsOf
      BY <2>1, <2>3, <2>4, <3>2, <3>3
    <3>5. i < m => x.closed = FALSE
      <4>1. ASSUME i < m PROVE Depth(r, i) # 0
        <5>1. i \in 1..(m - 1)
          BY <1>1, <4>1
        <5>2. Depth(r, i) > 0
          BY <1>1, <5>1
        <5> QED BY <5>2
      <4> QED BY <3>4, <4>1
    <3>6. i >= m => x.closed = TRUE /\ x.used = m
      <4>1. ASSUME i >= m PROVE i = m
        BY <1>1, <2>7, <4>1
      <4>2. i = m => s.kind = "rparen" /\ Depth(r, i) = 0
        BY <1>1 DEF s
      <4> QED BY <3>4, <4>1, <4>2
    <3>7. Reads(x, i)
      BY <2>4, <3>4, <3>5, <3>6
    <3> QED BY <2>1, <2>4, <2>5, <3>7 DEF s
  <2>8. i <= m \/ i > m
    BY <1>1
  <2> HIDE DEF I
  <2> QED BY <2>6, <2>7, <2>8
<1>15. fold[DOMAIN r] \in I[Len(r)]
  <2> HIDE DEF fold, step, I
  <2> QED BY <1>1, <1>2, <1>11, <1>12, <1>13, <1>14, FoldKeeps
<1> DEFINE c == fold[DOMAIN r]
<1>16. Reads(c, Len(r)) /\ Len(r) >= m
  <2> HIDE DEF fold
  <2> QED BY <1>1, <1>15
<1> HIDE DEF c
<1>17. c.args \in ArgsOf /\ c.used = m /\ c.nested \in Seq(Symbols)
  BY <1>16 DEF Collecting
<1> QED BY <1>10, <1>17 DEF c

-----------------------------------------------------------------------------
(* The stacks.                                                             *)

\* The symbols of a body on the stack of expand_symbol.
LEMMA AtIs ==
    ASSUME NEW b \in Seq(Symbols), NEW d \in 0..MaxDepth
    PROVE  /\ At(b, d) \in Seq(WorkEntry) /\ Len(At(b, d)) = Len(b)
           /\ \A i \in 1..Len(b) : At(b, d)[i] = [s |-> b[i], d |-> d]
<1>1. Len(b) \in Nat /\ DOMAIN b = 1..Len(b) /\ \A i \in 1..Len(b) : b[i] \in Symbols
  OBVIOUS
<1>2. At(b, d) = [i \in 1..Len(b) |-> [s |-> b[i], d |-> d]]
  BY <1>1 DEF At
<1>3. \A i \in 1..Len(b) : [s |-> b[i], d |-> d] \in WorkEntry
  BY <1>1 DEF WorkEntry
<1> HIDE DEF WorkEntry
<1> QED BY <1>1, <1>2, <1>3

\* ... and in the order they are read.
LEMMA SeenAt ==
    ASSUME NEW b \in Seq(Symbols), NEW d \in 0..MaxDepth
    PROVE  /\ Seen(At(b, d)) \in Seq(Symbols)
           /\ Balanced(b) => Balanced(Seen(At(b, d)))
           /\ d # MaxDepth => Seen(At(b, d)) = b
<1> DEFINE w == At(b, d)
<1>1. /\ w \in Seq(WorkEntry) /\ Len(w) = Len(b) /\ Len(b) \in Nat
      /\ \A i \in 1..Len(b) : w[i] = [s |-> b[i], d |-> d]
  BY AtIs
<1> HIDE DEF w
<1>2. /\ Seen(w) \in Seq(Symbols) /\ Len(Seen(w)) = Len(w)
      /\ \A i \in 1..Len(w) : Seen(w)[i] = IF w[i].d = MaxDepth THEN Nothing ELSE w[i].s
  BY <1>1, SeenIs
<1>3. ASSUME NEW i \in 1..Len(b) PROVE w[i].d = d /\ w[i].s = b[i]
  <2>1. w[i] = [s |-> b[i], d |-> d]
    BY <1>1
  <2> QED BY <2>1
<1>4. CASE d # MaxDepth
  <2>1. \A i \in 1..Len(b) : Seen(w)[i] = b[i]
    BY <1>1, <1>2, <1>3, <1>4
  <2>2. Seen(w) = b
    BY <1>1, <1>2, <2>1, SeqEqual
  <2> QED BY <1>2, <2>2 DEF w
<1>5. CASE d = MaxDepth
  <2>1. \A i \in 1..Len(b) : Seen(w)[i] = Nothing
    BY <1>1, <1>2, <1>3, <1>5
  <2>2. Flat(Seen(w))
    <3>1. DOMAIN Seen(w) = 1..Len(b)
      BY <1>1, <1>2
    <3> QED BY <2>1, <3>1, TokIs DEF Flat
  <2>3. Balanced(Seen(w))
    BY <1>2, <2>2, FlatIsBalanced
  <2> QED BY <1>2, <1>5, <2>3 DEF w
<1> QED BY <1>4, <1>5

\* The rest of a sequence after one of its elements.
LEMMA SplitAt ==
    ASSUME NEW C, NEW s \in Seq(C), NEW k \in 0..Len(s)
    PROVE  /\ s = SubSeq(s, 1, k) \o SubSeq(s, k + 1, Len(s))
           /\ SubSeq(s, 1, k) \in Seq(C) /\ Len(SubSeq(s, 1, k)) = k
           /\ SubSeq(s, k + 1, Len(s)) \in Seq(C) /\ Len(SubSeq(s, k + 1, Len(s))) = Len(s) - k
           /\ \A i \in 1..k : SubSeq(s, 1, k)[i] = s[i]
           /\ \A i \in 1..(Len(s) - k) : SubSeq(s, k + 1, Len(s))[i] = s[k + i]
<1>1. Len(s) \in Nat /\ k \in Nat /\ k <= Len(s)
  OBVIOUS
<1> DEFINE n == Len(s)
           m == k + 1
           a == SubSeq(s, 1, k)
           b == SubSeq(s, m, n)
<1>2. a \in Seq(C) /\ Len(a) = k /\ \A i \in 1..k : a[i] = s[i]
  <2>1. 1 \in Nat \ {0} /\ k \in Nat /\ 1 - 1 <= k /\ k <= Len(s) /\ k - 1 + 1 = k
    BY <1>1
  <2>2. /\ SubSeq(s, 1, k) \in Seq(C) /\ Len(SubSeq(s, 1, k)) = k - 1 + 1
        /\ \A i \in 1..(k - 1 + 1) : SubSeq(s, 1, k)[i] = s[1 + i - 1]
    BY <2>1, PartIs
  <2>3. \A i \in 1..k : 1 + i - 1 = i
    BY <2>1
  <2> QED BY <2>1, <2>2, <2>3
<1>3. b \in Seq(C) /\ Len(b) = n - k /\ \A i \in 1..(n - k) : b[i] = s[k + i]
  <2>1. m \in Nat \ {0} /\ n \in Nat /\ m - 1 <= n /\ n <= Len(s) /\ n - m + 1 = n - k
    BY <1>1
  <2>2. \A i \in 1..(n - k) : m + i - 1 = k + i
    BY <1>1
  <2> HIDE DEF m, n
  <2>3. /\ SubSeq(s, m, n) \in Seq(C) /\ Len(SubSeq(s, m, n)) = n - m + 1
        /\ \A i \in 1..(n - m + 1) : SubSeq(s, m, n)[i] = s[m + i - 1]
    BY <2>1, PartIs
  <2> QED BY <2>1, <2>2, <2>3
<1> HIDE DEF a, b
<1>4. /\ a \o b \in Seq(C) /\ Len(a \o b) = Len(a) + Len(b)
      /\ \A i \in 1..Len(a \o b) : (a \o b)[i] = IF i <= Len(a) THEN a[i] ELSE b[i - Len(a)]
  <2>1. a \in Seq(C) /\ b \in Seq(C)
    BY <1>2, <1>3
  <2>2. Len(a) \in Nat /\ Len(b) \in Nat
    BY <2>1
  <2> QED BY <2>1, <2>2, ConcatProperties
<1>5. ASSUME NEW i \in 1..n PROVE s[i] = (a \o b)[i]
  <2>1. Len(a \o b) = n /\ i \in 1..Len(a \o b)
    BY <1>1, <1>2, <1>3, <1>4
  <2>2. CASE i <= k
    <3>1. (a \o b)[i] = a[i] /\ i \in 1..k
      BY <1>1, <1>2, <1>4, <2>1, <2>2
    <3> QED BY <1>2, <3>1
  <2>3. CASE ~(i <= k)
    <3>1. (a \o b)[i] = b[i - k]
      BY <1>2, <1>4, <2>1, <2>3
    <3>2. i - k \in 1..(n - k) /\ k + (i - k) = i
      BY <1>1, <2>3
    <3> QED BY <1>3, <3>1, <3>2
  <2> QED BY <2>2, <2>3
<1>6. Len(a \o b) = n
  BY <1>1, <1>2, <1>3, <1>4
<1>7. s = a \o b
  BY <1>4, <1>5, <1>6, SeqEqual
<1> QED BY <1>2, <1>3, <1>7 DEF a, b

\* No parenthesis is open above place k.
NoneAbove(o, k) == k \in 0..Len(o) /\ \A i \in (k + 1)..Len(o) : o[i] # "("

\* No parenthesis is open above the last one.
LEMMA OpensAbove ==
    ASSUME NEW o \in Seq(OpNames), NEW k, NoneAbove(o, k)
    PROVE  /\ SubSeq(o, 1, k) \in Seq(OpNames)
           /\ \E x \in Seq(Symbols) : Flat(x) /\ OpenParens(o) = OpenParens(SubSeq(o, 1, k)) \o x
<1> DEFINE a == SubSeq(o, 1, k)
           b == SubSeq(o, k + 1, Len(o))
<1>1. /\ k \in 0..Len(o) /\ \A i \in (k + 1)..Len(o) : o[i] # "("
      /\ Len(o) \in Nat
  BY DEF NoneAbove
<1>2. /\ o = a \o b /\ a \in Seq(OpNames) /\ b \in Seq(OpNames) /\ Len(b) = Len(o) - k
      /\ \A i \in 1..(Len(o) - k) : b[i] = o[k + i]
  BY <1>1, SplitAt
<1> HIDE DEF a, b
<1>3. OpenParens(o) = OpenParens(a) \o OpenParens(b)
  BY <1>2, OpensSplit
<1>4. /\ OpenParens(b) \in Seq(Symbols) /\ Len(OpenParens(b)) = Len(b)
      /\ \A i \in 1..Len(b) : Weight(OpenParens(b)[i]) = IF b[i] = "(" THEN 1 ELSE 0
  BY <1>2, OpensIs
<1>5. \A i \in 1..Len(b) : b[i] # "("
  <2>1. \A i \in 1..(Len(o) - k) : k + i \in (k + 1)..Len(o)
    BY <1>1
  <2> QED BY <1>1, <1>2, <2>1
<1>6. Flat(OpenParens(b))
  <2>1. DOMAIN OpenParens(b) = 1..Len(b)
    BY <1>4
  <2> QED BY <1>4, <1>5, <2>1 DEF Flat
<1> QED BY <1>2, <1>3, <1>4, <1>6 DEF a

\* The parentheses up to the last one, and what is above it.
LEMMA OpensFrom ==
    ASSUME NEW o \in Seq(OpNames), NEW k, NoneAbove(o, k), k > 0, o[k] = "("
    PROVE  /\ SubSeq(o, 1, k - 1) \in Seq(OpNames)
           /\ \E x \in Seq(Symbols) :
                 /\ Flat(x)
                 /\ OpenParens(o) = OpenParens(SubSeq(o, 1, k - 1)) \o (<<Tok("lparen")>> \o x)
<1> DEFINE p == SubSeq(o, 1, k)
           a == SubSeq(o, 1, k - 1)
           l == Tok("lparen")
<1>1. k \in 0..Len(o) /\ Len(o) \in Nat /\ k \in Nat /\ k - 1 \in Nat /\ k - 1 \in 0..Len(o)
  BY DEF NoneAbove
<1>2. PICK x \in Seq(Symbols) : Flat(x) /\ OpenParens(o) = OpenParens(p) \o x
  BY OpensAbove
<1>3. p \in Seq(OpNames) /\ Len(p) = k /\ \A i \in 1..k : p[i] = o[i]
  BY <1>1, SplitAt
<1>4. a \in Seq(OpNames) /\ Len(a) = k - 1 /\ \A i \in 1..(k - 1) : a[i] = o[i]
  <2> DEFINE j == k - 1
  <2>1. j \in 0..Len(o)
    BY <1>1
  <2> HIDE DEF j
  <2>2. SubSeq(o, 1, j) \in Seq(OpNames) /\ Len(SubSeq(o, 1, j)) = j
        /\ \A i \in 1..j : SubSeq(o, 1, j)[i] = o[i]
    BY <2>1, SplitAt
  <2> QED BY <2>2 DEF j
<1>5. p = Append(a, "(")
  <2>1. "(" \in OpNames /\ k \in 1..k
    BY <1>1 DEF OpNames
  <2> HIDE DEF a, p
  <2>2. /\ Append(a, "(") \in Seq(OpNames) /\ Len(Append(a, "(")) = k
        /\ Append(a, "(")[k] = "(" /\ \A i \in 1..(k - 1) : Append(a, "(")[i] = a[i]
    BY <1>1, <1>4, <2>1
  <2>3. ASSUME NEW i \in 1..k PROVE p[i] = Append(a, "(")[i]
    <3>1. i = k \/ i \in 1..(k - 1)
      BY <1>1
    <3> QED BY <1>3, <1>4, <2>2, <3>1
  <2> QED BY <1>3, <2>2, <2>3, SeqEqual
<1> HIDE DEF a, p, l
<1>6. <<"(">> \in Seq(OpNames) /\ p = a \o <<"(">>
  <2>1. "(" \in OpNames
    BY DEF OpNames
  <2> QED BY <1>4, <1>5, <2>1, AppendIsConcat
<1>7. OpenParens(p) = OpenParens(a) \o OpenParens(<<"(">>)
  BY <1>4, <1>6, OpensSplit
<1>8. OpenParens(<<"(">>) = <<l>>
  BY DEF OpenParens, l
<1>9. OpenParens(a) \in Seq(Symbols) /\ <<l>> \in Seq(Symbols)
  <2>1. l \in Symbols
    BY TokIs DEF l, BareKinds
  <2> QED BY <1>4, <2>1, OpensIs
<1>10. OpenParens(o) = (OpenParens(a) \o <<l>>) \o x
  BY <1>2, <1>7, <1>8
<1>11. (OpenParens(a) \o <<l>>) \o x = OpenParens(a) \o (<<l>> \o x)
  BY <1>9, ConcatAssociative
<1>12. /\ a \in Seq(OpNames) /\ x \in Seq(Symbols) /\ Flat(x)
       /\ OpenParens(o) = OpenParens(a) \o (<<l>> \o x)
  BY <1>2, <1>4, <1>10, <1>11
<1> QED BY <1>12 DEF a, l

\* The greatest place among some, which are all those of open parentheses.
LEMMA GreatestPlace ==
    ASSUME NEW o \in Seq(OpNames), NEW I \in SUBSET (1..Len(o)),
           \A i \in 1..Len(o) : i \notin I => o[i] # "(",
           NEW k, k = IF I # {} THEN Max(I) ELSE 0
    PROVE  NoneAbove(o, k) /\ (k > 0 => k \in I)
<1>1. Len(o) \in Nat /\ I \in SUBSET (0..Len(o))
  OBVIOUS
<1>2. CASE I = {}
  <2>1. k = 0
    BY <1>2
  <2> QED BY <1>1, <1>2, <2>1 DEF NoneAbove
<1>3. CASE I # {}
  <2>1. k \in I /\ \A y \in I : k >= y
    BY <1>1, <1>3, GreatestUpTo
  <2>2. \A i \in (k + 1)..Len(o) : i \notin I /\ i \in 1..Len(o)
    BY <1>1, <2>1
  <2> QED BY <1>1, <2>1, <2>2 DEF NoneAbove
<1> QED BY <1>2, <1>3

\* The operators that are left when a parenthesis is closed.
LEMMA LastOpen ==
    ASSUME NEW o \in Seq(OpNames)
    PROVE  LET k == SelectLastInSeq(o, LAMBDA op : op = "(")
           IN  NoneAbove(o, k) /\ (k > 0 => o[k] = "(")
<1> DEFINE k == SelectLastInSeq(o, LAMBDA op : op = "(")
           I == {i \in 1..Len(o) : o[i] = "("}
<1>1. k = IF I # {} THEN Max(I) ELSE 0
  BY DEF SelectLastInSeq
<1>2. /\ I \in SUBSET (1..Len(o)) /\ \A i \in 1..Len(o) : i \notin I => o[i] # "("
      /\ \A i \in I : o[i] = "("
  OBVIOUS
<1> HIDE DEF k, I
<1>3. NoneAbove(o, k) /\ (k > 0 => k \in I)
  BY <1>1, <1>2, GreatestPlace
<1> QED BY <1>2, <1>3 DEF k

\* ... and those that are left when an operator is pushed.
LastStays(o, op) == SelectLastInSeq(o, LAMBDA top : ~Pops(top, op))

\* An operator that is pushed pops no parenthesis.
LEMMA LastKept ==
    ASSUME NEW o \in Seq(OpNames), NEW op
    PROVE  NoneAbove(o, LastStays(o, op))
<1> DEFINE k == LastStays(o, op)
           I == {i \in 1..Len(o) : ~Pops(o[i], op)}
<1>1. k = IF I # {} THEN Max(I) ELSE 0
  BY DEF SelectLastInSeq, LastStays
<1>2. I \in SUBSET (1..Len(o)) /\ \A i \in 1..Len(o) : i \notin I => o[i] # "("
  BY DEF Pops
<1> HIDE DEF k, I
<1>3. NoneAbove(o, k)
  BY <1>1, <1>2, GreatestPlace
<1> QED BY <1>3 DEF k

\* Neither a unary nor a binary operator is a parenthesis.
LEMMA ConvertedIs ==
    ASSUME NEW name \in Operators
    PROVE  Converted(name) \in OpNames /\ Converted(name) # "("
<1>1. \A i \in DOMAIN Levels : "(" \notin Levels[i]
  BY DEF Levels
<1>2. "(" \notin Operators
  BY <1>1 DEF Operators
<1>3. 1 \in DOMAIN Levels /\ "negate" \in Levels[1] /\ "confirm" \in Levels[1]
  BY DEF Levels
<1>4. "negate" \in Operators /\ "confirm" \in Operators
  BY <1>3 DEF Operators
<1>5. Converted(name) \in Operators
  <2> DEFINE c1 == mayBeUnary /\ name = "-"
             c2 == mayBeUnary /\ name = "+"
  <2>1. c1 => ~c2
    OBVIOUS
  <2>2. Converted(name) = CASE c1 -> "negate" [] c2 -> "confirm" [] OTHER -> name
    BY DEF Converted
  <2> HIDE DEF c1, c2
  <2>3. Converted(name) \in {"negate", "confirm", name}
    BY <2>1, <2>2
  <2> QED BY <1>4, <2>3
<1> QED BY <1>2, <1>5 DEF OpNames

\* Parentheses that match leave no operator open.
LEMMA OpensBalanced ==
    ASSUME NEW o \in Seq(OpNames), Balanced(OpenParens(o))
    PROVE  NoneAbove(o, 0)
<1> DEFINE k == SelectLastInSeq(o, LAMBDA op : op = "(")
<1>1. NoneAbove(o, k) /\ (k > 0 => o[k] = "(") /\ k \in 0..Len(o) /\ Len(o) \in Nat
  <2>1. NoneAbove(o, k) /\ (k > 0 => o[k] = "(")
    BY LastOpen
  <2> HIDE DEF k
  <2> QED BY <2>1 DEF NoneAbove
<1> HIDE DEF k
<1>2. ASSUME k > 0 PROVE FALSE
  <2> DEFINE a == SubSeq(o, 1, k - 1)
             l == Tok("lparen")
  <2>1. PICK x \in Seq(Symbols) : Flat(x) /\ OpenParens(o) = OpenParens(a) \o (<<l>> \o x)
    BY <1>1, <1>2, OpensFrom
  <2>2. a \in Seq(OpNames)
    BY <1>1, <1>2, OpensFrom
  <2> HIDE DEF a, l
  <2>3. /\ OpenParens(a) \in Seq(Symbols) /\ l \in Symbols /\ <<l>> \in Seq(Symbols)
        /\ <<l>> \o x \in Seq(Symbols) /\ Weight(l) = 1
    <3>1. l \in Symbols /\ Weight(l) = 1
      BY TokIs DEF l, BareKinds
    <3>2. <<l>> \in Seq(Symbols)
      BY <3>1
    <3> QED BY <2>2, <3>1, <3>2, OpensIs, ConcatProperties
  <2>4. Splits(OpenParens(a), <<l>> \o x, 0) /\ Splits(<<l>>, x, 0)
    <3>1. 0 \in Int
      OBVIOUS
    <3> QED BY <2>3, <3>1, StaysOfConcat
  <2>5. Net(OpenParens(a) \o (<<l>> \o x)) = Net(OpenParens(a)) + (1 + 0)
    BY <2>1, <2>3, <2>4, OneSymbol, FlatIsBalanced DEF Splits
  <2>6. Net(OpenParens(a)) \in Int /\ Net(OpenParens(a)) >= 0
    <3>1. Stays(OpenParens(o), 0)
      BY BalancedIs, OpensIs
    <3>2. Stays(OpenParens(a), 0)
      BY <2>1, <2>4, <3>1 DEF Splits
    <3>3. Len(OpenParens(a)) \in 0..Len(OpenParens(a))
      BY <2>3
    <3>4. 0 + Depth(OpenParens(a), Len(OpenParens(a))) >= 0
      BY <3>2, <3>3 DEF Stays
    <3>5. Net(OpenParens(a)) \in Int
      BY <2>3, NetType
    <3> QED BY <3>4, <3>5 DEF Net
  <2>7. Net(OpenParens(o)) = 0
    BY BalancedIs, OpensIs
  <2> QED BY <2>1, <2>5, <2>6, <2>7
<1>3. k = 0
  BY <1>1, <1>2
<1> QED BY <1>1, <1>3

-----------------------------------------------------------------------------
(* The invariant of evaluate.                                              *)

Pos == Len(cond) - Len(rest)
StacksTyped ==
    /\ cond \in Seq(Symbols) /\ rest \in Seq(Symbols) /\ expansion \in Seq(Symbols)
    /\ pending \in Seq(Symbols) /\ work \in Seq(WorkEntry) /\ ops \in Seq(OpNames)
RestIsTail == Len(rest) <= Len(cond) /\ \A i \in 1..Len(rest) : rest[i] = cond[Pos + i]
NamesGone == \A i \in 1..Len(expansion) : expansion[i].kind # "ident"
Matched == Balanced(Unread(ops, work, expansion, rest))
\* The name of a call is the symbol just read, and expand_symbol has yet to take it.
CallWaits ==
    /\ Pos >= 1 /\ work = At(<<cond[Pos]>>, 0) /\ expansion = <<>> /\ pending = <<>>
    /\ ~AfterDefined(cond, Pos)
OneCall == \A i \in 1..Len(work) : HasParams(work[i].s) => CallWaits
NameAsked == AfterDefined(cond, Pos + 1) => looking /\ work = <<>> /\ expansion = <<>>
Following == StacksTyped /\ RestIsTail /\ NamesGone /\ Matched /\ OneCall /\ NameAsked
Callable(c) == PlainBodies /\ Balanced(c) /\ CallsOnly(c) /\ CallsApart(c)

FromLine == expansion = <<>> /\ expansion' = <<>> /\ Pos' = Pos + 1
            /\ Pos + 1 \in 1..Len(cond) /\ Symbol = cond[Pos + 1]
FromMacro == expansion # <<>> /\ Pos' = Pos /\ Symbol.kind # "ident"

\* Advance reads the symbol that what is unread begins with.
LEMMA AdvanceIs ==
    ASSUME StacksTyped, RestIsTail, NamesGone, More, Advance
    PROVE  /\ Symbol \in Symbols /\ rest' \in Seq(Symbols) /\ expansion' \in Seq(Symbols)
           /\ Reverse(expansion) \o rest = <<Symbol>> \o (Reverse(expansion') \o rest')
           /\ RestIsTail' /\ NamesGone'
           /\ FromLine \/ FromMacro
<1>1. /\ cond \in Seq(Symbols) /\ rest \in Seq(Symbols) /\ expansion \in Seq(Symbols)
      /\ Len(cond) \in Nat /\ Len(rest) \in Nat /\ Len(rest) <= Len(cond) /\ Pos \in Nat
      /\ cond' = cond /\ (expansion # <<>> \/ rest # <<>>)
      /\ \A i \in 1..Len(rest) : rest[i] = cond[Pos + i]
  BY DEF StacksTyped, RestIsTail, More, Advance, Pos
<1>2. CASE expansion # <<>>
  <2>1. Symbol = Last(expansion) /\ expansion' = Front(expansion) /\ rest' = rest
    BY <1>2 DEF Symbol, Advance
  <2>2. /\ Len(expansion) \in Nat \ {0}
        /\ Front(expansion) \in Seq(Symbols) /\ Len(Front(expansion)) = Len(expansion) - 1
        /\ \A i \in 1..(Len(expansion) - 1) : Front(expansion)[i] = expansion[i]
        /\ Last(expansion) \in Symbols /\ Last(expansion) = expansion[Len(expansion)]
    BY <1>1, <1>2, FrontIs
  <2>3. Reverse(expansion) = <<Symbol>> \o Reverse(expansion')
    BY <1>1, <1>2, <2>1, ReversePop
  <2>4. /\ Reverse(expansion') \in Seq(Symbols) /\ <<Symbol>> \in Seq(Symbols)
        /\ rest' \in Seq(Symbols)
    BY <1>1, <2>1, <2>2, ReverseIs
  <2>5. (<<Symbol>> \o Reverse(expansion')) \o rest'
            = <<Symbol>> \o (Reverse(expansion') \o rest')
    BY <2>4, ConcatAssociative
  <2>6. Pos' = Pos
    BY <1>1, <2>1 DEF Pos
  <2>7. RestIsTail'
    BY <1>1, <2>1, <2>6 DEF RestIsTail
  <2>8. NamesGone'
    <3>1. \A i \in 1..Len(expansion) : expansion[i].kind # "ident"
      BY DEF NamesGone
    <3>2. \A i \in 1..Len(expansion') : expansion'[i].kind # "ident"
      BY <2>1, <2>2, <3>1
    <3> QED BY <3>2 DEF NamesGone
  <2>9. Symbol.kind # "ident"
    BY <2>1, <2>2 DEF NamesGone
  <2> QED BY <1>1, <1>2, <2>1, <2>2, <2>3, <2>4, <2>5, <2>6, <2>7, <2>8, <2>9 DEF FromMacro
<1>3. CASE expansion = <<>>
  <2>1. Symbol = Head(rest) /\ expansion' = expansion /\ rest' = Tail(rest) /\ rest # <<>>
    BY <1>1, <1>3 DEF Symbol, Advance
  <2>2. /\ Len(rest) # 0 /\ Tail(rest) \in Seq(Symbols) /\ Len(Tail(rest)) = Len(rest) - 1
        /\ Head(rest) = rest[1] /\ Head(rest) \in Symbols
        /\ \A i \in 1..(Len(rest) - 1) : Tail(rest)[i] = rest[i + 1]
    BY <1>1, <2>1
  <2>3. rest = <<Symbol>> \o rest'
    <3>1. rest = <<Head(rest)>> \o Tail(rest)
      BY <1>1, <2>1, ConcatProperties, HeadTailProperties
    <3> QED BY <2>1, <3>1
  <2>4. Pos' = Pos + 1
    BY <1>1, <2>1, <2>2 DEF Pos
  <2>5. Reverse(expansion) = <<>> /\ Reverse(expansion') = <<>>
    <3>1. Reverse(<<>>) \in Seq(Symbols) /\ Len(Reverse(<<>>)) = Len(<<>>)
      <4>1. <<>> \in Seq(Symbols)
        OBVIOUS
      <4> QED BY <4>1, ReverseIs
    <3> QED BY <1>3, <2>1, <3>1
  <2>6. /\ <<>> \o rest = rest /\ <<>> \o rest' = rest'
    BY <1>1, <2>1, <2>2
  <2>7. RestIsTail'
    <3>1. ASSUME NEW i \in 1..Len(rest') PROVE rest'[i] = cond'[Pos' + i]
      <4>1. i \in 1..(Len(rest) - 1) /\ i + 1 \in 1..Len(rest) /\ Pos + (i + 1) = Pos' + i
        BY <1>1, <2>1, <2>2, <2>4
      <4>2. rest'[i] = rest[i + 1] /\ rest[i + 1] = cond[Pos + (i + 1)]
        BY <1>1, <2>1, <2>2, <4>1
      <4> QED BY <1>1, <4>1, <4>2
    <3>2. Len(rest') <= Len(cond')
      BY <1>1, <2>1, <2>2
    <3> QED BY <3>1, <3>2 DEF RestIsTail
  <2>8. NamesGone'
    BY <1>3, <2>1 DEF NamesGone
  <2>9. Pos + 1 \in 1..Len(cond) /\ Symbol = cond[Pos + 1]
    <3>1. 1 \in 1..Len(rest)
      BY <1>1, <2>2
    <3>2. rest[1] = cond[Pos + 1]
      BY <1>1, <3>1
    <3>3. Pos + 1 <= Len(cond)
      BY <1>1, <3>1 DEF Pos
    <3> QED BY <1>1, <2>1, <2>2, <3>2, <3>3
  <2> QED BY <1>1, <1>3, <2>1, <2>2, <2>3, <2>4, <2>5, <2>6, <2>7, <2>8, <2>9 DEF FromLine
<1> QED BY <1>2, <1>3

\* A name after "defined" is asked for when its turn comes.
LEMMA AskedNext ==
    ASSUME StacksTyped, RestIsTail, NameAsked, cond' = cond, FromLine \/ FromMacro,
           Symbol.kind = "defined" => looking' /\ work' = <<>>,
           Symbol.kind = "lparen" => looking' = looking /\ work' = <<>>
    PROVE  NameAsked'
<1> SUFFICES ASSUME AfterDefined(cond, Pos' + 1)
             PROVE  looking' /\ work' = <<>> /\ expansion' = <<>>
  BY DEF NameAsked
<1>1. Pos \in Nat
  BY DEF StacksTyped, RestIsTail, Pos
<1>2. FromLine
  <2>1. CASE FromMacro
    <3>1. AfterDefined(cond, Pos + 1) /\ expansion # <<>>
      BY <2>1 DEF FromMacro
    <3> QED BY <3>1 DEF NameAsked
  <2> QED BY <2>1
<1>3. Pos' = Pos + 1 /\ Symbol = cond[Pos + 1] /\ expansion' = <<>>
  BY <1>2 DEF FromLine
<1>4. (Pos' + 1) - 1 = Pos + 1 /\ (Pos' + 1) - 2 = Pos /\ (Pos + 1) - 1 = Pos
  BY <1>1, <1>3
<1>5. \/ Symbol.kind = "defined"
      \/ Pos' + 1 > 2 /\ Symbol.kind = "lparen" /\ cond[Pos].kind = "defined"
  BY <1>3, <1>4 DEF AfterDefined
<1>6. CASE Symbol.kind = "defined"
  BY <1>3, <1>6
<1>7. CASE Pos' + 1 > 2 /\ Symbol.kind = "lparen" /\ cond[Pos].kind = "defined"
  <2>1. Pos + 1 > 1
    BY <1>1, <1>3, <1>7
  <2>2. AfterDefined(cond, Pos + 1)
    BY <1>4, <1>7, <2>1 DEF AfterDefined
  <2>3. looking
    BY <2>2 DEF NameAsked
  <2> QED BY <1>3, <1>7, <2>3
<1> QED BY <1>5, <1>6, <1>7

\* What is unread while expand_symbol does not run.
LEMMA UnreadIdle ==
    ASSUME NEW o \in Seq(OpNames), NEW e \in Seq(Symbols), NEW r \in Seq(Symbols)
    PROVE  Unread(o, <<>>, e, r) = OpenParens(o) \o (Reverse(e) \o r)
<1>1. Seen(<<>>) = <<>>
  <2>1. <<>> \in Seq(WorkEntry) /\ Len(<<>>) = 0
    OBVIOUS
  <2>2. Seen(<<>>) \in Seq(Symbols) /\ Len(Seen(<<>>)) = 0
    BY <2>1, SeenIs
  <2> QED BY <2>2
<1>2. Reverse(e) \o r \in Seq(Symbols)
  BY ReverseIs, ConcatProperties
<1> DEFINE u == Reverse(e) \o r
<1> HIDE DEF u
<1>3. <<>> \o u = u
  BY <1>2 DEF u
<1> QED BY <1>1, <1>3 DEF Unread, Behind, u

Associates(p, x, l) == (p \o x) \o l = p \o (x \o l)

\* The order of concatenations does not matter ...
LEMMA Associate ==
    ASSUME NEW p \in Seq(Symbols), NEW x \in Seq(Symbols), NEW l \in Seq(Symbols)
    PROVE  Associates(p, x, l)
BY ConcatAssociative DEF Associates

Regroups(p, x, l, t) == (p \o x) \o (l \o t) = p \o ((x \o l) \o t)

\* ... nor does it for four sequences.
LEMMA Regroup ==
    ASSUME NEW p \in Seq(Symbols), NEW x \in Seq(Symbols), NEW l \in Seq(Symbols),
           NEW t \in Seq(Symbols)
    PROVE  Regroups(p, x, l, t)
<1> DEFINE u == l \o t
<1>1. u \in Seq(Symbols)
  OBVIOUS
<1>2. (x \o l) \o t = x \o u
  BY ConcatAssociative
<1> HIDE DEF u
<1>3. (p \o x) \o u = p \o (x \o u)
  BY <1>1, ConcatAssociative
<1>4. (p \o x) \o u = p \o ((x \o l) \o t)
  BY <1>2, <1>3
<1> QED BY <1>4 DEF u, Regroups

\* Symbols are read, and what is open after them was open before.
LEMMA SymbolRead ==
    ASSUME NEW p \in Seq(Symbols), NEW x \in Seq(Symbols), NEW y \in Seq(Symbols),
           NEW l \in Seq(Symbols), NEW t \in Seq(Symbols)
    PROVE  Balanced(x \o l) /\ Balanced(y) /\ Balanced((p \o x) \o (l \o t))
             => Balanced((p \o y) \o t)
<1>1. (p \o x) \o (l \o t) = p \o ((x \o l) \o t)
  <2>1. Regroups(p, x, l, t)
    BY Regroup
  <2> QED BY <2>1 DEF Regroups
<1> HAVE Balanced(x \o l) /\ Balanced(y) /\ Balanced((p \o x) \o (l \o t))
<1> DEFINE z == x \o l
<1>2. z \in Seq(Symbols)
  OBVIOUS
<1>3. Balanced(z) /\ Balanced(p \o (z \o t))
  BY <1>1
<1> HIDE DEF z
<1>4. Balanced(p \o (y \o t))
  BY <1>2, <1>3, BalancedSwap
<1>5. (p \o y) \o t = p \o (y \o t)
  BY ConcatAssociative
<1> QED BY <1>4, <1>5

\* What is open once s is read.
Covers(o, s, n) ==
    \A t \in Seq(Symbols) : Balanced(OpenParens(o) \o (<<s>> \o t)) => Balanced(OpenParens(n) \o t)

\* A symbol that closes what the operators leave.
LEMMA CoversPart ==
    ASSUME NEW o, NEW n, NEW s \in Symbols,
           NEW p \in Seq(Symbols), NEW x \in Seq(Symbols), NEW y \in Seq(Symbols),
           OpenParens(o) = p \o x, OpenParens(n) = p \o y, Balanced(x \o <<s>>), Balanced(y)
    PROVE  Covers(o, s, n)
<1> DEFINE l == <<s>>
<1>1. l \in Seq(Symbols) /\ Balanced(x \o l)
  OBVIOUS
<1> HIDE DEF l
<1>2. \A t \in Seq(Symbols) : Balanced((p \o x) \o (l \o t)) => Balanced((p \o y) \o t)
  BY <1>1, SymbolRead
<1>3. \A t \in Seq(Symbols) : Balanced(OpenParens(o) \o (l \o t)) => Balanced(OpenParens(n) \o t)
  BY <1>2
<1> QED BY <1>3 DEF Covers, l

\* Nothing is balanced.
LEMMA NothingIsBalanced ==
    /\ <<>> \in Seq(Symbols) /\ Flat(<<>>) /\ Balanced(<<>>)
    /\ <<Nothing>> \in Seq(Symbols) /\ Balanced(<<Nothing>>)
<1>1. <<>> \in Seq(Symbols) /\ Flat(<<>>)
  BY DEF Flat
<1>2. Nothing \in Symbols /\ Weight(Nothing) = 0
  BY TokIs
<1>3. <<Nothing>> \in Seq(Symbols) /\ Flat(<<Nothing>>)
  BY <1>2 DEF Flat
<1> QED BY <1>1, <1>3, FlatIsBalanced

\* A symbol of no weight leaves the operators as they are.
LEMMA CoversNeutral ==
    ASSUME NEW o \in Seq(OpNames), NEW s \in Symbols, Weight(s) = 0
    PROVE  Covers(o, s, o)
<1> DEFINE p == OpenParens(o)
           x == <<>>
           l == <<s>>
<1>1. p \in Seq(Symbols) /\ x \in Seq(Symbols) /\ l \in Seq(Symbols)
  BY OpensIs
<1>2. Flat(l)
  BY DEF Flat
<1>3. p = p \o x /\ x \o l = l
  BY <1>1
<1>4. Balanced(x \o l) /\ Balanced(x)
  BY <1>1, <1>2, <1>3, FlatIsBalanced, NothingIsBalanced
<1> HIDE DEF x
<1> QED BY <1>1, <1>3, <1>4, CoversPart

\* A symbol of no weight after others.
LEMMA FlatEnd ==
    ASSUME NEW x \in Seq(Symbols), Flat(x), NEW s \in Symbols, Weight(s) = 0
    PROVE  x \o <<s>> \in Seq(Symbols) /\ Balanced(x \o <<s>>)
<1> DEFINE u == x \o <<s>>
<1>1. u \in Seq(Symbols) /\ Len(u) = Len(x) + 1 /\ Len(x) \in Nat /\ u[Len(x) + 1] = s
      /\ \A i \in 1..Len(x) : u[i] = x[i]
  OBVIOUS
<1> HIDE DEF u
<1>2. DOMAIN u = 1..(Len(x) + 1) /\ DOMAIN x = 1..Len(x)
  BY <1>1
<1>3. Flat(u)
  BY <1>1, <1>2 DEF Flat
<1> QED BY <1>1, <1>3, FlatIsBalanced DEF u

\* The parentheses with one more operator.
LEMMA OpensPush ==
    ASSUME NEW o \in Seq(OpNames), NEW op \in OpNames
    PROVE  /\ Append(o, op) \in Seq(OpNames)
           /\ OpenParens(Append(o, op))
                = OpenParens(o) \o <<IF op = "(" THEN Tok("lparen") ELSE Nothing>>
<1>1. <<op>> \in Seq(OpNames) /\ Append(o, op) = o \o <<op>>
  BY AppendIsConcat
<1>2. OpenParens(<<op>>) = <<IF op = "(" THEN Tok("lparen") ELSE Nothing>>
  BY DEF OpenParens
<1>3. OpenParens(o \o <<op>>) = OpenParens(o) \o OpenParens(<<op>>)
  BY <1>1, OpensSplit
<1>4. Append(o, op) \in Seq(OpNames)
  OBVIOUS
<1> QED BY <1>1, <1>2, <1>3, <1>4

\* An operator is pushed, and those above no parenthesis are gone.
LEMMA CoversOperator ==
    ASSUME NEW o \in Seq(OpNames), NEW s \in Symbols, Weight(s) = 0,
           NEW k, NoneAbove(o, k), NEW op \in OpNames, op # "("
    PROVE  Append(SubSeq(o, 1, k), op) \in Seq(OpNames) /\ Covers(o, s, Append(SubSeq(o, 1, k), op))
<1> DEFINE a == SubSeq(o, 1, k)
           n == Append(a, op)
           p == OpenParens(a)
           y == <<Nothing>>
<1>1. a \in Seq(OpNames) /\ \E x \in Seq(Symbols) : Flat(x) /\ OpenParens(o) = p \o x
  BY OpensAbove
<1>2. PICK x \in Seq(Symbols) : Flat(x) /\ OpenParens(o) = p \o x
  BY <1>1
<1> HIDE DEF a
<1>3. n \in Seq(OpNames) /\ OpenParens(n) = p \o y
  BY <1>1, OpensPush
<1>4. p \in Seq(Symbols) /\ y \in Seq(Symbols) /\ Balanced(y)
  BY <1>1, OpensIs, NothingIsBalanced
<1>5. Balanced(x \o <<s>>)
  BY <1>2, FlatEnd
<1> HIDE DEF n, p, y
<1>6. Covers(o, s, n)
  BY <1>2, <1>3, <1>4, <1>5, CoversPart
<1> QED BY <1>3, <1>6 DEF n, a

\* A parenthesis is opened.
LEMMA CoversOpen ==
    ASSUME NEW o \in Seq(OpNames), NEW s \in Symbols, s.kind = "lparen"
    PROVE  Append(o, "(") \in Seq(OpNames) /\ Covers(o, s, Append(o, "("))
<1> DEFINE n == Append(o, "(")
           l == Tok("lparen")
<1>1. s = l
  BY DEF Symbols, Tok
<1>2. "(" \in OpNames
  BY DEF OpNames
<1>3. n \in Seq(OpNames) /\ OpenParens(n) = OpenParens(o) \o <<l>>
  BY <1>2, OpensPush
<1>4. OpenParens(o) \in Seq(Symbols) /\ <<l>> \in Seq(Symbols)
  BY <1>1, OpensIs
<1> HIDE DEF n, l
<1>5. \A t \in Seq(Symbols) : OpenParens(n) \o t = OpenParens(o) \o (<<l>> \o t)
  BY <1>3, <1>4, ConcatAssociative
<1>6. Covers(o, s, n)
  BY <1>1, <1>5 DEF Covers
<1> QED BY <1>3, <1>6 DEF n

\* A parenthesis that is closed was open.
LEMMA CoversShut ==
    ASSUME NEW o \in Seq(OpNames), NEW s \in Symbols, s.kind = "rparen",
           NEW k, NoneAbove(o, k), k > 0, o[k] = "("
    PROVE  SubSeq(o, 1, k - 1) \in Seq(OpNames) /\ Covers(o, s, SubSeq(o, 1, k - 1))
<1> DEFINE n == SubSeq(o, 1, k - 1)
           l == Tok("lparen")
           p == OpenParens(n)
           y == <<>>
<1>1. n \in Seq(OpNames) /\ \E x \in Seq(Symbols) : Flat(x) /\ OpenParens(o) = p \o (<<l>> \o x)
  BY OpensFrom
<1>2. PICK x \in Seq(Symbols) : Flat(x) /\ OpenParens(o) = p \o (<<l>> \o x)
  BY <1>1
<1> HIDE DEF n
<1>3. p \in Seq(Symbols) /\ l \in Symbols /\ <<l>> \in Seq(Symbols) /\ Weight(l) = 1
  <2>1. l \in Symbols /\ Weight(l) = 1
    BY TokIs DEF BareKinds
  <2>2. <<l>> \in Seq(Symbols)
    BY <2>1
  <2> QED BY <1>1, <2>1, <2>2, OpensIs
<1>4. Weight(s) = -1 /\ <<s>> \in Seq(Symbols)
  BY DEF Weight
<1> HIDE DEF l
<1>5. Balanced(<<l>> \o (x \o <<s>>))
  BY <1>2, <1>3, <1>4, BalancedBetween
<1> DEFINE q == <<l>>
           z == q \o x
<1>6. q \in Seq(Symbols) /\ z \in Seq(Symbols) /\ OpenParens(o) = p \o z
  BY <1>2, <1>3, ConcatProperties
<1>7. z \o <<s>> = q \o (x \o <<s>>)
  <2> HIDE DEF q
  <2> QED BY <1>4, <1>6, ConcatAssociative
<1>8. Balanced(z \o <<s>>)
  BY <1>5, <1>7
<1>9. y \in Seq(Symbols) /\ Balanced(y) /\ p = p \o y
  BY <1>3, NothingIsBalanced
<1> HIDE DEF p, y, z
<1>10. OpenParens(n) = p \o y
  BY <1>9 DEF p
<1>11. Covers(o, s, n)
  BY <1>3, <1>6, <1>8, <1>9, <1>10, CoversPart
<1> QED BY <1>1, <1>11 DEF n

\* A parenthesis that is read where the rest matches closes one that is open.
LEMMA CloseIsOpen ==
    ASSUME NEW o \in Seq(OpNames), NoneAbove(o, 0), NEW s \in Symbols, s.kind = "rparen",
           NEW t \in Seq(Symbols)
    PROVE  ~Balanced(OpenParens(o) \o (<<s>> \o t))
<1> DEFINE a == OpenParens(o)
           l == <<s>>
           u == l \o t
<1>1. /\ a \in Seq(Symbols) /\ Len(a) = Len(o)
      /\ \A i \in 1..Len(o) : Weight(a[i]) = IF o[i] = "(" THEN 1 ELSE 0
  BY OpensIs
<1>2. Weight(s) = -1 /\ l \in Seq(Symbols)
  BY DEF Weight
<1>3. \A i \in 1..Len(o) : o[i] # "("
  BY DEF NoneAbove
<1>4. DOMAIN a = 1..Len(o)
  BY <1>1
<1> HIDE DEF a
<1>5. Flat(a)
  BY <1>1, <1>3, <1>4 DEF Flat
<1>6. Net(a) = 0
  BY <1>1, <1>5, FlatIsBalanced
<1>7. ~Stays(l, 0)
  BY <1>2, OneSymbol
<1> HIDE DEF l
<1>8. u \in Seq(Symbols) /\ a \o u \in Seq(Symbols)
  BY <1>1, <1>2, ConcatProperties
<1> HIDE DEF u
<1>9. Splits(a, u, 0)
  <2>1. 0 \in Int
    OBVIOUS
  <2> QED BY <1>1, <1>8, <2>1, StaysOfConcat
<1>10. Splits(l, t, 0)
  <2>1. 0 \in Int
    OBVIOUS
  <2> QED BY <1>2, <2>1, StaysOfConcat
<1>11. ~Stays(u, 0)
  BY <1>7, <1>10 DEF Splits, u
<1>12. ~Stays(a \o u, 0)
  BY <1>6, <1>9, <1>11 DEF Splits
<1>13. ~Balanced(a \o u)
  BY <1>8, <1>12, BalancedIs
<1> QED BY <1>13 DEF a, u, l

-----------------------------------------------------------------------------
(* The steps of evaluate.                                                  *)

\* A symbol is read, and no macro is expanded.
LEMMA ReadNext ==
    ASSUME Following, More, Advance, NoExpansion, ops' \in Seq(OpNames),
           Covers(ops, Symbol, ops'),
           Symbol.kind = "defined" => looking',
           Symbol.kind = "lparen" => looking' = looking
    PROVE  Following'
<1>1. StacksTyped /\ RestIsTail /\ NamesGone /\ Matched /\ OneCall /\ NameAsked
  BY DEF Following
<1>2. work = <<>> /\ work' = <<>> /\ pending' = pending /\ cond' = cond
  BY DEF More, Evaluating, NoExpansion, Advance
<1>3. /\ Symbol \in Symbols /\ rest' \in Seq(Symbols) /\ expansion' \in Seq(Symbols)
      /\ Reverse(expansion) \o rest = <<Symbol>> \o (Reverse(expansion') \o rest')
      /\ RestIsTail' /\ NamesGone'
      /\ FromLine \/ FromMacro
  BY <1>1, AdvanceIs
<1>4. StacksTyped'
  BY <1>1, <1>2, <1>3 DEF StacksTyped
<1>5. Matched'
  <2> DEFINE t == Reverse(expansion') \o rest'
  <2>1. t \in Seq(Symbols)
    BY <1>3, ReverseIs, ConcatProperties
  <2>2. Unread(ops, work, expansion, rest) = OpenParens(ops) \o (Reverse(expansion) \o rest)
    BY <1>1, <1>2, UnreadIdle DEF StacksTyped
  <2>3. Unread(ops', work', expansion', rest') = OpenParens(ops') \o t
    BY <1>2, <1>3, UnreadIdle
  <2> HIDE DEF t
  <2>4. Reverse(expansion) \o rest = <<Symbol>> \o t
    BY <1>3 DEF t
  <2>5. Balanced(OpenParens(ops) \o (<<Symbol>> \o t))
    BY <1>1, <2>2, <2>4 DEF Matched
  <2>6. Balanced(OpenParens(ops') \o t)
    BY <2>1, <2>5 DEF Covers
  <2> QED BY <2>3, <2>6 DEF Matched
<1>6. OneCall'
  <2>1. \A i \in 1..Len(work') : FALSE
    BY <1>2
  <2> QED BY <2>1 DEF OneCall
<1>7. NameAsked'
  BY <1>1, <1>2, <1>3, AskedNext
<1> QED BY <1>3, <1>4, <1>5, <1>6, <1>7 DEF Following

\* The kinds of symbols, and which have a weight.
LEMMA KindsAre ==
    /\ \A s \in Symbols : s.kind \in BareKinds \cup {"int", "op", "ident"}
    /\ \A s : s.kind \notin {"lparen", "rparen"} => Weight(s) = 0
<1>1. ASSUME NEW s \in Symbols PROVE s.kind \in BareKinds \cup {"int", "op", "ident"}
  BY DEF Symbols
<1>2. \A s : s.kind \notin {"lparen", "rparen"} => Weight(s) = 0
  BY DEF Weight
<1> QED BY <1>1, <1>2

\* The symbols that neither open nor close, for which no operator is pushed.
LEMMA NeutralNext ==
    ASSUME Following, More, Advance, NoExpansion, UNCHANGED ops,
           Symbol.kind \notin {"lparen", "rparen"},
           Symbol.kind = "defined" => looking'
    PROVE  Following'
<1>1. ops \in Seq(OpNames) /\ Symbol \in Symbols
  BY AdvanceIs DEF Following, StacksTyped
<1>2. Covers(ops, Symbol, ops)
  BY <1>1, KindsAre, CoversNeutral
<1> QED BY <1>1, <1>2, ReadNext

\* LeftParen follows.
LEMMA LeftParenNext == Following /\ LeftParen => Following'
<1> SUFFICES ASSUME Following, LeftParen PROVE Following'
  OBVIOUS
<1>1. /\ More /\ Advance /\ NoExpansion /\ Symbol.kind = "lparen"
      /\ ops' = Append(ops, "(") /\ looking' = looking
  BY DEF LeftParen
<1>2. ops \in Seq(OpNames) /\ Symbol \in Symbols
  BY <1>1, AdvanceIs DEF Following, StacksTyped
<1>3. ops' \in Seq(OpNames) /\ Covers(ops, Symbol, ops')
  BY <1>1, <1>2, CoversOpen
<1> QED BY <1>1, <1>3, ReadNext

\* Operator follows.
LEMMA OperatorNext == Following /\ Operator => Following'
<1> SUFFICES ASSUME Following, Operator PROVE Following'
  OBVIOUS
<1> DEFINE op == Converted(Symbol.name)
           keep == LastStays(ops, op)
<1>1. /\ More /\ Advance /\ NoExpansion /\ Symbol.kind = "op" /\ Symbol.name \in Operators
      /\ ops' = Append(SubSeq(ops, 1, keep), op) /\ looking' = looking
  BY DEF Operator, LastStays
<1>2. ops \in Seq(OpNames) /\ Symbol \in Symbols
  BY <1>1, AdvanceIs DEF Following, StacksTyped
<1>3. op \in OpNames /\ op # "("
  BY <1>1, ConvertedIs
<1> HIDE DEF op
<1>4. NoneAbove(ops, keep)
  BY <1>2, LastKept
<1> HIDE DEF keep
<1>5. Weight(Symbol) = 0
  BY <1>1, KindsAre
<1>6. ops' \in Seq(OpNames) /\ Covers(ops, Symbol, ops')
  BY <1>1, <1>2, <1>3, <1>4, <1>5, CoversOperator
<1> QED BY <1>1, <1>6, ReadNext

\* The operators above a parenthesis are processed in order.
LEMMA RightParenNext == Following /\ RightParen => Following' /\ status' \in Orderly
<1> SUFFICES ASSUME Following, RightParen PROVE Following' /\ status' \in Orderly
  OBVIOUS
<1> DEFINE open == SelectLastInSeq(ops, LAMBDA op : op = "(")
<1>1. /\ More /\ Advance /\ NoExpansion /\ Symbol.kind = "rparen"
      /\ ops' = Below(open) /\ looking' = looking /\ status' = ProcessAbove(open).status
  BY DEF RightParen
<1>2. ops \in Seq(OpNames) /\ Symbol \in Symbols
  BY <1>1, AdvanceIs DEF Following, StacksTyped
<1>3. NoneAbove(ops, open) /\ (open > 0 => ops[open] = "(")
  BY <1>2, LastOpen
<1> HIDE DEF open
<1>4. open \in 0..Len(ops) /\ \A i \in (open + 1)..Len(ops) : ops[i] # "("
  BY <1>3 DEF NoneAbove
<1>5. status' \in Orderly
  <2>1. IsOrderly(ProcessAbove(open))
    BY <1>2, <1>4, ProcessAboveIs
  <2> QED BY <1>1, <2>1 DEF IsOrderly, Result
<1>6. open > 0
  <2>1. ASSUME open = 0 PROVE FALSE
    <3> DEFINE t == Reverse(expansion') \o rest'
    <3>1. /\ rest' \in Seq(Symbols) /\ expansion' \in Seq(Symbols)
          /\ expansion \in Seq(Symbols) /\ rest \in Seq(Symbols)
          /\ Reverse(expansion) \o rest = <<Symbol>> \o t
      BY <1>1, AdvanceIs DEF Following, StacksTyped
    <3>2. t \in Seq(Symbols)
      BY <3>1, ReverseIs, ConcatProperties
    <3>3. Unread(ops, <<>>, expansion, rest) = OpenParens(ops) \o (Reverse(expansion) \o rest)
      BY <1>2, <3>1, UnreadIdle
    <3> HIDE DEF t
    <3>4. work = <<>>
      BY <1>1 DEF More, Evaluating
    <3>5. Balanced(OpenParens(ops) \o (<<Symbol>> \o t))
      BY <3>1, <3>3, <3>4 DEF Following, Matched
    <3>6. NoneAbove(ops, 0)
      BY <1>3, <2>1
    <3> QED BY <1>1, <1>2, <3>2, <3>5, <3>6, CloseIsOpen
  <2> QED BY <1>4, <2>1
<1>7. ops' = SubSeq(ops, 1, open - 1)
  BY <1>1, <1>6 DEF Below
<1>8. ops' \in Seq(OpNames) /\ Covers(ops, Symbol, ops')
  BY <1>1, <1>2, <1>3, <1>6, <1>7, CoversShut
<1> QED BY <1>1, <1>5, <1>8, ReadNext

\* What is on top of a stack is replaced.
LEMMA StackSwap ==
    ASSUME NEW p \in Seq(Symbols), NEW a \in Seq(Symbols), NEW x \in Seq(Symbols),
           NEW y \in Seq(Symbols), NEW t \in Seq(Symbols), Balanced(x), Balanced(y),
           Balanced(p \o ((a \o x) \o t))
    PROVE  Balanced(p \o ((a \o y) \o t))
<1>1. p \o ((a \o x) \o t) = (p \o a) \o (x \o t)
  <2>1. Regroups(p, a, x, t)
    BY Regroup
  <2> QED BY <2>1 DEF Regroups
<1>2. p \o ((a \o y) \o t) = (p \o a) \o (y \o t)
  <2>1. Regroups(p, a, y, t)
    BY Regroup
  <2> QED BY <2>1 DEF Regroups
<1> DEFINE q == p \o a
<1>3. q \in Seq(Symbols)
  OBVIOUS
<1>4. Balanced(q \o (x \o t))
  BY <1>1
<1> HIDE DEF q
<1>5. Balanced(q \o (y \o t))
  BY <1>3, <1>4, BalancedSwap
<1> QED BY <1>2, <1>5 DEF q

\* expand_symbol is called.
LEMMA ExpandStarts == Following /\ Expand => Following'
<1> SUFFICES ASSUME Following, Expand PROVE Following'
  OBVIOUS
<1>1. StacksTyped /\ RestIsTail /\ NamesGone /\ Matched /\ OneCall /\ NameAsked
  BY DEF Following
<1>2. /\ More /\ Advance /\ cond' = cond /\ work = <<>>
      /\ Symbol.kind \in {"ident", "comma", "keyword", "continuation"}
      /\ work' = At(<<Symbol>>, 0) /\ pending' = <<>> /\ ops' = ops
  BY DEF Expand, Advance, More, Evaluating, Other
<1>3. ~looking
  BY DEF Expand
<1>4. /\ Symbol \in Symbols /\ rest' \in Seq(Symbols) /\ expansion' \in Seq(Symbols)
      /\ Reverse(expansion) \o rest = <<Symbol>> \o (Reverse(expansion') \o rest')
      /\ RestIsTail' /\ NamesGone'
      /\ FromLine \/ FromMacro
  BY <1>1, <1>2, AdvanceIs
<1> DEFINE l == <<Symbol>>
<1>5. l \in Seq(Symbols) /\ Len(l) = 1 /\ l[1] = Symbol
  BY <1>4
<1>6. work' = At(l, 0)
  BY <1>2
<1>7. 0 \in 0..MaxDepth /\ 0 # MaxDepth
  BY DEF MaxDepth
<1> HIDE DEF l
<1>8. /\ work' \in Seq(WorkEntry) /\ Len(work') = 1 /\ work'[1] = [s |-> Symbol, d |-> 0]
      /\ Seen(work') = l
  <2>1. /\ At(l, 0) \in Seq(WorkEntry) /\ Len(At(l, 0)) = 1
        /\ \A i \in 1..1 : At(l, 0)[i] = [s |-> l[i], d |-> 0]
    BY <1>5, <1>7, AtIs
  <2>2. Seen(At(l, 0)) = l
    BY <1>5, <1>7, SeenAt
  <2>3. 1 \in 1..1
    OBVIOUS
  <2> QED BY <1>5, <1>6, <2>1, <2>2, <2>3
<1>9. StacksTyped'
  <2>1. pending' \in Seq(Symbols)
    BY <1>2
  <2>2. cond' \in Seq(Symbols) /\ ops' \in Seq(OpNames)
    BY <1>1, <1>2 DEF StacksTyped
  <2> QED BY <1>4, <1>8, <2>1, <2>2 DEF StacksTyped
<1>10. Matched'
  <2> DEFINE t == Reverse(expansion') \o rest'
  <2>1. Unread(ops, work, expansion, rest) = OpenParens(ops) \o (Reverse(expansion) \o rest)
    BY <1>1, <1>2, UnreadIdle DEF StacksTyped
  <2>2. Unread(ops', work', expansion', rest') = OpenParens(ops) \o (l \o t)
    BY <1>2, <1>8 DEF Unread, Behind
  <2>3. Reverse(expansion) \o rest = l \o t
    BY <1>4 DEF l
  <2> HIDE DEF t
  <2> QED BY <1>1, <2>1, <2>2, <2>3 DEF Matched
<1>11. OneCall'
  <2> SUFFICES ASSUME HasParams(Symbol) PROVE CallWaits'
    <3>1. \A i \in 1..Len(work') : work'[i].s = Symbol
      <4>1. \A i \in 1..1 : i = 1
        OBVIOUS
      <4> QED BY <1>8, <4>1
    <3> QED BY <3>1 DEF OneCall, HasParams
  <2>1. FromLine
    BY <1>4 DEF FromMacro, HasParams
  <2>2. Pos' = Pos + 1 /\ Symbol = cond[Pos + 1] /\ expansion' = <<>> /\ Pos \in Nat
    BY <1>1, <2>1 DEF FromLine, StacksTyped, RestIsTail, Pos
  <2>3. work' = At(<<cond'[Pos']>>, 0)
    BY <1>2, <2>2
  <2>4. ~AfterDefined(cond, Pos + 1)
    BY <1>1, <1>3 DEF NameAsked
  <2>5. ~AfterDefined(cond', Pos')
    BY <1>2, <2>2, <2>4
  <2> QED BY <1>2, <2>2, <2>3, <2>5 DEF CallWaits
<1>12. NameAsked'
  BY <1>1, <1>2, <1>4, AskedNext
<1> QED BY <1>4, <1>9, <1>10, <1>11, <1>12 DEF Following

\* The stack of expand_symbol.
LEMMA TopIs ==
    ASSUME Following, work # <<>>
    PROVE  /\ Front(work) \in Seq(WorkEntry) /\ Last(work) \in WorkEntry
           /\ Seen(Front(work)) \in Seq(Symbols)
           /\ Seen(work) = Seen(Front(work))
                             \o <<IF Last(work).d = MaxDepth THEN Nothing ELSE Last(work).s>>
           /\ \A i \in 1..Len(Front(work)) : ~HasParams(Front(work)[i].s)
           /\ HasParams(Last(work).s) => CallWaits
<1>1. StacksTyped /\ RestIsTail /\ OneCall
  BY DEF Following
<1>2. work \in Seq(WorkEntry)
  BY <1>1 DEF StacksTyped
<1>3. /\ Len(work) \in Nat \ {0}
      /\ Front(work) \in Seq(WorkEntry) /\ Len(Front(work)) = Len(work) - 1
      /\ \A i \in 1..(Len(work) - 1) : Front(work)[i] = work[i]
      /\ Last(work) \in WorkEntry /\ Last(work) = work[Len(work)]
      /\ work = Front(work) \o <<Last(work)>>
  BY <1>2, FrontIs
<1> DEFINE w == Front(work)
           x == Last(work)
           z == IF x.d = MaxDepth THEN Nothing ELSE x.s
<1>4. Seen(work) = Seen(w) \o <<z>> /\ Seen(w) \in Seq(Symbols)
  <2>1. w \in Seq(WorkEntry) /\ <<x>> \in Seq(WorkEntry) /\ work = w \o <<x>>
    BY <1>3
  <2> HIDE DEF w, x
  <2>2. Seen(w \o <<x>>) = Seen(w) \o Seen(<<x>>)
    BY <2>1, SeenSplit
  <2>3. Seen(<<x>>) = <<z>>
    BY DEF Seen
  <2>4. Seen(w) \in Seq(Symbols)
    BY <2>1, SeenIs
  <2> QED BY <2>1, <2>2, <2>3, <2>4
<1>5. CallWaits => Len(work) = 1
  <2> SUFFICES ASSUME CallWaits PROVE Len(work) = 1
    OBVIOUS
  <2>1. Pos >= 1 /\ Pos \in 1..Len(cond) /\ cond \in Seq(Symbols) /\ work = At(<<cond[Pos]>>, 0)
    BY <1>1 DEF CallWaits, StacksTyped, RestIsTail, Pos
  <2> DEFINE l == <<cond[Pos]>>
  <2>2. l \in Seq(Symbols) /\ Len(l) = 1 /\ 0 \in 0..MaxDepth
    BY <2>1 DEF MaxDepth
  <2> HIDE DEF l
  <2>3. Len(At(l, 0)) = 1
    BY <2>2, AtIs
  <2> QED BY <2>1, <2>3 DEF l
<1>6. \A i \in 1..Len(work) : HasParams(work[i].s) => CallWaits
  BY <1>1 DEF OneCall
<1>7. ASSUME NEW i \in 1..Len(w) PROVE ~HasParams(w[i].s)
  <2>1. i \in 1..Len(work) /\ w[i] = work[i] /\ Len(work) # 1
    BY <1>3
  <2> QED BY <1>5, <1>6, <2>1
<1>8. HasParams(x.s) => CallWaits
  <2>1. Len(work) \in 1..Len(work) /\ x = work[Len(work)]
    BY <1>3
  <2> QED BY <1>6, <2>1
<1> QED BY <1>3, <1>4, <1>7, <1>8

\* A turn of expand_symbol that does not read the line.
LEMMA TopNext ==
    ASSUME Following, work # <<>>, cond' = cond, ops' = ops, rest' = rest, pending' = pending,
           NEW y \in Seq(WorkEntry), work' = Front(work) \o y,
           \A i \in 1..Len(y) : ~HasParams(y[i].s),
           expansion' \in Seq(Symbols), NamesGone', Matched'
    PROVE  Following'
<1>1. StacksTyped /\ RestIsTail /\ NameAsked
  BY DEF Following
<1>2. /\ Front(work) \in Seq(WorkEntry)
      /\ \A i \in 1..Len(Front(work)) : ~HasParams(Front(work)[i].s)
  BY TopIs
<1>3. Pos' = Pos
  BY DEF Pos
<1> DEFINE w == Front(work)
<1> HIDE DEF w
<1>4. /\ w \o y \in Seq(WorkEntry) /\ Len(w \o y) = Len(w) + Len(y) /\ Len(w) \in Nat
      /\ Len(y) \in Nat
      /\ \A i \in 1..Len(w \o y) : (w \o y)[i] = IF i <= Len(w) THEN w[i] ELSE y[i - Len(w)]
  BY <1>2, ConcatProperties DEF w
<1>5. work' = w \o y
  BY DEF w
<1>6. StacksTyped'
  BY <1>1, <1>4, <1>5 DEF StacksTyped
<1>7. RestIsTail'
  BY <1>1, <1>3 DEF RestIsTail
<1>8. OneCall'
  <2>1. ASSUME NEW i \in 1..Len(work') PROVE ~HasParams(work'[i].s)
    <3>1. i \in 1..Len(w \o y) /\ work'[i] = (w \o y)[i]
      BY <1>5
    <3>2. CASE i <= Len(w)
      <4>1. i \in 1..Len(w) /\ work'[i] = w[i]
        BY <1>4, <3>1, <3>2
      <4> QED BY <1>2, <4>1 DEF w
    <3>3. CASE ~(i <= Len(w))
      <4>1. i - Len(w) \in 1..Len(y) /\ work'[i] = y[i - Len(w)]
        BY <1>4, <3>1, <3>3
      <4> QED BY <4>1
    <3> QED BY <3>2, <3>3
  <2> QED BY <2>1 DEF OneCall, HasParams
<1>9. NameAsked'
  <2>1. ~AfterDefined(cond, Pos + 1)
    BY <1>1 DEF NameAsked
  <2> QED BY <1>3, <2>1 DEF NameAsked
<1> QED BY <1>6, <1>7, <1>8, <1>9 DEF Following

\* The parenthesis that opens the arguments is closed, and no call is among them.
LEMMA CallCloses ==
    ASSUME StacksTyped, RestIsTail, Callable(cond), CallWaits, HasParams(cond[Pos]),
           NEW p \in Seq(Symbols), Balanced(p \o (<<cond[Pos]>> \o rest))
    PROVE  \E m : Closes(rest, m) /\ \A i \in 1..m : ~HasParams(rest[i])
<1>1. /\ cond \in Seq(Symbols) /\ rest \in Seq(Symbols) /\ Len(rest) \in Nat /\ Len(cond) \in Nat
      /\ Pos = Len(cond) - Len(rest) /\ Pos \in 1..Len(cond)
      /\ \A i \in 1..Len(rest) : rest[i] = cond[Pos + i]
  BY DEF StacksTyped, RestIsTail, CallWaits, Pos
<1>2. ~AfterDefined(cond, Pos)
  BY DEF CallWaits
<1>3. Pos < Len(cond) /\ cond[Pos + 1].kind = "lparen"
  BY <1>1, <1>2 DEF Callable, CallsOnly
<1>4. 1 \in 1..Len(rest) /\ rest[1].kind = "lparen" /\ Len(rest) > 0
  <2>1. 1 \in 1..Len(rest)
    BY <1>1, <1>3
  <2>2. rest[1] = cond[Pos + 1]
    BY <1>1, <2>1
  <2> QED BY <1>1, <1>3, <2>1, <2>2
<1>5. Net(rest) <= 0
  <2> DEFINE s == cond[Pos]
             l == <<s>>
             q == p \o l
  <2>1. s \in Symbols /\ Weight(s) = 0
    BY <1>1 DEF HasParams, Weight
  <2>2. l \in Seq(Symbols) /\ q \in Seq(Symbols)
    BY <2>1
  <2>3. p \o (l \o rest) = q \o rest
    <3>1. rest \in Seq(Symbols) /\ l \in Seq(Symbols) /\ p \in Seq(Symbols)
      BY <1>1, <2>2
    <3> HIDE DEF l
    <3>2. Associates(p, l, rest)
      BY <3>1, Associate
    <3> QED BY <3>2 DEF Associates
  <2>4. Balanced(q \o rest)
    <3> HIDE DEF q
    <3> QED BY <2>3
  <2> HIDE DEF q
  <2>5. q \o rest \in Seq(Symbols)
    BY <1>1, <2>2
  <2>6. Stays(q \o rest, 0) /\ Net(q \o rest) = 0
    BY <2>4, <2>5, BalancedIs
  <2>7. Splits(q, rest, 0)
    <3>1. 0 \in Int
      OBVIOUS
    <3> QED BY <1>1, <2>2, <3>1, StaysOfConcat
  <2>8. Net(q) + Net(rest) = 0 /\ Stays(q, 0)
    BY <2>6, <2>7 DEF Splits
  <2>9. Net(q) \in Int /\ Net(rest) \in Int /\ 0 + Net(q) >= 0
    <3>1. Len(q) \in 0..Len(q)
      BY <2>2
    <3>2. 0 + Depth(q, Len(q)) >= 0
      BY <2>8, <3>1 DEF Stays
    <3>3. Net(q) \in Int /\ Net(rest) \in Int
      BY <1>1, <2>2, NetType
    <3> QED BY <3>2, <3>3 DEF Net
  <2> QED BY <2>8, <2>9
<1>6. Depth(rest, 1) = 1 /\ Depth(rest, 0) = 0
  <2>1. Depth(rest, 0 + 1) = Depth(rest, 0) + Weight(rest[0 + 1]) /\ Depth(rest, 0) = 0
    BY DepthNext, DepthOfNone
  <2>2. Weight(rest[1]) = 1
    BY <1>4 DEF Weight
  <2> QED BY <2>1, <2>2
<1> DEFINE S == {m \in 1..Len(rest) : Depth(rest, m) <= 0}
<1>7. PICK m \in S : \A k \in S : m <= k
  <2>1. S \in SUBSET Nat
    OBVIOUS
  <2>2. Len(rest) \in S
    BY <1>1, <1>4, <1>5 DEF Net
  <2> HIDE DEF S
  <2> QED BY <2>1, <2>2, LeastNat
<1>8. m \in 1..Len(rest) /\ Depth(rest, m) <= 0
  OBVIOUS
<1>9. ASSUME NEW k \in 1..(m - 1) PROVE Depth(rest, k) > 0
  <2>1. k \in 1..Len(rest) /\ ~(m <= k) /\ k \in Nat
    BY <1>1, <1>8
  <2>2. k \notin S
    BY <1>7, <2>1
  <2>3. Depth(rest, k) \in Int
    BY <2>1, DepthNext
  <2> QED BY <2>1, <2>2, <2>3
<1> HIDE DEF S
<1>10. m # 1
  BY <1>6, <1>8
<1> DEFINE j == m - 1
<1>11. j \in 1..(m - 1) /\ j \in Nat /\ j + 1 = m
  BY <1>1, <1>8, <1>10
<1> HIDE DEF j
<1>12. Depth(rest, j) > 0 /\ Depth(rest, j) \in Int
         /\ Depth(rest, m) = Depth(rest, j) + Weight(rest[m])
  BY <1>9, <1>11, DepthNext
<1>13. Weight(rest[m]) = -1 /\ Depth(rest, m) = 0
  BY <1>8, <1>12, WeightIs
<1>14. Closes(rest, m)
  <2>1. rest[m].kind = "rparen"
    BY <1>13 DEF Weight
  <2> QED BY <1>8, <1>9, <1>13, <2>1 DEF Closes
<1>15. ASSUME NEW i \in 1..m, HasParams(rest[i]) PROVE FALSE
  <2>1. i \in 1..Len(rest) /\ rest[i] = cond[Pos + i] /\ Pos + i \in 1..Len(cond)
    BY <1>1, <1>8
  <2>2. Pos \in DOMAIN cond /\ Pos + i \in DOMAIN cond /\ Pos < Pos + i
    BY <1>1, <2>1
  <2>3. \E k \in (Pos + 1)..((Pos + i) - 1) : Depth(cond, k) = Depth(cond, Pos)
    <3> DEFINE n == Pos + i
    <3>1. n \in DOMAIN cond /\ Pos < n /\ HasParams(cond[n])
      BY <1>15, <2>1, <2>2
    <3> HIDE DEF n
    <3>2. \E k \in (Pos + 1)..(n - 1) : Depth(cond, k) = Depth(cond, Pos)
      BY <1>2, <2>2, <3>1 DEF Callable, CallsApart
    <3> QED BY <3>2 DEF n
  <2>4. PICK k \in (Pos + 1)..((Pos + i) - 1) : Depth(cond, k) = Depth(cond, Pos)
    BY <2>3
  <2> DEFINE h == k - Pos
  <2>5. h \in 1..(m - 1) /\ h \in 0..m /\ k = Pos + h /\ h \in Nat
    BY <1>1, <1>8, <2>1, <2>4
  <2> HIDE DEF h
  <2>6. Alike(cond, Pos, rest, m)
    <3>1. \A n \in 1..m : n \in 1..Len(rest)
      BY <1>1, <1>8
    <3> QED BY <1>1, <3>1 DEF Alike
  <2>7. AsDeep(cond, Pos, rest, m)
    <3>1. Pos \in Nat /\ m \in Nat
      BY <1>1, <1>8
    <3> QED BY <2>6, <3>1, DepthFrom
  <2>8. Depth(cond, Pos + h) = Depth(cond, Pos) + Depth(rest, h)
    BY <2>5, <2>7 DEF AsDeep
  <2>9. Depth(rest, h) > 0 /\ Depth(rest, h) \in Int /\ Depth(cond, Pos) \in Int
    <3>1. Pos \in Nat
      BY <1>1
    <3> QED BY <1>9, <2>5, <3>1, DepthNext
  <2> QED BY <2>4, <2>5, <2>8, <2>9
<1> QED BY <1>14, <1>15

\* What a call reads matches.
LEMMA CallBalanced ==
    ASSUME NEW r \in Seq(Symbols), NEW m, Closes(r, m), NEW s \in Symbols, Weight(s) = 0
    PROVE  /\ SubSeq(r, 1, m) \in Seq(Symbols) /\ SubSeq(r, m + 1, Len(r)) \in Seq(Symbols)
           /\ r = SubSeq(r, 1, m) \o SubSeq(r, m + 1, Len(r))
           /\ Balanced(<<s>> \o SubSeq(r, 1, m))
<1> DEFINE a == SubSeq(r, 1, m)
           l == <<s>>
<1>1. /\ m \in 1..Len(r) /\ m \in 0..Len(r) /\ Depth(r, m) = 0 /\ m \in Nat
      /\ \A k \in 1..(m - 1) : Depth(r, k) > 0
  BY DEF Closes
<1>2. /\ r = a \o SubSeq(r, m + 1, Len(r)) /\ a \in Seq(Symbols) /\ Len(a) = m
      /\ SubSeq(r, m + 1, Len(r)) \in Seq(Symbols)
      /\ \A i \in 1..m : a[i] = r[i]
  BY <1>1, SplitAt
<1> HIDE DEF a
<1>3. \A j \in 0..m : Depth(a, j) = Depth(r, j)
  BY <1>1, <1>2, DepthAlike
<1>4. Net(a) = 0
  BY <1>1, <1>2, <1>3 DEF Net
<1>5. Stays(a, 0)
  <2>1. ASSUME NEW i \in 0..Len(a) PROVE 0 + Depth(a, i) >= 0
    <3>1. i = 0 \/ i = m \/ i \in 1..(m - 1)
      BY <1>1, <1>2
    <3>2. Depth(a, i) = Depth(r, i) /\ Depth(a, i) \in Int
      BY <1>2, <1>3, DepthNext
    <3>3. Depth(r, 0) = 0
      BY DepthOfNone
    <3> QED BY <1>1, <3>1, <3>2, <3>3
  <2> QED BY <2>1 DEF Stays
<1>6. l \in Seq(Symbols) /\ Net(l) = 0 /\ Stays(l, 0)
  BY OneSymbol
<1> HIDE DEF l
<1>7. Splits(l, a, 0)
  <2>1. 0 \in Int
    OBVIOUS
  <2> QED BY <1>2, <1>6, <2>1, StaysOfConcat
<1>8. Stays(l \o a, 0) /\ Net(l \o a) = 0
  BY <1>4, <1>5, <1>6, <1>7 DEF Splits
<1>9. Balanced(l \o a)
  <2>1. l \o a \in Seq(Symbols)
    BY <1>2, <1>6
  <2> QED BY <1>8, <2>1, BalancedIs
<1> QED BY <1>2, <1>9 DEF a, l

\* A turn of expand_symbol that drops the symbol on top.
LEMMA TopDropped ==
    ASSUME Following, work # <<>>, cond' = cond, ops' = ops, rest' = rest, pending' = pending,
           work' = Front(work), expansion' = expansion,
           Last(work).d = MaxDepth \/ Weight(Last(work).s) = 0
    PROVE  Following'
<1>1. StacksTyped /\ NamesGone /\ Matched
  BY DEF Following
<1> DEFINE a == Seen(Front(work))
           z == IF Last(work).d = MaxDepth THEN Nothing ELSE Last(work).s
           x == <<z>>
           t == Reverse(expansion) \o rest
           p == OpenParens(ops)
<1>2. /\ Front(work) \in Seq(WorkEntry) /\ Last(work) \in WorkEntry /\ a \in Seq(Symbols)
      /\ Seen(work) = a \o x
  BY TopIs
<1>3. t \in Seq(Symbols) /\ p \in Seq(Symbols)
  BY <1>1, ReverseIs, OpensIs, ConcatProperties DEF StacksTyped
<1>4. z \in Symbols /\ Weight(z) = 0
  <2>1. Last(work).s \in Symbols
    BY <1>2 DEF WorkEntry
  <2> QED BY <2>1, TokIs
<1> HIDE DEF z
<1>5. x \in Seq(Symbols) /\ Balanced(x)
  <2>1. x \in Seq(Symbols) /\ Flat(x)
    BY <1>4 DEF Flat
  <2> QED BY <2>1, FlatIsBalanced
<1> HIDE DEF x
<1> DEFINE y == <<>>
<1>6. y \in Seq(Symbols) /\ Balanced(y) /\ a \o y = a
  BY <1>2, NothingIsBalanced
<1> HIDE DEF y
<1>7. Unread(ops, work, expansion, rest) = p \o ((a \o x) \o t)
  BY <1>2 DEF Unread, Behind
<1>8. Unread(ops', work', expansion', rest') = p \o (a \o t)
  BY DEF Unread, Behind
<1> HIDE DEF a, t, p
<1>9. Balanced(p \o ((a \o y) \o t))
  <2>1. Balanced(p \o ((a \o x) \o t))
    BY <1>1, <1>7 DEF Matched
  <2> QED BY <1>2, <1>3, <1>5, <1>6, <2>1, StackSwap
<1>10. Matched'
  BY <1>6, <1>8, <1>9 DEF Matched
<1>11. NamesGone' /\ expansion' \in Seq(Symbols)
  BY <1>1 DEF NamesGone, StacksTyped
<1> DEFINE e == <<>>
<1>12. e \in Seq(WorkEntry) /\ work' = Front(work) \o e /\ Len(e) = 0
  BY <1>2
<1>13. \A i \in 1..Len(e) : ~HasParams(e[i].s)
  BY <1>12
<1> HIDE DEF e
<1> QED BY <1>10, <1>11, <1>12, <1>13, TopNext

\* A turn of expand_symbol that leaves the symbol on top to evaluate.
LEMMA TopGiven ==
    ASSUME Following, work # <<>>, cond' = cond, ops' = ops, rest' = rest, pending' = pending,
           work' = Front(work), expansion' = Append(expansion, Last(work).s),
           Last(work).d # MaxDepth, Last(work).s.kind # "ident"
    PROVE  Following'
<1>1. StacksTyped /\ NamesGone /\ Matched
  BY DEF Following
<1> DEFINE a == Seen(Front(work))
           s == Last(work).s
           x == <<s>>
           q == Reverse(expansion)
           p == OpenParens(ops)
<1>2. /\ Front(work) \in Seq(WorkEntry) /\ Last(work) \in WorkEntry /\ a \in Seq(Symbols)
      /\ Seen(work) = a \o x /\ s \in Symbols
  <2>1. Front(work) \in Seq(WorkEntry) /\ Last(work) \in WorkEntry /\ a \in Seq(Symbols)
    BY TopIs
  <2>2. Seen(work) = a \o <<IF Last(work).d = MaxDepth THEN Nothing ELSE s>>
    BY TopIs
  <2>3. (IF Last(work).d = MaxDepth THEN Nothing ELSE s) = s
    OBVIOUS
  <2>4. s \in Symbols
    BY <2>1 DEF WorkEntry
  <2> QED BY <2>1, <2>2, <2>3, <2>4
<1>3. q \in Seq(Symbols) /\ p \in Seq(Symbols) /\ x \in Seq(Symbols) /\ rest \in Seq(Symbols)
  <2>1. x \in Seq(Symbols)
    BY <1>2
  <2> QED BY <1>1, <2>1, ReverseIs, OpensIs DEF StacksTyped
<1>4. Reverse(expansion') = x \o q
  <2>1. expansion' = Append(expansion, s) /\ expansion \in Seq(Symbols) /\ s \in Symbols
    BY <1>1, <1>2 DEF StacksTyped
  <2> HIDE DEF s
  <2> QED BY <2>1, ReversePush
<1>5. Unread(ops, work, expansion, rest) = p \o ((a \o x) \o (q \o rest))
  BY <1>2 DEF Unread, Behind
<1>6. Unread(ops', work', expansion', rest') = p \o (a \o ((x \o q) \o rest))
  BY <1>4 DEF Unread, Behind
<1>7. expansion' \in Seq(Symbols) /\ NamesGone'
  <2>1. /\ expansion \in Seq(Symbols) /\ s \in Symbols /\ expansion' = Append(expansion, s)
        /\ s.kind # "ident" /\ \A i \in 1..Len(expansion) : expansion[i].kind # "ident"
    BY <1>1, <1>2 DEF StacksTyped, NamesGone
  <2> HIDE DEF s
  <2>2. /\ expansion' \in Seq(Symbols) /\ Len(expansion') = Len(expansion) + 1
        /\ Len(expansion) \in Nat /\ expansion'[Len(expansion) + 1] = s
        /\ \A i \in 1..Len(expansion) : expansion'[i] = expansion[i]
    BY <2>1
  <2>3. \A i \in 1..Len(expansion') : expansion'[i].kind # "ident"
    BY <2>1, <2>2
  <2> QED BY <2>2, <2>3 DEF NamesGone
<1> HIDE DEF a, p, q, x, s
<1>8. (a \o x) \o (q \o rest) = a \o ((x \o q) \o rest)
  <2>1. Regroups(a, x, q, rest)
    BY <1>2, <1>3, Regroup
  <2> QED BY <2>1 DEF Regroups
<1>9. Matched'
  <2>1. Unread(ops', work', expansion', rest') = Unread(ops, work, expansion, rest)
    BY <1>5, <1>6, <1>8
  <2> QED BY <1>1, <2>1 DEF Matched
<1> DEFINE e == <<>>
<1>10. e \in Seq(WorkEntry) /\ work' = Front(work) \o e /\ Len(e) = 0
  BY <1>2
<1>11. \A i \in 1..Len(e) : ~HasParams(e[i].s)
  BY <1>10
<1> HIDE DEF e
<1> QED BY <1>7, <1>9, <1>10, <1>11, TopNext

\* The body of a macro is pushed.
LEMMA TopReplaced ==
    ASSUME Following, work # <<>>, cond' = cond, ops' = ops, rest' = rest, pending' = pending,
           Last(work).d # MaxDepth, Weight(Last(work).s) = 0,
           NEW body \in Seq(Symbols), Balanced(body), \A i \in 1..Len(body) : ~HasParams(body[i]),
           work' = Front(work) \o At(body, Last(work).d + 1), expansion' = expansion
    PROVE  Following'
<1>1. StacksTyped /\ NamesGone /\ Matched
  BY DEF Following
<1> DEFINE a == Seen(Front(work))
           s == Last(work).s
           x == <<s>>
           d == Last(work).d + 1
           b == At(body, d)
           y == Seen(b)
           t == Reverse(expansion) \o rest
           p == OpenParens(ops)
<1>2. /\ Front(work) \in Seq(WorkEntry) /\ Last(work) \in WorkEntry /\ a \in Seq(Symbols)
      /\ Seen(work) = a \o x /\ s \in Symbols
  <2>1. Front(work) \in Seq(WorkEntry) /\ Last(work) \in WorkEntry /\ a \in Seq(Symbols)
    BY TopIs
  <2>2. Seen(work) = a \o <<IF Last(work).d = MaxDepth THEN Nothing ELSE s>>
    BY TopIs
  <2>3. (IF Last(work).d = MaxDepth THEN Nothing ELSE s) = s
    OBVIOUS
  <2>4. s \in Symbols
    BY <2>1 DEF WorkEntry
  <2> QED BY <2>1, <2>2, <2>3, <2>4
<1>3. d \in 0..MaxDepth
  <2>1. Last(work).d \in 0..MaxDepth /\ Last(work).d # MaxDepth
    BY <1>2 DEF WorkEntry
  <2> QED BY <2>1 DEF MaxDepth
<1>4. x \in Seq(Symbols) /\ Balanced(x)
  <2>1. x \in Seq(Symbols) /\ Flat(x)
    BY <1>2 DEF Flat
  <2> QED BY <2>1, FlatIsBalanced
<1> HIDE DEF d
<1>5. /\ b \in Seq(WorkEntry) /\ Len(b) = Len(body)
      /\ \A i \in 1..Len(body) : b[i] = [s |-> body[i], d |-> d]
      /\ y \in Seq(Symbols) /\ Balanced(y)
  BY <1>3, AtIs, SeenAt
<1>6. \A i \in 1..Len(b) : ~HasParams(b[i].s)
  <2>1. ASSUME NEW i \in 1..Len(b) PROVE b[i].s = body[i] /\ i \in 1..Len(body)
    <3>1. b[i] = [s |-> body[i], d |-> d]
      BY <1>5
    <3> QED BY <1>5, <3>1
  <2> HIDE DEF b
  <2> QED BY <2>1
<1>7. work' = Front(work) \o b
  BY DEF d
<1> HIDE DEF b
<1>8. t \in Seq(Symbols) /\ p \in Seq(Symbols)
  BY <1>1, ReverseIs, OpensIs, ConcatProperties DEF StacksTyped
<1>9. Unread(ops, work, expansion, rest) = p \o ((a \o x) \o t)
  BY <1>2 DEF Unread, Behind
<1>10. Unread(ops', work', expansion', rest') = p \o ((a \o y) \o t)
  <2>1. Seen(work') = a \o y
    BY <1>2, <1>5, <1>7, SeenSplit
  <2> QED BY <2>1 DEF Unread, Behind
<1> HIDE DEF a, x, y, t, p
<1>11. Balanced(p \o ((a \o y) \o t))
  <2>1. Balanced(p \o ((a \o x) \o t))
    BY <1>1, <1>9 DEF Matched
  <2> QED BY <1>2, <1>4, <1>5, <1>8, <2>1, StackSwap
<1>12. Matched'
  BY <1>10, <1>11 DEF Matched
<1>13. NamesGone' /\ expansion' \in Seq(Symbols)
  BY <1>1 DEF NamesGone, StacksTyped
<1> QED BY <1>5, <1>6, <1>7, <1>12, <1>13, TopNext

\* The macros of the table, when PlainBodies holds.
LEMMA MacroIs ==
    ASSUME PlainBodies, NEW name \in DOMAIN MacroTable
    PROVE  /\ MacroTable[name].body \in Seq(Symbols) /\ Balanced(MacroTable[name].body)
           /\ \A i \in DOMAIN MacroTable[name].body : ~HasParams(MacroTable[name].body[i])
           /\ MacroTable[name].params # NoParams => MacroTable[name].params \in ParamsOf
BY TableAssumption DEF PlainBodies, ParamsOf

Unused(rest0, c, pending0) ==
    SubSeq(rest0, (IF c.used > Len(pending0) THEN c.used - Len(pending0) ELSE 0) + 1, Len(rest0))

\* The call that waits: its name is on the stack of expand_symbol, and nothing else is there.
CallOnTop ==
    /\ cond \in Seq(Symbols) /\ rest \in Seq(Symbols) /\ ops \in Seq(OpNames)
    /\ Len(rest) \in Nat /\ Len(cond) \in Nat
    /\ Pos = Len(cond) - Len(rest) /\ Pos \in 1..Len(cond) /\ Pos \in Nat
    /\ \A i \in 1..Len(rest) : rest[i] = cond[Pos + i]
    /\ expansion = <<>> /\ pending = <<>> /\ Front(work) = <<>> /\ Last(work).d = 0
    /\ Last(work).s = cond[Pos] /\ HasParams(cond[Pos]) /\ Weight(cond[Pos]) = 0
    /\ cond[Pos] \in Symbols
    /\ Balanced(OpenParens(ops) \o (<<cond[Pos]>> \o rest))

\* A macro with parameters is on the stack only right after it was read.
LEMMA CallWaiting ==
    ASSUME Following, work # <<>>, HasParams(Last(work).s)
    PROVE  CallOnTop
<1>1. StacksTyped /\ RestIsTail /\ Matched
  BY DEF Following
<1>2. CallWaits
  BY TopIs
<1>3. /\ cond \in Seq(Symbols) /\ rest \in Seq(Symbols) /\ work \in Seq(WorkEntry)
      /\ ops \in Seq(OpNames)
      /\ Len(rest) \in Nat /\ Len(cond) \in Nat
      /\ Pos = Len(cond) - Len(rest) /\ Pos \in 1..Len(cond) /\ Pos \in Nat
      /\ \A i \in 1..Len(rest) : rest[i] = cond[Pos + i]
  BY <1>1, <1>2 DEF StacksTyped, RestIsTail, CallWaits, Pos
<1>4. work = At(<<cond[Pos]>>, 0) /\ expansion = <<>> /\ pending = <<>>
  BY <1>2 DEF CallWaits
<1> DEFINE s == cond[Pos]
           l == <<s>>
           p == OpenParens(ops)
<1>5. /\ s \in Symbols /\ l \in Seq(Symbols) /\ Len(l) = 1 /\ l[1] = s
      /\ 0 \in 0..MaxDepth /\ 1 \in 0..MaxDepth /\ 0 # MaxDepth /\ 1 # MaxDepth
  BY <1>3 DEF MaxDepth
<1>6. Last(work).s = s /\ Last(work).d = 0 /\ Front(work) = <<>> /\ Seen(work) = l
  <2>1. work = At(l, 0)
    BY <1>4
  <2> HIDE DEF l
  <2>2. Len(work) = 1 /\ work[1] = [s |-> l[1], d |-> 0] /\ Seen(work) = l
    <3>1. /\ Len(At(l, 0)) = Len(l) /\ \A i \in 1..Len(l) : At(l, 0)[i] = [s |-> l[i], d |-> 0]
          /\ Seen(At(l, 0)) = l
      BY <1>5, AtIs, SeenAt
    <3>2. 1 \in 1..Len(l)
      BY <1>5
    <3> QED BY <1>5, <2>1, <3>1, <3>2
  <2>3. Front(work) \in Seq(WorkEntry) /\ Len(Front(work)) = Len(work) - 1
          /\ Last(work) = work[Len(work)]
    BY <1>3, FrontIs
  <2>4. Front(work) = <<>>
    BY <2>2, <2>3
  <2>5. Last(work).s = s /\ Last(work).d = 0
    BY <1>5, <2>2, <2>3
  <2> QED BY <2>2, <2>4, <2>5
<1>7. HasParams(s) /\ Weight(s) = 0
  <2>1. HasParams(s) /\ Weight(s) = 0
    BY <1>6 DEF HasParams, Weight
  <2> QED BY <1>6, <2>1
<1>8. p \in Seq(Symbols) /\ Balanced(p \o (l \o rest))
  <2>1. Reverse(<<>>) = <<>>
    <3>1. <<>> \in Seq(Symbols) /\ Len(<<>>) = 0
      OBVIOUS
    <3>2. Reverse(<<>>) \in Seq(Symbols) /\ Len(Reverse(<<>>)) = 0
      BY <3>1, ReverseIs
    <3> QED BY <3>2
  <2>2. <<>> \o rest = rest
    BY <1>3
  <2>3. Unread(ops, work, expansion, rest) = p \o (l \o rest)
    BY <1>4, <1>6, <2>1, <2>2 DEF Unread, Behind
  <2>4. p \in Seq(Symbols)
    BY <1>3, OpensIs
  <2> HIDE DEF p, l
  <2> QED BY <1>1, <2>3, <2>4 DEF Matched
<1> HIDE DEF p
<1> QED BY <1>3, <1>4, <1>5, <1>6, <1>7, <1>8 DEF CallOnTop, p

\* The arguments c and the expansion b of a call.
CallAsked(macro, c, b) ==
    /\ macro = MacroTable[Last(work).s.name]
    /\ c = CollectArguments(pending \o rest, NbParams(macro))
    /\ b = ExpandMacro(c.args, macro)
CallRead(m, c, b) ==
    /\ Closes(rest, m) /\ \A i \in 1..m : ~HasParams(rest[i])
    /\ c.used = m /\ c.nested \in Seq(Symbols) /\ b.status \in Endings
    /\ b.status = "ok" => /\ b.out \in Seq(Symbols) /\ Balanced(b.out)
                          /\ \A i \in 1..Len(b.out) : ~HasParams(b.out[i])

\* A call takes its arguments up to its parenthesis, and expands to what is balanced.
LEMMA CallReads ==
    ASSUME Following, Callable(cond), work # <<>>, HasParams(Last(work).s),
           NEW macro, NEW c, NEW b, CallAsked(macro, c, b)
    PROVE  \E m : CallRead(m, c, b)
<1>1. RestIsTail /\ StacksTyped /\ CallWaits
  BY TopIs DEF Following
<1>2. CallOnTop
  BY CallWaiting
<1>3. PICK m : Closes(rest, m) /\ \A i \in 1..m : ~HasParams(rest[i])
  <2> DEFINE p == OpenParens(ops)
  <2>1. HasParams(cond[Pos]) /\ Balanced(p \o (<<cond[Pos]>> \o rest))
    BY <1>2 DEF CallOnTop
  <2>2. p \in Seq(Symbols)
    BY <1>2, OpensIs DEF CallOnTop
  <2> HIDE DEF p
  <2> QED BY <1>1, <2>1, <2>2, CallCloses
<1>4. c.args \in ArgsOf /\ c.used = m /\ c.nested \in Seq(Symbols)
  <2>1. pending = <<>> /\ rest \in Seq(Symbols)
    BY <1>2 DEF CallOnTop
  <2>2. pending \o rest = rest
    BY <2>1
  <2>3. c = CollectArguments(pending \o rest, NbParams(macro))
    BY DEF CallAsked
  <2>4. c = CollectArguments(rest, NbParams(macro))
    BY <2>2, <2>3
  <2> QED BY <1>3, <2>1, <2>4, CollectIs
<1>5. FitsIfOk(b, 0)
  <2>1. macro = MacroTable[cond[Pos].name] /\ HasParams(cond[Pos])
    BY <1>2 DEF CallOnTop, CallAsked
  <2>2. cond[Pos].name \in DOMAIN MacroTable /\ macro.params # NoParams /\ PlainBodies
    BY <2>1 DEF HasParams, Callable
  <2>3. /\ macro.body \in Seq(Symbols) /\ Balanced(macro.body)
        /\ \A i \in DOMAIN macro.body : ~HasParams(macro.body[i])
        /\ macro.params \in ParamsOf
    BY <2>1, <2>2, MacroIs
  <2>4. b = ExpandMacro(c.args, macro)
    BY DEF CallAsked
  <2> QED BY <1>4, <2>3, <2>4, ExpandMacroIs
<1>6. b.status \in Endings
  BY <1>5 DEF FitsIfOk, Building
<1>7. ASSUME b.status = "ok"
      PROVE  /\ b.out \in Seq(Symbols) /\ Balanced(b.out)
             /\ \A i \in 1..Len(b.out) : ~HasParams(b.out[i])
  <2>1. GoodOut(b.out, 0)
    BY <1>5, <1>7 DEF FitsIfOk, Fits
  <2>2. /\ b.out \in Seq(Symbols) /\ Stays(b.out, 0) /\ Net(b.out) = 0
        /\ \A i \in 1..Len(b.out) : ~HasParams(b.out[i])
    BY <2>1 DEF GoodOut
  <2> QED BY <2>2, BalancedIs
<1> QED BY <1>3, <1>4, <1>6, <1>7 DEF CallRead

CallTaken(c, b) ==
    /\ b.status = "ok"
    /\ work' = Front(work) \o At(b.out, Last(work).d + 1)
    /\ pending' = c.nested \o SubSeq(pending, c.used + 1, Len(pending))
    /\ rest' = Unused(rest, c, pending)

\* A call is read from the line, and its macro pushed.
LEMMA CallNext ==
    ASSUME Following, work # <<>>, HasParams(Last(work).s),
           cond' = cond, ops' = ops, expansion' = expansion,
           NEW m, NEW c, NEW b, CallRead(m, c, b), CallTaken(c, b)
    PROVE  Following'
<1>1. StacksTyped /\ Matched /\ CallOnTop
  BY CallWaiting DEF Following
<1> DEFINE s == cond[Pos]
           l == <<s>>
           p == OpenParens(ops)
<1>3. /\ cond \in Seq(Symbols) /\ rest \in Seq(Symbols) /\ ops \in Seq(OpNames)
      /\ Len(rest) \in Nat /\ Len(cond) \in Nat
      /\ Pos = Len(cond) - Len(rest) /\ Pos \in 1..Len(cond) /\ Pos \in Nat
      /\ \A i \in 1..Len(rest) : rest[i] = cond[Pos + i]
  BY <1>1 DEF CallOnTop
<1>4. expansion = <<>> /\ pending = <<>>
  BY <1>1 DEF CallOnTop
<1>5. /\ s \in Symbols /\ l \in Seq(Symbols) /\ 1 \in 0..MaxDepth
      /\ HasParams(s) /\ Weight(s) = 0 /\ Front(work) = <<>> /\ Last(work).d = 0
  BY <1>1 DEF CallOnTop, MaxDepth
<1>6. 1 # MaxDepth
  BY DEF MaxDepth
<1>7. HasParams(s) /\ Weight(s) = 0
  BY <1>5
<1>8. p \in Seq(Symbols) /\ Balanced(p \o (l \o rest))
  BY <1>1, <1>3, OpensIs DEF CallOnTop
<1>9. Closes(rest, m) /\ \A i \in 1..m : ~HasParams(rest[i])
  BY DEF CallRead
<1>10. m \in 1..Len(rest) /\ m \in Nat /\ m > 0 /\ rest[m].kind = "rparen"
  BY <1>3, <1>9 DEF Closes
<1>11. c.used = m /\ c.nested \in Seq(Symbols)
  BY DEF CallRead
<1>12. b.out \in Seq(Symbols) /\ Balanced(b.out) /\ \A i \in 1..Len(b.out) : ~HasParams(b.out[i])
  BY DEF CallRead, CallTaken
<1>13. rest' = SubSeq(rest, m + 1, Len(rest))
  <2> DEFINE n == IF c.used > Len(pending) THEN c.used - Len(pending) ELSE 0
  <2>1. Len(pending) = 0
    BY <1>4
  <2>2. n = m
    BY <1>10, <1>11, <2>1
  <2>3. rest' = SubSeq(rest, n + 1, Len(rest))
    BY DEF CallTaken, Unused
  <2> HIDE DEF n
  <2> QED BY <2>2, <2>3
<1> DEFINE a == SubSeq(rest, 1, m)
           r == SubSeq(rest, m + 1, Len(rest))
<1>14. /\ a \in Seq(Symbols) /\ r \in Seq(Symbols) /\ rest = a \o r /\ Balanced(l \o a)
  BY <1>3, <1>5, <1>7, <1>9, CallBalanced
<1>15. Len(r) = Len(rest) - m /\ \A i \in 1..(Len(rest) - m) : r[i] = rest[m + i]
  <2>1. m \in 0..Len(rest)
    BY <1>10
  <2> QED BY <1>3, <2>1, SplitAt
<1>16. rest' = r
  BY <1>13
<1> HIDE DEF a, r
<1>17. Pos' = Pos + m
  <2>1. Len(rest') = Len(rest) - m /\ Len(cond') = Len(cond)
    BY <1>15, <1>16
  <2>2. Pos' = Len(cond') - Len(rest')
    BY DEF Pos
  <2> HIDE DEF Pos
  <2> QED BY <1>3, <1>10, <2>1, <2>2
<1> DEFINE w == At(b.out, 1)
<1>18. /\ w \in Seq(WorkEntry) /\ Len(w) = Len(b.out) /\ Seen(w) = b.out
       /\ \A i \in 1..Len(b.out) : w[i] = [s |-> b.out[i], d |-> 1]
  BY <1>5, <1>6, <1>12, AtIs, SeenAt
<1>19. work' = w
  <2>0. work' = Front(work) \o At(b.out, Last(work).d + 1)
    BY DEF CallTaken
  <2>1. work' = <<>> \o At(b.out, 0 + 1)
    BY <1>5, <2>0
  <2>2. 0 + 1 = 1
    OBVIOUS
  <2>3. work' = <<>> \o w
    BY <2>1, <2>2
  <2> HIDE DEF w
  <2> QED BY <1>18, <2>3
<1> HIDE DEF w
<1>20. pending' \in Seq(Symbols)
  <2> DEFINE j == m + 1
             q == SubSeq(pending, j, 0)
  <2>1. j \in Int /\ 0 \in Int /\ \A i \in j..0 : pending[i] \in Symbols
    BY <1>10
  <2>2. q \in Seq(Symbols)
    <3> HIDE DEF j
    <3> QED BY <2>1, SubSeqProperties
  <2>3. pending' = c.nested \o q
    <3>1. pending' = c.nested \o SubSeq(pending, c.used + 1, Len(pending))
      BY DEF CallTaken
    <3>2. Len(pending) = 0
      BY <1>4
    <3> QED BY <1>11, <3>1, <3>2
  <2> HIDE DEF q
  <2> QED BY <1>11, <2>2, <2>3, ConcatProperties
<1>21. StacksTyped'
  <2>1. cond' \in Seq(Symbols) /\ ops' \in Seq(OpNames) /\ expansion' \in Seq(Symbols)
    BY <1>1 DEF StacksTyped
  <2> QED BY <1>14, <1>16, <1>18, <1>19, <1>20, <2>1 DEF StacksTyped
<1>22. RestIsTail'
  <2>1. Len(rest') <= Len(cond')
    BY <1>3, <1>10, <1>15, <1>16
  <2>2. ASSUME NEW i \in 1..Len(rest') PROVE rest'[i] = cond'[Pos' + i]
    <3>1. i \in 1..(Len(rest) - m) /\ m + i \in 1..Len(rest) /\ Pos + (m + i) = Pos' + i
      BY <1>3, <1>10, <1>15, <1>16, <1>17
    <3>2. rest'[i] = rest[m + i] /\ rest[m + i] = cond[Pos + (m + i)]
      BY <1>3, <1>15, <1>16, <3>1
    <3> QED BY <3>1, <3>2
  <2> QED BY <2>1, <2>2 DEF RestIsTail
<1>23. NamesGone'
  BY <1>4 DEF NamesGone
<1>24. Matched'
  <2>1. Reverse(<<>>) = <<>>
    <3>1. <<>> \in Seq(Symbols) /\ Len(<<>>) = 0
      OBVIOUS
    <3>2. Reverse(<<>>) \in Seq(Symbols) /\ Len(Reverse(<<>>)) = 0
      BY <3>1, ReverseIs
    <3> QED BY <3>2
  <2>2. <<>> \o r = r
    BY <1>14
  <2>3. Unread(ops', work', expansion', rest') = p \o (b.out \o r)
    BY <1>4, <1>16, <1>18, <1>19, <2>1, <2>2 DEF Unread, Behind
  <2> DEFINE x == l \o a
  <2> HIDE DEF l, p
  <2>4. x \o r = l \o (a \o r)
    <3>1. Associates(l, a, r)
      BY <1>5, <1>14, Associate
    <3> QED BY <3>1 DEF Associates
  <2>5. x \in Seq(Symbols) /\ Balanced(x) /\ Balanced(p \o (x \o r))
    BY <1>5, <1>8, <1>14, <2>4
  <2> HIDE DEF x
  <2>6. Balanced(p \o (b.out \o r))
    BY <1>8, <1>12, <1>14, <2>5, BalancedSwap
  <2> QED BY <2>3, <2>6 DEF Matched
<1>25. OneCall'
  <2>1. ASSUME NEW i \in 1..Len(work') PROVE ~HasParams(work'[i].s)
    <3>1. i \in 1..Len(b.out)
      BY <1>18, <1>19
    <3>2. work'[i] = [s |-> b.out[i], d |-> 1]
      BY <1>18, <1>19, <3>1
    <3>3. work'[i].s = b.out[i]
      BY <3>2
    <3> QED BY <1>12, <3>1, <3>3
  <2> QED BY <2>1 DEF OneCall, HasParams
<1>26. NameAsked'
  <2>1. cond'[Pos'].kind = "rparen"
    <3>1. rest[m] = cond[Pos + m]
      BY <1>3, <1>10
    <3> QED BY <1>10, <1>17, <3>1
  <2>2. (Pos' + 1) - 1 = Pos'
    BY <1>3, <1>10, <1>17
  <2>3. ~AfterDefined(cond', Pos' + 1)
    BY <2>1, <2>2 DEF AfterDefined
  <2> QED BY <2>3 DEF NameAsked
<1> QED BY <1>21, <1>22, <1>23, <1>24, <1>25, <1>26 DEF Following

Ended == {"error", "index"}

\* What expand_symbol leaves.
Turned(e) == /\ work' = e.work /\ pending' = e.pending /\ rest' = e.lexer /\ expansion' = e.out
             /\ status' = CASE e.status = "ok" -> "running"
                            [] e.status = "error" -> "error"
                            [] e.status = "panicked" -> "index"
Taken == [work |-> Front(work), pending |-> pending, lexer |-> rest,
          out |-> expansion, status |-> "ok"]
Follows == status' \in {"running"} \cup Ended /\ (status' = "running" => Following')

\* One turn of expand_symbol.
LEMMA ExpandNextFollows ==
    ASSUME Following, Callable(cond), ExpandNext
    PROVE  Follows
<1> DEFINE s == Last(work).s
           d == Last(work).d
           e0 == [work |-> work, pending |-> pending, lexer |-> rest,
                  out |-> expansion, status |-> "ok"]
           x == Taken
           e == ExpandTop(e0, FALSE)
<1>1. work # <<>> /\ cond' = cond /\ ops' = ops /\ Turned(e)
  BY DEF ExpandNext, Turned
<1>2. /\ Front(work) \in Seq(WorkEntry) /\ Last(work) \in WorkEntry /\ s \in Symbols
      /\ d \in 0..MaxDepth
  <2>1. Front(work) \in Seq(WorkEntry) /\ Last(work) \in WorkEntry
    BY <1>1, TopIs
  <2> QED BY <2>1 DEF WorkEntry
<1>3. /\ x.work = Front(work) /\ x.pending = pending /\ x.lexer = rest /\ x.out = expansion
      /\ x.status = "ok"
  BY DEF Taken
<1>4. [e0 EXCEPT !.work = Front(@)] = x
  BY DEF Taken
<1> DEFINE macro == MacroTable[s.name]
           undefined == [x EXCEPT !.status = "error"]
           pushed == [x EXCEPT !.work = @ \o At(macro.body, d + 1)]
           called == ExpandCall(x, macro, d)
           given == [x EXCEPT !.out = Append(@, s)]
           deep == d = MaxDepth
           name == s.kind = "ident"
           known == s.name \in DOMAIN MacroTable
           blank == s.kind \in {"newline", "comment", "continuation"}
           plain == macro.params = NoParams
<1>5. e = CASE deep -> x
            [] ~deep /\ name /\ ~known -> undefined
            [] ~deep /\ name /\ known -> IF plain THEN pushed ELSE called
            [] ~deep /\ blank -> x
            [] OTHER -> given
  <2>1. Last(e0.work).s = s /\ Last(e0.work).d = d
    OBVIOUS
  <2> QED BY <1>4, <2>1 DEF ExpandTop, Undefined
<1>6. name => ~blank
  OBVIOUS
<1>7. name \/ blank => Weight(s) = 0
  BY DEF Weight
<1> HIDE DEF x, e, e0
<1>8. CASE deep \/ (~name /\ blank)
  <2>1. e = x
    <3> HIDE DEF deep, name, known, blank, undefined, pushed, called, given
    <3> QED BY <1>5, <1>6, <1>8
  <2>2. /\ work' = Front(work) /\ pending' = pending /\ rest' = rest /\ expansion' = expansion
        /\ status' = "running"
    BY <1>1, <1>3, <2>1 DEF Turned
  <2>3. Following'
    BY <1>1, <1>7, <1>8, <2>2, TopDropped
  <2> QED BY <2>2, <2>3 DEF Follows
<1>9. CASE ~deep /\ name /\ ~known
  <2>1. e = undefined
    <3> HIDE DEF deep, name, known, blank, undefined, pushed, called, given
    <3> QED BY <1>5, <1>6, <1>9
  <2>2. e.status = "error"
    BY <2>1 DEF x, Taken
  <2>3. status' = "error"
    BY <1>1, <2>2 DEF Turned
  <2> QED BY <2>3 DEF Follows, Ended
<1>10. CASE ~deep /\ name /\ known /\ plain
  <2>1. e = pushed
    <3> HIDE DEF deep, name, known, blank, undefined, pushed, called, given
    <3> QED BY <1>5, <1>6, <1>10
  <2>2. /\ e.work = Front(work) \o At(macro.body, d + 1) /\ e.pending = pending
        /\ e.lexer = rest /\ e.out = expansion /\ e.status = "ok"
    BY <2>1 DEF x, Taken
  <2>3. /\ work' = Front(work) \o At(macro.body, d + 1) /\ pending' = pending /\ rest' = rest
        /\ expansion' = expansion /\ status' = "running"
    BY <1>1, <2>2 DEF Turned
  <2>4. /\ macro.body \in Seq(Symbols) /\ Balanced(macro.body)
        /\ \A i \in DOMAIN macro.body : ~HasParams(macro.body[i])
    BY <1>10, MacroIs DEF Callable
  <2> DEFINE body == macro.body
  <2>5. body \in Seq(Symbols) /\ Balanced(body) /\ \A i \in 1..Len(body) : ~HasParams(body[i])
    BY <2>4
  <2>6. work' = Front(work) \o At(body, Last(work).d + 1) /\ Last(work).d # MaxDepth
        /\ Weight(Last(work).s) = 0
    BY <1>7, <1>10, <2>3
  <2> HIDE DEF body
  <2>7. Following'
    BY <1>1, <2>3, <2>5, <2>6, TopReplaced
  <2> QED BY <2>3, <2>7 DEF Follows
<1>11. CASE ~deep /\ name /\ known /\ ~plain
  <2>1. e = called
    <3> HIDE DEF deep, name, known, blank, undefined, pushed, called, given
    <3> QED BY <1>5, <1>6, <1>11
  <2> DEFINE c == CollectArguments(pending \o rest, NbParams(macro))
             b == ExpandMacro(c.args, macro)
  <2>2. /\ e.work = Front(work) \o At(b.out, d + 1)
        /\ e.pending = c.nested \o SubSeq(pending, c.used + 1, Len(pending))
        /\ e.lexer = Unused(rest, c, pending) /\ e.out = expansion /\ e.status = b.status
    BY <2>1 DEF x, Taken, ExpandCall, Unused
  <2>5. HasParams(Last(work).s)
    BY <1>11 DEF HasParams
  <2>6. CallAsked(macro, c, b)
    BY DEF CallAsked
  <2>7. PICK m : CallRead(m, c, b)
    <3> HIDE DEF c, b, macro
    <3> QED BY <1>1, <2>5, <2>6, CallReads
  <2>3. CASE b.status = "ok"
    <3>1. status' = "running" /\ expansion' = expansion
      BY <1>1, <2>2, <2>3 DEF Turned
    <3>2. CallTaken(c, b)
      BY <1>1, <2>2, <2>3 DEF Turned, CallTaken
    <3> HIDE DEF c, b, macro
    <3>4. Following'
      BY <1>1, <2>5, <2>7, <3>1, <3>2, CallNext
    <3> QED BY <3>1, <3>4 DEF Follows
  <2>4. CASE b.status # "ok"
    <3>1. b.status \in Endings
      BY <2>7 DEF CallRead
    <3>2. status' \in Ended
      BY <1>1, <2>2, <2>4, <3>1 DEF Turned, Endings, Ended
    <3> QED BY <3>2 DEF Follows, Ended
  <2> QED BY <2>3, <2>4
<1>12. CASE ~deep /\ ~name /\ ~blank
  <2>1. e = given
    <3> HIDE DEF deep, name, known, blank, undefined, pushed, called, given
    <3> QED BY <1>5, <1>6, <1>12
  <2>2. /\ e.work = Front(work) /\ e.pending = pending /\ e.lexer = rest
        /\ e.out = Append(expansion, s) /\ e.status = "ok"
    BY <2>1 DEF x, Taken
  <2>3. /\ work' = Front(work) /\ pending' = pending /\ rest' = rest
        /\ expansion' = Append(expansion, Last(work).s) /\ status' = "running"
    BY <1>1, <2>2 DEF Turned
  <2>4. Following'
    BY <1>1, <1>12, <2>3, TopGiven
  <2> QED BY <2>3, <2>4 DEF Follows
<1> HIDE DEF s, d, macro, undefined, pushed, called, given
<1> QED BY <1>8, <1>9, <1>10, <1>11, <1>12

-----------------------------------------------------------------------------
(* The steps of evaluate.                                                  *)

\* Orderly results have an orderly status.
LEMMA OrderlyStatus ==
    ASSUME NEW r, IsOrderly(r)
    PROVE  r.status \in Orderly
<1>1. PICK x, st : st \in Orderly /\ r = Result(x, st)
  BY DEF IsOrderly
<1> QED BY <1>1 DEF Result

Safe == status # "unreachable" /\ (status = "running" => Following)
EvaluatorInv == Callable(cond) => Safe

\* No parenthesis is processed when an operator is read.
LEMMA OperatorStatus == Following /\ Operator => status' \in Orderly
<1> SUFFICES ASSUME Following, Operator PROVE status' \in Orderly
  OBVIOUS
<1> DEFINE op == Converted(Symbol.name)
           keep == LastStays(ops, op)
<1>1. status' = ProcessAbove(keep).status
  BY DEF Operator, LastStays
<1>2. ops \in Seq(OpNames)
  BY DEF Following, StacksTyped
<1>3. NoneAbove(ops, keep)
  <2> HIDE DEF op
  <2> QED BY <1>2, LastKept
<1> HIDE DEF keep
<1>4. keep \in 0..Len(ops) /\ \A i \in (keep + 1)..Len(ops) : ops[i] # "("
  BY <1>3 DEF NoneAbove
<1>5. IsOrderly(ProcessAbove(keep))
  BY <1>2, <1>4, ProcessAboveIs
<1> QED BY <1>1, <1>5, OrderlyStatus

\* At the end of the condition no parenthesis is left open.
LEMMA ConcludeEnds ==
    ASSUME Following, Conclude
    PROVE  status' \in {"error", "division", "true", "false"}
<1>1. /\ StacksTyped /\ Matched /\ work = <<>> /\ expansion = <<>> /\ rest = <<>>
  BY DEF Following, Conclude, Evaluating
<1>2. ops \in Seq(OpNames)
  BY <1>1 DEF StacksTyped
<1> DEFINE p == OpenParens(ops)
           y == <<>>
<1>3. p \in Seq(Symbols) /\ y \in Seq(Symbols) /\ y \in Seq(OpNames) /\ Len(y) = 0
  BY <1>2, OpensIs
<1>4. Reverse(y) = y
  <2> HIDE DEF y
  <2>1. Reverse(y) \in Seq(Symbols) /\ Len(Reverse(y)) = 0
    BY <1>3, ReverseIs
  <2> QED BY <2>1 DEF y
<1>5. Unread(ops, <<>>, y, y) = p \o (Reverse(y) \o y)
  <2> HIDE DEF y
  <2> QED BY <1>2, <1>3, UnreadIdle
<1>6. Unread(ops, work, expansion, rest) = p
  <2>1. y \o y = y /\ p \o y = p
    BY <1>3
  <2> HIDE DEF p
  <2> QED BY <1>1, <1>4, <1>5, <2>1
<1> HIDE DEF y
<1>7. NoneAbove(ops, 0)
  BY <1>1, <1>2, <1>6, OpensBalanced DEF Matched
<1>8. IsOrderly(ProcessAbove(0))
  <2>1. 0 \in 0..Len(ops) /\ \A i \in (0 + 1)..Len(ops) : ops[i] # "("
    BY <1>2, <1>7 DEF NoneAbove
  <2> QED BY <1>2, <2>1, ProcessAboveIs
<1> DEFINE r == ProcessAbove(0)
<1>9. status' = CASE r.status # "running" -> r.status
                  [] r.status = "running" /\ r.output = <<>> -> "error"
                  [] r.status = "running" /\ r.output # <<>> ->
                       IF Last(r.output) # 0 THEN "true" ELSE "false"
  BY DEF Conclude
<1>10. r.status \in Orderly
  BY <1>8, OrderlyStatus
<1> HIDE DEF r
<1> QED BY <1>9, <1>10 DEF Orderly

\* All of the condition is unread at first.
LEMMA FollowingAtStart == EvaluatorInit /\ Callable(cond) => Following
<1> SUFFICES ASSUME EvaluatorInit, Callable(cond) PROVE Following
  OBVIOUS
<1> DEFINE y == <<>>
<1>1. /\ cond \in Seq(Symbols) /\ rest = cond /\ expansion = y /\ ops = y /\ work = y
      /\ pending = y /\ Len(cond) \in Nat /\ Balanced(cond)
  BY ConditionsAssumption DEF EvaluatorInit, Callable
<1>2. /\ y \in Seq(Symbols) /\ y \in Seq(OpNames) /\ y \in Seq(WorkEntry) /\ Len(y) = 0
  OBVIOUS
<1>3. Pos = 0
  BY <1>1 DEF Pos
<1>4. Reverse(y) = y /\ OpenParens(y) = y
  <2> HIDE DEF y
  <2>1. Reverse(y) \in Seq(Symbols) /\ Len(Reverse(y)) = 0
    BY <1>2, ReverseIs
  <2>2. OpenParens(y) \in Seq(Symbols) /\ Len(OpenParens(y)) = 0
    BY <1>2, OpensIs
  <2> QED BY <2>1, <2>2 DEF y
<1>5. Unread(y, <<>>, y, cond) = OpenParens(y) \o (Reverse(y) \o cond)
  <2> HIDE DEF y
  <2> QED BY <1>1, <1>2, UnreadIdle
<1>6. y \o cond = cond
  BY <1>1
<1>7. Matched
  <2>1. Unread(ops, work, expansion, rest) = cond
    <3>1. Unread(ops, work, expansion, rest) = Unread(y, <<>>, y, cond)
      BY <1>1
    <3> HIDE DEF y
    <3> QED BY <1>4, <1>5, <1>6, <3>1
  <2> QED BY <1>1, <2>1 DEF Matched
<1> HIDE DEF y
<1>8. StacksTyped
  BY <1>1, <1>2 DEF StacksTyped
<1>9. RestIsTail
  BY <1>1, <1>3 DEF RestIsTail
<1>10. NamesGone /\ OneCall
  BY <1>1, <1>2 DEF NamesGone, OneCall
<1>11. NameAsked
  BY <1>3 DEF NameAsked, AfterDefined
<1> QED BY <1>7, <1>8, <1>9, <1>10, <1>11 DEF Following

\* Every step of a run keeps the parentheses matched.
LEMMA SafeNext ==
    ASSUME Following, Callable(cond), EvaluatorNext, status = "running"
    PROVE  Safe'
<1>1. CASE LeftParen
  <2>1. status' = status
    BY <1>1 DEF LeftParen
  <2> QED BY <1>1, <2>1, LeftParenNext DEF Safe
<1>2. CASE RightParen
  BY <1>2, RightParenNext DEF Safe, Orderly
<1>3. CASE Defined \/ Literal \/ Ignored
  <2>1. /\ More /\ Advance /\ NoExpansion /\ UNCHANGED ops /\ status' = status
        /\ Symbol.kind \in {"defined", "int", "newline", "comment"}
        /\ Symbol.kind = "defined" => looking'
    BY <1>3 DEF Defined, Literal, Ignored
  <2>2. Following'
    BY <2>1, NeutralNext
  <2> QED BY <2>1, <2>2 DEF Safe
<1>4. CASE Operator
  BY <1>4, OperatorNext, OperatorStatus DEF Safe, Orderly
<1>5. CASE Unsupported
  <2>1. status' = "error"
    BY <1>5 DEF Unsupported
  <2> QED BY <2>1 DEF Safe
<1>6. CASE LookUp
  <2>1. /\ More /\ Advance /\ NoExpansion /\ UNCHANGED ops /\ status' = status
        /\ Symbol.kind \in {"ident", "comma", "keyword", "continuation"}
    BY <1>6 DEF LookUp, Other
  <2>2. Following'
    BY <2>1, NeutralNext
  <2> QED BY <2>1, <2>2 DEF Safe
<1>7. CASE Expand
  <2>1. status' = status
    BY <1>7 DEF Expand
  <2> QED BY <1>7, <2>1, ExpandStarts DEF Safe
<1>8. CASE ExpandNext
  BY <1>8, ExpandNextFollows DEF Follows, Ended, Safe
<1>9. CASE Conclude
  BY <1>9, ConcludeEnds DEF Safe
<1>10. CASE Done
  BY <1>10 DEF Done
<1> QED BY <1>1, <1>2, <1>3, <1>4, <1>5, <1>6, <1>7, <1>8, <1>9, <1>10 DEF EvaluatorNext

\* The invariant is inductive.
LEMMA EvaluatorInvInductive == EvaluatorInv /\ [EvaluatorNext]_evaluatorVars => EvaluatorInv'
<1> SUFFICES ASSUME EvaluatorInv, [EvaluatorNext]_evaluatorVars, Callable(cond') PROVE Safe'
  BY DEF EvaluatorInv
<1>1. cond' = cond
  BY DEF EvaluatorNext, LeftParen, RightParen, Defined, Operator, Literal, Unsupported, Ignored,
         LookUp, Expand, ExpandNext, Conclude, Done, Advance, evaluatorVars
<1>2. Callable(cond) /\ Safe
  BY <1>1 DEF EvaluatorInv
<1>3. CASE UNCHANGED evaluatorVars
  BY <1>2, <1>3 DEF evaluatorVars, Safe, Following, StacksTyped, RestIsTail, NamesGone, Matched,
                    OneCall, CallWaits, NameAsked, Pos
<1>4. CASE EvaluatorNext /\ status = "running"
  BY <1>2, <1>4, SafeNext DEF Safe
<1>5. CASE EvaluatorNext /\ status # "running"
  <2>1. Done
    BY <1>5 DEF EvaluatorNext, LeftParen, RightParen, Defined, Operator, Literal, Unsupported,
                Ignored, LookUp, Expand, ExpandNext, Conclude, More, Evaluating
  <2>2. UNCHANGED evaluatorVars
    BY <2>1 DEF Done
  <2> QED BY <1>3, <2>2
<1> QED BY <1>3, <1>4, <1>5

(* BalancedIsSafe. *)
THEOREM BalancedAlwaysSafe == EvaluatorSpec => []BalancedIsSafe
<1>1. EvaluatorInit => EvaluatorInv
  BY FollowingAtStart DEF EvaluatorInv, Safe, EvaluatorInit
<1>2. EvaluatorInv => BalancedIsSafe
  BY DEF EvaluatorInv, Safe, BalancedIsSafe, Callable
<1> QED BY <1>1, <1>2, EvaluatorInvInductive, PTL DEF EvaluatorSpec
=============================================================================
