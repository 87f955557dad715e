--------------------------- MODULE TextSync_proofs ---------------------------
(***************************************************************************)
(* Proofs about TextSync, for every text, every edit of one or two changes *)
(* and every order of notifications and of changes of the file.            *)
(***************************************************************************)
EXTENDS TextSync, Induction

-----------------------------------------------------------------------------
(* The folds of the module, one element at a time.                         *)

\* A character of one byte is one unit for the client, and Utf16Len gives the
\* units of a wide one from its bytes.
LEMMA CharKinds ==
    ASSUME NEW c \in Char
    PROVE  /\ Utf8[c] \in {1, 2, 4} /\ Utf16[c] \in {1, 2} /\ Utf16[c] <= Utf8[c]
           /\ Utf8[c] = 1 => Utf16[c] = 1
           /\ Utf8[c] # 1 => Utf16[c] = IF Utf8[c] = 4 THEN 2 ELSE 1
           /\ c = "newline" => Utf8[c] = 1
<1>1. c \in {"ascii", "latin", "emoji", "newline"}
  BY DEF Char, Utf8
<1> QED BY <1>1 DEF Utf8, Utf16

BytesStep == [p \in Nat \X Char |-> p[1] + Utf8[p[2]]]

\* Bytes is a fold.
LEMMA BytesFold ==
    ASSUME NEW s \in Text
    PROVE  FoldsTo(Nat, 0, BytesStep, s, Bytes(s))
<1> DEFINE D == SUBSET DOMAIN s
           E(it) == it = [q \in D |-> IF q = {} THEN 0 ELSE it[q \ {Max(q)}] + Utf8[s[Max(q)]]]
           fold == CHOOSE it : E(it)
<1>1. s \in Seq(Char) /\ 0 \in Nat
  BY DEF Text
<1>2. BytesStep \in [Nat \X Char -> Nat]
  BY CharKinds DEF BytesStep
<1>3. PICK f \in [D -> Nat] : FoldsSets(Nat, 0, BytesStep, s, f)
  BY <1>1, <1>2, FoldExists
<1>4. E(f)
  <2>1. \A q \in D : f[q] = IF q = {} THEN 0 ELSE f[q \ {Max(q)}] + Utf8[s[Max(q)]]
    BY <1>1, <1>3, TakesApart DEF FoldsSets, BytesStep
  <2> QED BY <2>1
<1>5. E(fold)
  <2> HIDE DEF E
  <2> QED BY <1>4
<1>6. FoldsSets(Nat, 0, BytesStep, s, fold)
  <2> HIDE DEF fold
  <2>1. \A q \in D : fold[q] = IF q = {} THEN 0 ELSE fold[q \ {Max(q)}] + Utf8[s[Max(q)]]
    BY <1>5
  <2> QED BY <1>1, <2>1, TakesApart DEF FoldsSets, BytesStep
<1>7. Bytes(s) = fold[DOMAIN s]
  BY DEF Bytes, FoldLeft, MapThenFoldSet
<1>8. FoldsTo(Nat, 0, BytesStep, s, fold[DOMAIN s])
  <2> HIDE DEF fold
  <2> QED BY <1>1, <1>2, <1>6, FoldOfSets
<1> QED BY <1>7, <1>8

\* The bytes of a text, of one character more at a time.
LEMMA BytesAppend ==
    ASSUME NEW s \in Text
    PROVE  /\ Bytes(<<>>) = 0 /\ Bytes(s) \in Nat
           /\ \A c \in Char : Bytes(Append(s, c)) = Bytes(s) + Utf8[c]
<1>1. <<>> \in Text /\ s \in Seq(Char) /\ \A c \in Char : Append(s, c) \in Text
  BY DEF Text
<1>2. BytesStep \in [Nat \X Char -> Nat] /\ 0 \in Nat
  BY CharKinds DEF BytesStep
<1>3. Bytes(<<>>) = 0
  BY <1>1, BytesFold, FoldOfNothing
<1>4. ASSUME NEW c \in Char
      PROVE  Bytes(s) \in Nat /\ Bytes(Append(s, c)) = Bytes(s) + Utf8[c]
  <2>1. /\ FoldsTo(Nat, 0, BytesStep, s, Bytes(s))
        /\ FoldsTo(Nat, 0, BytesStep, Append(s, c), Bytes(Append(s, c)))
    BY <1>1, BytesFold
  <2>2. OneStep(Nat, BytesStep, Bytes(s), c, Bytes(Append(s, c)))
    BY <1>1, <1>2, <2>1, FoldOfAppend
  <2> QED BY <2>2 DEF OneStep, BytesStep
<1>5. "ascii" \in Char
  BY DEF Char, Utf8
<1> QED BY <1>3, <1>4, <1>5

\* The units in which the client counts characters.
Units(s) == FoldLeft(LAMBDA k, c : k + Utf16[c], 0, s)

UnitsStep == [p \in Nat \X Char |-> p[1] + Utf16[p[2]]]

\* Units is a fold.
LEMMA UnitsFold ==
    ASSUME NEW s \in Text
    PROVE  FoldsTo(Nat, 0, UnitsStep, s, Units(s))
<1> DEFINE D == SUBSET DOMAIN s
           E(it) == it = [q \in D |->
                            IF q = {} THEN 0
                            ELSE it[q \ {Max(q)}] + Utf16[s[Max(q)]]]
           fold == CHOOSE it : E(it)
<1>1. s \in Seq(Char) /\ 0 \in Nat
  BY DEF Text
<1>2. UnitsStep \in [Nat \X Char -> Nat]
  BY CharKinds DEF UnitsStep
<1>3. PICK f \in [D -> Nat] : FoldsSets(Nat, 0, UnitsStep, s, f)
  BY <1>1, <1>2, FoldExists
<1>4. E(f)
  <2>1. \A q \in D : f[q] = IF q = {} THEN 0
                            ELSE f[q \ {Max(q)}] + Utf16[s[Max(q)]]
    BY <1>1, <1>3, TakesApart DEF FoldsSets, UnitsStep
  <2> QED BY <2>1
<1>5. E(fold)
  <2> HIDE DEF E
  <2> QED BY <1>4
<1>6. FoldsSets(Nat, 0, UnitsStep, s, fold)
  <2> HIDE DEF fold
  <2>1. \A q \in D : fold[q] = IF q = {} THEN 0
                               ELSE fold[q \ {Max(q)}] + Utf16[s[Max(q)]]
    BY <1>5
  <2> QED BY <1>1, <2>1, TakesApart DEF FoldsSets, UnitsStep
<1>7. Units(s) = fold[DOMAIN s]
  BY DEF Units, FoldLeft, MapThenFoldSet
<1>8. FoldsTo(Nat, 0, UnitsStep, s, fold[DOMAIN s])
  <2> HIDE DEF fold
  <2> QED BY <1>1, <1>2, <1>6, FoldOfSets
<1> QED BY <1>7, <1>8

\* The units of a text, of one character more at a time.
LEMMA UnitsAppend ==
    ASSUME NEW s \in Text
    PROVE  /\ Units(<<>>) = 0 /\ Units(s) \in Nat
           /\ \A c \in Char : Units(Append(s, c)) = Units(s) + Utf16[c]
<1>1. <<>> \in Text /\ s \in Seq(Char) /\ \A c \in Char : Append(s, c) \in Text
  BY DEF Text
<1>2. UnitsStep \in [Nat \X Char -> Nat] /\ 0 \in Nat
  BY CharKinds DEF UnitsStep
<1>3. Units(<<>>) = 0
  BY <1>1, UnitsFold, FoldOfNothing
<1>4. ASSUME NEW c \in Char
      PROVE  Units(s) \in Nat /\ Units(Append(s, c)) = Units(s) + Utf16[c]
  <2>1. /\ FoldsTo(Nat, 0, UnitsStep, s, Units(s))
        /\ FoldsTo(Nat, 0, UnitsStep, Append(s, c), Units(Append(s, c)))
    BY <1>1, UnitsFold
  <2>2. OneStep(Nat, UnitsStep, Units(s), c, Units(Append(s, c)))
    BY <1>1, <1>2, <2>1, FoldOfAppend
  <2> QED BY <2>2 DEF OneStep, UnitsStep
<1>5. "ascii" \in Char
  BY DEF Char, Utf8
<1> QED BY <1>3, <1>4, <1>5

\* The wide characters of a line, and the columns past them.
Wide == [start : Nat, end : Nat]

LEMMA WideLengths == \A w \in Wide : Utf16Len(w) \in {1, 2}
  BY DEF Utf16Len, Wide

ToUtf8(s, column) ==
    FoldLeft(LAMBDA col, w : IF col > w.start THEN col + w.end - w.start - Utf16Len(w) ELSE col,
             column, s)

Utf8Step == [p \in Int \X Wide |->
                IF p[1] > p[2].start THEN p[1] + p[2].end - p[2].start - Utf16Len(p[2])
                ELSE p[1]]

\* What one wide character does to a column.
LEMMA Utf8StepTyped ==
    Utf8Step \in [Int \X Wide -> Int]
<1>1. ASSUME NEW p \in Int \X Wide PROVE Utf8Step[p] \in Int
  <2>1. p[1] \in Int /\ p[2] \in Wide
    OBVIOUS
  <2>2. p[2].start \in Int /\ p[2].end \in Int
    BY <2>1 DEF Wide
  <2>3. Utf16Len(p[2]) \in Int
    BY <2>1, WideLengths
  <2>4. Utf8Step[p] = IF p[1] > p[2].start THEN p[1] + p[2].end - p[2].start - Utf16Len(p[2]) ELSE p[1]
    BY DEF Utf8Step
  <2> QED BY <2>1, <2>2, <2>3, <2>4
<1> QED BY <1>1 DEF Utf8Step

\* Passing the column of the client over a line is a fold.
LEMMA Utf8Fold ==
    ASSUME NEW s \in Seq(Wide), NEW column \in Int
    PROVE  FoldsTo(Int, column, Utf8Step, s, ToUtf8(s, column))
<1> DEFINE D == SUBSET DOMAIN s
           E(it) == it = [q \in D |->
                            IF q = {} THEN column
                            ELSE IF it[q \ {Max(q)}] > s[Max(q)].start
                                 THEN it[q \ {Max(q)}] + s[Max(q)].end - s[Max(q)].start
                                        - Utf16Len(s[Max(q)])
                                 ELSE it[q \ {Max(q)}]]
           fold == CHOOSE it : E(it)
<1>1. s \in Seq(Wide) /\ column \in Int
  BY DEF Wide
<1>2. Utf8Step \in [Int \X Wide -> Int]
  BY Utf8StepTyped
<1>3. PICK f \in [D -> Int] : FoldsSets(Int, column, Utf8Step, s, f)
  BY <1>1, <1>2, FoldExists
<1>4. E(f)
  <2>1. \A q \in D : f[q] = IF q = {} THEN column
                            ELSE IF f[q \ {Max(q)}] > s[Max(q)].start
                                 THEN f[q \ {Max(q)}] + s[Max(q)].end - s[Max(q)].start
                                        - Utf16Len(s[Max(q)])
                                 ELSE f[q \ {Max(q)}]
    BY <1>1, <1>3, TakesApart DEF FoldsSets, Utf8Step
  <2> QED BY <2>1
<1>5. E(fold)
  <2> HIDE DEF E
  <2> QED BY <1>4
<1>6. FoldsSets(Int, column, Utf8Step, s, fold)
  <2> HIDE DEF fold
  <2>1. \A q \in D : fold[q] = IF q = {} THEN column
                               ELSE IF fold[q \ {Max(q)}] > s[Max(q)].start
                                 THEN fold[q \ {Max(q)}] + s[Max(q)].end - s[Max(q)].start
                                        - Utf16Len(s[Max(q)])
                                 ELSE fold[q \ {Max(q)}]
    BY <1>5
  <2> QED BY <1>1, <2>1, TakesApart DEF FoldsSets, Utf8Step
<1>7. ToUtf8(s, column) = fold[DOMAIN s]
  BY DEF ToUtf8, FoldLeft, MapThenFoldSet
<1>8. FoldsTo(Int, column, Utf8Step, s, fold[DOMAIN s])
  <2> HIDE DEF fold
  <2> QED BY <1>1, <1>2, <1>6, FoldOfSets
<1> QED BY <1>7, <1>8

\* A line with one wide character more.
LEMMA Utf8Append ==
    ASSUME NEW s \in Seq(Wide), NEW column \in Int
    PROVE  /\ ToUtf8(<<>>, column) = column /\ ToUtf8(s, column) \in Int
           /\ \A w \in Wide : ToUtf8(Append(s, w), column)
                                = IF ToUtf8(s, column) > w.start
                                  THEN ToUtf8(s, column) + w.end - w.start - Utf16Len(w)
                                  ELSE ToUtf8(s, column)
<1>1. <<>> \in Seq(Wide) /\ \A w \in Wide : Append(s, w) \in Seq(Wide)
  OBVIOUS
<1>2. Utf8Step \in [Int \X Wide -> Int]
  BY Utf8StepTyped
<1>3. ToUtf8(<<>>, column) = column
  BY <1>1, Utf8Fold, FoldOfNothing
<1>4. ASSUME NEW w \in Wide
      PROVE  ToUtf8(s, column) \in Int
                /\ ToUtf8(Append(s, w), column) = Utf8Step[<<ToUtf8(s, column), w>>]
  <2>1. /\ FoldsTo(Int, column, Utf8Step, s, ToUtf8(s, column))
        /\ FoldsTo(Int, column, Utf8Step, Append(s, w), ToUtf8(Append(s, w), column))
    BY <1>1, Utf8Fold
  <2>2. OneStep(Int, Utf8Step, ToUtf8(s, column), w, ToUtf8(Append(s, w), column))
    BY <1>1, <1>2, <2>1, FoldOfAppend
  <2> QED BY <2>2 DEF OneStep
<1>5. [start |-> 0, end |-> 0] \in Wide
  BY DEF Wide
<1> QED BY <1>3, <1>4, <1>5 DEF Utf8Step

ToUtf16(s, column) ==
    FoldLeft(LAMBDA col, w : IF w.end <= column THEN col - (w.end - w.start - Utf16Len(w)) ELSE col,
             column, s)

Utf16Step(column) == [p \in Int \X Wide |->
                        IF p[2].end <= column
                        THEN p[1] - (p[2].end - p[2].start - Utf16Len(p[2]))
                        ELSE p[1]]

\* What one wide character does to a column.
LEMMA Utf16StepTyped ==
    ASSUME NEW column \in Int
    PROVE  Utf16Step(column) \in [Int \X Wide -> Int]
<1>1. ASSUME NEW p \in Int \X Wide PROVE Utf16Step(column)[p] \in Int
  <2>1. p[1] \in Int /\ p[2] \in Wide
    OBVIOUS
  <2>2. p[2].start \in Int /\ p[2].end \in Int
    BY <2>1 DEF Wide
  <2>3. Utf16Len(p[2]) \in Int
    BY <2>1, WideLengths
  <2>4. Utf16Step(column)[p] = IF p[2].end <= column THEN p[1] - (p[2].end - p[2].start - Utf16Len(p[2])) ELSE p[1]
    BY DEF Utf16Step
  <2> QED BY <2>1, <2>2, <2>3, <2>4
<1> QED BY <1>1 DEF Utf16Step

\* Taking the wide characters off a column of the store is a fold.
LEMMA Utf16Fold ==
    ASSUME NEW s \in Seq(Wide), NEW column \in Int
    PROVE  FoldsTo(Int, column, Utf16Step(column), s, ToUtf16(s, column))
<1> DEFINE D == SUBSET DOMAIN s
           E(it) == it = [q \in D |->
                            IF q = {} THEN column
                            ELSE IF s[Max(q)].end <= column
                                 THEN it[q \ {Max(q)}] - (s[Max(q)].end - s[Max(q)].start
                                        - Utf16Len(s[Max(q)]))
                                 ELSE it[q \ {Max(q)}]]
           fold == CHOOSE it : E(it)
<1>1. s \in Seq(Wide) /\ column \in Int
  BY DEF Wide
<1>2. Utf16Step(column) \in [Int \X Wide -> Int]
  BY Utf16StepTyped
<1>3. PICK f \in [D -> Int] : FoldsSets(Int, column, Utf16Step(column), s, f)
  BY <1>1, <1>2, FoldExists
<1>4. E(f)
  <2>1. \A q \in D : f[q] = IF q = {} THEN column
                            ELSE IF s[Max(q)].end <= column
                                 THEN f[q \ {Max(q)}] - (s[Max(q)].end - s[Max(q)].start
                                        - Utf16Len(s[Max(q)]))
                                 ELSE f[q \ {Max(q)}]
    BY <1>1, <1>3, TakesApart DEF FoldsSets, Utf16Step
  <2> QED BY <2>1
<1>5. E(fold)
  <2> HIDE DEF E
  <2> QED BY <1>4
<1>6. FoldsSets(Int, column, Utf16Step(column), s, fold)
  <2> HIDE DEF fold
  <2>1. \A q \in D : fold[q] = IF q = {} THEN column
                               ELSE IF s[Max(q)].end <= column
                                 THEN fold[q \ {Max(q)}] - (s[Max(q)].end - s[Max(q)].start
                                        - Utf16Len(s[Max(q)]))
                                 ELSE fold[q \ {Max(q)}]
    BY <1>5
  <2> QED BY <1>1, <2>1, TakesApart DEF FoldsSets, Utf16Step
<1>7. ToUtf16(s, column) = fold[DOMAIN s]
  BY DEF ToUtf16, FoldLeft, MapThenFoldSet
<1>8. FoldsTo(Int, column, Utf16Step(column), s, fold[DOMAIN s])
  <2> HIDE DEF fold
  <2> QED BY <1>1, <1>2, <1>6, FoldOfSets
<1> QED BY <1>7, <1>8

\* A line with one wide character more.
LEMMA Utf16Append ==
    ASSUME NEW s \in Seq(Wide), NEW column \in Int
    PROVE  /\ ToUtf16(<<>>, column) = column /\ ToUtf16(s, column) \in Int
           /\ \A w \in Wide : ToUtf16(Append(s, w), column)
                                = IF w.end <= column
                                  THEN ToUtf16(s, column) - (w.end - w.start - Utf16Len(w))
                                  ELSE ToUtf16(s, column)
<1>1. <<>> \in Seq(Wide) /\ \A w \in Wide : Append(s, w) \in Seq(Wide)
  OBVIOUS
<1>2. Utf16Step(column) \in [Int \X Wide -> Int]
  BY Utf16StepTyped
<1>3. ToUtf16(<<>>, column) = column
  BY <1>1, Utf16Fold, FoldOfNothing
<1>4. ASSUME NEW w \in Wide
      PROVE  ToUtf16(s, column) \in Int
                /\ ToUtf16(Append(s, w), column) = Utf16Step(column)[<<ToUtf16(s, column), w>>]
  <2>1. /\ FoldsTo(Int, column, Utf16Step(column), s, ToUtf16(s, column))
        /\ FoldsTo(Int, column, Utf16Step(column), Append(s, w), ToUtf16(Append(s, w), column))
    BY <1>1, Utf16Fold
  <2>2. OneStep(Int, Utf16Step(column), ToUtf16(s, column), w, ToUtf16(Append(s, w), column))
    BY <1>1, <1>2, <2>1, FoldOfAppend
  <2> QED BY <2>2 DEF OneStep
<1>5. [start |-> 0, end |-> 0] \in Wide
  BY DEF Wide
<1> QED BY <1>3, <1>4, <1>5 DEF Utf16Step


\* The index of a text, character by character.
Index == [row : Nat, col : Nat, newlines : Seq(Nat), wide : Seq(Seq(Wide)) \ {<<>>}]

WideAt(x, c) == [start |-> x.col, end |-> x.col + Utf8[c]]

\* y is the index x with the character c.
Added(x, c, y) ==
    /\ y \in Index
    /\ y.row = x.row + Utf8[c]
    /\ c = "newline" => /\ y.col = 0
                        /\ y.newlines = Append(x.newlines, x.row + Utf8[c])
                        /\ y.wide = Append(x.wide, <<>>)
    /\ c # "newline" => /\ y.col = x.col + Utf8[c]
                        /\ y.newlines = x.newlines
                        /\ DOMAIN y.wide = DOMAIN x.wide
                        /\ \A k \in DOMAIN x.wide : k # Len(x.wide) => y.wide[k] = x.wide[k]
                        /\ y.wide[Len(x.wide)] =
                              IF Utf8[c] = 1 THEN x.wide[Len(x.wide)]
                              ELSE Append(x.wide[Len(x.wide)], WideAt(x, c))

LEMMA NewIndexTyped == NewIndex \in Index
<1>1. <<0>> \in Seq(Nat) /\ <<<<>>>> \in Seq(Seq(Wide)) /\ <<<<>>>> # <<>>
  OBVIOUS
<1> QED BY <1>1 DEF NewIndex, Index

LEMMA AddCharAdds ==
    ASSUME NEW x \in Index, NEW c \in Char
    PROVE  Added(x, c, AddChar(x, c))
<1> DEFINE line == Len(x.wide)
           y == AddChar(x, c)
<1>1. /\ x.row \in Nat /\ x.col \in Nat /\ x.newlines \in Seq(Nat)
      /\ x.wide \in Seq(Seq(Wide)) /\ x.wide # <<>>
      /\ DOMAIN x = {"row", "col", "newlines", "wide"}
  BY DEF Index
<1>2. line \in Nat /\ line # 0 /\ DOMAIN x.wide = 1..line
  BY <1>1
<1>3. line \in DOMAIN x.wide /\ x.wide[line] \in Seq(Wide)
  BY <1>1, <1>2
<1>4. x.row + Utf8[c] \in Nat /\ x.col + Utf8[c] \in Nat
  <2>1. Utf8[c] \in Nat
    BY CharKinds
  <2> QED BY <1>1, <2>1
<1>5. CASE c = "newline"
  <2>1. y = [row |-> x.row + Utf8[c], col |-> 0,
             newlines |-> Append(x.newlines, x.row + Utf8[c]), wide |-> Append(x.wide, <<>>)]
    BY <1>5 DEF AddChar
  <2>2. Append(x.newlines, x.row + Utf8[c]) \in Seq(Nat)
    BY <1>1, <1>4
  <2>3. Append(x.wide, <<>>) \in Seq(Seq(Wide)) /\ Append(x.wide, <<>>) # <<>>
    <3>1. <<>> \in Seq(Wide)
      OBVIOUS
    <3>2. Append(x.wide, <<>>) \in Seq(Seq(Wide)) /\ Len(Append(x.wide, <<>>)) = line + 1
      BY <1>1, <3>1
    <3> QED BY <1>2, <3>2
  <2>4. y \in Index
    BY <1>4, <2>1, <2>2, <2>3 DEF Index
  <2> QED BY <1>5, <2>1, <2>4 DEF Added
<1>6. CASE c # "newline"
  <2> DEFINE last == IF Utf8[c] = 1 THEN x.wide[line] ELSE Append(x.wide[line], WideAt(x, c))
             wide == [x.wide EXCEPT ![line] = last]
  <2>1. y = [x EXCEPT !.row = x.row + Utf8[c], !.col = x.col + Utf8[c], !.wide = wide]
    BY <1>6, <1>1 DEF AddChar, WideAt
  <2>2. last \in Seq(Wide)
    <3>1. WideAt(x, c) \in Wide
      BY <1>1, <1>4 DEF WideAt, Wide
    <3> QED BY <1>3, <3>1
  <2>3. wide \in Seq(Seq(Wide)) /\ wide # <<>> /\ DOMAIN wide = DOMAIN x.wide
    <3> HIDE DEF last
    <3>1. DOMAIN wide = 1..line /\ \A k \in 1..line : wide[k] \in Seq(Wide)
      BY <1>1, <1>2, <2>2
    <3> QED BY <1>1, <1>2, <2>2, <3>1
  <2>4. /\ DOMAIN y = {"row", "col", "newlines", "wide"}
        /\ y.row = x.row + Utf8[c] /\ y.col = x.col + Utf8[c]
        /\ y.newlines = x.newlines /\ y.wide = wide
    <3> HIDE DEF wide, y
    <3> QED BY <1>1, <2>1
  <2>5. y \in Index
    <3> HIDE DEF wide, y
    <3>1. y = [row |-> y.row, col |-> y.col, newlines |-> y.newlines, wide |-> y.wide]
      BY <1>1, <2>1
    <3> QED BY <1>1, <1>4, <2>3, <2>4, <3>1 DEF Index
  <2>6. /\ \A k \in DOMAIN x.wide : k # line => wide[k] = x.wide[k]
        /\ wide[line] = last
    BY <1>3
  <2>7. Added(x, c, y)
    <3> HIDE DEF y, wide
    <3> QED BY <1>6, <2>3, <2>4, <2>5, <2>6 DEF Added
  <2> QED BY <2>7
<1> QED BY <1>5, <1>6

LEMMA AddCharTyped == \A x \in Index, c \in Char : AddChar(x, c) \in Index
  BY AddCharAdds DEF Added

IndexStep == [p \in Index \X Char |-> AddChar(p[1], p[2])]

\* LineIndex is a fold.
LEMMA IndexFold ==
    ASSUME NEW s \in Text
    PROVE  FoldsTo(Index, NewIndex, IndexStep, s, LineIndex(s))
<1> DEFINE D == SUBSET DOMAIN s
           E(it) == it = [q \in D |->
                            IF q = {} THEN NewIndex
                            ELSE AddChar(it[q \ {Max(q)}], s[Max(q)])]
           fold == CHOOSE it : E(it)
<1>1. s \in Seq(Char) /\ NewIndex \in Index
  BY NewIndexTyped DEF Text
<1>2. IndexStep \in [Index \X Char -> Index]
  BY AddCharTyped DEF IndexStep
<1>3. PICK f \in [D -> Index] : FoldsSets(Index, NewIndex, IndexStep, s, f)
  BY <1>1, <1>2, FoldExists
<1>4. E(f)
  <2>1. \A q \in D : f[q] = IF q = {} THEN NewIndex
                            ELSE AddChar(f[q \ {Max(q)}], s[Max(q)])
    BY <1>1, <1>3, TakesApart DEF FoldsSets, IndexStep
  <2> QED BY <2>1
<1>5. E(fold)
  <2> HIDE DEF E
  <2> QED BY <1>4
<1>6. FoldsSets(Index, NewIndex, IndexStep, s, fold)
  <2> HIDE DEF fold
  <2>1. \A q \in D : fold[q] = IF q = {} THEN NewIndex
                               ELSE AddChar(fold[q \ {Max(q)}], s[Max(q)])
    BY <1>5
  <2> QED BY <1>1, <2>1, TakesApart DEF FoldsSets, IndexStep
<1>7. LineIndex(s) = fold[DOMAIN s]
  BY DEF LineIndex, FoldLeft, MapThenFoldSet
<1>8. FoldsTo(Index, NewIndex, IndexStep, s, fold[DOMAIN s])
  <2> HIDE DEF fold
  <2> QED BY <1>1, <1>2, <1>6, FoldOfSets
<1> QED BY <1>7, <1>8

\* The index of a text with one character more.
LEMMA LineIndexAppend ==
    ASSUME NEW s \in Text
    PROVE  /\ LineIndex(<<>>) = NewIndex /\ LineIndex(s) \in Index
           /\ \A c \in Char : Added(LineIndex(s), c, LineIndex(Append(s, c)))
<1>1. <<>> \in Text /\ s \in Seq(Char) /\ \A c \in Char : Append(s, c) \in Text
  BY DEF Text
<1>2. IndexStep \in [Index \X Char -> Index] /\ NewIndex \in Index
  BY AddCharTyped, NewIndexTyped DEF IndexStep
<1>3. LineIndex(<<>>) = NewIndex
  BY <1>1, IndexFold, FoldOfNothing
<1>4. ASSUME NEW c \in Char
      PROVE  LineIndex(s) \in Index /\ Added(LineIndex(s), c, LineIndex(Append(s, c)))
  <2>1. /\ FoldsTo(Index, NewIndex, IndexStep, s, LineIndex(s))
        /\ FoldsTo(Index, NewIndex, IndexStep, Append(s, c), LineIndex(Append(s, c)))
    BY <1>1, IndexFold
  <2>2. OneStep(Index, IndexStep, LineIndex(s), c, LineIndex(Append(s, c)))
    BY <1>1, <1>2, <2>1, FoldOfAppend
  <2>3. LineIndex(s) \in Index /\ LineIndex(Append(s, c)) = AddChar(LineIndex(s), c)
    BY <2>2 DEF OneStep, IndexStep
  <2> QED BY <2>3, AddCharAdds
<1>5. "ascii" \in Char
  BY DEF Char, Utf8
<1> QED BY <1>3, <1>4, <1>5

-----------------------------------------------------------------------------
(* The places of a text.  The first n characters of t end at the offset    *)
(* Off(t, n) of the store, and at the column Column(t, n) of the client in *)
(* line LineOf(t, n), that starts after LineStart(t, n) characters.        *)

Prefix(t, n) == SubSeq(t, 1, n)
Off(t, n) == Bytes(Prefix(t, n))
Ends(t, n) == {i \in 1..n : t[i] = "newline"}
LineOf(t, n) == Cardinality(Ends(t, n))
StartAfter(ends) == IF ends = {} THEN 0 ELSE CHOOSE i \in ends : \A j \in ends : j <= i
LineStart(t, n) == StartAfter(Ends(t, n))
Column(t, n) == Units(SubSeq(t, LineStart(t, n) + 1, n))

LEMMA PositionIs ==
    \A t, n : PositionAt(t, n) = [line |-> LineOf(t, n), character |-> Column(t, n)]
  BY DEF PositionAt, LineOf, Column, LineStart, StartAfter, Ends, Units

LEMMA EndsFinite ==
    ASSUME NEW t, NEW n \in Nat
    PROVE  IsFiniteSet(Ends(t, n)) /\ LineOf(t, n) \in Nat
<1>1. IsFiniteSet(1..n)
  BY FS_Interval
<1>2. Ends(t, n) \subseteq 1..n
  BY DEF Ends
<1> QED BY <1>1, <1>2, FS_Subset, FS_CardinalityType DEF LineOf

\* A line starts after the last end of a line, or with the text.
StartIs(t, n) == LineStart(t, n) \in 0..n /\ \A i \in Ends(t, n) : i <= LineStart(t, n)

LEMMA LineStartIs ==
    ASSUME NEW t, NEW n \in Nat
    PROVE  StartIs(t, n)
<1>1. CASE Ends(t, n) = {}
  BY <1>1 DEF LineStart, StartAfter, StartIs
<1>2. CASE Ends(t, n) # {}
  <2>1. Ends(t, n) \in SUBSET (0..n)
    BY DEF Ends
  <2>2. Max(Ends(t, n)) \in Ends(t, n) /\ \A j \in Ends(t, n) : Max(Ends(t, n)) >= j
    BY <1>2, <2>1, GreatestUpTo
  <2>3. \A j \in Ends(t, n) : j <= Max(Ends(t, n))
    BY <2>1, <2>2
  <2>4. LineStart(t, n) \in Ends(t, n) /\ \A j \in Ends(t, n) : j <= LineStart(t, n)
    BY <1>2, <2>2, <2>3 DEF LineStart, StartAfter
  <2> QED BY <2>1, <2>4 DEF StartIs
<1> QED BY <1>1, <1>2

\* Before any character.
LEMMA AtZero ==
    ASSUME NEW t \in Text
    PROVE  /\ Prefix(t, 0) = <<>> /\ Off(t, 0) = 0 /\ LineOf(t, 0) = 0
           /\ LineStart(t, 0) = 0 /\ Column(t, 0) = 0
<1>1. Ends(t, 0) = {}
  BY DEF Ends
<1>2. Prefix(t, 0) = <<>> /\ SubSeq(t, 1, 0) = <<>>
  BY DEF Prefix, Text
<1>3. <<>> \in Text
  BY DEF Text
<1>4. LineStart(t, 0) = 0
  BY <1>1 DEF LineStart, StartAfter
<1>5. LineOf(t, 0) = 0
  BY <1>1, FS_EmptySet DEF LineOf
<1>6. Bytes(<<>>) = 0 /\ Units(<<>>) = 0
  BY <1>3, BytesAppend, UnitsAppend
<1>7. Off(t, 0) = 0
  BY <1>2, <1>6 DEF Off
<1>8. Column(t, 0) = 0
  <2>1. LineStart(t, 0) + 1 = 1
    BY <1>4
  <2> QED BY <1>2, <1>6, <2>1 DEF Column
<1> QED BY <1>2, <1>4, <1>5, <1>7, <1>8

\* A slice of a text, and the same with the next character.
LEMMA Slices ==
    ASSUME NEW t \in Text, NEW m \in 1..(Len(t) + 1), NEW n \in 0..Len(t), m <= n + 1
    PROVE  /\ SubSeq(t, m, n) \in Text
           /\ n < Len(t) => SubSeq(t, m, n + 1) = Append(SubSeq(t, m, n), t[n + 1])
                            /\ t[n + 1] \in Char
<1>1. t \in Seq(Char) /\ Len(t) \in Nat
  BY DEF Text
<1> QED BY <1>1 DEF Text

\* The next character takes the place further.
Further(t, n) ==
    /\ Prefix(t, n + 1) = Append(Prefix(t, n), t[n + 1])
    /\ Off(t, n) \in Nat /\ Off(t, n + 1) = Off(t, n) + Utf8[t[n + 1]]
    /\ t[n + 1] = "newline" =>
          /\ LineOf(t, n + 1) = LineOf(t, n) + 1
          /\ LineStart(t, n + 1) = n + 1 /\ Column(t, n + 1) = 0
    /\ t[n + 1] # "newline" =>
          /\ LineOf(t, n + 1) = LineOf(t, n) /\ LineStart(t, n + 1) = LineStart(t, n)
          /\ Column(t, n) \in Nat
          /\ Column(t, n + 1) = Column(t, n) + Utf16[t[n + 1]]

LEMMA NextPlace ==
    ASSUME NEW t \in Text, NEW n \in 0..(Len(t) - 1)
    PROVE  Further(t, n)
<1>0. t \in Seq(Char) /\ Len(t) \in Nat /\ n \in Nat /\ n + 1 \in Nat /\ n \in 0..Len(t)
      /\ n + 1 \in 1..Len(t) /\ t[n + 1] \in Char /\ n < Len(t)
  BY DEF Text
<1>1. Prefix(t, n) \in Text /\ Prefix(t, n + 1) = Append(Prefix(t, n), t[n + 1])
  BY <1>0, Slices DEF Prefix
<1>2. Off(t, n) \in Nat /\ Off(t, n + 1) = Off(t, n) + Utf8[t[n + 1]]
  BY <1>0, <1>1, BytesAppend DEF Off
<1>3. CASE t[n + 1] = "newline"
  <2>1. Ends(t, n + 1) = Ends(t, n) \cup {n + 1} /\ n + 1 \notin Ends(t, n)
    BY <1>0, <1>3 DEF Ends
  <2>2. LineOf(t, n + 1) = LineOf(t, n) + 1
    BY <1>0, <2>1, EndsFinite, FS_AddElement DEF LineOf
  <2>3. LineStart(t, n + 1) = n + 1
    <3>1. PICK k \in Nat : k = n + 1
      BY <1>0
    <3>2. LineStart(t, k) \in 0..k /\ \A i \in Ends(t, k) : i <= LineStart(t, k)
      BY LineStartIs DEF StartIs
    <3>3. k \in Ends(t, k)
      BY <2>1, <3>1
    <3>4. k <= LineStart(t, k)
      BY <3>2, <3>3
    <3>5. LineStart(t, k) = k
      BY <3>2, <3>4
    <3> QED BY <3>1, <3>5
  <2>4. Column(t, n + 1) = 0
    <3>1. SubSeq(t, (n + 1) + 1, n + 1) = <<>> /\ <<>> \in Text
      BY <1>0 DEF Text
    <3> QED BY <2>3, <3>1, UnitsAppend DEF Column
  <2> QED BY <1>1, <1>2, <1>3, <2>2, <2>3, <2>4 DEF Further
<1>4. CASE t[n + 1] # "newline"
  <2>1. Ends(t, n + 1) = Ends(t, n)
    BY <1>0, <1>4 DEF Ends
  <2>2. LineOf(t, n + 1) = LineOf(t, n) /\ LineStart(t, n + 1) = LineStart(t, n)
    BY <2>1 DEF LineOf, LineStart
  <2>3. LineStart(t, n) \in 0..n
    BY <1>0, LineStartIs DEF StartIs
  <2>4. LineStart(t, n) + 1 \in 1..(Len(t) + 1) /\ LineStart(t, n) + 1 <= n + 1
    BY <1>0, <2>3
  <2>5. /\ SubSeq(t, LineStart(t, n) + 1, n) \in Text
        /\ SubSeq(t, LineStart(t, n) + 1, n + 1)
              = Append(SubSeq(t, LineStart(t, n) + 1, n), t[n + 1])
    BY <1>0, <2>4, Slices
  <2>6. Column(t, n) \in Nat /\ Column(t, n + 1) = Column(t, n) + Utf16[t[n + 1]]
    BY <1>0, <2>2, <2>5, UnitsAppend DEF Column
  <2> QED BY <1>1, <1>2, <1>4, <2>2, <2>6 DEF Further
<1> QED BY <1>3, <1>4

-----------------------------------------------------------------------------
(* The index of a prefix knows its places.                                 *)

\* w has the wide characters of a line up to the column b of the store, a of
\* the client: both columns go on from there alike.
Translates(w, a, b) ==
    \A d \in Nat : ToUtf8(w, a + d) = b + d /\ ToUtf16(w, b + d) = a + d

\* What v says of the columns before b is what w said.
KeepsBefore(w, v, b) ==
    \A q \in Int : q <= b => /\ ToUtf16(v, q) = ToUtf16(w, q)
                             /\ \A p \in Int : ToUtf8(w, p) = q => ToUtf8(v, p) = q

\* A wide character more on the line takes both columns past it, and leaves what
\* was before it alone.
LEMMA WideGrows ==
    ASSUME NEW w \in Seq(Wide), NEW a \in Nat, NEW b \in Nat, NEW bytes \in {2, 4},
           NEW units \in {1, 2}, units = IF bytes = 4 THEN 2 ELSE 1, Translates(w, a, b)
    PROVE  /\ Translates(Append(w, [start |-> b, end |-> b + bytes]), a + units, b + bytes)
           /\ KeepsBefore(w, Append(w, [start |-> b, end |-> b + bytes]), b)
<1> DEFINE e == [start |-> b, end |-> b + bytes]
           v == Append(w, e)
<1>1. e \in Wide /\ e.start = b /\ e.end = b + bytes
  BY DEF Wide
<1>2. Utf16Len(e) = units
  BY <1>1 DEF Utf16Len
<1>3. ASSUME NEW p \in Int
      PROVE  /\ ToUtf8(w, p) \in Int /\ ToUtf16(w, p) \in Int
             /\ ToUtf8(w, p) > b => ToUtf8(v, p) = ToUtf8(w, p) + bytes - units
             /\ ToUtf8(w, p) <= b => ToUtf8(v, p) = ToUtf8(w, p)
             /\ b + bytes <= p => ToUtf16(v, p) = ToUtf16(w, p) - (bytes - units)
             /\ p <= b => ToUtf16(v, p) = ToUtf16(w, p)
  <2>1. /\ ToUtf8(w, p) \in Int
        /\ ToUtf8(v, p) = IF ToUtf8(w, p) > e.start
                          THEN ToUtf8(w, p) + e.end - e.start - Utf16Len(e)
                          ELSE ToUtf8(w, p)
    <3> HIDE DEF e
    <3> QED BY <1>1, Utf8Append
  <2>2. /\ ToUtf16(w, p) \in Int
        /\ ToUtf16(v, p) = IF e.end <= p
                           THEN ToUtf16(w, p) - (e.end - e.start - Utf16Len(e))
                           ELSE ToUtf16(w, p)
    <3> HIDE DEF e
    <3> QED BY <1>1, Utf16Append
  <2> HIDE DEF e
  <2> QED BY <1>1, <1>2, <2>1, <2>2
<1> HIDE DEF e, v
<1>4. ASSUME NEW d \in Nat
      PROVE  /\ ToUtf8(v, a + units + d) = b + bytes + d
             /\ ToUtf16(v, b + bytes + d) = a + units + d
  <2>1. PICK m \in Nat, k \in Nat : m = units + d /\ k = bytes + d
    OBVIOUS
  <2>2. ToUtf8(w, a + m) = b + m /\ ToUtf16(w, b + k) = a + k
    BY DEF Translates
  <2>3. a + m \in Int /\ b + k \in Int
    OBVIOUS
  <2>4. ToUtf8(v, a + m) = b + k
    <3>1. b + m > b /\ b + m + bytes - units = b + k
      BY <2>1
    <3>2. ToUtf8(v, a + m) = b + m + bytes - units
      BY <1>3, <2>2, <2>3, <3>1
    <3> QED BY <3>1, <3>2
  <2>5. ToUtf16(v, b + k) = a + m
    <3>1. b + bytes <= b + k /\ a + k - (bytes - units) = a + m
      BY <2>1
    <3>2. PICK q \in Int : q = b + k
      BY <2>3
    <3>3. ToUtf16(w, q) = a + k /\ b + bytes <= q
      BY <2>2, <3>1, <3>2
    <3>4. b + bytes <= q => ToUtf16(v, q) = ToUtf16(w, q) - (bytes - units)
      BY <1>3
    <3>5. ToUtf16(v, q) = a + k - (bytes - units)
      BY <3>3, <3>4
    <3> QED BY <3>1, <3>2, <3>5
  <2>6. a + m = a + units + d /\ b + k = b + bytes + d
    BY <2>1
  <2> QED BY <2>4, <2>5, <2>6
<1>5. ASSUME NEW q \in Int, q <= b
      PROVE  /\ ToUtf16(v, q) = ToUtf16(w, q)
             /\ \A p \in Int : ToUtf8(w, p) = q => ToUtf8(v, p) = q
  BY <1>3, <1>5
<1> QED BY <1>4, <1>5 DEF Translates, KeepsBefore, e, v

Grown(w, b, c) == IF Utf8[c] = 1 THEN w ELSE Append(w, [start |-> b, end |-> b + Utf8[c]])

\* The same for any character but the end of the line.
LEMMA LineGrows ==
    ASSUME NEW w \in Seq(Wide), NEW a \in Nat, NEW b \in Nat, NEW c \in Char,
           Translates(w, a, b)
    PROVE  /\ Translates(Grown(w, b, c), a + Utf16[c], b + Utf8[c])
           /\ KeepsBefore(w, Grown(w, b, c), b)
<1>1. CASE Utf8[c] = 1
  <2>1. Grown(w, b, c) = w /\ Utf16[c] = 1
    BY <1>1, CharKinds DEF Grown
  <2>2. ASSUME NEW d \in Nat
        PROVE  ToUtf8(w, a + 1 + d) = b + 1 + d /\ ToUtf16(w, b + 1 + d) = a + 1 + d
    <3>1. PICK e \in Nat : e = 1 + d
      OBVIOUS
    <3>2. ToUtf8(w, a + e) = b + e /\ ToUtf16(w, b + e) = a + e
      BY DEF Translates
    <3>3. a + e = a + 1 + d /\ b + e = b + 1 + d
      BY <3>1
    <3> QED BY <3>2, <3>3
  <2> QED BY <1>1, <2>1, <2>2 DEF Translates, KeepsBefore
<1>2. CASE Utf8[c] # 1
  <2>1. Utf8[c] \in {2, 4} /\ Utf16[c] \in {1, 2} /\ Utf16[c] = (IF Utf8[c] = 4 THEN 2 ELSE 1)
    BY <1>2, CharKinds
  <2> QED BY <1>2, <2>1, WideGrows DEF Grown
<1> QED BY <1>1, <1>2

\* The columns of a line that is empty.
LEMMA EmptyTranslates == Translates(<<>>, 0, 0)
<1>1. <<>> \in Seq(Wide) /\ \A d \in Nat : 0 + d = d /\ d \in Int
  OBVIOUS
<1> QED BY <1>1, Utf8Append, Utf16Append DEF Translates

Inside(t, n) == Off(t, n) - Off(t, LineStart(t, n))

\* x is the index of the first i characters.
Known(t, i, x) ==
    /\ x \in Index
    /\ x.row = Off(t, i) /\ x.col = Inside(t, i)
    /\ Len(x.newlines) = LineOf(t, i) + 1 /\ Len(x.wide) = LineOf(t, i) + 1
    /\ Translates(x.wide[LineOf(t, i) + 1], Column(t, i), x.col)

\* It knows the place n among them.
Finds(t, x, n) ==
    /\ LineOf(t, n) + 1 \in DOMAIN x.newlines
    /\ \A k \in DOMAIN x.newlines : x.newlines[k] <= Off(t, n) <=> k <= LineOf(t, n) + 1
    /\ x.newlines[LineOf(t, n) + 1] = Off(t, LineStart(t, n))
    /\ ToUtf8(x.wide[LineOf(t, n) + 1], Column(t, n)) = Inside(t, n)
    /\ ToUtf16(x.wide[LineOf(t, n) + 1], Inside(t, n)) = Column(t, n)

\* n is not after i, and on its line if on any line as late.
Before(t, n, i) ==
    /\ Off(t, n) <= Off(t, i)
    /\ LineOf(t, n) = LineOf(t, i) => LineStart(t, n) = LineStart(t, i)

IndexInv(t, i) ==
    /\ Known(t, i, LineIndex(Prefix(t, i)))
    /\ \A n \in 0..i : Finds(t, LineIndex(Prefix(t, i)), n) /\ Before(t, n, i)

LEMMA PlaceTyped ==
    ASSUME NEW t \in Text, NEW n \in 0..Len(t)
    PROVE  /\ Prefix(t, n) \in Text /\ LineStart(t, n) \in 0..n
           /\ Off(t, n) \in Nat /\ LineOf(t, n) \in Nat /\ Column(t, n) \in Nat
           /\ Off(t, LineStart(t, n)) \in Nat /\ Inside(t, n) \in Int
<1>1. t \in Seq(Char) /\ Len(t) \in Nat /\ n \in Nat
  BY DEF Text
<1>2. \A k \in 0..Len(t) : Prefix(t, k) \in Text
  BY <1>1, Slices DEF Prefix
<1>3. \A k \in 0..Len(t) : Off(t, k) \in Nat
  BY <1>2, BytesAppend DEF Off
<1>4. LineStart(t, n) \in 0..n
  BY <1>1, LineStartIs DEF StartIs
<1>5. LineStart(t, n) \in 0..Len(t)
  BY <1>1, <1>4
<1>6. SubSeq(t, LineStart(t, n) + 1, n) \in Text
  BY <1>1, <1>4, <1>5, Slices
<1>7. Column(t, n) \in Nat
  BY <1>6, UnitsAppend DEF Column
<1> QED BY <1>1, <1>2, <1>3, <1>4, <1>5, <1>7, EndsFinite DEF Inside

\* The index of no character.
LEMMA IndexOfNothing ==
    ASSUME NEW t \in Text
    PROVE  IndexInv(t, 0)
<1> DEFINE x == NewIndex
<1>1. LineIndex(Prefix(t, 0)) = x
  <2>1. <<>> \in Text
    BY DEF Text
  <2> QED BY <2>1, AtZero, LineIndexAppend
<1>2. /\ x \in Index /\ x.row = 0 /\ x.col = 0 /\ x.newlines = <<0>> /\ x.wide = <<<<>>>>
      /\ x.newlines[1] = 0 /\ x.wide[1] = <<>> /\ Len(x.newlines) = 1 /\ Len(x.wide) = 1
      /\ DOMAIN x.newlines = {1}
  BY NewIndexTyped DEF NewIndex
<1>3. LineOf(t, 0) + 1 = 1 /\ Off(t, LineStart(t, 0)) = 0 /\ Inside(t, 0) = 0
  BY AtZero DEF Inside
<1>4. Translates(<<>>, 0, 0)
  BY EmptyTranslates
<1>5. Known(t, 0, x)
  <2> HIDE DEF x
  <2> QED BY <1>2, <1>3, <1>4, AtZero DEF Known
<1>6. Finds(t, x, 0)
  <2>1. ToUtf8(<<>>, 0) = 0 /\ ToUtf16(<<>>, 0) = 0
    BY <1>4 DEF Translates
  <2> HIDE DEF x
  <2> QED BY <1>2, <1>3, <2>1, AtZero DEF Finds
<1>7. Before(t, 0, 0)
  BY AtZero DEF Before
<1> HIDE DEF x
<1> QED BY <1>1, <1>5, <1>6, <1>7 DEF IndexInv

LineLonger(s, e, u) ==
    /\ DOMAIN s = 1..Len(s) /\ DOMAIN u = 1..(Len(s) + 1)
    /\ Len(u) = Len(s) + 1 /\ u[Len(s) + 1] = e
    /\ \A k \in 1..Len(s) : u[k] = s[k]

\* What Append does, for sequences whose elements are sequences too.
LEMMA Longer ==
    ASSUME NEW S, NEW s \in Seq(S), NEW e \in S
    PROVE  LineLonger(s, e, Append(s, e))
  BY DEF LineLonger

\* At the end of a line.
LEMMA IndexAfterNewline ==
    ASSUME NEW t \in Text, NEW i \in 0..(Len(t) - 1), IndexInv(t, i), t[i + 1] = "newline"
    PROVE  IndexInv(t, i + 1)
<1> DEFINE x == LineIndex(Prefix(t, i))
           y == LineIndex(Prefix(t, i + 1))
           c == t[i + 1]
<1>1. /\ i \in Nat /\ i + 1 \in Nat /\ Len(t) \in Nat /\ i \in 0..Len(t) /\ i + 1 \in 0..Len(t)
      /\ c \in Char /\ Utf8[c] = 1 /\ t \in Seq(Char) /\ 0..i \subseteq 0..Len(t)
      /\ \A n \in 0..(i + 1) : n \in 0..i \/ n = i + 1
  BY CharKinds DEF Text
<1>2. Further(t, i)
  BY NextPlace
<1>3. Prefix(t, i) \in Text
  BY <1>1, PlaceTyped
<1>4. Added(x, c, y)
  BY <1>1, <1>2, <1>3, LineIndexAppend DEF Further
<1>5. /\ Known(t, i, x) /\ \A n \in 0..i : Finds(t, x, n) /\ Before(t, n, i)
  BY DEF IndexInv
<1> HIDE DEF x, y
<1>6. /\ x \in Index /\ x.row = Off(t, i) /\ x.newlines \in Seq(Nat) /\ x.wide \in Seq(Seq(Wide))
      /\ Len(x.newlines) = LineOf(t, i) + 1 /\ Len(x.wide) = LineOf(t, i) + 1
  BY <1>5 DEF Known, Index
<1>7. /\ y \in Index /\ y.row = Off(t, i) + 1 /\ y.col = 0
      /\ y.newlines = Append(x.newlines, Off(t, i) + 1) /\ y.wide = Append(x.wide, <<>>)
  BY <1>1, <1>4, <1>6 DEF Added
<1>8. /\ LineOf(t, i) \in Nat /\ Off(t, i) \in Nat
      /\ LineOf(t, i + 1) = LineOf(t, i) + 1 /\ LineStart(t, i + 1) = i + 1
      /\ Column(t, i + 1) = 0 /\ Off(t, i + 1) = Off(t, i) + 1 /\ Inside(t, i + 1) = 0
  BY <1>1, <1>2, PlaceTyped DEF Further, Inside
<1>9. /\ DOMAIN x.newlines = 1..(LineOf(t, i) + 1)
      /\ DOMAIN y.newlines = 1..(LineOf(t, i) + 2)
      /\ Len(y.newlines) = LineOf(t, i) + 2 /\ Len(y.wide) = LineOf(t, i) + 2
      /\ y.newlines[LineOf(t, i) + 2] = Off(t, i) + 1 /\ y.wide[LineOf(t, i) + 2] = <<>>
      /\ \A k \in DOMAIN x.newlines : y.newlines[k] = x.newlines[k] /\ y.wide[k] = x.wide[k]
      /\ \A k \in DOMAIN x.newlines : x.newlines[k] \in Nat
  <2>1. LineLonger(x.newlines, Off(t, i) + 1, y.newlines)
    <3>1. Off(t, i) + 1 \in Nat
      BY <1>8
    <3> QED BY <1>6, <1>7, <3>1, Longer
  <2>2. LineLonger(x.wide, <<>>, y.wide)
    <3>1. <<>> \in Seq(Wide)
      OBVIOUS
    <3> QED BY <1>6, <1>7, <3>1, Longer
  <2>3. \A k \in DOMAIN x.newlines : x.newlines[k] \in Nat
    <3>1. x.newlines \in Seq(Nat)
      BY <1>6
    <3> QED BY <3>1
  <2>4. LineOf(t, i) + 1 + 1 = LineOf(t, i) + 2
    BY <1>8
  <2> QED BY <1>6, <2>1, <2>2, <2>3, <2>4 DEF LineLonger
<1>10. Translates(<<>>, 0, 0) /\ ToUtf8(<<>>, 0) = 0 /\ ToUtf16(<<>>, 0) = 0
  <2>1. Translates(<<>>, 0, 0)
    BY EmptyTranslates
  <2> QED BY <2>1 DEF Translates
<1>11. Known(t, i + 1, y)
  <2>1. LineOf(t, i + 1) + 1 = LineOf(t, i) + 2
    BY <1>8
  <2> QED BY <1>7, <1>8, <1>9, <1>10, <2>1 DEF Known
<1>12. ASSUME NEW n \in 0..i PROVE Finds(t, y, n) /\ Before(t, n, i + 1)
  <2>1. Finds(t, x, n) /\ Before(t, n, i) /\ n \in 0..Len(t)
    BY <1>1, <1>5
  <2>2. Off(t, n) \in Nat /\ LineOf(t, n) \in Nat
    BY <2>1, PlaceTyped
  <2>3. Off(t, n) <= Off(t, i) /\ LineOf(t, n) + 1 \in DOMAIN x.newlines
    BY <2>1 DEF Finds, Before
  <2>4. \A k \in DOMAIN y.newlines : y.newlines[k] <= Off(t, n) <=> k <= LineOf(t, n) + 1
    <3> SUFFICES ASSUME NEW k \in DOMAIN y.newlines
                 PROVE  y.newlines[k] <= Off(t, n) <=> k <= LineOf(t, n) + 1
      OBVIOUS
    <3>1. CASE k \in DOMAIN x.newlines
      BY <1>9, <2>1, <3>1 DEF Finds
    <3>2. CASE k = LineOf(t, i) + 2
      BY <1>8, <1>9, <2>2, <2>3, <3>2
    <3> QED BY <1>8, <1>9, <3>1, <3>2
  <2>5. Finds(t, y, n)
    <3>1. LineOf(t, n) + 1 \in DOMAIN y.newlines
      BY <1>8, <1>9, <2>3
    <3>2. /\ y.newlines[LineOf(t, n) + 1] = x.newlines[LineOf(t, n) + 1]
          /\ y.wide[LineOf(t, n) + 1] = x.wide[LineOf(t, n) + 1]
      BY <1>9, <2>3
    <3> QED BY <2>1, <2>4, <3>1, <3>2 DEF Finds
  <2>6. Before(t, n, i + 1)
    BY <1>8, <1>9, <2>2, <2>3 DEF Before
  <2> QED BY <2>5, <2>6
<1>13. Finds(t, y, i + 1) /\ Before(t, i + 1, i + 1)
  <2>1. LineOf(t, i + 1) + 1 = LineOf(t, i) + 2
    BY <1>8
  <2>2. \A k \in DOMAIN y.newlines : y.newlines[k] <= Off(t, i + 1)
    <3> SUFFICES ASSUME NEW k \in DOMAIN y.newlines PROVE y.newlines[k] <= Off(t, i + 1)
      OBVIOUS
    <3>1. CASE k \in DOMAIN x.newlines
      <4>1. Finds(t, x, i)
        BY <1>1, <1>5
      <4>2. x.newlines[k] <= Off(t, i)
        BY <1>8, <1>9, <3>1, <4>1 DEF Finds
      <4> QED BY <1>8, <1>9, <3>1, <4>2
    <3>2. CASE k = LineOf(t, i) + 2
      BY <1>8, <1>9, <3>2
    <3> QED BY <1>8, <1>9, <3>1, <3>2
  <2> QED BY <1>8, <1>9, <1>10, <2>1, <2>2 DEF Finds, Before
<1> QED BY <1>1, <1>11, <1>12, <1>13 DEF IndexInv, y

\* Within a line.
LEMMA IndexAfterOther ==
    ASSUME NEW t \in Text, NEW i \in 0..(Len(t) - 1), IndexInv(t, i), t[i + 1] # "newline"
    PROVE  IndexInv(t, i + 1)
<1> DEFINE x == LineIndex(Prefix(t, i))
           y == LineIndex(Prefix(t, i + 1))
           c == t[i + 1]
           line == LineOf(t, i) + 1
<1>1. /\ i \in Nat /\ i + 1 \in Nat /\ Len(t) \in Nat /\ i \in 0..Len(t) /\ i + 1 \in 0..Len(t)
      /\ c \in Char /\ Utf8[c] \in {1, 2, 4} /\ t \in Seq(Char) /\ 0..i \subseteq 0..Len(t)
      /\ \A n \in 0..(i + 1) : n \in 0..i \/ n = i + 1
  BY CharKinds DEF Text
<1>2. Further(t, i)
  BY NextPlace
<1>3. Prefix(t, i) \in Text
  BY <1>1, PlaceTyped
<1>4. Added(x, c, y)
  BY <1>1, <1>2, <1>3, LineIndexAppend DEF Further
<1>5. /\ Known(t, i, x) /\ \A n \in 0..i : Finds(t, x, n) /\ Before(t, n, i)
  BY DEF IndexInv
<1> HIDE DEF x, y, c
<1>6. /\ x \in Index /\ x.row = Off(t, i) /\ x.col = Inside(t, i) /\ x.col \in Nat
      /\ x.newlines \in Seq(Nat) /\ x.wide \in Seq(Seq(Wide))
      /\ Len(x.newlines) = line /\ Len(x.wide) = line
      /\ Translates(x.wide[line], Column(t, i), x.col)
  BY <1>5 DEF Known, Index
<1>7. line \in Nat /\ line # 0 /\ Off(t, i) \in Nat /\ Column(t, i) \in Nat
  <2>1. LineOf(t, i) \in Nat /\ Off(t, i) \in Nat /\ Column(t, i) \in Nat
    BY <1>1, PlaceTyped
  <2> QED BY <2>1
<1>8. /\ DOMAIN x.wide = 1..line /\ DOMAIN x.newlines = 1..line /\ line \in 1..line
      /\ x.wide[line] \in Seq(Wide)
  BY <1>6, <1>7
<1>9. /\ y \in Index /\ y.row = x.row + Utf8[c] /\ y.col = x.col + Utf8[c]
      /\ y.newlines = x.newlines /\ DOMAIN y.wide = DOMAIN x.wide
      /\ \A k \in DOMAIN x.wide : k # line => y.wide[k] = x.wide[k]
      /\ y.wide[line] = Grown(x.wide[line], x.col, c)
  BY <1>4, <1>6 DEF Added, Grown, WideAt, c
<1>10. /\ LineOf(t, i + 1) = LineOf(t, i) /\ LineStart(t, i + 1) = LineStart(t, i)
       /\ Off(t, i + 1) = Off(t, i) + Utf8[c] /\ Column(t, i + 1) = Column(t, i) + Utf16[c]
  BY <1>2 DEF Further, c
<1>11. Inside(t, i + 1) = y.col /\ Off(t, LineStart(t, i)) \in Nat
  <2>1. Off(t, LineStart(t, i)) \in Nat
    BY <1>1, PlaceTyped
  <2>2. Inside(t, i + 1) = (Off(t, i) + Utf8[c]) - Off(t, LineStart(t, i))
    <3>1. Inside(t, i + 1) = Off(t, i + 1) - Off(t, LineStart(t, i + 1))
      BY DEF Inside
    <3>2. LineStart(t, i + 1) = LineStart(t, i)
      BY <1>10
    <3>3. Off(t, i + 1) = Off(t, i) + Utf8[c]
      BY <1>10
    <3> QED BY <3>1, <3>2, <3>3
  <2>3. x.col = Off(t, i) - Off(t, LineStart(t, i))
    BY <1>6 DEF Inside
  <2>4. Utf8[c] \in Nat
    BY <1>1
  <2> QED BY <1>7, <1>9, <2>1, <2>2, <2>3, <2>4
<1>12. /\ Translates(y.wide[line], Column(t, i + 1), y.col)
       /\ KeepsBefore(x.wide[line], y.wide[line], x.col)
  BY <1>1, <1>6, <1>7, <1>8, <1>9, <1>10, LineGrows
<1>13. Known(t, i + 1, y)
  <2>1. Len(y.wide) = line /\ Len(y.newlines) = line
    <3>1. y.wide \in Seq(Seq(Wide))
      BY <1>9 DEF Index
    <3> QED BY <1>6, <1>7, <1>8, <1>9, <3>1
  <2> QED BY <1>6, <1>9, <1>10, <1>11, <1>12, <2>1 DEF Known
<1>14. Off(t, i) <= Off(t, i + 1)
  <2>1. Utf8[c] \in Nat
    BY <1>1
  <2> QED BY <1>7, <1>10, <2>1
<1>15. ASSUME NEW n \in 0..i PROVE Finds(t, y, n) /\ Before(t, n, i + 1)
  <2>1. Finds(t, x, n) /\ Before(t, n, i) /\ n \in 0..Len(t)
    BY <1>1, <1>5
  <2>2. /\ Off(t, n) \in Nat /\ LineOf(t, n) \in Nat /\ Off(t, LineStart(t, n)) \in Nat
        /\ Column(t, n) \in Nat /\ Inside(t, n) \in Int
    BY <2>1, PlaceTyped
  <2>3. Off(t, n) <= Off(t, i) /\ LineOf(t, n) + 1 \in 1..line
    BY <1>8, <2>1 DEF Finds, Before
  <2>4. Before(t, n, i + 1)
    <3>1. Off(t, n) <= Off(t, i + 1)
      <4>1. Off(t, i + 1) \in Nat
        BY <1>1, PlaceTyped
      <4> QED BY <1>7, <1>14, <2>2, <2>3, <4>1
    <3> QED BY <1>10, <2>1, <3>1 DEF Before
  <2>5. /\ ToUtf8(x.wide[LineOf(t, n) + 1], Column(t, n)) = Inside(t, n)
        /\ ToUtf16(x.wide[LineOf(t, n) + 1], Inside(t, n)) = Column(t, n)
    BY <2>1 DEF Finds
  <2>6. /\ ToUtf8(y.wide[LineOf(t, n) + 1], Column(t, n)) = Inside(t, n)
        /\ ToUtf16(y.wide[LineOf(t, n) + 1], Inside(t, n)) = Column(t, n)
    <3>1. CASE LineOf(t, n) + 1 # line
      BY <1>8, <1>9, <2>3, <2>5, <3>1
    <3>2. CASE LineOf(t, n) + 1 = line
      <4>1. LineStart(t, n) = LineStart(t, i)
        <5>1. LineOf(t, n) = LineOf(t, i)
          <6>1. LineOf(t, i) \in Nat
            BY <1>1, PlaceTyped
          <6> QED BY <2>2, <3>2, <6>1
        <5> QED BY <2>1, <5>1 DEF Before
      <4>2. Inside(t, n) <= x.col
        BY <1>6, <1>7, <2>2, <2>3, <4>1 DEF Inside
      <4>3. /\ ToUtf16(y.wide[line], Inside(t, n)) = ToUtf16(x.wide[line], Inside(t, n))
            /\ \A p \in Int : ToUtf8(x.wide[line], p) = Inside(t, n)
                                => ToUtf8(y.wide[line], p) = Inside(t, n)
        BY <1>12, <2>2, <4>2 DEF KeepsBefore
      <4>4. Column(t, n) \in Int
        BY <2>2
      <4> QED BY <2>5, <3>2, <4>3, <4>4
    <3> QED BY <3>1, <3>2
  <2>7. Finds(t, y, n)
    BY <1>9, <2>1, <2>6 DEF Finds
  <2> QED BY <2>4, <2>7
<1>16. Finds(t, y, i + 1) /\ Before(t, i + 1, i + 1)
  <2>1. Finds(t, x, i)
    BY <1>1, <1>5
  <2>2. \A k \in DOMAIN y.newlines : y.newlines[k] <= Off(t, i + 1) <=> k <= line
    <3> SUFFICES ASSUME NEW k \in 1..line PROVE x.newlines[k] <= Off(t, i + 1)
      BY <1>7, <1>8, <1>9
    <3>1. x.newlines \in Seq(Nat) /\ k \in DOMAIN x.newlines /\ k <= line
      BY <1>6, <1>7, <1>8
    <3>3. x.newlines[k] \in Nat
      BY <3>1
    <3>4. x.newlines[k] <= Off(t, i)
      BY <2>1, <3>1 DEF Finds
    <3>2. Off(t, i + 1) \in Nat
      BY <1>1, PlaceTyped
    <3> QED BY <1>7, <1>14, <3>2, <3>3, <3>4
  <2>3. y.newlines[line] = Off(t, LineStart(t, i + 1))
    BY <1>9, <1>10, <2>1 DEF Finds
  <2>4. Column(t, i + 1) \in Nat /\ y.col \in Nat
    <3>1. y.col \in Nat
      BY <1>9 DEF Index
    <3> QED BY <1>1, <3>1, PlaceTyped
  <2>5. /\ ToUtf8(y.wide[line], Column(t, i + 1)) = Inside(t, i + 1)
        /\ ToUtf16(y.wide[line], Inside(t, i + 1)) = Column(t, i + 1)
    <3>1. 0 \in Nat /\ Column(t, i + 1) + 0 = Column(t, i + 1) /\ y.col + 0 = y.col
      BY <2>4
    <3> QED BY <1>11, <1>12, <3>1 DEF Translates
  <2>6. LineOf(t, i + 1) + 1 = line /\ line \in DOMAIN y.newlines
    BY <1>8, <1>9, <1>10
  <2>7. Off(t, i + 1) <= Off(t, i + 1)
    BY <1>1, PlaceTyped
  <2> QED BY <2>2, <2>3, <2>5, <2>6, <2>7 DEF Finds, Before
<1> QED BY <1>1, <1>13, <1>15, <1>16 DEF IndexInv, y

\* The index of any prefix knows its places.
LEMMA IndexKnown ==
    ASSUME NEW t \in Text
    PROVE  \A i \in 0..Len(t) : IndexInv(t, i)
<1> DEFINE S == {i \in 0..Len(t) : IndexInv(t, i)}
<1>1. Len(t) \in Nat
  BY DEF Text
<1>2. 0 \in S
  BY <1>1, IndexOfNothing
<1>3. ASSUME NEW i \in 0..(Len(t) - 1), i \in S PROVE i + 1 \in S
  BY <1>1, <1>3, IndexAfterNewline, IndexAfterOther
<1> HIDE DEF S
<1>4. \A i \in 0..Len(t) : i \in S
  BY <1>1, <1>2, <1>3, BoundedInduction
<1> QED BY <1>4 DEF S

-----------------------------------------------------------------------------
(* The binary search.                                                      *)

\* Halfway between two places is between them.
LEMMA Halfway ==
    ASSUME NEW l \in Nat, NEW r \in Nat
    PROVE  /\ l < r => l + (r - l) \div 2 \in l..(r - 1)
           /\ l > r => l + (r - l) \div 2 \in r..(l - 1)
  OBVIOUS

\* partition_point finds the place before which the elements are no greater,
\* when there is one.
LEMMA PartitionPointIs ==
    ASSUME NEW newlines \in Seq(Nat), NEW offset \in Nat, NEW m \in 0..Len(newlines),
           \A k \in DOMAIN newlines : newlines[k] <= offset <=> k <= m
    PROVE  PartitionPoint(newlines, offset) = m
<1> DEFINE n == Len(newlines)
           D == 0..n
           Mid(l, r) == l + (r - l) \div 2
           Goes(g, l, r) == IF l = r THEN l
                            ELSE IF newlines[Mid(l, r) + 1] <= offset THEN g[<<Mid(l, r) + 1, r>>]
                            ELSE g[<<l, Mid(l, r)>>]
           E(g) == g = [p \in D \X D |-> Goes(g, p[1], p[2])]
           search == CHOOSE g : E(g)
           Found(l, r) == IF l > r THEN 0 ELSE IF m < l THEN l ELSE IF m > r THEN r ELSE m
           f == [p \in D \X D |-> Found(p[1], p[2])]
<1>1. n \in Nat /\ m \in Nat /\ m <= n /\ DOMAIN newlines = 1..n
  OBVIOUS
<1> HIDE DEF n
<1>2. ASSUME NEW l \in D, NEW r \in D
      PROVE  /\ l < r => Mid(l, r) \in l..(r - 1)
             /\ l > r => Mid(l, r) \in r..(l - 1)
             /\ l # r => Mid(l, r) \in D /\ Mid(l, r) + 1 \in D /\ Mid(l, r) + 1 \in DOMAIN newlines
  <2>1. l \in Nat /\ r \in Nat /\ l <= n /\ r <= n
    BY <1>1
  <2>2. /\ l < r => Mid(l, r) \in l..(r - 1)
        /\ l > r => Mid(l, r) \in r..(l - 1)
    BY <2>1, Halfway
  <2> HIDE DEF Mid
  <2> QED BY <1>1, <2>1, <2>2
<1>3. ASSUME NEW l \in D, NEW r \in D
      PROVE  Found(l, r) = Goes(f, l, r)
  <2>1. CASE l = r
    BY <1>1, <2>1
  <2>2. CASE l # r /\ newlines[Mid(l, r) + 1] <= offset
    <3>1. Mid(l, r) + 1 <= m /\ Mid(l, r) + 1 \in D
      BY <1>2, <2>2
    <3>2. Goes(f, l, r) = Found(Mid(l, r) + 1, r)
      <4> HIDE DEF Mid, Found
      <4> QED BY <2>2, <3>1
    <3>3. /\ l \in Nat /\ r \in Nat /\ Mid(l, r) \in Nat
          /\ l < r => Mid(l, r) \in l..(r - 1)
          /\ l > r => Mid(l, r) \in r..(l - 1)
      BY <1>1, <1>2, <2>2
    <3> HIDE DEF Mid
    <3>4. Found(l, r) = Found(Mid(l, r) + 1, r)
      BY <1>1, <2>2, <3>1, <3>3
    <3> HIDE DEF Found, Goes
    <3> QED BY <3>2, <3>4
  <2>3. CASE l # r /\ ~ (newlines[Mid(l, r) + 1] <= offset)
    <3>1. ~ (Mid(l, r) + 1 <= m) /\ Mid(l, r) \in D
      BY <1>2, <2>3
    <3>2. Goes(f, l, r) = Found(l, Mid(l, r))
      <4> HIDE DEF Mid, Found
      <4> QED BY <2>3, <3>1
    <3>3. /\ l \in Nat /\ r \in Nat /\ Mid(l, r) \in Nat
          /\ l < r => Mid(l, r) \in l..(r - 1)
          /\ l > r => Mid(l, r) \in r..(l - 1)
      BY <1>1, <1>2, <2>3
    <3> HIDE DEF Mid
    <3>4. Found(l, r) = Found(l, Mid(l, r))
      BY <1>1, <2>3, <3>1, <3>3
    <3> HIDE DEF Found, Goes
    <3> QED BY <3>2, <3>4
  <2> QED BY <2>1, <2>2, <2>3
<1>4. E(search)
  <2>1. E(f)
    <3> HIDE DEF Goes, Found
    <3> QED BY <1>3
  <2> HIDE DEF E
  <2> QED BY <2>1
<1>5. \A l \in D, r \in D : search[<<l, r>>] = Goes(search, l, r)
  <2> HIDE DEF search, Goes
  <2> QED BY <1>4
<1> HIDE DEF search, f, Found, E
<1>6. \A w \in 0..n : \A l \in D, r \in D : l <= m /\ m <= r /\ r - l <= w => search[<<l, r>>] = m
  <2> DEFINE S == {w \in 0..n : \A l \in D, r \in D :
                        l <= m /\ m <= r /\ r - l <= w => search[<<l, r>>] = m}
  <2>1. 0 \in S
    <3> SUFFICES ASSUME NEW l \in D, NEW r \in D, l <= m, m <= r, r - l <= 0
                 PROVE  search[<<l, r>>] = m
      BY <1>1
    <3>1. l = r /\ l = m
      BY <1>1
    <3> QED BY <1>5, <3>1
  <2>2. ASSUME NEW w \in 0..(n - 1), w \in S PROVE w + 1 \in S
    <3>0. \A l \in D, r \in D : l <= m /\ m <= r /\ r - l <= w => search[<<l, r>>] = m
      BY <2>2
    <3>a. w + 1 \in 0..n
      BY <1>1, <2>2
    <3> SUFFICES ASSUME NEW l \in D, NEW r \in D, l <= m, m <= r, r - l <= w + 1
                 PROVE  search[<<l, r>>] = m
      <4> HIDE DEF D, Mid, Goes
      <4> QED BY <3>a
    <3>1. CASE l = r
      <4>1. l = m
        BY <1>1, <3>1
      <4>2. search[<<l, r>>] = Goes(search, l, r)
        BY <1>5
      <4> QED BY <3>1, <4>1, <4>2
    <3>2. CASE l # r /\ newlines[Mid(l, r) + 1] <= offset
      <4>1. l < r
        BY <1>1, <3>2
      <4> HIDE DEF Mid
      <4>2. search[<<l, r>>] = search[<<Mid(l, r) + 1, r>>]
        BY <1>5, <3>2
      <4>3. /\ Mid(l, r) \in l..(r - 1) /\ Mid(l, r) + 1 \in D
            /\ Mid(l, r) + 1 \in DOMAIN newlines
        BY <1>2, <3>2, <4>1
      <4>4. Mid(l, r) + 1 <= m
        BY <3>2, <4>3
      <4>5. l \in Nat /\ r \in Nat /\ w \in Nat
        BY <1>1
      <4>6. r - (Mid(l, r) + 1) <= w
        BY <4>3, <4>5
      <4> QED BY <3>0, <4>2, <4>3, <4>4, <4>6
    <3>3. CASE l # r /\ ~ (newlines[Mid(l, r) + 1] <= offset)
      <4>1. l < r
        BY <1>1, <3>3
      <4> HIDE DEF Mid
      <4>2. search[<<l, r>>] = search[<<l, Mid(l, r)>>]
        BY <1>5, <3>3
      <4>3. /\ Mid(l, r) \in l..(r - 1) /\ Mid(l, r) \in D
            /\ Mid(l, r) + 1 \in DOMAIN newlines
        BY <1>2, <3>3, <4>1
      <4>4. l \in Nat /\ r \in Nat /\ w \in Nat
        BY <1>1
      <4>5. m <= Mid(l, r)
        BY <1>1, <3>3, <4>3, <4>4
      <4>6. Mid(l, r) - l <= w
        BY <4>3, <4>4
      <4> QED BY <3>0, <4>2, <4>3, <4>5, <4>6
    <3> QED BY <3>1, <3>2, <3>3
  <2> HIDE DEF S
  <2>3. \A w \in 0..n : w \in S
    BY <1>1, <2>1, <2>2, BoundedInduction
  <2> QED BY <2>3 DEF S
<1>7. search[<<0, n>>] = m
  <2>1. 0 \in D /\ n \in D /\ n \in 0..n /\ n - 0 <= n /\ 0 <= m
    BY <1>1
  <2>2. \A l \in D, r \in D : l <= m /\ m <= r /\ r - l <= n => search[<<l, r>>] = m
    BY <1>6, <2>1
  <2> QED BY <1>1, <2>1, <2>2
<1> QED BY <1>7 DEF PartitionPoint, search, E, Goes, Mid, n, D

-----------------------------------------------------------------------------
(* Positions.                                                              *)

\* The server and the client agree on the place after the first n characters.
Agree(t, n) ==
    /\ LineColLsp(LineIndex(t), Off(t, n)) = PositionAt(t, n)
    /\ OffsetLsp(LineIndex(t), PositionAt(t, n)) = Off(t, n)
    /\ PositionAt(t, n).line \in 0..(Len(LineIndex(t).newlines) - 1)

LEMMA PlacesAgree ==
    ASSUME NEW t \in Text, NEW n \in 0..Len(t)
    PROVE  Agree(t, n)
<1> DEFINE x == LineIndex(t)
           line == LineOf(t, n)
<1>1. t \in Seq(Char) /\ Len(t) \in Nat /\ Len(t) \in 0..Len(t)
  BY DEF Text
<1>2. Prefix(t, Len(t)) = t
  BY <1>1 DEF Prefix
<1>3. Known(t, Len(t), x) /\ Finds(t, x, n)
  <2>1. IndexInv(t, Len(t))
    BY <1>1, IndexKnown
  <2> QED BY <1>2, <2>1 DEF IndexInv
<1> HIDE DEF x
<1>4. x.newlines \in Seq(Nat)
  BY <1>3 DEF Known, Index
<1>5. /\ line \in Nat /\ Off(t, n) \in Nat /\ Off(t, LineStart(t, n)) \in Nat
      /\ Inside(t, n) = Off(t, n) - Off(t, LineStart(t, n))
  BY PlaceTyped DEF Inside
<1>6. /\ line + 1 \in DOMAIN x.newlines /\ x.newlines[line + 1] = Off(t, LineStart(t, n))
      /\ ToUtf8(x.wide[line + 1], Column(t, n)) = Inside(t, n)
      /\ ToUtf16(x.wide[line + 1], Inside(t, n)) = Column(t, n)
      /\ \A k \in DOMAIN x.newlines : x.newlines[k] <= Off(t, n) <=> k <= line + 1
  BY <1>3 DEF Finds
<1>7. line + 1 \in 1..Len(x.newlines) /\ line + 1 \in 0..Len(x.newlines)
      /\ line \in 0..(Len(x.newlines) - 1)
  BY <1>4, <1>5, <1>6
<1>8. PartitionPoint(x.newlines, Off(t, n)) - 1 = line
  <2>1. PartitionPoint(x.newlines, Off(t, n)) = line + 1
    BY <1>4, <1>5, <1>6, <1>7, PartitionPointIs
  <2> QED BY <1>5, <2>1
<1>9. LineCol(x, Off(t, n)) = [line |-> line, character |-> Inside(t, n)]
  BY <1>5, <1>6, <1>8 DEF LineCol
<1>10. LineColLsp(x, Off(t, n)) = [line |-> line, character |-> Column(t, n)]
  <2>1. Utf8ToUtf16Col(x, line, Inside(t, n)) = Column(t, n)
    BY <1>6 DEF Utf8ToUtf16Col, ToUtf16
  <2> QED BY <1>9, <2>1 DEF LineColLsp
<1>11. PositionAt(t, n) = [line |-> line, character |-> Column(t, n)]
  BY PositionIs
<1>12. OffsetLsp(x, PositionAt(t, n)) = Off(t, n)
  <2>1. Utf16ToUtf8Col(x, line, Column(t, n)) = Inside(t, n)
    BY <1>6 DEF Utf16ToUtf8Col, ToUtf8
  <2>2. OffsetLsp(x, PositionAt(t, n)) = x.newlines[line + 1] + Utf16ToUtf8Col(x, line, Column(t, n))
    BY <1>11 DEF OffsetLsp
  <2> QED BY <1>5, <1>6, <2>1, <2>2
<1> QED BY <1>7, <1>10, <1>11, <1>12 DEF Agree, x

-----------------------------------------------------------------------------
(* Edits.                                                                  *)

\* The offsets of the places of a text are in the order of the places.
LEMMA OffsetsGrow ==
    ASSUME NEW t \in Text
    PROVE  \A n \in 0..Len(t) : \A m \in 0..(n - 1) : Off(t, m) < Off(t, n)
<1> DEFINE S == {n \in 0..Len(t) : \A m \in 0..(n - 1) : Off(t, m) < Off(t, n)}
<1>1. Len(t) \in Nat
  BY DEF Text
<1>2. 0 \in S
  BY <1>1
<1>3. ASSUME NEW n \in 0..(Len(t) - 1), n \in S PROVE n + 1 \in S
  <2>1. \A m \in 0..(n - 1) : Off(t, m) < Off(t, n)
    BY <1>3
  <2>2. Off(t, n) \in Nat /\ Off(t, n + 1) = Off(t, n) + Utf8[t[n + 1]]
    BY NextPlace DEF Further
  <2>3. Utf8[t[n + 1]] \in {1, 2, 4}
    <3>1. t[n + 1] \in Char
      BY DEF Text
    <3> QED BY <3>1, CharKinds
  <2>4. \A m \in 0..n : m \in 0..Len(t) /\ (m \in 0..(n - 1) \/ m = n)
    BY <1>1
  <2>5. Off(t, n) < Off(t, n + 1)
    BY <2>2, <2>3
  <2>6. ASSUME NEW m \in 0..n PROVE Off(t, m) < Off(t, n + 1)
    <3>1. Off(t, m) \in Nat
      BY <2>4, PlaceTyped
    <3>2. Off(t, n + 1) \in Nat
      BY <2>2, <2>3
    <3>3. CASE m = n
      BY <2>5, <3>3
    <3>4. CASE m \in 0..(n - 1)
      BY <2>1, <2>2, <2>5, <3>1, <3>2, <3>4
    <3> QED BY <2>4, <3>3, <3>4
  <2>7. n + 1 \in 0..Len(t) /\ (n + 1) - 1 = n
    BY <1>1
  <2> QED BY <2>6, <2>7
<1> HIDE DEF S
<1>4. \A n \in 0..Len(t) : n \in S
  BY <1>1, <1>2, <1>3, BoundedInduction
<1> QED BY <1>4 DEF S

\* Each place is the only one with its offset.
LEMMA OneBoundary ==
    ASSUME NEW t \in Text, NEW n \in 0..Len(t)
    PROVE  Boundary(t, Off(t, n)) = {n}
<1>1. Len(t) \in Nat
  BY DEF Text
<1>2. Boundary(t, Off(t, n)) = {m \in 0..Len(t) : Off(t, m) = Off(t, n)}
  BY DEF Boundary, Off, Prefix
<1>3. ASSUME NEW m \in 0..Len(t), m # n PROVE Off(t, m) # Off(t, n)
  <2>1. Off(t, m) \in Nat /\ Off(t, n) \in Nat
    BY PlaceTyped
  <2>2. m \in 0..(n - 1) \/ n \in 0..(m - 1)
    BY <1>1, <1>3
  <2> QED BY <2>1, <2>2, OffsetsGrow
<1> QED BY <1>2, <1>3

Position == [line : Nat, character : Nat]
WholeChange == [whole : {TRUE}, text : Text]
RangeChange == [whole : {FALSE}, start : Position, end : Position, text : Text]
AnyChange == WholeChange \cup RangeChange
AnyText == Text \cup {NoText}

\* Slices of texts make a text.
LEMMA Spliced ==
    ASSUME NEW t \in Text, NEW s \in Text, NEW m \in 0..Len(t), NEW n \in 0..Len(t)
    PROVE  SubSeq(t, 1, m) \o s \o SubSeq(t, n + 1, Len(t)) \in Text
<1>1. t \in Seq(Char) /\ s \in Seq(Char) /\ Len(t) \in Nat
  BY DEF Text
<1>2. SubSeq(t, 1, m) \in Seq(Char) /\ SubSeq(t, n + 1, Len(t)) \in Seq(Char)
  BY <1>1
<1> QED BY <1>1, <1>2 DEF Text

\* replace_range makes a text, or panics.
LEMMA ReplaceTyped ==
    ASSUME NEW t \in Text, NEW s \in Text, NEW from, NEW to
    PROVE  ReplaceRange(t, from, to, s) \in AnyText
<1>1. CASE Boundary(t, from) = {} \/ Boundary(t, to) = {} \/ from > to
  BY <1>1 DEF ReplaceRange, AnyText
<1>2. CASE ~ (Boundary(t, from) = {} \/ Boundary(t, to) = {} \/ from > to)
  <2> DEFINE first == CHOOSE i \in Boundary(t, from) : TRUE
             last == CHOOSE i \in Boundary(t, to) : TRUE
  <2>1. first \in 0..Len(t) /\ last \in 0..Len(t)
    BY <1>2 DEF Boundary
  <2>2. ReplaceRange(t, from, to, s) = SubSeq(t, 1, first) \o s \o SubSeq(t, last + 1, Len(t))
    BY <1>2 DEF ReplaceRange
  <2> HIDE DEF first, last
  <2> QED BY <2>1, <2>2, Spliced DEF AnyText
<1> QED BY <1>1, <1>2

LEMMA ChangeTyped ==
    ASSUME NEW t \in AnyText, NEW change \in AnyChange
    PROVE  ApplyChange(t, change) \in AnyText
<1>1. CASE t = NoText
  BY <1>1 DEF ApplyChange, AnyText
<1>2. CASE t # NoText /\ change \in WholeChange
  BY <1>2 DEF ApplyChange, AnyText, WholeChange
<1>3. CASE t # NoText /\ change \in RangeChange
  <2>1. t \in Text /\ change.text \in Text /\ change.whole = FALSE
    BY <1>3 DEF AnyText, RangeChange
  <2> DEFINE index == LineIndex(t)
             from == OffsetLsp(index, change.start)
             to == OffsetLsp(index, change.end)
  <2>2. ApplyChange(t, change) = ReplaceRange(t, from, to, change.text)
            \/ ApplyChange(t, change) = NoText
    BY <1>3, <2>1 DEF ApplyChange
  <2> HIDE DEF index, from, to
  <2>3. ReplaceRange(t, from, to, change.text) \in AnyText
    BY <2>1, ReplaceTyped
  <2> QED BY <2>2, <2>3 DEF AnyText
<1> QED BY <1>1, <1>2, <1>3 DEF AnyChange

\* The change of one text of the client makes the next one of it.
Makes(t, change, after) ==
    change \in AnyChange /\ after \in Text /\ ApplyChange(t, change) = after

\* An edit of a range that the client makes on a text makes of it, in the
\* store, what the client has then.
LEMMA RangeMakes ==
    ASSUME NEW t \in Text, NEW m \in 0..Len(t), NEW n \in 0..Len(t), m <= n, NEW s \in Text
    PROVE  Makes(t, RangeEdit(t, m, n, s).change, RangeEdit(t, m, n, s).after)
<1> DEFINE from == PositionAt(t, m)
           to == PositionAt(t, n)
           change == [whole |-> FALSE, start |-> from, end |-> to, text |-> s]
           after == SubSeq(t, 1, m) \o s \o SubSeq(t, n + 1, Len(t))
<1>1. Agree(t, m) /\ Agree(t, n)
  BY PlacesAgree
<1>2. from \in Position /\ to \in Position
  BY PositionIs, PlaceTyped DEF Position
<1>3. Boundary(t, Off(t, m)) = {m} /\ Boundary(t, Off(t, n)) = {n}
  BY OneBoundary
<1>4. Off(t, m) \in Nat /\ Off(t, n) \in Nat /\ Off(t, m) <= Off(t, n)
  <2>1. Off(t, m) \in Nat /\ Off(t, n) \in Nat
    BY PlaceTyped
  <2>2. m = n \/ m \in 0..(n - 1)
    BY DEF Text
  <2> QED BY <2>1, <2>2, OffsetsGrow
<1> HIDE DEF from, to
<1>5. ReplaceRange(t, Off(t, m), Off(t, n), s) = after
  <2> DEFINE first == CHOOSE i \in Boundary(t, Off(t, m)) : TRUE
             last == CHOOSE i \in Boundary(t, Off(t, n)) : TRUE
  <2>1. first = m /\ last = n
    BY <1>3
  <2>2. /\ Boundary(t, Off(t, m)) # {} /\ Boundary(t, Off(t, n)) # {}
        /\ ~ (Off(t, m) > Off(t, n))
    BY <1>3, <1>4
  <2>3. ReplaceRange(t, Off(t, m), Off(t, n), s)
            = SubSeq(t, 1, first) \o s \o SubSeq(t, last + 1, Len(t))
    BY <2>2 DEF ReplaceRange
  <2> HIDE DEF first, last
  <2> QED BY <2>1, <2>3
<1>6. after \in Text
  BY Spliced
<1>7. t # NoText
  BY TextAssumption
<1>8. /\ change.whole = FALSE /\ change.start = from /\ change.end = to /\ change.text = s
      /\ change \in AnyChange
  BY <1>2 DEF AnyChange, RangeChange
<1> HIDE DEF change, after
<1>9. /\ OffsetLsp(LineIndex(t), from) = Off(t, m) /\ OffsetLsp(LineIndex(t), to) = Off(t, n)
      /\ {from.line, to.line} \subseteq 0..(Len(LineIndex(t).newlines) - 1)
  BY <1>1 DEF Agree, from, to
<1>10. ApplyChange(t, change) = after
  BY <1>5, <1>7, <1>8, <1>9 DEF ApplyChange
<1>11. Makes(t, change, after)
  BY <1>6, <1>8, <1>10 DEF Makes
<1>12. RangeEdit(t, m, n, s) = [change |-> change, after |-> after]
  BY DEF RangeEdit, change, after, from, to
<1> QED BY <1>11, <1>12

LEMMA EditMakes ==
    ASSUME NEW t \in Text, NEW e \in Edits(t)
    PROVE  Makes(t, e.change, e.after) /\ Len(e.after) <= MaxLength
<1>1. e \in Ranged(t) \cup Whole /\ Len(e.after) <= MaxLength
  BY DEF Edits
<1>2. CASE e \in Ranged(t)
  <2>1. PICK r \in {q \in (0..Len(t)) \X (0..Len(t)) : q[1] <= q[2]}, s \in Inserts :
            e = RangeEdit(t, r[1], r[2], s)
    BY <1>2 DEF Ranged
  <2>2. PICK m \in 0..Len(t), n \in 0..Len(t) : r[1] = m /\ r[2] = n /\ m <= n
    OBVIOUS
  <2>3. s \in Text
    BY TextAssumption
  <2> QED BY <1>1, <2>1, <2>2, <2>3, RangeMakes
<1>3. CASE e \in Whole
  <2>1. PICK u \in DiskTexts : e = [change |-> [whole |-> TRUE, text |-> u], after |-> u]
    BY <1>3 DEF Whole
  <2>2. u \in Text /\ t # NoText
    BY TextAssumption
  <2>3. [whole |-> TRUE, text |-> u] \in AnyChange
    BY <2>2 DEF AnyChange, WholeChange
  <2>4. ApplyChange(t, [whole |-> TRUE, text |-> u]) = u
    BY <2>2 DEF ApplyChange
  <2> QED BY <1>1, <2>1, <2>2, <2>3, <2>4 DEF Makes
<1> QED BY <1>1, <1>2, <1>3

ChangeStep == [p \in AnyText \X AnyChange |-> ApplyChange(p[1], p[2])]

\* apply_document_edit is a fold.
LEMMA ChangesFold ==
    ASSUME NEW t \in AnyText, NEW s \in Seq(AnyChange)
    PROVE  FoldsTo(AnyText, t, ChangeStep, s, ApplyDocumentEdit(t, s))
<1> DEFINE D == SUBSET DOMAIN s
           E(it) == it = [q \in D |->
                            IF q = {} THEN t
                            ELSE ApplyChange(it[q \ {Max(q)}], s[Max(q)])]
           fold == CHOOSE it : E(it)
<1>1. s \in Seq(AnyChange) /\ t \in AnyText
  OBVIOUS
<1>2. ChangeStep \in [AnyText \X AnyChange -> AnyText]
  BY ChangeTyped DEF ChangeStep
<1>3. PICK f \in [D -> AnyText] : FoldsSets(AnyText, t, ChangeStep, s, f)
  BY <1>1, <1>2, FoldExists
<1>4. E(f)
  <2>1. \A q \in D : f[q] = IF q = {} THEN t ELSE ApplyChange(f[q \ {Max(q)}], s[Max(q)])
    BY <1>1, <1>3, TakesApart DEF FoldsSets, ChangeStep
  <2> QED BY <2>1
<1>5. E(fold)
  <2> HIDE DEF E
  <2> QED BY <1>4
<1>6. FoldsSets(AnyText, t, ChangeStep, s, fold)
  <2> HIDE DEF fold
  <2>1. \A q \in D : fold[q] = IF q = {} THEN t
                               ELSE ApplyChange(fold[q \ {Max(q)}], s[Max(q)])
    BY <1>5
  <2> QED BY <1>1, <2>1, TakesApart DEF FoldsSets, ChangeStep
<1>7. ApplyDocumentEdit(t, s) = fold[DOMAIN s]
  BY DEF ApplyDocumentEdit, FoldLeft, MapThenFoldSet
<1>8. FoldsTo(AnyText, t, ChangeStep, s, fold[DOMAIN s])
  <2> HIDE DEF fold
  <2> QED BY <1>1, <1>2, <1>6, FoldOfSets
<1> QED BY <1>7, <1>8

\* One change more is made on what the others made.
LEMMA ChangesAppend ==
    ASSUME NEW t \in AnyText, NEW s \in Seq(AnyChange)
    PROVE  /\ ApplyDocumentEdit(t, <<>>) = t /\ ApplyDocumentEdit(t, s) \in AnyText
           /\ \A change \in AnyChange : ApplyDocumentEdit(t, Append(s, change))
                                            = ApplyChange(ApplyDocumentEdit(t, s), change)
<1>1. <<>> \in Seq(AnyChange) /\ \A c \in AnyChange : Append(s, c) \in Seq(AnyChange)
  OBVIOUS
<1>2. ChangeStep \in [AnyText \X AnyChange -> AnyText]
  BY ChangeTyped DEF ChangeStep
<1>3. ApplyDocumentEdit(t, <<>>) = t
  BY <1>1, ChangesFold, FoldOfNothing
<1>4. ASSUME NEW c \in AnyChange
      PROVE  /\ ApplyDocumentEdit(t, s) \in AnyText
             /\ ApplyDocumentEdit(t, Append(s, c)) = ApplyChange(ApplyDocumentEdit(t, s), c)
  <2>1. /\ FoldsTo(AnyText, t, ChangeStep, s, ApplyDocumentEdit(t, s))
        /\ FoldsTo(AnyText, t, ChangeStep, Append(s, c), ApplyDocumentEdit(t, Append(s, c)))
    BY <1>1, ChangesFold
  <2>2. OneStep(AnyText, ChangeStep, ApplyDocumentEdit(t, s), c,
                ApplyDocumentEdit(t, Append(s, c)))
    BY <1>1, <1>2, <2>1, FoldOfAppend
  <2> QED BY <2>2 DEF OneStep, ChangeStep
<1>5. \E c : c \in AnyChange
  <2>1. <<>> \in Text
    BY DEF Text
  <2>2. [whole |-> TRUE, text |-> <<>>] \in AnyChange
    BY <2>1 DEF AnyChange, WholeChange
  <2> QED BY <2>2
<1> QED BY <1>3, <1>4, <1>5

\* A batch of one or of two changes.
LEMMA BatchMakes ==
    ASSUME NEW t \in Text, NEW c, NEW u, NEW d, NEW v, Makes(t, c, u)
    PROVE  /\ <<c>> \in Seq(AnyChange) /\ u \in Text /\ ApplyDocumentEdit(t, <<c>>) = u
           /\ Makes(u, d, v) => /\ <<c, d>> \in Seq(AnyChange) /\ v \in Text
                                /\ ApplyDocumentEdit(t, <<c, d>>) = v
<1>1. /\ t \in AnyText /\ c \in AnyChange /\ u \in Text /\ ApplyChange(t, c) = u
      /\ <<>> \in Seq(AnyChange) /\ <<c>> \in Seq(AnyChange) /\ <<c>> = Append(<<>>, c)
  BY DEF Makes, AnyText
<1>2. ApplyDocumentEdit(t, <<c>>) = u
  <2>1. ApplyDocumentEdit(t, Append(<<>>, c)) = ApplyChange(ApplyDocumentEdit(t, <<>>), c)
    BY <1>1, ChangesAppend, Zenon
  <2>2. ApplyDocumentEdit(t, <<>>) = t
    BY <1>1, ChangesAppend
  <2> QED BY <1>1, <2>1, <2>2, Zenon
<1>3. ASSUME Makes(u, d, v)
      PROVE  <<c, d>> \in Seq(AnyChange) /\ v \in Text /\ ApplyDocumentEdit(t, <<c, d>>) = v
  <2>1. /\ d \in AnyChange /\ v \in Text /\ ApplyChange(u, d) = v
    BY <1>3 DEF Makes
  <2>2. <<c, d>> \in Seq(AnyChange) /\ <<c, d>> = Append(<<c>>, d)
    BY <1>1, <2>1
  <2>3. ApplyDocumentEdit(t, Append(<<c>>, d)) = ApplyChange(ApplyDocumentEdit(t, <<c>>), d)
    BY <1>1, <2>1, ChangesAppend, Zenon
  <2> QED BY <1>2, <2>1, <2>2, <2>3, Zenon
<1> QED BY <1>1, <1>2, <1>3

-----------------------------------------------------------------------------
(* The notifications.                                                      *)

Message == [opens : BOOLEAN, changes : Seq(AnyChange), text : Text]

\* The text the client made the i-th notification on, and the one it has told last.
Base(i) == IF i = 1 THEN followed ELSE inbox[i - 1].text
LastText == IF inbox = <<>> THEN followed ELSE inbox[Len(inbox)].text

Followable(base, m) == base \in Text /\ ApplyDocumentEdit(base, m.changes) = m.text

Chain == \A i \in DOMAIN inbox : ~inbox[i].opens => Followable(Base(i), inbox[i])

\* The notifications on their way lead, one from the other, from the text that
\* was followed last to the one the client shows.
QueueInv ==
    /\ inbox \in Seq(Message) /\ followed \in AnyText
    /\ open \in BOOLEAN /\ text \in Text /\ Len(text) <= MaxLength
    /\ sent \in 0..MaxChanges
    /\ Chain
    /\ open => text = LastText

FilesInv ==
    /\ disk \in AnyText
    /\ disk # NoText => Len(disk) <= MaxLength
    /\ events \subseteq {"changed", "created", "deleted"}
    /\ written \in 0..MaxWrites

ServerInv ==
    /\ store \in AnyText
    /\ parsed \in BOOLEAN /\ config_pulled \in BOOLEAN /\ crashed \in BOOLEAN
    /\ parsed => store # NoText
    /\ PanicsOnlyAfterLosingTrack

TextInv == QueueInv /\ FilesInv /\ ServerInv

LEMMA TextInvTypes == TextInv => TypeOK
<1> SUFFICES ASSUME TextInv PROVE TypeOK
  OBVIOUS
<1>1. \A i \in DOMAIN inbox : inbox[i].opens \in BOOLEAN /\ inbox[i].text \in Text
  <2>1. \A m \in Message : m.opens \in BOOLEAN /\ m.text \in Text
    BY DEF Message
  <2>2. inbox \in Seq(Message)
    BY DEF TextInv, QueueInv
  <2>3. \A i \in DOMAIN inbox : inbox[i] \in Message
    BY <2>2
  <2> QED BY <2>1, <2>3
<1>2. {parsed, config_pulled, crashed} \subseteq BOOLEAN
  <2>1. parsed \in BOOLEAN /\ config_pulled \in BOOLEAN /\ crashed \in BOOLEAN
    BY DEF TextInv, ServerInv
  <2> QED BY <2>1, Zenon
<1>3. /\ open \in BOOLEAN /\ text \in Text /\ Len(text) <= MaxLength
      /\ followed \in AnyText /\ sent \in 0..MaxChanges
  BY DEF TextInv, QueueInv
<1>4. disk \in AnyText /\ events \subseteq {"changed", "created", "deleted"} /\ written \in 0..MaxWrites
  BY DEF TextInv, FilesInv
<1>5. store \in AnyText /\ (parsed => store # NoText)
  BY DEF TextInv, ServerInv
<1> QED BY <1>1, <1>2, <1>3, <1>4, <1>5 DEF TypeOK, AnyText

Taken(q, r) ==
    /\ Len(q) \in Nat /\ Len(r) = Len(q) - 1
    /\ DOMAIN q = 1..Len(q) /\ DOMAIN r = 1..(Len(q) - 1)
    /\ 1 \in DOMAIN q /\ \A i \in DOMAIN r : r[i] = q[i + 1] /\ i + 1 \in DOMAIN q

LEMMA TailTaken ==
    ASSUME NEW S, NEW q \in Seq(S), q # <<>>
    PROVE  Taken(q, Tail(q)) /\ Tail(q) \in Seq(S) /\ Head(q) = q[1] /\ q[1] \in S
  BY DEF Taken

\* The client tells a text that is made from the one it told last.
LEMMA Notifies ==
    ASSUME QueueInv, NEW opens \in BOOLEAN, NEW changes \in Seq(AnyChange), NEW after \in Text,
           Len(after) <= MaxLength,
           ~opens => open /\ Followable(text, [opens |-> opens, changes |-> changes, text |-> after]),
           Notify(opens, changes, after), open' = TRUE
    PROVE  QueueInv'
<1> DEFINE m == [opens |-> opens, changes |-> changes, text |-> after]
<1>1. m \in Message /\ m.opens = opens /\ m.text = after
  BY DEF Message
<1>2. /\ inbox \in Seq(Message) /\ followed \in AnyText /\ sent \in 0..MaxChanges
      /\ Chain /\ (open => text = LastText)
  BY DEF QueueInv
<1>3. /\ inbox' = Append(inbox, m) /\ text' = after /\ followed' = followed
      /\ sent' = sent + (IF opens THEN 1 ELSE Len(changes)) /\ sent' <= MaxChanges
  BY DEF Notify, serverVars
<1>4. ~opens => Followable(text, m)
  OBVIOUS
<1> HIDE DEF m
<1>5. inbox' \in Seq(Message) /\ LineLonger(inbox, m, inbox')
  BY <1>1, <1>2, <1>3, Longer
<1>6. Len(inbox) \in Nat /\ (inbox = <<>> <=> Len(inbox) = 0)
  BY <1>2
<1>7. Chain'
  <2> SUFFICES ASSUME NEW i \in DOMAIN inbox', ~inbox'[i].opens
               PROVE  Followable(Base(i)', inbox'[i])
    BY DEF Chain
  <2>1. i \in 1..(Len(inbox) + 1)
    BY <1>5 DEF LineLonger
  <2>2. CASE i \in 1..Len(inbox)
    <3>1. inbox'[i] = inbox[i] /\ i \in DOMAIN inbox
      BY <1>5, <2>2 DEF LineLonger
    <3>2. Base(i)' = Base(i)
      <4>1. i # 1 => i - 1 \in 1..Len(inbox)
        BY <1>6, <2>2
      <4>2. i # 1 => inbox'[i - 1] = inbox[i - 1]
        BY <1>5, <4>1 DEF LineLonger
      <4> QED BY <1>3, <4>2 DEF Base
    <3>3. Followable(Base(i), inbox[i])
      BY <1>2, <2>2, <3>1 DEF Chain
    <3> QED BY <3>1, <3>2, <3>3
  <2>3. CASE i = Len(inbox) + 1
    <3>1. inbox'[i] = m
      BY <1>5, <2>3 DEF LineLonger
    <3>2. ~opens /\ text = LastText
      BY <1>1, <1>2, <3>1
    <3>3. Base(i)' = text
      <4>1. CASE Len(inbox) = 0
        <5>1. i = 1
          BY <2>3, <4>1
        <5> QED BY <1>3, <1>6, <3>2, <4>1, <5>1 DEF Base, LastText
      <4>2. CASE Len(inbox) # 0
        <5>1. i # 1 /\ i - 1 = Len(inbox) /\ Len(inbox) \in 1..Len(inbox)
          BY <1>6, <2>3, <4>2
        <5>2. inbox'[i - 1] = inbox[Len(inbox)]
          BY <1>5, <5>1 DEF LineLonger
        <5> QED BY <1>6, <3>2, <4>2, <5>1, <5>2 DEF Base, LastText
      <4> QED BY <4>1, <4>2
    <3> QED BY <1>4, <3>1, <3>2, <3>3
  <2> QED BY <1>6, <2>1, <2>2, <2>3
<1>8. LastText' = after
  <2>1. Len(inbox') = Len(inbox) + 1 /\ inbox'[Len(inbox) + 1] = m /\ inbox' # <<>>
    <3>1. Len(inbox') = Len(inbox) + 1 /\ inbox'[Len(inbox) + 1] = m
      BY <1>5 DEF LineLonger
    <3> QED BY <1>6, <3>1
  <2> QED BY <1>1, <2>1 DEF LastText
<1>9. sent' \in 0..MaxChanges
  <2>1. Len(changes) \in Nat /\ MaxChanges \in Nat
    BY TextAssumption
  <2> QED BY <1>2, <1>3, <2>1
<1> QED BY <1>2, <1>3, <1>5, <1>7, <1>8, <1>9 DEF QueueInv

\* The server follows the first notification.
LEMMA Follows ==
    ASSUME QueueInv, inbox # <<>>, Handled(Head(inbox))
    PROVE  QueueInv'
<1>1. /\ inbox \in Seq(Message) /\ Chain /\ (open => text = LastText)
  BY DEF QueueInv
<1>2. /\ inbox' = Tail(inbox) /\ followed' = Head(inbox).text
      /\ open' = open /\ text' = text /\ sent' = sent
  BY DEF Handled
<1>3. Taken(inbox, inbox') /\ inbox' \in Seq(Message) /\ Head(inbox) = inbox[1] /\ inbox[1] \in Message
  BY <1>1, <1>2, TailTaken
<1>4. followed' = inbox[1].text /\ followed' \in AnyText
  BY <1>2, <1>3 DEF Message, AnyText
<1>5. Chain'
  <2> SUFFICES ASSUME NEW i \in DOMAIN inbox', ~inbox'[i].opens
               PROVE  Followable(Base(i)', inbox'[i])
    BY DEF Chain
  <2>1. /\ inbox'[i] = inbox[i + 1] /\ i + 1 \in DOMAIN inbox /\ i \in 1..(Len(inbox) - 1)
        /\ Len(inbox) \in Nat
    BY <1>3 DEF Taken
  <2>2. Followable(Base(i + 1), inbox[i + 1])
    BY <1>1, <2>1 DEF Chain
  <2>3. Base(i)' = Base(i + 1)
    <3>1. i + 1 # 1 /\ (i + 1) - 1 = i
      BY <2>1
    <3>2. CASE i = 1
      BY <1>4, <3>1, <3>2 DEF Base
    <3>3. CASE i # 1
      <4>1. i - 1 \in DOMAIN inbox' /\ (i - 1) + 1 = i
        BY <1>3, <2>1, <3>3 DEF Taken
      <4>2. inbox'[i - 1] = inbox[i]
        BY <1>3, <4>1 DEF Taken
      <4> QED BY <3>1, <3>3, <4>2 DEF Base
    <3> QED BY <3>2, <3>3
  <2> QED BY <2>1, <2>2, <2>3
<1>6. LastText' = LastText
  <2>1. /\ Len(inbox) \in Nat /\ Len(inbox) # 0 /\ Len(inbox') = Len(inbox) - 1
        /\ DOMAIN inbox' = 1..(Len(inbox) - 1)
    BY <1>1, <1>3 DEF Taken
  <2>2. inbox' = <<>> <=> Len(inbox') = 0
    BY <1>3
  <2>3. CASE Len(inbox) = 1
    BY <1>4, <2>1, <2>2, <2>3 DEF LastText
  <2>4. CASE Len(inbox) # 1
    <3>1. Len(inbox') \in DOMAIN inbox' /\ Len(inbox') + 1 = Len(inbox)
      BY <2>1, <2>4
    <3>2. inbox'[Len(inbox')] = inbox[Len(inbox)]
      BY <1>3, <3>1 DEF Taken
    <3> QED BY <2>1, <2>2, <2>4, <3>2 DEF LastText
  <2> QED BY <2>3, <2>4
<1> QED BY <1>1, <1>2, <1>3, <1>4, <1>5, <1>6 DEF QueueInv

\* Whatever else happens leaves the queue as it is.
LEMMA Unmoved ==
    ASSUME QueueInv, UNCHANGED <<inbox, followed, text, sent>>, open' \in BOOLEAN, open' => open
    PROVE  QueueInv'
<1>1. Chain'
  <2>1. \A i : Base(i)' = Base(i)
    BY DEF Base
  <2> QED BY <2>1 DEF QueueInv, Chain
<1>2. LastText' = LastText
  BY DEF LastText
<1> QED BY <1>1, <1>2 DEF QueueInv

-----------------------------------------------------------------------------
(* The steps.                                                              *)

LEMMA TextInvInit == Init => TextInv
<1> SUFFICES ASSUME Init PROVE TextInv
  OBVIOUS
<1>1. inbox = <<>> /\ text = <<>> /\ Len(<<>>) = 0 /\ <<>> \in Text /\ <<>> \in Seq(Message)
  BY DEF Init, Text
<1>2. Chain /\ ~open
  <2>1. DOMAIN inbox = {}
    BY <1>1
  <2> QED BY <2>1 DEF Init, Chain
<1>3. QueueInv
  <2>1. /\ followed = NoText /\ sent = 0 /\ open = FALSE /\ MaxLength \in Nat
        /\ MaxChanges \in Nat
    BY TextAssumption DEF Init
  <2>2. 0 <= MaxLength /\ 0 \in 0..MaxChanges
    BY <2>1
  <2> QED BY <1>1, <1>2, <2>1, <2>2 DEF QueueInv, AnyText
<1>4. FilesInv
  <2>1. disk \in DiskTexts /\ events = {} /\ written = 0
    BY DEF Init
  <2> QED BY <2>1, TextAssumption DEF FilesInv, AnyText
<1>5. ServerInv
  <2>1. store \in AnyText
    BY TextAssumption DEF Init, AnyText
  <2> QED BY <2>1 DEF Init, ServerInv, PanicsOnlyAfterLosingTrack
<1> QED BY <1>3, <1>4, <1>5 DEF TextInv

\* The file is changed.
LEMMA FileChangesInv ==
    ASSUME FilesInv, NEW t \in AnyText, t # NoText => Len(t) <= MaxLength, FileChanges(t),
           written' \in 0..MaxWrites
    PROVE  FilesInv'
<1>1. events' \subseteq {"changed", "created", "deleted"}
  BY DEF FilesInv, FileChanges
<1>2. disk' = t
  BY DEF FileChanges
<1> QED BY <1>1, <1>2 DEF FilesInv

\* The server keeps what it has.
LEMMA ServerKeeps == ServerInv /\ UNCHANGED serverVars => ServerInv'
  BY DEF ServerInv, serverVars, PanicsOnlyAfterLosingTrack

LEMMA TextInvNext == TextInv /\ [Next]_vars => TextInv'
<1> SUFFICES ASSUME TextInv, [Next]_vars PROVE TextInv'
  OBVIOUS
<1>1. QueueInv /\ FilesInv /\ ServerInv
  BY DEF TextInv
<1>2. CASE Open
  <2>1. /\ Notify(TRUE, <<>>, disk) /\ open' = TRUE /\ disk # NoText /\ UNCHANGED fileVars
    BY <1>2 DEF Open
  <2>2. disk \in Text /\ Len(disk) <= MaxLength
    BY <1>1, <2>1 DEF FilesInv, AnyText
  <2>3. <<>> \in Seq(AnyChange)
    OBVIOUS
  <2>4. QueueInv'
    BY <1>1, <2>1, <2>2, <2>3, Notifies
  <2>5. FilesInv'
    BY <1>1, <2>1 DEF FilesInv, fileVars
  <2>6. ServerInv'
    BY <1>1, <2>1, ServerKeeps DEF Notify
  <2> QED BY <2>4, <2>5, <2>6 DEF TextInv
<1>3. CASE Change
  <2>1. open /\ open' = TRUE /\ UNCHANGED fileVars
    BY <1>3, <1>1 DEF Change, QueueInv
  <2>2. PICK e \in Edits(text) :
            \/ Notify(FALSE, <<e.change>>, e.after)
            \/ \E f \in Edits(e.after) : Notify(FALSE, <<e.change, f.change>>, f.after)
    BY <1>3 DEF Change
  <2>3. text \in Text /\ Makes(text, e.change, e.after) /\ Len(e.after) <= MaxLength
    BY <1>1, EditMakes DEF QueueInv
  <2>4. /\ <<e.change>> \in Seq(AnyChange) /\ e.after \in Text
        /\ ApplyDocumentEdit(text, <<e.change>>) = e.after
    BY <2>3, BatchMakes
  <2>5. QueueInv' /\ UNCHANGED serverVars
    <3>1. CASE Notify(FALSE, <<e.change>>, e.after)
      <4>1. Followable(text, [opens |-> FALSE, changes |-> <<e.change>>, text |-> e.after])
        BY <2>3, <2>4 DEF Followable
      <4>2. QueueInv'
        BY <1>1, <2>1, <2>3, <2>4, <3>1, <4>1, Notifies
      <4> QED BY <3>1, <4>2 DEF Notify
    <3>2. CASE \E f \in Edits(e.after) : Notify(FALSE, <<e.change, f.change>>, f.after)
      <4>1. PICK f \in Edits(e.after) : Notify(FALSE, <<e.change, f.change>>, f.after)
        BY <3>2
      <4>2. Makes(e.after, f.change, f.after) /\ Len(f.after) <= MaxLength
        BY <2>4, EditMakes
      <4>3. /\ <<e.change, f.change>> \in Seq(AnyChange) /\ f.after \in Text
            /\ ApplyDocumentEdit(text, <<e.change, f.change>>) = f.after
        BY <2>3, <4>2, BatchMakes
      <4>4. Followable(text, [opens |-> FALSE, changes |-> <<e.change, f.change>>,
                              text |-> f.after])
        BY <2>3, <4>3 DEF Followable
      <4>5. QueueInv'
        BY <1>1, <2>1, <4>1, <4>2, <4>3, <4>4, Notifies
      <4> QED BY <4>1, <4>5 DEF Notify
    <3> QED BY <2>2, <3>1, <3>2
  <2>6. FilesInv'
    BY <1>1, <2>1 DEF FilesInv, fileVars
  <2> QED BY <1>1, <2>5, <2>6, ServerKeeps DEF TextInv
<1>4. CASE Close
  <2>1. QueueInv'
    BY <1>1, <1>4, Unmoved DEF Close, serverVars, QueueInv
  <2>2. FilesInv' /\ ServerInv'
    BY <1>1, <1>4, ServerKeeps DEF Close, FilesInv, fileVars
  <2> QED BY <2>1, <2>2 DEF TextInv
<1>5. CASE Save
  <2>1. FileChanges(text) /\ written' = written /\ UNCHANGED clientVars /\ UNCHANGED serverVars
    BY <1>5 DEF Save
  <2>2. QueueInv'
    BY <1>1, <2>1, Unmoved DEF clientVars, serverVars, QueueInv
  <2>3. FilesInv'
    <3>1. text \in AnyText /\ Len(text) <= MaxLength /\ written' \in 0..MaxWrites
      BY <1>1, <2>1 DEF QueueInv, AnyText, FilesInv
    <3> QED BY <1>1, <2>1, <3>1, FileChangesInv
  <2> QED BY <1>1, <2>1, <2>2, <2>3, ServerKeeps DEF TextInv
<1>6. CASE OutsideWrite
  <2>1. /\ written < MaxWrites /\ written' = written + 1 /\ UNCHANGED clientVars
        /\ UNCHANGED serverVars
    BY <1>6 DEF OutsideWrite
  <2>2. PICK t \in (DiskTexts \cup {NoText}) \ {disk} : FileChanges(t)
    BY <1>6 DEF OutsideWrite
  <2>3. QueueInv'
    BY <1>1, <2>1, Unmoved DEF clientVars, serverVars, QueueInv
  <2>4. FilesInv'
    <3>1. t \in AnyText /\ (t # NoText => Len(t) <= MaxLength)
      BY TextAssumption DEF AnyText
    <3>2. written' \in 0..MaxWrites
      BY <1>1, <2>1, TextAssumption DEF FilesInv
    <3> QED BY <1>1, <2>2, <3>1, <3>2, FileChangesInv
  <2> QED BY <1>1, <2>1, <2>3, <2>4, ServerKeeps DEF TextInv
<1>7. CASE DidOpen
  <2>1. /\ ~crashed /\ crashed' = crashed /\ inbox # <<>> /\ Handled(Head(inbox))
    BY <1>7 DEF DidOpen, Running
  <2>2. QueueInv'
    BY <1>1, <2>1, Follows
  <2>3. FilesInv'
    BY <1>1, <2>1 DEF FilesInv, Handled, fileVars
  <2>4. Head(inbox).text \in Text
    <3>1. Head(inbox) \in Message
      BY <1>1, <2>1, TailTaken DEF QueueInv
    <3> QED BY <3>1 DEF Message
  <2>5. ServerInv'
    <3>1. config_pulled' = config_pulled
      BY <2>1 DEF Handled
    <3>2. \/ store' = Head(inbox).text /\ parsed' \in BOOLEAN
          \/ store' = store /\ parsed' = parsed
      BY <1>7 DEF DidOpen, HandleOpenDocument
    <3>3. store' \in AnyText /\ parsed' \in BOOLEAN /\ (parsed' => store' # NoText)
      BY <1>1, <2>4, <3>2, TextAssumption DEF ServerInv, AnyText
    <3> QED BY <1>1, <2>1, <3>1, <3>3 DEF ServerInv, PanicsOnlyAfterLosingTrack
  <2> QED BY <2>2, <2>3, <2>5 DEF TextInv
<1>8. CASE ChangeUnknown
  <2>1. /\ ~crashed /\ crashed' = crashed /\ inbox # <<>> /\ Handled(Head(inbox))
    BY <1>8 DEF ChangeUnknown, Running
  <2>2. QueueInv'
    BY <1>1, <2>1, Follows
  <2>3. FilesInv'
    BY <1>1, <2>1 DEF FilesInv, Handled, fileVars
  <2>4. ServerInv'
    <3>1. config_pulled' = config_pulled
      BY <2>1 DEF Handled
    <3>2. \/ disk # NoText /\ store' = disk /\ parsed' = TRUE
          \/ store' = store /\ parsed' = parsed
      BY <1>8 DEF ChangeUnknown, HandleOpenDocument
    <3>3. store' \in AnyText /\ parsed' \in BOOLEAN /\ (parsed' => store' # NoText)
      <4>1. store \in AnyText /\ parsed \in BOOLEAN /\ (parsed => store # NoText)
        BY <1>1 DEF ServerInv
      <4>2. disk \in AnyText /\ NoText \in AnyText
        BY <1>1 DEF FilesInv, AnyText
      <4>3. parsed' \in BOOLEAN
        BY <3>2, <4>1, Zenon
      <4>4. store' \in AnyText
        BY <3>2, <4>1, <4>2, Zenon
      <4>5. parsed' => store' # NoText
        BY <3>2, <4>1, Zenon
      <4> QED BY <4>3, <4>4, <4>5
    <3> QED BY <1>1, <2>1, <3>1, <3>3 DEF ServerInv, PanicsOnlyAfterLosingTrack
  <2> QED BY <2>2, <2>3, <2>4 DEF TextInv
<1>9. CASE DidChange
  <2> DEFINE m == Head(inbox)
             edited == ApplyDocumentEdit(store, m.changes)
  <2>1. /\ ~crashed /\ inbox # <<>> /\ ~m.opens /\ store # NoText
    BY <1>9 DEF DidChange, Running
  <2>2. /\ inbox \in Seq(Message) /\ m \in Message /\ m = inbox[1] /\ 1 \in DOMAIN inbox
    BY <1>1, <2>1, TailTaken DEF QueueInv, Taken
  <2>3. store \in Text /\ edited \in AnyText
    <3>1. store \in AnyText /\ m.changes \in Seq(AnyChange)
      BY <1>1, <2>2 DEF ServerInv, Message
    <3>2. edited \in AnyText
      <4> HIDE DEF m
      <4> QED BY <3>1, ChangesAppend
    <3> QED BY <2>1, <3>1, <3>2 DEF AnyText
  <2>4. Followable(followed, m)
    BY <1>1, <2>1, <2>2 DEF QueueInv, Chain, Base
  <2>5. CASE edited = NoText
    <3>1. /\ crashed' = TRUE /\ UNCHANGED <<clientVars, fileVars, store, parsed, config_pulled,
                                            followed>>
      BY <1>9, <2>5 DEF DidChange
    <3>2. QueueInv'
      BY <1>1, <3>1, Unmoved DEF clientVars, QueueInv
    <3>3. FilesInv'
      BY <1>1, <3>1 DEF FilesInv, fileVars
    <3>4. store # followed
      <4>1. m.text \in Text
        BY <2>2 DEF Message
      <4> QED BY <2>4, <2>5, <4>1, TextAssumption DEF Followable
    <3>5. ServerInv'
      BY <1>1, <3>1, <3>4 DEF ServerInv, PanicsOnlyAfterLosingTrack
    <3> QED BY <3>2, <3>3, <3>5 DEF TextInv
  <2>6. CASE edited # NoText
    <3>1. store' = edited /\ parsed' = TRUE /\ Handled(m) /\ crashed' = crashed
      BY <1>9, <2>6 DEF DidChange, HandleOpenDocument
    <3>2. QueueInv'
      BY <1>1, <2>1, <3>1, Follows
    <3>3. FilesInv'
      BY <1>1, <3>1 DEF FilesInv, Handled, fileVars
    <3>4. ServerInv'
      <4>1. config_pulled' = config_pulled
        BY <3>1 DEF Handled
      <4> HIDE DEF edited
      <4> QED BY <1>1, <2>1, <2>3, <2>6, <3>1, <4>1 DEF ServerInv, PanicsOnlyAfterLosingTrack
    <3> QED BY <3>2, <3>3, <3>4 DEF TextInv
  <2> QED BY <2>5, <2>6
<1>10. CASE FileEvent
  <2>1. /\ ~crashed
        /\ UNCHANGED <<clientVars, disk, written, config_pulled, crashed, followed>>
    BY <1>10 DEF FileEvent, Running
  <2>2. PICK e \in events :
            /\ events' = events \ {e}
            /\ CASE e = "deleted" -> store' = NoText /\ parsed' = FALSE
                 [] e = "changed" /\ disk # NoText -> HandleOpenDocument(disk)
                 [] e = "created" /\ disk # NoText /\ store = NoText -> HandleOpenDocument(disk)
                 [] OTHER -> UNCHANGED <<store, parsed>>
    BY <1>10 DEF FileEvent
  <2>3. \/ store' = NoText /\ parsed' = FALSE
        \/ disk # NoText /\ store' = disk /\ parsed' = TRUE
        \/ store' = store /\ parsed' = parsed
    BY <2>2 DEF HandleOpenDocument
  <2>4. QueueInv'
    BY <1>1, <2>1, Unmoved DEF clientVars, QueueInv
  <2>5. FilesInv'
    BY <1>1, <2>1, <2>2 DEF FilesInv
  <2>6. ServerInv'
    <3>1. store' \in AnyText /\ parsed' \in BOOLEAN /\ (parsed' => store' # NoText)
      <4>1. store \in AnyText /\ parsed \in BOOLEAN /\ (parsed => store # NoText)
        BY <1>1 DEF ServerInv
      <4>2. disk \in AnyText /\ NoText \in AnyText
        BY <1>1 DEF FilesInv, AnyText
      <4>3. parsed' \in BOOLEAN
        BY <2>3, <4>1, Zenon
      <4>4. store' \in AnyText
        BY <2>3, <4>1, <4>2, Zenon
      <4>5. parsed' => store' # NoText
        BY <2>3, <4>1, Zenon
      <4> QED BY <4>3, <4>4, <4>5
    <3> QED BY <1>1, <2>1, <3>1 DEF ServerInv, PanicsOnlyAfterLosingTrack
  <2> QED BY <2>4, <2>5, <2>6 DEF TextInv
<1>11. CASE ReadFile
  <2>1. /\ ~crashed /\ disk # NoText /\ store' = disk /\ parsed' \in BOOLEAN
        /\ UNCHANGED <<clientVars, fileVars, config_pulled, crashed, followed>>
    BY <1>11 DEF ReadFile, Running
  <2>2. QueueInv'
    BY <1>1, <2>1, Unmoved DEF clientVars, QueueInv
  <2>3. FilesInv'
    BY <1>1, <2>1 DEF FilesInv, fileVars
  <2>4. ServerInv'
    BY <1>1, <2>1 DEF ServerInv, FilesInv, PanicsOnlyAfterLosingTrack
  <2> QED BY <2>2, <2>3, <2>4 DEF TextInv
<1>12. CASE Configured
  <2>1. /\ ~crashed /\ config_pulled' = TRUE /\ parsed' \in {parsed, store # NoText}
        /\ UNCHANGED <<clientVars, fileVars, store, crashed, followed>>
    BY <1>12 DEF Configured, Running
  <2>2. QueueInv'
    BY <1>1, <2>1, Unmoved DEF clientVars, QueueInv
  <2>3. FilesInv'
    BY <1>1, <2>1 DEF FilesInv, fileVars
  <2>4. ServerInv'
    <3>1. parsed' \in BOOLEAN /\ (parsed' => store # NoText)
      BY <1>1, <2>1 DEF ServerInv
    <3> QED BY <1>1, <2>1, <3>1 DEF ServerInv, PanicsOnlyAfterLosingTrack
  <2> QED BY <2>2, <2>3, <2>4 DEF TextInv
<1>13. CASE UNCHANGED vars
  <2>1. QueueInv'
    BY <1>1, <1>13, Unmoved DEF vars, clientVars, serverVars, QueueInv
  <2>2. FilesInv' /\ ServerInv'
    BY <1>1, <1>13, ServerKeeps DEF vars, FilesInv, fileVars
  <2> QED BY <2>1, <2>2 DEF TextInv
<1> QED BY <1>2, <1>3, <1>4, <1>5, <1>6, <1>7, <1>8, <1>9, <1>10, <1>11, <1>12, <1>13 DEF Next

LEMMA TextInvAlways == Spec => []TextInv
<1> QED BY TextInvInit, TextInvNext, PTL DEF Spec

-----------------------------------------------------------------------------
(* What is proved.                                                         *)

\* The variables keep their types, and only a document that is known is parsed.
THEOREM TypeCorrect == Spec => []TypeOK
<1> QED BY TextInvAlways, TextInvTypes, PTL

\* did_change does not panic in replace_range, nor on a line that the index has
\* not, as long as the store's text is the one the client made the edit on:
\* whatever the text, its wide characters and the batches of its edits.
THEOREM NeverPanicsOnTrack == Spec => []PanicsOnlyAfterLosingTrack
<1>1. TextInv => PanicsOnlyAfterLosingTrack
  BY DEF TextInv, ServerInv
<1> QED BY <1>1, TextInvAlways, PTL

\* line_col_lsp and offset_lsp take the client's positions to the offsets of the
\* store's text and back, in every text the store comes to have.
THEOREM PositionsAlwaysAgree == Spec => []PositionsAgree
<1>1. TextInv => PositionsAgree
  <2> SUFFICES ASSUME TextInv, store # NoText, NEW n \in 0..Len(store)
               PROVE  /\ LineColLsp(LineIndex(store), Bytes(SubSeq(store, 1, n)))
                            = PositionAt(store, n)
                      /\ OffsetLsp(LineIndex(store), PositionAt(store, n))
                            = Bytes(SubSeq(store, 1, n))
    BY DEF PositionsAgree
  <2>1. store \in Text
    BY DEF TextInv, ServerInv, AnyText
  <2>2. Agree(store, n)
    BY <2>1, PlacesAgree
  <2> QED BY <2>2 DEF Agree, Off, Prefix
<1> QED BY <1>1, TextInvAlways, PTL

-----------------------------------------------------------------------------
(* TextSync implements Mirror.                                             *)

ahead == [i \in DOMAIN inbox |-> [opens |-> inbox[i].opens, text |-> inbox[i].text]]

ToldText == [opens : BOOLEAN, text : Text]

\* The queue of the abstract specification, from the one of the server.
AheadIs ==
    /\ ahead \in Seq(ToldText) /\ Len(ahead) = Len(inbox) /\ DOMAIN ahead = DOMAIN inbox
    /\ DOMAIN inbox = 1..Len(inbox) /\ Len(inbox) \in Nat
    /\ \A i \in DOMAIN inbox : ahead[i] = [opens |-> inbox[i].opens, text |-> inbox[i].text]

LEMMA AheadTyped == TextInv => AheadIs
<1> SUFFICES ASSUME TextInv PROVE AheadIs
  OBVIOUS
<1>1. inbox \in Seq(Message)
  BY DEF TextInv, QueueInv
<1>2. DOMAIN inbox = 1..Len(inbox) /\ Len(inbox) \in Nat /\ \A i \in DOMAIN inbox : inbox[i] \in Message
  BY <1>1
<1>3. \A i \in DOMAIN inbox : [opens |-> inbox[i].opens, text |-> inbox[i].text] \in ToldText
  BY <1>2 DEF Message, ToldText
<1>4. /\ DOMAIN ahead = DOMAIN inbox
      /\ \A i \in DOMAIN inbox : ahead[i] = [opens |-> inbox[i].opens, text |-> inbox[i].text]
  BY DEF ahead
<1>5. ahead \in [1..Len(inbox) -> ToldText]
  BY <1>2, <1>3 DEF ahead
<1> HIDE DEF ahead
<1>6. ahead \in Seq(ToldText) /\ Len(ahead) = Len(inbox)
  BY <1>2, <1>5
<1> QED BY <1>2, <1>4, <1>6 DEF AheadIs

\* A step of the server that keeps the notifications and the text it followed.
LEMMA Interferes ==
    ASSUME store' \in AnyText, UNCHANGED <<inbox, followed>>
    PROVE  M!MirrorNext
<1>1. M!Interfere
  BY DEF M!Interfere, AnyText
<1> QED BY <1>1 DEF M!MirrorNext

\* A step that sends a notification.
LEMMA Tells ==
    ASSUME AheadIs, AheadIs', NEW m, inbox \in Seq(Message), m \in Message,
           inbox' = Append(inbox, m), UNCHANGED <<followed, store>>
    PROVE  M!MirrorNext
<1>1. /\ ahead \in Seq(ToldText) /\ ahead' \in Seq(ToldText) /\ Len(inbox) \in Nat
      /\ Len(ahead) = Len(inbox) /\ Len(ahead') = Len(inbox')
      /\ \A i \in 1..Len(inbox) : ahead[i] = [opens |-> inbox[i].opens, text |-> inbox[i].text]
      /\ \A i \in 1..Len(inbox') :
            ahead'[i] = [opens |-> inbox'[i].opens, text |-> inbox'[i].text]
  BY DEF AheadIs
<1>2. M!Tell <=> /\ Len(ahead') = Len(ahead) + 1
                 /\ SubSeq(ahead', 1, Len(ahead)) = ahead /\ ahead'[Len(ahead')] \in ToldText
                 /\ followed' = followed /\ store' = store
  BY DEF M!Tell, M!Told, ahead, ToldText
<1> HIDE DEF ahead
<1>3. /\ Len(inbox') = Len(inbox) + 1
      /\ \A i \in 1..Len(inbox) : inbox'[i] = inbox[i]
  <2>1. LineLonger(inbox, m, inbox')
    BY Longer
  <2> QED BY <2>1 DEF LineLonger
<1>4. \A i \in 1..Len(inbox) : ahead'[i] = ahead[i]
  BY <1>1, <1>3
<1>5. SubSeq(ahead', 1, Len(ahead)) = ahead
  <2>1. \A i \in 1..Len(ahead) : ahead'[i] = ahead[i]
    BY <1>1, <1>4
  <2>2. Len(ahead') = Len(ahead) + 1 /\ Len(ahead) \in Nat
    BY <1>1, <1>3
  <2> QED BY <1>1, <2>1, <2>2
<1>6. ahead'[Len(ahead')] \in ToldText
  BY <1>1, <1>3
<1>7. M!Tell
  BY <1>1, <1>2, <1>3, <1>5, <1>6
<1> QED BY <1>7 DEF M!MirrorNext

\* A step that takes one.
LEMMA Mirrors ==
    ASSUME AheadIs, AheadIs', inbox \in Seq(Message), inbox # <<>>, Handled(Head(inbox)),
           store' \in AnyText,
           Head(inbox).opens => store' = Head(inbox).text
                                \/ (store # NoText /\ store' = store),
           ~Head(inbox).opens /\ store = followed => store' = Head(inbox).text
    PROVE  M!MirrorNext
<1> DEFINE told == [opens |-> inbox[1].opens, text |-> inbox[1].text]
<1>1. /\ ahead \in Seq(ToldText) /\ ahead' \in Seq(ToldText) /\ Len(inbox) \in Nat
      /\ Len(ahead) = Len(inbox) /\ Len(ahead') = Len(inbox')
      /\ \A i \in 1..Len(inbox) : ahead[i] = [opens |-> inbox[i].opens, text |-> inbox[i].text]
      /\ \A i \in 1..Len(inbox') :
            ahead'[i] = [opens |-> inbox'[i].opens, text |-> inbox'[i].text]
  BY DEF AheadIs
<1>2. M!Follow <=> /\ ahead # <<>>
                   /\ followed' = Head(ahead).text
                   /\ IF Head(ahead).opens
                      THEN store' = Head(ahead).text \/ (store # NoText /\ store' = store)
                      ELSE store = followed => store' = Head(ahead).text
                   /\ store' \in AnyText
                   /\ ahead' = Tail(ahead)
  BY DEF M!Follow, ahead, AnyText
<1> HIDE DEF ahead
<1>3. /\ inbox' = Tail(inbox) /\ followed' = Head(inbox).text
  BY DEF Handled
<1>4. Taken(inbox, inbox') /\ Head(inbox) = inbox[1]
  BY <1>3, TailTaken
<1>5. ahead # <<>>
  BY <1>1
<1>6. Taken(ahead, Tail(ahead)) /\ Head(ahead) = ahead[1] /\ Tail(ahead) \in Seq(ToldText)
  BY <1>1, <1>5, TailTaken
<1>7. Head(ahead) = told /\ told.opens = inbox[1].opens /\ told.text = inbox[1].text
  BY <1>1, <1>4, <1>6 DEF Taken
<1>8. ahead' = Tail(ahead)
  <2>1. Len(ahead') = Len(Tail(ahead))
    BY <1>1, <1>4, <1>6 DEF Taken
  <2>2. ASSUME NEW i \in 1..Len(ahead') PROVE ahead'[i] = Tail(ahead)[i]
    <3>1. i \in DOMAIN inbox' /\ i \in DOMAIN Tail(ahead) /\ i + 1 \in 1..Len(inbox)
      BY <1>1, <1>4, <2>1, <1>6 DEF Taken
    <3>2. inbox'[i] = inbox[i + 1] /\ Tail(ahead)[i] = ahead[i + 1]
      BY <1>4, <1>6, <3>1 DEF Taken
    <3> QED BY <1>1, <3>1, <3>2
  <2> QED BY <1>1, <1>6, <2>1, <2>2
<1> HIDE DEF told
<1>9. M!Follow
  BY <1>2, <1>3, <1>4, <1>5, <1>7, <1>8
<1> QED BY <1>9 DEF M!MirrorNext

LEMMA MirrorStep == TextInv /\ TextInv' /\ [Next]_vars => [M!MirrorNext]_(M!mirrorVars)
<1> SUFFICES ASSUME TextInv, TextInv', [Next]_vars PROVE [M!MirrorNext]_(M!mirrorVars)
  OBVIOUS
<1>1. AheadIs /\ AheadIs'
  BY AheadTyped, PTL
<1>2. inbox \in Seq(Message) /\ inbox' \in Seq(Message) /\ store \in AnyText /\ store' \in AnyText
  BY DEF TextInv, QueueInv, ServerInv
<1>3. UNCHANGED <<inbox, followed, store>> => UNCHANGED M!mirrorVars
  BY DEF M!mirrorVars
<1>4. ASSUME NEW opens \in BOOLEAN, NEW changes, NEW after, Notify(opens, changes, after)
      PROVE  M!MirrorNext
  <2> DEFINE m == [opens |-> opens, changes |-> changes, text |-> after]
  <2>1. inbox' = Append(inbox, m) /\ UNCHANGED <<followed, store>>
    BY <1>4 DEF Notify, serverVars
  <2>2. m \in Message
    <3> HIDE DEF m
    <3>1. Len(inbox') = Len(inbox) + 1 /\ inbox'[Len(inbox) + 1] = m /\ Len(inbox) \in Nat
      BY <1>2, <2>1
    <3> QED BY <1>2, <3>1
  <2> HIDE DEF m
  <2> QED BY <1>1, <1>2, <2>1, <2>2, Tells
<1>5. CASE Open
  BY <1>4, <1>5 DEF Open
<1>6. CASE Change
  <2>1. \E changes, after : Notify(FALSE, changes, after)
    BY <1>6 DEF Change
  <2> QED BY <1>4, <2>1
<1>7. CASE Close \/ Save \/ OutsideWrite
  BY <1>3, <1>7 DEF Close, Save, OutsideWrite, serverVars, clientVars
<1>8. CASE DidOpen
  <2>1. /\ inbox # <<>> /\ Handled(Head(inbox)) /\ Head(inbox).opens
        /\ store' = Head(inbox).text \/ (store # NoText /\ store' = store)
    BY <1>8 DEF DidOpen, HandleOpenDocument
  <2> QED BY <1>1, <1>2, <2>1, Mirrors
<1>9. ASSUME inbox # <<>>, ~Head(inbox).opens PROVE Followable(followed, Head(inbox))
  <2>1. Head(inbox) = inbox[1] /\ 1 \in DOMAIN inbox
    BY <1>2, <1>9, TailTaken DEF Taken
  <2> QED BY <1>9, <2>1 DEF TextInv, QueueInv, Chain, Base
<1>10. CASE ChangeUnknown
  <2>1. /\ inbox # <<>> /\ Handled(Head(inbox)) /\ ~Head(inbox).opens /\ store = NoText
    BY <1>10 DEF ChangeUnknown
  <2>2. store # followed
    BY <1>9, <2>1, TextAssumption DEF Followable
  <2> QED BY <1>1, <1>2, <2>1, <2>2, Mirrors
<1>11. CASE DidChange
  <2> DEFINE edited == ApplyDocumentEdit(store, Head(inbox).changes)
  <2>1. inbox # <<>> /\ ~Head(inbox).opens
    BY <1>11 DEF DidChange
  <2>2. CASE edited = NoText
    BY <1>3, <1>11, <2>2 DEF DidChange, clientVars
  <2>3. CASE edited # NoText
    <3>1. store' = edited /\ Handled(Head(inbox))
      BY <1>11, <2>3 DEF DidChange, HandleOpenDocument
    <3>2. store = followed => store' = Head(inbox).text
      BY <1>9, <2>1, <3>1 DEF Followable
    <3> HIDE DEF edited
    <3> QED BY <1>1, <1>2, <2>1, <3>1, <3>2, Mirrors
  <2> QED BY <2>2, <2>3
<1>12. CASE FileEvent \/ ReadFile \/ Configured
  <2>1. UNCHANGED <<inbox, followed>>
    BY <1>12 DEF FileEvent, ReadFile, Configured, clientVars
  <2> QED BY <1>2, <2>1, Interferes
<1>13. CASE UNCHANGED vars
  BY <1>3, <1>13 DEF vars, clientVars, serverVars
<1> QED BY <1>5, <1>6, <1>7, <1>8, <1>10, <1>11, <1>12, <1>13 DEF Next

\* The store's text mirrors the client's: an edit of the text that was followed
\* last makes the text the client had then, whatever the batches, the wide
\* characters and the files read in between (module Mirror).
THEOREM MirrorsAlways == Spec => MirrorsTheClient
<1>1. Init => M!MirrorInit
  <2> SUFFICES ASSUME Init PROVE M!MirrorInit
    OBVIOUS
  <2>1. inbox = <<>> /\ followed = NoText
    BY DEF Init
  <2>2. store \in AnyText
    BY TextAssumption DEF Init, AnyText
  <2>3. ahead = <<>>
    <3>1. AheadIs
      BY TextInvInit, AheadTyped
    <3>2. Len(ahead) = 0 /\ ahead \in Seq(ToldText)
      BY <2>1, <3>1 DEF AheadIs
    <3> HIDE DEF ahead
    <3> QED BY <3>2
  <2>4. M!MirrorInit <=> ahead = <<>> /\ followed = NoText /\ store \in AnyText
    BY DEF M!MirrorInit, ahead, AnyText
  <2> QED BY <2>1, <2>2, <2>3, <2>4
<1> QED BY <1>1, MirrorStep, TextInvAlways, PTL DEF Spec, MirrorsTheClient, M!MirrorSpec
=============================================================================
