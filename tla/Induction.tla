------------------------------ MODULE Induction ------------------------------
(***************************************************************************)
(* Induction over numbers and finite data, for the proofs about the        *)
(* algorithms.  A property is a set here, of the numbers that have it: the *)
(* lemmas take sets and functions and no operator.                         *)
(***************************************************************************)
EXTENDS SequencesExt, Integers, WellFoundedInduction, FiniteSetTheorems, TLAPS

-----------------------------------------------------------------------------
(* Numbers.                                                                *)

Less == {ss \in Nat \X Nat : ss[1] < ss[2]}

LEMMA NatLess == IsWellFoundedOn(Less, Nat)
<1>1. OpToRel(<, Nat) = {ss \in Nat \X Nat : ss[1] < ss[2]}
  BY DEF OpToRel
<1> QED BY <1>1, NatLessThanWellFounded DEF Less

\* Some numbers have a least one among them.
LEMMA LeastNat ==
    ASSUME NEW S \in SUBSET Nat, S # {}
    PROVE  \E x \in S : \A y \in S : x <= y
<1>1. PICK x \in S : \A y \in S : ~ (<<y, x>> \in Less)
  BY NatLess, WFMin
<1>2. ASSUME NEW y \in S PROVE x <= y
  <2>1. ~ (y < x)
    BY <1>1, <1>2 DEF Less
  <2> QED BY <2>1
<1> QED BY <1>2

\* What holds of 0 and goes on from n to n + 1 holds of all numbers.
LEMMA SetInduction ==
    ASSUME NEW S \in SUBSET Nat, 0 \in S, \A n \in S : n + 1 \in S
    PROVE  S = Nat
<1> SUFFICES ASSUME Nat \ S # {} PROVE FALSE
  OBVIOUS
<1>1. PICK x \in Nat \ S : \A y \in Nat \ S : x <= y
  BY LeastNat
<1>2. x # 0 /\ x - 1 \in Nat
  OBVIOUS
<1>3. x - 1 \in S
  BY <1>1, <1>2
<1> QED BY <1>2, <1>3

\* The numbers up to n, when the step is known below n only.
LEMMA BoundedInduction ==
    ASSUME NEW n \in Nat, NEW S, 0 \in S, \A i \in 0..(n - 1) : i \in S => i + 1 \in S
    PROVE  \A i \in 0..n : i \in S
<1> DEFINE T == {i \in Nat : i <= n => i \in S}
<1>1. 0 \in T
  OBVIOUS
<1>2. ASSUME NEW i \in T PROVE i + 1 \in T
  <2> SUFFICES ASSUME i + 1 <= n PROVE i + 1 \in S
    BY <1>2
  <2>1. i \in 0..(n - 1) /\ i \in S
    BY <1>2
  <2> QED BY <2>1
<1> HIDE DEF T
<1>3. T = Nat
  BY <1>1, <1>2, SetInduction DEF T
<1> QED BY <1>3 DEF T

\* Some numbers up to n have a greatest one among them.
LEMMA GreatestUpTo ==
    ASSUME NEW n \in Nat, NEW S \in SUBSET (0..n), S # {}
    PROVE  Max(S) \in S /\ \A y \in S : Max(S) >= y
<1> DEFINE T == {n - x : x \in S}
<1>1. T \in SUBSET Nat /\ T # {}
  <2>1. \A x \in S : x \in 0..n /\ n - x \in Nat
    OBVIOUS
  <2> QED BY <2>1
<1>2. PICK m \in T : \A y \in T : m <= y
  BY <1>1, LeastNat
<1>3. PICK x \in S : m = n - x
  BY <1>2
<1>4. \A y \in S : x >= y
  <2> SUFFICES ASSUME NEW y \in S PROVE x >= y
    OBVIOUS
  <2>1. n - x <= n - y
    BY <1>2, <1>3
  <2> QED BY <2>1
<1> QED BY <1>3, <1>4 DEF Max

\* The greatest number of a segment is its end.
LEMMA SegmentMax ==
    ASSUME NEW n \in Nat, n # 0
    PROVE  Max(1..n) = n /\ (1..n) \ {n} = 1..(n - 1)
<1>1. 1..n \in SUBSET (0..n) /\ 1..n # {} /\ n \in 1..n
  OBVIOUS
<1>2. Max(1..n) \in 1..n /\ Max(1..n) >= n
  BY <1>1, GreatestUpTo
<1> QED BY <1>2

-----------------------------------------------------------------------------
(* Recursion.                                                              *)

\* What step makes of a function at x depends on its values at what is smaller.
LooksBelow(D, S, size, step) ==
    \A x \in D, f, g \in [D -> S] :
        (\A y \in D : size[y] < size[x] => f[y] = g[y]) => step[<<x, f>>] = step[<<x, g>>]

Solvable(D, S, step) == \E f \in [D -> S] : \A x \in D : f[x] = step[<<x, f>>]

\* A function can be defined at x by its values at what is smaller.
LEMMA RecursionExists ==
    ASSUME NEW D, NEW S, NEW top \in Nat, NEW size \in [D -> 0..top], NEW c \in S,
           NEW step \in [D \X [D -> S] -> S], LooksBelow(D, S, size, step)
    PROVE  Solvable(D, S, step)
<1> DEFINE Good == {k \in Nat : \E f \in [D -> S] :
                                    \A x \in D : size[x] < k => f[x] = step[<<x, f>>]}
<1>1. 0 \in Good
  <2> DEFINE f == [x \in D |-> c]
  <2>1. f \in [D -> S] /\ \A x \in D : ~ (size[x] < 0)
    OBVIOUS
  <2> QED BY <2>1
<1>2. ASSUME NEW k \in Good PROVE k + 1 \in Good
  <2>1. PICK f \in [D -> S] : \A x \in D : size[x] < k => f[x] = step[<<x, f>>]
    BY <1>2
  <2> DEFINE g == [x \in D |-> IF size[x] < k THEN f[x] ELSE step[<<x, f>>]]
  <2>2. g \in [D -> S]
    OBVIOUS
  <2>3. ASSUME NEW x \in D, size[x] < k + 1 PROVE g[x] = step[<<x, g>>]
    <3>1. g[x] = step[<<x, f>>]
      BY <2>1
    <3>2. \A y \in D : size[y] < size[x] => f[y] = g[y]
      BY <1>2, <2>3
    <3>3. step[<<x, f>>] = step[<<x, g>>]
      BY <2>2, <3>2 DEF LooksBelow
    <3> QED BY <3>1, <3>3
  <2>4. k + 1 \in Nat
    BY <1>2
  <2> HIDE DEF g
  <2> QED BY <2>2, <2>3, <2>4
<1> HIDE DEF Good
<1>3. top + 1 \in Good
  <2>1. Good \in SUBSET Nat
    BY DEF Good
  <2> QED BY <1>1, <1>2, <2>1, SetInduction
<1>4. \A x \in D : size[x] < top + 1
  OBVIOUS
<1> QED BY <1>3, <1>4 DEF Good, Solvable

-----------------------------------------------------------------------------
(* Folds over sequences, as SequencesExt defines them: a function of the   *)
(* subsets of the domain, that takes the greatest index of each.  The      *)
(* operator that is folded is the function `step` here.                    *)

\* The function `it` folds: it is `base` of no index, and `step` adds the greatest one.
FoldsSets(S, base, step, s, it) ==
    /\ it[{}] = base
    /\ \A q \in SUBSET DOMAIN s :
          q # {} /\ it[q \ {Max(q)}] \in S => it[q] = step[<<it[q \ {Max(q)}], s[Max(q)]>>]

\* a has the folds of the segments of s.
FoldsSegments(S, base, step, s, a) ==
    /\ a[0] = base
    /\ \A i \in 1..Len(s) : a[i - 1] \in S => a[i] = step[<<a[i - 1], s[i]>>]

\* v is what the fold of s comes to.
FoldsTo(S, base, step, s, v) ==
    \E a : FoldsSegments(S, base, step, s, a) /\ v = a[Len(s)]

\* What a fold takes from a set of indices, and what it leaves.
LEMMA TakesApart ==
    ASSUME NEW C, NEW s \in Seq(C), NEW q \in SUBSET DOMAIN s, q # {}
    PROVE  q \ {Max(q)} \in SUBSET DOMAIN s /\ s[Max(q)] \in C
<1>1. DOMAIN s = 1..Len(s) /\ Len(s) \in Nat /\ q \in SUBSET (0..Len(s))
  OBVIOUS
<1>2. Max(q) \in 1..Len(s)
  BY <1>1, GreatestUpTo
<1> QED BY <1>1, <1>2

\* There is a function that folds.
LEMMA FoldExists ==
    ASSUME NEW S, NEW C, NEW base \in S, NEW step \in [S \X C -> S], NEW s \in Seq(C)
    PROVE  \E it \in [SUBSET DOMAIN s -> S] : FoldsSets(S, base, step, s, it)
<1> DEFINE n == Len(s)
           D == SUBSET DOMAIN s
           size == [q \in D |-> IF q = {} THEN 0 ELSE Max(q)]
           next == [p \in D \X [D -> S] |->
                        IF p[1] = {} THEN base
                        ELSE step[<<p[2][p[1] \ {Max(p[1])}], s[Max(p[1])]>>]]
<1>1. n \in Nat /\ DOMAIN s = 1..n
  OBVIOUS
<1>2. ASSUME NEW q \in D, q # {}
      PROVE  Max(q) \in q /\ Max(q) \in 1..n /\ q \ {Max(q)} \in D /\ \A y \in q : y <= Max(q)
  <2>1. q \in SUBSET (0..n)
    BY <1>1
  <2> QED BY <1>1, <1>2, <2>1, GreatestUpTo
<1>3. size \in [D -> 0..n]
  BY <1>1, <1>2
<1>4. next \in [D \X [D -> S] -> S]
  <2> SUFFICES ASSUME NEW q \in D, NEW f \in [D -> S], q # {}
               PROVE  step[<<f[q \ {Max(q)}], s[Max(q)]>>] \in S
    OBVIOUS
  <2>1. f[q \ {Max(q)}] \in S /\ s[Max(q)] \in C
    BY <1>1, <1>2
  <2> QED BY <2>1
<1>5. ASSUME NEW q \in D, NEW f \in [D -> S], NEW g \in [D -> S],
             \A r \in D : size[r] < size[q] => f[r] = g[r]
      PROVE  next[<<q, f>>] = next[<<q, g>>]
  <2>1. CASE q = {}
    BY <2>1
  <2>2. CASE q # {}
    <3> DEFINE r == q \ {Max(q)}
    <3>1. r \in D /\ size[q] = Max(q) /\ Max(q) \in 1..n
      BY <1>2, <2>2
    <3>2. size[r] < size[q]
      <4>1. CASE r = {}
        BY <3>1, <4>1, <1>1
      <4>2. CASE r # {}
        <5>1. Max(r) \in r /\ Max(r) \in 1..n
          BY <1>2, <3>1, <4>2
        <5>2. Max(r) # Max(q) /\ Max(r) <= Max(q)
          BY <1>2, <2>2, <5>1
        <5> QED BY <3>1, <4>2, <5>1, <5>2
      <4> QED BY <4>1, <4>2
    <3>3. f[r] = g[r]
      BY <1>5, <3>1, <3>2
    <3> QED BY <3>3
  <2> QED BY <2>1, <2>2
<1>6. PICK f \in [D -> S] : \A q \in D : f[q] = next[<<q, f>>]
  <2>1. LooksBelow(D, S, size, next)
    BY <1>5 DEF LooksBelow
  <2>2. n \in Nat
    OBVIOUS
  <2>3. Solvable(D, S, next)
    <3> HIDE DEF n, size, next, D
    <3> QED BY <1>3, <1>4, <2>1, <2>2, RecursionExists
  <2> QED BY <2>3 DEF Solvable
<1>7. \A q \in D : f[q] = IF q = {} THEN base ELSE step[<<f[q \ {Max(q)}], s[Max(q)]>>]
  BY <1>6
<1> QED BY <1>7 DEF FoldsSets

\* A function that folds gives what the fold comes to.
LEMMA FoldOfSets ==
    ASSUME NEW S, NEW C, NEW base \in S, NEW step \in [S \X C -> S], NEW s \in Seq(C),
           NEW it, FoldsSets(S, base, step, s, it)
    PROVE  FoldsTo(S, base, step, s, it[DOMAIN s])
<1> DEFINE a == [i \in 0..Len(s) |-> it[1..i]]
<1>1. DOMAIN s = 1..Len(s) /\ Len(s) \in Nat /\ 1..0 = {}
  OBVIOUS
<1>2. a[0] = base
  BY <1>1 DEF FoldsSets
<1>3. ASSUME NEW i \in 1..Len(s), a[i - 1] \in S PROVE a[i] = step[<<a[i - 1], s[i]>>]
  <2>1. Max(1..i) = i /\ (1..i) \ {i} = 1..(i - 1)
    BY SegmentMax
  <2>2. a[i - 1] = it[1..(i - 1)] /\ a[i] = it[1..i]
    BY <1>1
  <2>3. 1..i \in SUBSET DOMAIN s /\ 1..i # {}
    <3>1. 1..i \subseteq 1..Len(s) /\ 1 \in 1..i
      BY <1>1
    <3> QED BY <1>1, <3>1
  <2> QED BY <1>3, <2>1, <2>2, <2>3 DEF FoldsSets
<1>4. FoldsSegments(S, base, step, s, a)
  BY <1>2, <1>3 DEF FoldsSegments
<1>5. a[Len(s)] = it[DOMAIN s]
  BY <1>1
<1> HIDE DEF a
<1> QED BY <1>4, <1>5 DEF FoldsTo

SameFolds(S, s, a, b) == \A i \in 0..Len(s) : a[i] \in S /\ a[i] = b[i]

\* The fold of a segment has its value in S, and there is one only.
LEMMA FoldUnique ==
    ASSUME NEW S, NEW C, NEW base \in S, NEW step \in [S \X C -> S], NEW s \in Seq(C),
           NEW a, NEW b,
           FoldsSegments(S, base, step, s, a), FoldsSegments(S, base, step, s, b)
    PROVE  SameFolds(S, s, a, b)
<1> DEFINE Same == {i \in Nat : a[i] \in S /\ a[i] = b[i]}
<1>1. 0 \in Same
  BY DEF FoldsSegments
<1>2. ASSUME NEW i \in 0..(Len(s) - 1), i \in Same PROVE i + 1 \in Same
  <2>1. i + 1 \in 1..Len(s) /\ (i + 1) - 1 = i /\ i + 1 \in Nat
    BY <1>2
  <2>2. s[i + 1] \in C
    BY <2>1
  <2>3. a[i + 1] = step[<<a[i], s[i + 1]>>] /\ b[i + 1] = step[<<b[i], s[i + 1]>>]
    BY <1>2, <2>1 DEF FoldsSegments
  <2>4. step[<<a[i], s[i + 1]>>] \in S
    BY <1>2, <2>2
  <2> QED BY <1>2, <2>1, <2>3, <2>4
<1>3. Len(s) \in Nat
  OBVIOUS
<1> HIDE DEF Same
<1>4. \A i \in 0..Len(s) : i \in Same
  BY <1>1, <1>2, <1>3, BoundedInduction
<1> QED BY <1>4 DEF Same, SameFolds

\* The fold of no element is the base, in S.
LEMMA FoldOfNothing ==
    ASSUME NEW S, NEW base, NEW step, NEW v, FoldsTo(S, base, step, <<>>, v)
    PROVE  v = base
<1>1. Len(<<>>) = 0
  OBVIOUS
<1> QED BY <1>1 DEF FoldsTo, FoldsSegments

OneStep(S, step, v, e, w) == v \in S /\ w = step[<<v, e>>]

\* One more element at the end is one more step.
LEMMA FoldOfAppend ==
    ASSUME NEW S, NEW C, NEW base \in S, NEW step \in [S \X C -> S], NEW s \in Seq(C),
           NEW e \in C, NEW v, NEW w,
           FoldsTo(S, base, step, s, v), FoldsTo(S, base, step, Append(s, e), w)
    PROVE  OneStep(S, step, v, e, w)
<1>1. PICK a : FoldsSegments(S, base, step, s, a) /\ v = a[Len(s)]
  BY DEF FoldsTo
<1>2. PICK b : FoldsSegments(S, base, step, Append(s, e), b) /\ w = b[Len(Append(s, e))]
  BY DEF FoldsTo
<1>3. /\ Len(Append(s, e)) = Len(s) + 1 /\ Len(s) \in Nat
      /\ \A i \in 1..Len(s) : Append(s, e)[i] = s[i] /\ i \in 1..(Len(s) + 1)
      /\ Append(s, e)[Len(s) + 1] = e /\ Len(s) + 1 \in 1..(Len(s) + 1)
      /\ (Len(s) + 1) - 1 = Len(s)
  OBVIOUS
<1>4. FoldsSegments(S, base, step, s, b)
  BY <1>2, <1>3 DEF FoldsSegments
<1>5. a[Len(s)] \in S /\ a[Len(s)] = b[Len(s)]
  <2>1. SameFolds(S, s, a, b)
    BY <1>1, <1>4, FoldUnique
  <2>2. Len(s) \in 0..Len(s)
    BY <1>3
  <2> QED BY <2>1, <2>2 DEF SameFolds
<1>6. b[Len(s) + 1] = step[<<b[Len(s)], e>>]
  BY <1>2, <1>3, <1>5 DEF FoldsSegments
<1> QED BY <1>1, <1>2, <1>3, <1>5, <1>6 DEF OneStep
=============================================================================
