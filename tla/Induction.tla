----------------------------- MODULE Induction -----------------------------
(***************************************************************************)
(* Induction over the naturals and recursion along them, stated with sets  *)
(* and functions where the library's theorems take operators.  Loops and   *)
(* lists of any length in the proofs rest on these.                        *)
(***************************************************************************)
EXTENDS Integers, FiniteSetTheorems, SequenceTheorems, TLAPS

(* A set of naturals has a least element: the intervals that end in one of *)
(* them, up to some n, are finite sets, and one of these is smallest.      *)
LEMMA LeastNatural ==
    ASSUME NEW T, T \subseteq Nat, T # {}
    PROVE  \E x \in T : \A y \in T : x <= y
<1>1. PICK n \in T : TRUE
  OBVIOUS
<1> DEFINE S == 1 .. n
           R == StrictSubsetOrdering(S)
           I == {X \in SUBSET S : \E k \in T : X = 1 .. k}
<1>2. IsWellFoundedOn(R, SUBSET S)
  <2>1. IsFiniteSet(S)
    BY FS_Interval
  <2> QED
    BY <2>1, FS_StrictSubsetOrderingWellFounded, FS_FiniteSubsetsOfFinite
<1>3. \E x \in I : \A y \in I : <<y, x>> \notin R
  <2>1. I \subseteq SUBSET S /\ I # {}
    OBVIOUS
  <2> HIDE DEF I, R, S
  <2> QED
    BY <1>2, <2>1, WFMin
<1>4. PICK k \in T : 1 .. k \in I /\ \A y \in I : <<y, 1 .. k>> \notin R
  BY <1>3
<1>5. ASSUME NEW y \in T, y < k PROVE FALSE
  <2>1. y \in Nat /\ k \in Nat
    OBVIOUS
  <2>2. 1 .. y \subseteq 1 .. k /\ k \in 1 .. k /\ k \notin 1 .. y
    BY <1>5, <2>1
  <2>3. 1 .. y \in I
    BY <1>4, <2>2
  <2>4. <<1 .. y, 1 .. k>> \in R
    BY <1>4, <2>2, <2>3 DEF StrictSubsetOrdering
  <2> QED
    BY <1>4, <2>3, <2>4
<1> QED
  BY <1>5

(* A set with 0 and the successors of its members has all naturals.        *)
LEMMA NaturalInduction ==
    ASSUME NEW T, 0 \in T, \A n \in Nat : n \in T => n + 1 \in T
    PROVE  Nat \subseteq T
<1> SUFFICES ASSUME Nat \ T # {} PROVE FALSE
  OBVIOUS
<1>1. PICK m \in Nat \ T : \A y \in Nat \ T : m <= y
  <2>1. Nat \ T \subseteq Nat
    OBVIOUS
  <2> QED
    BY <2>1, LeastNatural
<1>2. m # 0 /\ m - 1 \in Nat
  OBVIOUS
<1>3. m - 1 \in T /\ (m - 1) + 1 = m
  BY <1>1, <1>2
<1> QED
  BY <1>2, <1>3
-----------------------------------------------------------------------------
(* The first n + 1 values of a recursion that begins with x and goes on by *)
(* F, which also gets the number of the step.                              *)
Follows(X, x, F, n, h) ==
    /\ h \in [0 .. n -> X]
    /\ h[0] = x
    /\ \A k \in 0 .. n - 1 : h[k + 1] = F[k][h[k]]

LEMMA RecursionExists ==
    ASSUME NEW X, NEW x \in X, NEW F \in [Nat -> [X -> X]]
    PROVE  \A n \in Nat : \E h : Follows(X, x, F, n, h)
<1> DEFINE T == {n \in Nat : \E h : Follows(X, x, F, n, h)}
<1>1. 0 \in T
  <2> DEFINE h == [k \in 0 .. 0 |-> x]
  <2>1. Follows(X, x, F, 0, h)
    BY DEF Follows
  <2> QED
    BY <2>1
<1>2. ASSUME NEW n \in Nat, n \in T PROVE n + 1 \in T
  <2>1. PICK h : Follows(X, x, F, n, h)
    BY <1>2
  <2> DEFINE y == F[n][h[n]]
             g == [k \in 0 .. n + 1 |-> IF k = n + 1 THEN y ELSE h[k]]
  <2>2. h[n] \in X
    BY <2>1 DEF Follows
  <2>3. y \in X
    BY <2>2
  <2>4. g[n + 1] = F[n][h[n]] /\ \A k \in 0 .. n : g[k] = h[k]
    OBVIOUS
  <2>5. g \in [0 .. n + 1 -> X]
    BY <2>1, <2>3 DEF Follows
  <2> HIDE DEF y, g
  <2>6. g[0] = x
    BY <2>1, <2>4 DEF Follows
  <2>7. ASSUME NEW k \in 0 .. (n + 1) - 1 PROVE g[k + 1] = F[k][g[k]]
    <3>1. CASE k = n
      BY <2>4, <3>1
    <3>2. CASE k # n
      <4>1. k \in 0 .. n - 1 /\ k + 1 \in 0 .. n
        BY <3>2
      <4> QED
        BY <2>1, <2>4, <4>1 DEF Follows
    <3> QED
      BY <3>1, <3>2
  <2>8. Follows(X, x, F, n + 1, g)
    BY <2>5, <2>6, <2>7 DEF Follows
  <2> QED
    BY <2>8
<1> HIDE DEF T
<1>3. Nat \subseteq T
  BY <1>1, <1>2, NaturalInduction
<1> QED
  BY <1>3 DEF T

LEMMA RecursionUnique ==
    ASSUME NEW X, NEW x \in X, NEW F \in [Nat -> [X -> X]],
           NEW m \in Nat, NEW n \in Nat, m <= n,
           NEW g, NEW h, Follows(X, x, F, m, g), Follows(X, x, F, n, h)
    PROVE  \A k \in 0 .. m : g[k] = h[k]
<1> DEFINE T == {k \in Nat : k <= m => g[k] = h[k]}
<1>1. 0 \in T
  BY DEF Follows
<1>2. ASSUME NEW k \in Nat, k \in T PROVE k + 1 \in T
  <2> SUFFICES ASSUME k + 1 <= m PROVE g[k + 1] = h[k + 1]
    OBVIOUS
  <2>1. k \in 0 .. m - 1 /\ k \in 0 .. n - 1 /\ g[k] = h[k]
    BY <1>2
  <2> QED
    BY <2>1 DEF Follows
<1> HIDE DEF T
<1>3. Nat \subseteq T
  BY <1>1, <1>2, NaturalInduction
<1> QED
  BY <1>3 DEF T

(* There is a function on the naturals that follows the recursion.         *)
Recursive(X, x, F, f) ==
    f \in [Nat -> X] /\ f[0] = x /\ \A n \in Nat : f[n + 1] = F[n][f[n]]

LEMMA Recursion ==
    ASSUME NEW X, NEW x \in X, NEW F \in [Nat -> [X -> X]]
    PROVE  \E f : Recursive(X, x, F, f)
<1> DEFINE H(n) == CHOOSE h : Follows(X, x, F, n, h)
           f == [n \in Nat |-> H(n)[n]]
<1>1. ASSUME NEW n \in Nat PROVE Follows(X, x, F, n, H(n))
  BY RecursionExists
<1> HIDE DEF H
<1>2. f \in [Nat -> X]
  <2>1. ASSUME NEW n \in Nat PROVE H(n)[n] \in X
    BY <1>1 DEF Follows
  <2> QED
    BY <2>1
<1>3. f[0] = x
  BY <1>1 DEF Follows
<1>4. ASSUME NEW n \in Nat PROVE f[n + 1] = F[n][f[n]]
  <2> DEFINE g == H(n)  h == H(n + 1)
  <2>1. Follows(X, x, F, n, g) /\ Follows(X, x, F, n + 1, h)
    BY <1>1
  <2>2. f[n] = g[n] /\ f[n + 1] = h[n + 1]
    OBVIOUS
  <2> HIDE DEF g, h, f
  <2>3. g[n] = h[n]
    BY <2>1, RecursionUnique
  <2>4. h[n + 1] = F[n][h[n]]
    BY <2>1 DEF Follows
  <2> QED
    BY <2>2, <2>3, <2>4
<1> QED
  BY <1>2, <1>3, <1>4 DEF Recursive
-----------------------------------------------------------------------------
(* Sequences end to end: the first n of them, joined.                      *)
Row(seqs, e, n) == IF n = 0 THEN <<>> ELSE e[n - 1] \o seqs[n]
Joins(seqs) == CHOOSE e : e = [n \in 0 .. Len(seqs) |-> Row(seqs, e, n)]

LEMMA JoinsUnfolds ==
    ASSUME NEW S, NEW seqs \in Seq(Seq(S)), NEW n \in 0 .. Len(seqs)
    PROVE  /\ Joins(seqs)[n] = Row(seqs, Joins(seqs), n)
           /\ Joins(seqs)[n] \in Seq(S)
<1> DEFINE X == Seq(S)
           m == Len(seqs)
           Step(i, s) == IF i < m THEN s \o seqs[i + 1] ELSE s
           F == [i \in Nat |-> [s \in X |-> Step(i, s)]]
           Body(e) == [i \in 0 .. m |-> Row(seqs, e, i)]
<1>1. m \in Nat /\ \A i \in 1 .. m : seqs[i] \in X
  OBVIOUS
<1>2. <<>> \in X /\ F \in [Nat -> [X -> X]]
  <2>1. ASSUME NEW i \in Nat, NEW s \in X PROVE Step(i, s) \in X
    <3>1. CASE i < m
      <4>1. seqs[i + 1] \in X
        BY <1>1, <3>1
      <4> HIDE DEF m
      <4> QED
        BY <3>1, <4>1, ConcatProperties
    <3> HIDE DEF m
    <3>2. CASE ~(i < m)
      BY <3>2
    <3> QED
      BY <3>1, <3>2
  <2> HIDE DEF Step
  <2> QED
    BY <2>1
<1>3. PICK f : Recursive(X, <<>>, F, f)
  <2> HIDE DEF X, F
  <2> QED
    BY <1>2, Recursion
<1> DEFINE g == [i \in 0 .. m |-> f[i]]
<1>4. ASSUME NEW i \in 0 .. m PROVE f[i] = Row(seqs, g, i) /\ f[i] \in X
  <2> HIDE DEF m
  <2>1. f[i] \in X
    BY <1>1, <1>3 DEF Recursive
  <2>2. CASE i = 0
    BY <1>3, <2>1, <2>2 DEF Recursive, Row
  <2>3. CASE i # 0
    <3>1. i - 1 \in Nat /\ i - 1 \in 0 .. m /\ (i - 1) + 1 = i /\ i - 1 < m
      BY <1>1, <2>3
    <3>2. f[i] = F[i - 1][f[i - 1]] /\ f[i - 1] \in X
      <4> HIDE DEF F, X
      <4> QED
        BY <1>3, <3>1 DEF Recursive
    <3>3. F[i - 1][f[i - 1]] = Step(i - 1, f[i - 1])
      <4> HIDE DEF Step, X
      <4> QED
        BY <3>1, <3>2
    <3>4. Step(i - 1, f[i - 1]) = f[i - 1] \o seqs[i]
      BY <3>1
    <3>5. Row(seqs, g, i) = f[i - 1] \o seqs[i]
      BY <2>3, <3>1 DEF Row
    <3> QED
      BY <2>1, <3>2, <3>3, <3>4, <3>5
  <2> QED
    BY <2>2, <2>3
<1>5. g = Body(g)
  BY <1>4
<1>6. Joins(seqs) = CHOOSE e : e = Body(e)
  BY DEF Joins
<1> HIDE DEF g, Body, m
<1>7. Joins(seqs) = Body(Joins(seqs))
  BY <1>5, <1>6
<1>8. \A i \in 0 .. m : Joins(seqs)[i] = Row(seqs, Joins(seqs), i)
  BY <1>7 DEF Body
<1> DEFINE e == Joins(seqs)
           T == {i \in Nat : i <= m => e[i] \in X}
<1> HIDE DEF e
<1>9. 0 \in T
  <2>1. e[0] = <<>>
    BY <1>1, <1>8 DEF Row, e
  <2> QED
    BY <1>2, <2>1
<1>10. ASSUME NEW i \in Nat, i \in T PROVE i + 1 \in T
  <2> SUFFICES ASSUME i + 1 <= m PROVE e[i + 1] \in X
    OBVIOUS
  <2>1. e[i] \in X /\ seqs[i + 1] \in X /\ i + 1 \in 0 .. m /\ (i + 1) - 1 = i /\ i + 1 # 0
    BY <1>1, <1>10
  <2>2. e[i + 1] = e[i] \o seqs[i + 1]
    BY <1>8, <2>1 DEF Row, e
  <2> QED
    BY <2>1, <2>2, ConcatProperties
<1>11. Nat \subseteq T
  <2> HIDE DEF T
  <2> QED
    BY <1>9, <1>10, NaturalInduction
<1>12. e[n] \in X
  BY <1>1, <1>11 DEF m
<1> QED
  BY <1>8, <1>12 DEF e, m
=============================================================================
