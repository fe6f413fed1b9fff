----------------------------- MODULE FoldLemmas -----------------------------
(***************************************************************************)
(* Folds over 1 .. N, as functions on 0 .. N: the first N steps determine  *)
(* them, and they exist.  What the recursive functions of the models       *)
(* return is proved from these lemmas.                                     *)
(***************************************************************************)
EXTENDS Integers, FiniteSetTheorems, WellFoundedInduction, TLAPS

-----------------------------------------------------------------------------
(* Induction up to a number.                                               *)

LEMMA LeastNat ==
    ASSUME NEW T \in SUBSET Nat, T # {}
    PROVE  \E n \in T : \A m \in T : n <= m
<1> DEFINE U == {0 .. n : n \in T}
<1>1. U \subseteq FiniteSubsetsOf(Nat) /\ U # {}
  <2>1. \A n \in T : IsFiniteSet(0 .. n)
    BY FS_Interval
  <2>2. \A n \in T : 0 .. n \in SUBSET Nat
    OBVIOUS
  <2> QED BY <2>1, <2>2 DEF FiniteSubsetsOf
<1>2. \E X \in U : \A Y \in U : ~(<<Y, X>> \in StrictSubsetOrdering(Nat))
  <2> HIDE DEF U
  <2> QED BY <1>1, WFMin, FS_StrictSubsetOrderingWellFounded
<1>3. PICK n \in T : \A m \in T : ~(<<0 .. m, 0 .. n>> \in StrictSubsetOrdering(Nat))
  BY <1>2
<1>4. ASSUME NEW m \in T, m < n PROVE FALSE
  <2>1. n \in 0 .. n /\ n \notin 0 .. m
    BY <1>4
  <2>2. <<0 .. m, 0 .. n>> \in StrictSubsetOrdering(Nat)
    BY <1>4, <2>1 DEF StrictSubsetOrdering
  <2> QED BY <1>3, <2>2
<1> QED BY <1>4

LEMMA InductionUpTo ==
    ASSUME NEW N \in Nat, NEW G, 0 \in G, \A n \in 1 .. N : n - 1 \in G => n \in G
    PROVE  \A n \in 0 .. N : n \in G
<1> DEFINE T == (0 .. N) \ G
<1>1. ASSUME T # {} PROVE FALSE
  <2>1. T \in SUBSET Nat
    OBVIOUS
  <2>2. PICK m \in T : \A k \in T : m <= k
    <3> HIDE DEF T
    <3> QED BY <1>1, <2>1, LeastNat
  <2>3. m \in 1 .. N /\ m \notin G
    OBVIOUS
  <2>4. m - 1 \in 0 .. N /\ ~(m <= m - 1)
    BY <2>3
  <2>5. m - 1 \in G
    BY <2>2, <2>4
  <2> QED BY <2>3, <2>5
<1> QED BY <1>1

SameSteps(a, b, N) ==
    /\ a = [n \in 0 .. N |-> a[n]] /\ b = [n \in 0 .. N |-> b[n]] /\ a[0] = b[0]
    /\ \A n \in 1 .. N : a[n - 1] = b[n - 1] => a[n] = b[n]

LEMMA SameFold ==
    ASSUME NEW N \in Nat, NEW a, NEW b, SameSteps(a, b, N)
    PROVE  a = b
<1> USE DEF SameSteps
<1> DEFINE G == {n \in 0 .. N : a[n] = b[n]}
<1>1. 0 \in G
  OBVIOUS
<1>2. \A n \in 1 .. N : n - 1 \in G => n \in G
  <2>1. \A n \in 1 .. N : n \in 0 .. N
    OBVIOUS
  <2> QED BY <2>1
<1>3. \A n \in 0 .. N : n \in G
  <2> HIDE DEF G
  <2> QED BY <1>1, <1>2, InductionUpTo
<1>4. \A n \in 0 .. N : a[n] = b[n]
  BY <1>3
<1> QED BY <1>4

(* step[x, n] is what the n-th step makes of x.                            *)
IsFold(a, step, x, N) == a = [n \in 0 .. N |-> IF n = 0 THEN x ELSE step[a[n - 1], n]]

LEMMA FoldExists ==
    ASSUME NEW S, NEW N \in Nat, NEW step \in [S \X (1 .. N) -> S], NEW x \in S
    PROVE  \E a \in [0 .. N -> S] : IsFold(a, step, x, N)
<1> DEFINE T == {m \in 0 .. N : ~ \E a \in [0 .. m -> S] : IsFold(a, step, x, m)}
<1>1. CASE T = {}
  <2>1. N \in 0 .. N
    OBVIOUS
  <2> QED BY <1>1, <2>1
<1>2. CASE T # {}
  <2>1. PICK m \in T : \A k \in T : m <= k
    <3>1. T \in SUBSET Nat
      OBVIOUS
    <3> HIDE DEF T
    <3> QED BY <1>2, <3>1, LeastNat
  <2>2. m \in 0 .. N
    OBVIOUS
  <2>3. CASE m = 0
    <3>1. [n \in 0 .. 0 |-> x] \in [0 .. 0 -> S]
      OBVIOUS
    <3>2. IsFold([n \in 0 .. 0 |-> x], step, x, 0)
      <4>1. \A n \in 0 .. 0 : n = 0
        OBVIOUS
      <4> QED BY <4>1, Zenon DEF IsFold
    <3> QED BY <2>3, <3>1, <3>2
  <2>4. CASE m # 0
    <3>1. m - 1 \in 0 .. N /\ ~(m <= m - 1) /\ m \in 1 .. N /\ m \in Nat
      BY <2>2, <2>4
    <3>2. m - 1 \notin T
      BY <2>1, <3>1
    <3>3. PICK a \in [0 .. m - 1 -> S] : IsFold(a, step, x, m - 1)
      BY <3>1, <3>2
    <3> DEFINE c == [n \in 0 .. m |-> IF n = m THEN step[a[m - 1], m] ELSE a[n]]
    <3>4. step[a[m - 1], m] \in S
      <4>1. m - 1 \in 0 .. m - 1
        BY <3>1
      <4>2. a[m - 1] \in S
        BY <4>1
      <4>3. <<a[m - 1], m>> \in S \X (1 .. N)
        BY <3>1, <4>2
      <4> QED BY <4>3
    <3>5. c \in [0 .. m -> S]
      <4>1. \A n \in 0 .. m : n # m => n \in 0 .. m - 1
        BY <3>1
      <4> QED BY <3>4, <4>1
    <3>6. ASSUME NEW n \in 0 .. m
          PROVE  c[n] = IF n = 0 THEN x ELSE step[c[n - 1], n]
      <4>1. CASE n = m
        <5>0. m \in 0 .. m /\ m - 1 \in 0 .. m /\ m - 1 # m
          BY <3>1
        <5>1. c[m] = step[a[m - 1], m] /\ c[m - 1] = a[m - 1]
          BY <5>0
        <5> HIDE DEF c
        <5> QED BY <2>4, <4>1, <5>1
      <4>2. CASE n # m /\ n = 0
        <5>1. n \in 0 .. m - 1 /\ c[n] = a[n]
          BY <3>1, <4>2
        <5>2. a[n] = x
          BY <3>3, <4>2, <5>1 DEF IsFold
        <5> HIDE DEF c
        <5> QED BY <4>2, <5>1, <5>2
      <4>3. CASE n # m /\ n # 0
        <5>1. n \in 0 .. m - 1 /\ n - 1 \in 0 .. m /\ n - 1 # m
          BY <3>1, <4>3
        <5>2. c[n] = a[n] /\ c[n - 1] = a[n - 1]
          BY <4>3, <5>1
        <5>3. a[n] = step[a[n - 1], n]
          BY <3>3, <4>3, <5>1 DEF IsFold
        <5> HIDE DEF c
        <5> QED BY <4>3, <5>2, <5>3
      <4> QED BY <4>1, <4>2, <4>3
    <3>7. IsFold(c, step, x, m)
      <4>1. c = [n \in 0 .. m |-> IF n = 0 THEN x ELSE step[c[n - 1], n]]
        <5>1. c = [n \in 0 .. m |-> c[n]]
          OBVIOUS
        <5> HIDE DEF c
        <5> QED BY <3>6, <5>1
      <4> QED BY <4>1 DEF IsFold
    <3> QED BY <3>5, <3>7
  <2> QED BY <2>3, <2>4
<1> QED BY <1>1, <1>2
=============================================================================
