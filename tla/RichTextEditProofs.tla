------------------------- MODULE RichTextEditProofs -------------------------
(***************************************************************************)
(* Theorems about RichTextEdit, for paragraphs, texts and selections of    *)
(* every size and whatever the bounds are.                                 *)
(***************************************************************************)
EXTENDS RichTextEdit, FoldLemmas, SequenceTheorems, TLAPS

-----------------------------------------------------------------------------
(* Joining sequences.                                                      *)

IsJoint(x, y, z) == (x \o y) \o z = x \o (y \o z)

LEMMA JoinsAssociate ==
    ASSUME NEW S, NEW x \in Seq(S), NEW y \in Seq(S), NEW z \in Seq(S)
    PROVE  IsJoint(x, y, z)
BY ConcatAssociative DEF IsJoint

IsJoin(xy, x, y, S, m, n) ==
    /\ xy \in Seq(S) /\ Len(xy) = m + n
    /\ \A i \in 1 .. m + n : xy[i] = IF i <= m THEN x[i] ELSE y[i - m]

LEMMA JoinedPoints ==
    ASSUME NEW S, NEW x \in Seq(S), NEW y \in Seq(S), NEW m, NEW n, Len(x) = m, Len(y) = n
    PROVE  IsJoin(x \o y, x, y, S, m, n)
<1>1. /\ x \o y \in Seq(S) /\ Len(x \o y) = Len(x) + Len(y)
      /\ \A i \in 1 .. Len(x) + Len(y) :
            (x \o y)[i] = IF i <= Len(x) THEN x[i] ELSE y[i - Len(x)]
  BY ConcatProperties, Zenon
<1> QED BY <1>1, Zenon DEF IsJoin

HasLength(t, S, n) == t \in Seq(S) /\ Len(t) = n

LEMMA JoinsStay ==
    ASSUME NEW S, NEW x, NEW y, NEW m, NEW n, HasLength(x, S, m), HasLength(y, S, n)
    PROVE  HasLength(x \o y, S, m + n)
BY ConcatProperties, Zenon DEF HasLength

-----------------------------------------------------------------------------
(* FlattenSeq: what it returns grows by one part at a time.                *)

Growing(a, parts, S) ==
    /\ a \in [0 .. Len(parts) -> Seq(S)]
    /\ a[0] = <<>>
    /\ \A n \in 1 .. Len(parts) : a[n] = a[n - 1] \o parts[n]

LEMMA GrowingExists ==
    ASSUME NEW S, NEW parts \in Seq(Seq(S))
    PROVE  \E a : Growing(a, parts, S)
<1> DEFINE N == Len(parts)
           step == [x \in Seq(S) \X (1 .. N) |-> x[1] \o parts[x[2]]]
<1>1. N \in Nat
  BY LenProperties
<1>2. step \in [Seq(S) \X (1 .. N) -> Seq(S)]
  <2>1. ASSUME NEW x \in Seq(S) \X (1 .. N) PROVE x[1] \o parts[x[2]] \in Seq(S)
    <3>1. x[1] \in Seq(S) /\ parts[x[2]] \in Seq(S)
      BY ElementOfSeq
    <3> QED BY <3>1, ConcatProperties
  <2> HIDE DEF N
  <2> QED BY <2>1
<1>3. <<>> \in Seq(S)
  BY EmptySeq
<1>4. PICK a \in [0 .. N -> Seq(S)] : IsFold(a, step, <<>>, N)
  <2> HIDE DEF step, N
  <2> QED BY <1>1, <1>2, <1>3, FoldExists
<1>5. \A n \in 1 .. N : n \in 0 .. N /\ n - 1 \in 0 .. N /\ n # 0
  BY <1>1
<1>6. \A n \in 0 .. N : a[n] = IF n = 0 THEN <<>> ELSE step[a[n - 1], n]
  <2> HIDE DEF step, N
  <2> QED BY <1>4, Zenon DEF IsFold
<1>7. ASSUME NEW n \in 1 .. N PROVE step[a[n - 1], n] = a[n - 1] \o parts[n]
  <2>1. <<a[n - 1], n>> \in Seq(S) \X (1 .. N)
    <3> HIDE DEF N, step
    <3> QED BY <1>5
  <2> HIDE DEF N
  <2> QED BY <2>1
<1>8. 0 \in 0 .. N
  BY <1>1
<1>9. a[0] = <<>> /\ \A n \in 1 .. N : a[n] = a[n - 1] \o parts[n]
  <2> HIDE DEF N, step
  <2> QED BY <1>5, <1>6, <1>7, <1>8
<1>10. Growing(a, parts, S)
  BY <1>9 DEF Growing
<1> QED BY <1>10

LEMMA FlattenGrows ==
    ASSUME NEW S, NEW parts \in Seq(Seq(S)), NEW a, Growing(a, parts, S)
    PROVE  FlattenSeq(parts) = a[Len(parts)]
<1> DEFINE N == Len(parts)
           Trace(f) == f = [i \in 1 .. N |-> IF i = 1 THEN parts[i] ELSE f[i - 1] \o parts[i]]
<1>1. N \in Nat /\ \A n \in 1 .. N : parts[n] \in Seq(S)
  BY LenProperties, ElementOfSeq
<1>2. /\ a = [n \in 0 .. N |-> a[n]] /\ a[0] = <<>>
      /\ \A n \in 1 .. N : a[n] = a[n - 1] \o parts[n]
  BY DEF Growing
<1>3. CASE N = 0
  <2>1. parts = <<>>
    BY <1>3, EmptySeq
  <2>2. FlattenSeq(parts) = parts
    BY <1>3 DEF FlattenSeq
  <2> QED BY <1>2, <1>3, <2>1, <2>2
<1>4. CASE N # 0
  <2> DEFINE g == [i \in 1 .. N |-> a[i]]
  <2>1. \A i \in 1 .. N : i # 1 => i - 1 \in 1 .. N
    BY <1>1
  <2>2. ASSUME NEW i \in 1 .. N
        PROVE  g[i] = IF i = 1 THEN parts[i] ELSE g[i - 1] \o parts[i]
    <3>1. CASE i = 1
      <4>1. a[1] = <<>> \o parts[1]
        <5>1. 1 \in 1 .. N /\ 1 - 1 = 0
          BY <3>1
        <5> HIDE DEF N
        <5> QED BY <1>2, <5>1
      <4>2. <<>> \o parts[1] = parts[1]
        BY <1>1, <3>1, ConcatEmptySeq
      <4> QED BY <3>1, <4>1, <4>2
    <3>2. CASE i # 1
      <4> HIDE DEF N
      <4> QED BY <1>2, <2>1, <3>2
    <3> QED BY <3>1, <3>2
  <2>3. Trace(g)
    <3>1. g = [i \in 1 .. N |-> g[i]]
      OBVIOUS
    <3> HIDE DEF g, N
    <3> QED BY <2>2, <3>1, Zenon
  <2> DEFINE flatten == CHOOSE f : Trace(f)
  <2>4. Trace(flatten)
    BY <2>3
  <2>5. FlattenSeq(parts) = flatten[N]
    BY <1>4 DEF FlattenSeq
  <2> HIDE DEF flatten
  <2> DEFINE b == [n \in 0 .. N |-> IF n = 0 THEN <<>> ELSE flatten[n]]
  <2>6. \A i \in 1 .. N :
            flatten[i] = IF i = 1 THEN parts[i] ELSE flatten[i - 1] \o parts[i]
    <3> HIDE DEF N
    <3> QED BY <2>4, Zenon
  <2>7. \A n \in 1 .. N : n \in 0 .. N /\ n # 0 /\ n - 1 \in 0 .. N /\ (n = 1 <=> n - 1 = 0)
    BY <1>1
  <2>8. ASSUME NEW n \in 1 .. N PROVE b[n] = b[n - 1] \o parts[n]
    <3>0. b[n] = flatten[n] /\ b[n - 1] = IF n - 1 = 0 THEN <<>> ELSE flatten[n - 1]
      <4> HIDE DEF N
      <4> QED BY <2>7
    <3> HIDE DEF b
    <3>1. CASE n = 1
      <4>1. <<>> \o parts[1] = parts[1]
        BY <1>1, <3>1, ConcatEmptySeq
      <4>2. flatten[1] = parts[1]
        BY <2>6, <3>1
      <4>3. b[1] = flatten[1] /\ b[1 - 1] = <<>>
        BY <3>0, <3>1
      <4> QED BY <3>1, <4>1, <4>2, <4>3
    <3>2. CASE n # 1
      <4> HIDE DEF N
      <4> QED BY <2>6, <2>7, <3>0, <3>2
    <3> QED BY <3>1, <3>2
  <2>9. b = [n \in 0 .. N |-> b[n]] /\ b[0] = <<>> /\ b[N] = flatten[N]
    BY <1>1, <1>4
  <2> HIDE DEF b
  <2>10. SameSteps(a, b, N)
    <3> HIDE DEF N
    <3> QED BY <1>2, <2>8, <2>9 DEF SameSteps
  <2>11. a = b
    <3> HIDE DEF N
    <3> QED BY <1>1, <2>10, SameFold
  <2> QED BY <2>5, <2>9, <2>11
<1> QED BY <1>3, <1>4

LEMMA FlattenType ==
    ASSUME NEW S, NEW parts \in Seq(Seq(S))
    PROVE  FlattenSeq(parts) \in Seq(S) /\ Len(FlattenSeq(parts)) \in Nat
<1>1. PICK a : Growing(a, parts, S)
  BY GrowingExists
<1>2. FlattenSeq(parts) = a[Len(parts)]
  BY <1>1, FlattenGrows
<1>3. Len(parts) \in 0 .. Len(parts)
  BY LenProperties
<1>4. FlattenSeq(parts) \in Seq(S)
  BY <1>1, <1>2, <1>3 DEF Growing
<1> QED BY <1>4, LenProperties

LEMMA FlattenOfNone == FlattenSeq(<<>>) = <<>>
BY DEF FlattenSeq

LEMMA FlattenOfOne ==
    ASSUME NEW S, NEW t \in Seq(S)
    PROVE  FlattenSeq(<<t>>) = t
<1>1. <<t>> \in Seq(Seq(S)) /\ Len(<<t>>) = 1 /\ <<t>>[1] = t
  OBVIOUS
<1>2. PICK a : Growing(a, <<t>>, S)
  BY <1>1, GrowingExists
<1>3. FlattenSeq(<<t>>) = a[1]
  BY <1>1, <1>2, FlattenGrows
<1>4. a[1] = a[0] \o t /\ a[0] = <<>>
  <2>1. 1 \in 1 .. 1 /\ 1 - 1 = 0
    OBVIOUS
  <2>2. a[0] = <<>> /\ \A n \in 1 .. 1 : a[n] = a[n - 1] \o <<t>>[n]
    BY <1>1, <1>2 DEF Growing
  <2> QED BY <1>1, <2>1, <2>2
<1> QED BY <1>3, <1>4, ConcatEmptySeq

LEMMA FlattenConcat ==
    ASSUME NEW S, NEW left \in Seq(Seq(S)), NEW right \in Seq(Seq(S))
    PROVE  FlattenSeq(left \o right) = FlattenSeq(left) \o FlattenSeq(right)
<1> DEFINE M == Len(left)
           N == Len(right)
           both == left \o right
<1>1. /\ M \in Nat /\ N \in Nat /\ both \in Seq(Seq(S)) /\ Len(both) = M + N
      /\ \A i \in 1 .. M : both[i] = left[i]
      /\ \A i \in 1 .. N : both[M + i] = right[i]
      /\ \A i \in 1 .. N : right[i] \in Seq(S)
  <2>1. /\ M \in Nat /\ N \in Nat /\ both \in Seq(Seq(S)) /\ Len(both) = M + N
        /\ \A i \in 1 .. M + N : both[i] = IF i <= M THEN left[i] ELSE right[i - M]
    BY LenProperties, ConcatProperties
  <2>2. \A i \in 1 .. N : right[i] \in Seq(S)
    BY ElementOfSeq
  <2> HIDE DEF both, M, N
  <2>3. \A i \in 1 .. M : i \in 1 .. M + N /\ i <= M
    BY <2>1
  <2>4. \A i \in 1 .. N : M + i \in 1 .. M + N /\ ~(M + i <= M) /\ M + i - M = i
    BY <2>1
  <2> QED BY <2>1, <2>2, <2>3, <2>4
<1>2. PICK a : Growing(a, left, S)
  BY GrowingExists
<1>3. PICK b : Growing(b, right, S)
  BY GrowingExists
<1>4. PICK c : Growing(c, both, S)
  <2> HIDE DEF both
  <2> QED BY <1>1, GrowingExists
<1>5. FlattenSeq(left) = a[M] /\ FlattenSeq(right) = b[N]
  BY <1>2, <1>3, FlattenGrows
<1>6. FlattenSeq(both) = c[M + N]
  <2> HIDE DEF both
  <2> QED BY <1>1, <1>4, FlattenGrows
<1> HIDE DEF both
<1>7. /\ a \in [0 .. M -> Seq(S)] /\ a[0] = <<>>
      /\ \A n \in 1 .. M : a[n] = a[n - 1] \o left[n]
  BY <1>2 DEF Growing
<1>8. /\ b \in [0 .. N -> Seq(S)] /\ b[0] = <<>>
      /\ \A n \in 1 .. N : b[n] = b[n - 1] \o right[n]
  BY <1>3 DEF Growing
<1>9. /\ c[0] = <<>>
      /\ \A n \in 1 .. M + N : c[n] = c[n - 1] \o both[n]
  BY <1>1, <1>4 DEF Growing
<1> HIDE DEF M, N
<1>10. c[M] = a[M]
  <2> DEFINE G == {n \in 0 .. M : c[n] = a[n]}
  <2>1. 0 \in G
    BY <1>1, <1>7, <1>9
  <2>2. ASSUME NEW n \in 1 .. M, n - 1 \in G PROVE n \in G
    <3>1. n \in 1 .. M + N /\ n \in 0 .. M
      BY <1>1
    <3>2. c[n - 1] = a[n - 1]
      BY <2>2
    <3> QED BY <1>1, <1>7, <1>9, <3>1, <3>2
  <2>3. \A n \in 0 .. M : n \in G
    <3> HIDE DEF G
    <3> QED BY <1>1, <2>1, <2>2, InductionUpTo
  <2>4. M \in 0 .. M
    BY <1>1
  <2> QED BY <2>3, <2>4
<1>11. c[M + N] = a[M] \o b[N]
  <2> DEFINE G == {n \in 0 .. N : c[M + n] = a[M] \o b[n]}
  <2>0. a[M] \in Seq(S) /\ M + 0 = M /\ 0 \in 0 .. N
    BY <1>1, <1>7
  <2>1. 0 \in G
    <3>1. a[M] \o <<>> = a[M]
      BY <2>0, ConcatEmptySeq
    <3> QED BY <1>8, <1>10, <2>0, <3>1
  <2>2. ASSUME NEW n \in 1 .. N, n - 1 \in G PROVE n \in G
    <3>1. M + n \in 1 .. M + N /\ n \in 0 .. N /\ (M + n) - 1 = M + (n - 1) /\ n - 1 \in 0 .. N
      BY <1>1
    <3>2. c[M + (n - 1)] = a[M] \o b[n - 1]
      BY <2>2
    <3>3. c[M + n] = c[M + (n - 1)] \o right[n]
      <4>1. c[M + n] = c[(M + n) - 1] \o both[M + n]
        BY <1>9, <3>1
      <4>2. both[M + n] = right[n]
        BY <1>1, Zenon
      <4> QED BY <3>1, <4>1, <4>2, Zenon
    <3>4. b[n - 1] \in Seq(S) /\ right[n] \in Seq(S)
      BY <1>1, <1>8, <3>1
    <3>5. (a[M] \o b[n - 1]) \o right[n] = a[M] \o (b[n - 1] \o right[n])
      <4>1. IsJoint(a[M], b[n - 1], right[n])
        BY <2>0, <3>4, JoinsAssociate
      <4> QED BY <4>1 DEF IsJoint
    <3>6. c[M + n] = a[M] \o b[n]
      BY <1>8, <3>2, <3>3, <3>5
    <3> QED BY <3>1, <3>6
  <2>3. \A n \in 0 .. N : n \in G
    <3> HIDE DEF G
    <3> QED BY <1>1, <2>1, <2>2, InductionUpTo
  <2>4. N \in 0 .. N
    BY <1>1
  <2> QED BY <2>3, <2>4
<1> QED BY <1>5, <1>6, <1>11 DEF both

-----------------------------------------------------------------------------
(* Pieces of texts.                                                        *)

LEMMA GreatestIs ==
    ASSUME NEW N \in Nat, NEW T \in SUBSET (0 .. N), T # {}
    PROVE  Max(T) \in T /\ \A n \in T : n <= Max(T)
<1> DEFINE U == {N - n : n \in T}
<1>1. U \in SUBSET Nat /\ U # {}
  OBVIOUS
<1>2. PICK least \in U : \A u \in U : least <= u
  <2> HIDE DEF U
  <2> QED BY <1>1, LeastNat
<1>3. PICK m \in T : least = N - m
  BY <1>2
<1>4. \A n \in T : N - n \in U
  OBVIOUS
<1> HIDE DEF U
<1>5. \A n \in T : m >= n
  BY <1>2, <1>3, <1>4
<1>6. Max(T) \in T /\ \A n \in T : Max(T) >= n
  BY <1>5 DEF Max
<1> QED BY <1>6

LEMMA LeastIs ==
    ASSUME NEW T \in SUBSET Nat, T # {}
    PROVE  Min(T) \in T /\ \A n \in T : Min(T) <= n
<1>1. PICK m \in T : \A n \in T : m <= n
  BY LeastNat
<1> QED BY <1>1 DEF Min

(* SubSeq with the bounds the model uses.                                  *)
LEMMA PieceIs ==
    ASSUME NEW S, NEW t \in Seq(S), NEW m \in Int, NEW n \in Int, m >= 1, n <= Len(t)
    PROVE  /\ SubSeq(t, m, n) \in Seq(S)
           /\ m <= n + 1 => Len(SubSeq(t, m, n)) = (n + 1) - m
           /\ Len(SubSeq(t, m, n)) \in Nat
           /\ \A i \in 1 .. Len(SubSeq(t, m, n)) : SubSeq(t, m, n)[i] = t[m + i - 1]
<1> DEFINE piece == SubSeq(t, m, n)
<1>1. Len(t) \in Nat /\ \A i \in m .. n : i \in 1 .. Len(t)
  BY LenProperties
<1>2. \A i \in m .. n : t[i] \in S
  BY <1>1, ElementOfSeq
<1>3. /\ piece \in Seq(S)
      /\ Len(piece) = IF m <= n THEN n - m + 1 ELSE 0
      /\ \A i \in 1 .. n - m + 1 : piece[i] = t[m + i - 1]
  BY <1>2, SubSeqProperties
<1> HIDE DEF piece
<1>4. CASE m <= n
  <2>1. Len(piece) = n - m + 1 /\ n - m + 1 \in Nat
    BY <1>3, <1>4
  <2> QED BY <1>3, <1>4, <2>1 DEF piece
<1>5. CASE ~(m <= n)
  <2>1. Len(piece) = 0 /\ 1 .. 0 = {}
    BY <1>3, <1>5
  <2> QED BY <1>3, <1>5, <2>1 DEF piece
<1> QED BY <1>4, <1>5

(* A piece of k elements, from the m-th on.                                *)
IsPiece(piece, t, S, m, k) ==
    /\ piece \in Seq(S) /\ Len(piece) = k
    /\ \A i \in 1 .. k : piece[i] = t[m + i - 1]

LEMMA KnownPiece ==
    ASSUME NEW S, NEW t \in Seq(S), NEW m \in Int, NEW n \in Int, m >= 1, n <= Len(t),
           m <= n + 1, NEW k, k = (n + 1) - m
    PROVE  IsPiece(SubSeq(t, m, n), t, S, m, k)
<1> DEFINE piece == SubSeq(t, m, n)
<1>1. /\ piece \in Seq(S) /\ Len(piece) = (n + 1) - m
      /\ \A i \in 1 .. Len(piece) : piece[i] = t[m + i - 1]
  BY PieceIs
<1> HIDE DEF piece
<1>2. Len(piece) = k
  BY <1>1, Zenon
<1>3. IsPiece(piece, t, S, m, k)
  BY <1>1, <1>2, Zenon DEF IsPiece
<1> QED BY <1>3, Zenon DEF piece

InRange(t, from, to) == 0 <= from /\ from <= to /\ to <= Len(t)

IsInserted(t, from, to, new) ==
    Spliced(t, from, to, new) = (SubSeq(t, 1, from) \o new) \o SubSeq(t, to + 1, Len(t))

LEMMA InsertedIs ==
    ASSUME NEW S, NEW t \in Seq(S), NEW new, NEW from \in Int, NEW to \in Int,
           InRange(t, from, to)
    PROVE  IsInserted(t, from, to, new)
<1>1. ~(from < 0 \/ from > to \/ to > Len(t))
  <2>1. Len(t) \in Nat
    BY LenProperties
  <2> QED BY <2>1 DEF InRange
<1> QED BY <1>1, Zenon DEF Spliced, IsInserted

LEMMA SplicedIs ==
    ASSUME NEW S, NEW t \in Seq(S), NEW new \in Seq(S), NEW from \in Int, NEW to \in Int
    PROVE  /\ Spliced(t, from, to, new) \in Seq(S)
           /\ IF InRange(t, from, to)
              THEN /\ Spliced(t, from, to, new) =
                        SubSeq(t, 1, from) \o new \o SubSeq(t, to + 1, Len(t))
                   /\ Len(Spliced(t, from, to, new)) = from + Len(new) + (Len(t) - to)
              ELSE Spliced(t, from, to, new) = t
<1>0. Len(t) \in Nat /\ Len(new) \in Nat
  BY LenProperties
<1>1. CASE ~InRange(t, from, to)
  <2>1. from < 0 \/ from > to \/ to > Len(t)
    BY <1>0, <1>1 DEF InRange
  <2>2. Spliced(t, from, to, new) = t
    BY <2>1 DEF Spliced
  <2> QED BY <1>1, <2>2
<1>2. CASE InRange(t, from, to)
  <2> DEFINE A == SubSeq(t, 1, from)
             C == SubSeq(t, to + 1, Len(t))
  <2>1. Spliced(t, from, to, new) = A \o new \o C
    <3>1. ~(from < 0 \/ from > to \/ to > Len(t))
      BY <1>0, <1>2 DEF InRange
    <3> QED BY <3>1, Zenon DEF Spliced
  <2>2. A \in Seq(S) /\ Len(A) = from
    <3>1. 1 \in Int /\ 1 >= 1 /\ from <= Len(t) /\ 1 <= from + 1 /\ (from + 1) - 1 = from
      BY <1>0, <1>2 DEF InRange
    <3>2. IsPiece(A, t, S, 1, from)
      BY <3>1, KnownPiece, Zenon
    <3> QED BY <3>2, Zenon DEF IsPiece
  <2>3. C \in Seq(S) /\ Len(C) = Len(t) - to
    <3>1. /\ to + 1 \in Int /\ to + 1 >= 1 /\ Len(t) \in Int /\ Len(t) <= Len(t)
          /\ to + 1 <= Len(t) + 1 /\ (Len(t) + 1) - (to + 1) = Len(t) - to
      BY <1>0, <1>2 DEF InRange
    <3>2. IsPiece(C, t, S, to + 1, Len(t) - to)
      BY <3>1, KnownPiece, Zenon
    <3> QED BY <3>2, Zenon DEF IsPiece
  <2> HIDE DEF A, C
  <2>4. A \o new \in Seq(S) /\ Len(A \o new) = from + Len(new)
    BY <2>2, ConcatProperties
  <2> DEFINE AN == A \o new
  <2> HIDE DEF AN
  <2>5. AN \o C \in Seq(S) /\ Len(AN \o C) = from + Len(new) + (Len(t) - to)
    <3>1. AN \in Seq(S) /\ Len(AN) = from + Len(new)
      BY <2>4 DEF AN
    <3> QED BY ZenonT(30), <2>3, <3>1, ConcatProperties
  <2>6. Spliced(t, from, to, new) = AN \o C
    BY <2>1, Zenon DEF AN
  <2>7. /\ Spliced(t, from, to, new) \in Seq(S)
        /\ Len(Spliced(t, from, to, new)) = from + Len(new) + (Len(t) - to)
    BY <2>5, <2>6, Zenon
  <2> QED BY <1>2, <2>1, <2>7, Zenon DEF A, C
<1> QED BY <1>1, <1>2

LEMMA TrimmedIs ==
    ASSUME NEW S, NEW t \in Seq(S), NEW from \in Int, NEW to \in Int
    PROVE  /\ TrimmedSubstr(t, from, to) \in Seq(S)
           /\ Len(TrimmedSubstr(t, from, to)) \in Nat
           /\ from <= to => Len(TrimmedSubstr(t, from, to)) <= to - from
<1>0. Len(t) \in Nat
  BY LenProperties
<1> DEFINE kept == Kept(t, from, to)
<1>1. CASE from < 0 \/ to > Len(t) \/ from > to \/ kept = {}
  <2>1. TrimmedSubstr(t, from, to) = <<>>
    BY <1>1 DEF TrimmedSubstr
  <2> QED BY <2>1, EmptySeq
<1>2. CASE ~(from < 0 \/ to > Len(t) \/ from > to \/ kept = {})
  <2>1. TrimmedSubstr(t, from, to) = SubSeq(t, Min(kept), Max(kept))
    BY <1>2 DEF TrimmedSubstr
  <2>2. kept \in SUBSET (from + 1 .. to)
    BY DEF Kept
  <2>3. kept \in SUBSET (0 .. to) /\ kept \in SUBSET Nat /\ to \in Nat /\ kept # {}
    BY <1>0, <1>2, <2>2
  <2> HIDE DEF kept
  <2>4. Max(kept) \in kept
    BY <2>3, GreatestIs
  <2>5. Min(kept) \in kept /\ Min(kept) <= Max(kept)
    BY <2>3, <2>4, LeastIs
  <2>6. /\ Min(kept) \in Int /\ Max(kept) \in Int /\ Min(kept) >= 1 /\ Max(kept) <= Len(t)
        /\ (Max(kept) + 1) - Min(kept) <= to - from /\ Min(kept) <= Max(kept) + 1
    <3>1. \A x, y \in from + 1 .. to :
              x <= y => /\ x \in Int /\ y \in Int /\ x >= 1 /\ y <= Len(t)
                        /\ (y + 1) - x <= to - from /\ x <= y + 1
      BY <1>0, <1>2
    <3>2. Min(kept) \in from + 1 .. to /\ Max(kept) \in from + 1 .. to
      BY <2>2, <2>4, <2>5
    <3> QED BY <2>5, <3>1, <3>2
  <2>7. /\ SubSeq(t, Min(kept), Max(kept)) \in Seq(S)
        /\ Len(SubSeq(t, Min(kept), Max(kept))) = (Max(kept) + 1) - Min(kept)
    BY <2>6, PieceIs
  <2> QED BY <1>2, <2>1, <2>6, <2>7, LenProperties
<1> QED BY <1>1, <1>2

-----------------------------------------------------------------------------
(* The lines of a text.                                                    *)

LEMMA LinesAre ==
    ASSUME NEW t \in Seq(Chars), t # <<>>
    PROVE  /\ Lines(t) \in SUBSET (0 .. Len(t)) /\ 0 \in Lines(t) /\ Len(t) \in Nat
           /\ Breaks(t) \subseteq Lines(t) /\ Breaks(t) \subseteq 1 .. Len(t)
           /\ Max(Lines(t)) \in Lines(t) /\ \A line \in Lines(t) : line <= Max(Lines(t))
<1>1. Len(t) \in Nat /\ DOMAIN t = 1 .. Len(t)
  BY LenProperties
<1>2. Breaks(t) \subseteq 1 .. Len(t)
  BY <1>1 DEF Breaks
<1>3. Lines(t) = {0} \cup Breaks(t)
  BY DEF Lines
<1>4. Lines(t) \in SUBSET (0 .. Len(t)) /\ 0 \in Lines(t)
  BY <1>1, <1>2, <1>3
<1>5. Max(Lines(t)) \in Lines(t) /\ \A line \in Lines(t) : line <= Max(Lines(t))
  BY <1>1, <1>4, GreatestIs
<1> QED BY <1>1, <1>2, <1>3, <1>4, <1>5

LEMMA LineEndIs ==
    ASSUME NEW t \in Seq(Chars), t # <<>>, NEW line \in Lines(t)
    PROVE  /\ LineEnd(t, line) \in line .. Len(t)
           /\ ~IsLast(t, line) => LineEnd(t, line) \in Lines(t) /\ line < LineEnd(t, line)
<1>0. line \in 0 .. Len(t) /\ Len(t) \in Nat
  BY LinesAre
<1>1. CASE IsLast(t, line)
  BY <1>0, <1>1 DEF LineEnd
<1>2. CASE ~IsLast(t, line)
  <2> DEFINE T == {i \in Breaks(t) : i > line}
  <2>1. LineEnd(t, line) = Min(T)
    BY <1>2 DEF LineEnd
  <2>2. T \in SUBSET Nat /\ T \subseteq 1 .. Len(t) /\ T \subseteq Lines(t)
    BY LinesAre
  <2>3. T # {}
    <3>1. Max(Lines(t)) \in Lines(t) /\ line <= Max(Lines(t)) /\ line # Max(Lines(t))
      BY <1>2, LinesAre DEF IsLast
    <3>2. Max(Lines(t)) \in Nat /\ Max(Lines(t)) > line
      BY <1>0, <3>1, LinesAre
    <3>3. Max(Lines(t)) \in Breaks(t)
      BY <1>0, <3>1, <3>2 DEF Lines
    <3> QED BY <3>2, <3>3
  <2>4. \A i \in T : i > line
    OBVIOUS
  <2> HIDE DEF T
  <2>5. Min(T) \in T
    BY <2>2, <2>3, LeastIs
  <2>6. Min(T) \in Lines(t) /\ Min(T) \in 1 .. Len(t) /\ Min(T) > line
    BY <2>2, <2>4, <2>5
  <2>7. Min(T) \in line .. Len(t) /\ line < Min(T)
    BY <1>0, <2>6
  <2> QED BY <2>1, <2>6, <2>7, Zenon
<1> QED BY <1>1, <1>2

LEMMA LineLengthIs ==
    ASSUME NEW t \in Seq(Chars), t # <<>>, NEW line \in Lines(t)
    PROVE  LineLength(t, line) \in Nat /\ line + LineLength(t, line) <= LineEnd(t, line)
<1>1. line \in Nat /\ LineEnd(t, line) \in Int /\ line <= LineEnd(t, line)
  BY LinesAre, LineEndIs
<1> DEFINE to == LineEnd(t, line)
           part == TrimmedSubstr(t, line, to)
<1>2. LineLength(t, line) = Len(part)
  BY DEF LineLength
<1>3. Len(part) \in Nat /\ Len(part) <= to - line
  <2> HIDE DEF to
  <2> QED BY <1>1, TrimmedIs DEF to
<1> HIDE DEF part
<1> QED BY <1>1, <1>2, <1>3

(* The line of an offset in the text starts at or before it and ends       *)
(* behind it.                                                              *)
LEMMA LineOfIs ==
    ASSUME NEW t \in Seq(Chars), t # <<>>, NEW o \in 0 .. Len(t)
    PROVE  /\ LineOf(t, o) \in Lines(t) /\ LineOf(t, o) <= o
           /\ ~IsLast(t, LineOf(t, o)) => o < LineEnd(t, LineOf(t, o))
<1> DEFINE T == {line \in Lines(t) : line <= o}
           here == LineOf(t, o)
<1>1. Len(t) \in Nat /\ Lines(t) \in SUBSET (0 .. Len(t)) /\ 0 \in Lines(t)
  BY LinesAre
<1>2. here = Max(T)
  BY <1>1 DEF LineOf
<1>3. T \in SUBSET (0 .. Len(t)) /\ 0 \in T
  BY <1>1
<1>4. \A line \in T : line \in Lines(t) /\ line <= o
  OBVIOUS
<1>5. \A line \in Lines(t) : line <= o => line \in T
  OBVIOUS
<1> HIDE DEF T, here
<1>6. here \in T /\ \A line \in T : line <= here
  BY <1>1, <1>2, <1>3, GreatestIs
<1>7. here \in Lines(t) /\ here <= o
  BY <1>4, <1>6
<1>8. ASSUME ~IsLast(t, here) PROVE o < LineEnd(t, here)
  <2>1. LineEnd(t, here) \in Lines(t) /\ here < LineEnd(t, here)
    BY <1>7, <1>8, LineEndIs
  <2>2. LineEnd(t, here) \in Nat /\ here \in Nat /\ o \in Nat
    BY <1>1, <1>7, <2>1
  <2>3. ~(LineEnd(t, here) <= o)
    BY <1>5, <1>6, <2>1, <2>2
  <2> QED BY <2>2, <2>3
<1> QED BY <1>7, <1>8 DEF here

-----------------------------------------------------------------------------
(* Where the moves take a caret: into a paragraph, into the text if it was *)
(* in the text, and no further back (or forth) than it was.                *)

Ahead(d, c) == d \in Cursors /\ (InText(c) => InText(d) /\ ~Before(d, c))
Behind(d, c) == d \in Cursors /\ (InText(c) => InText(d) /\ ~Before(c, d))

LEMMA ParagraphsAre ==
    ASSUME TypeOK
    PROVE  /\ paragraphs \in Seq(Seq(Chars)) /\ Len(paragraphs) \in Nat /\ Len(paragraphs) >= 1
           /\ LastPara \in Nat /\ LastPara = Len(paragraphs) - 1
           /\ 0 \in Places /\ LastPara \in Places
           /\ \A p \in Places : /\ p \in Nat /\ p <= LastPara
                                /\ Para(p) \in Seq(Chars) /\ Len(Para(p)) \in Nat
<1>1. paragraphs \in Seq(Seq(Chars)) /\ selection.start \in Cursors
  BY DEF TypeOK, Selections
<1>2. Len(paragraphs) \in Nat
  BY <1>1, LenProperties
<1>3. LastPara = Len(paragraphs) - 1 /\ selection.start.p \in 0 .. LastPara
  BY <1>1 DEF LastPara, Cursors, Places
<1>4. LastPara \in Nat /\ Len(paragraphs) >= 1
  BY <1>2, <1>3
<1>5. ASSUME NEW p \in Places
      PROVE  p \in Nat /\ p <= LastPara /\ Para(p) \in Seq(Chars) /\ Len(Para(p)) \in Nat
  <2>1. p \in Nat /\ p <= LastPara /\ p + 1 \in 1 .. Len(paragraphs)
    BY <1>2, <1>3, <1>4 DEF Places
  <2>2. Para(p) \in Seq(Chars)
    BY <1>1, <2>1, ElementOfSeq DEF Para
  <2> QED BY <2>1, <2>2, LenProperties
<1> QED BY <1>1, <1>2, <1>3, <1>4, <1>5 DEF Places

LEMMA CursorsAre ==
    ASSUME TypeOK
    PROVE  /\ \A c \in Cursors : c.p \in Places /\ c.p \in Nat /\ c.o \in Nat
           /\ \A p \in Places, o \in Nat : /\ Cursor(p, o) \in Cursors
                                           /\ Cursor(p, o).p = p /\ Cursor(p, o).o = o
           /\ \A c, d \in Cursors : c.p = d.p /\ c.o = d.o => c = d
<1>1. \A p \in Places : p \in Nat
  BY ParagraphsAre
<1>2. \A c \in Cursors : c.p \in Places /\ c.o \in Nat
  BY DEF Cursors
<1>3. \A p \in Places, o \in Nat : Cursor(p, o) \in Cursors
  BY DEF Cursors, Cursor
<1>4. \A p, o : Cursor(p, o).p = p /\ Cursor(p, o).o = o
  BY DEF Cursor
<1>5. \A c, d \in Cursors : c.p = d.p /\ c.o = d.o => c = d
  BY DEF Cursors
<1> QED BY <1>1, <1>2, <1>3, <1>4, <1>5

LEMMA AheadIs ==
    ASSUME TypeOK, NEW c \in Cursors, NEW p \in Places, NEW o \in Nat,
           InText(c) => o <= Len(Para(p)) /\ (c.p < p \/ (c.p = p /\ c.o <= o))
    PROVE  Ahead(Cursor(p, o), c)
<1>1. /\ Cursor(p, o) \in Cursors /\ Cursor(p, o).p = p /\ Cursor(p, o).o = o
      /\ c.p \in Nat /\ c.o \in Nat /\ p \in Nat
  BY CursorsAre, ParagraphsAre
<1>2. Len(Para(p)) \in Nat /\ p \in 0 .. LastPara
  BY ParagraphsAre DEF Places
<1>3. ASSUME InText(c) PROVE InText(Cursor(p, o)) /\ ~Before(Cursor(p, o), c)
  <2>1. o <= Len(Para(p)) /\ (c.p < p \/ (c.p = p /\ c.o <= o))
    BY <1>3
  <2>2. InText(Cursor(p, o))
    BY <1>1, <1>2, <2>1 DEF InText
  <2>3. ~Before(Cursor(p, o), c)
    BY <1>1, <2>1 DEF Before
  <2> QED BY <2>2, <2>3
<1> QED BY <1>1, <1>3 DEF Ahead

LEMMA BehindIs ==
    ASSUME TypeOK, NEW c \in Cursors, NEW p \in Places, NEW o \in Nat,
           InText(c) => o <= Len(Para(p)) /\ (p < c.p \/ (c.p = p /\ o <= c.o))
    PROVE  Behind(Cursor(p, o), c)
<1>1. /\ Cursor(p, o) \in Cursors /\ Cursor(p, o).p = p /\ Cursor(p, o).o = o
      /\ c.p \in Nat /\ c.o \in Nat /\ p \in Nat
  BY CursorsAre, ParagraphsAre
<1>2. Len(Para(p)) \in Nat /\ p \in 0 .. LastPara
  BY ParagraphsAre DEF Places
<1>3. ASSUME InText(c) PROVE InText(Cursor(p, o)) /\ ~Before(c, Cursor(p, o))
  <2>1. o <= Len(Para(p)) /\ (p < c.p \/ (c.p = p /\ o <= c.o))
    BY <1>3
  <2>2. InText(Cursor(p, o))
    BY <1>1, <1>2, <2>1 DEF InText
  <2>3. ~Before(c, Cursor(p, o))
    BY <1>1, <2>1 DEF Before
  <2> QED BY <2>2, <2>3
<1> QED BY <1>1, <1>3 DEF Behind

LEMMA StayIs ==
    ASSUME TypeOK, NEW c \in Cursors
    PROVE  Ahead(c, c) /\ Behind(c, c)
<1>1. c.p \in Nat /\ c.o \in Nat
  BY CursorsAre
<1>2. ~Before(c, c)
  BY <1>1 DEF Before
<1> QED BY <1>2 DEF Ahead, Behind

(* A cursor: its paragraph, and what it means to be in the text.           *)
LEMMA HereIs ==
    ASSUME TypeOK, NEW c \in Cursors
    PROVE  /\ c.p \in Places /\ c.p \in Nat /\ c.p <= LastPara /\ c.o \in Nat /\ LastPara \in Nat
           /\ Para(c.p) \in Seq(Chars) /\ Len(Para(c.p)) \in Nat
           /\ InText(c) <=> c.o <= Len(Para(c.p))
           /\ c.p < LastPara => c.p + 1 \in Places
           /\ c.p > 0 => c.p - 1 \in Places
<1>1. /\ c.p \in Places /\ c.p \in Nat /\ c.p <= LastPara /\ c.o \in Nat /\ LastPara \in Nat
      /\ Para(c.p) \in Seq(Chars) /\ Len(Para(c.p)) \in Nat
  BY CursorsAre, ParagraphsAre
<1>2. InText(c) <=> c.o <= Len(Para(c.p))
  BY <1>1 DEF InText, Places
<1>3. /\ c.p < LastPara => c.p + 1 \in Places
      /\ c.p > 0 => c.p - 1 \in Places
  BY <1>1 DEF Places
<1> QED BY <1>1, <1>2, <1>3

LEMMA NextParaIs ==
    ASSUME TypeOK, NEW c \in Cursors
    PROVE  Ahead(NextPara(c), c)
<1>1. CASE c.p < LastPara
  <2>1. c.p + 1 \in Places /\ 0 \in Nat /\ c.p < c.p + 1 /\ Len(Para(c.p + 1)) >= 0
    BY SMTT(30), <1>1, HereIs, ParagraphsAre
  <2>2. Ahead(Cursor(c.p + 1, 0), c)
    BY <2>1, AheadIs
  <2> QED BY <1>1, <2>2 DEF NextPara
<1>2. CASE ~(c.p < LastPara)
  BY <1>2, StayIs DEF NextPara
<1> QED BY <1>1, <1>2

LEMMA PrevParaIs ==
    ASSUME TypeOK, NEW c \in Cursors
    PROVE  Behind(PrevPara(c), c)
<1>1. CASE c.p > 0
  <2>1. c.p - 1 \in Places /\ Len(Para(c.p - 1)) \in Nat /\ c.p - 1 < c.p
    BY SMTT(30), <1>1, HereIs, ParagraphsAre
  <2>2. Behind(Cursor(c.p - 1, Len(Para(c.p - 1))), c)
    BY <2>1, BehindIs
  <2> QED BY <1>1, <2>2 DEF PrevPara, ParaEnd
<1>2. CASE ~(c.p > 0)
  BY <1>2, StayIs DEF PrevPara
<1> QED BY <1>1, <1>2

LEMMA CharAfterIs ==
    ASSUME TypeOK, NEW c \in Cursors
    PROVE  Ahead(CharAfter(c), c)
<1>1. CASE c.o < Len(Para(c.p))
  <2>1. c.p \in Places /\ c.o + 1 \in Nat /\ c.o + 1 <= Len(Para(c.p)) /\ c.o <= c.o + 1
    BY <1>1, HereIs
  <2>2. Ahead(Cursor(c.p, c.o + 1), c)
    BY <2>1, AheadIs
  <2> QED BY <1>1, <2>2 DEF CharAfter
<1>2. CASE ~(c.o < Len(Para(c.p)))
  BY <1>2, NextParaIs DEF CharAfter
<1> QED BY <1>1, <1>2

LEMMA CharBeforeIs ==
    ASSUME TypeOK, NEW c \in Cursors
    PROVE  Behind(CharBefore(c), c)
<1>1. CASE c.o > 0
  <2> DEFINE o == Less(c.o - 1, Len(Para(c.p)))
  <2>1. c.p \in Places /\ o \in Nat /\ o <= Len(Para(c.p)) /\ o <= c.o
    BY <1>1, HereIs DEF Less
  <2>2. CharBefore(c) = Cursor(c.p, o)
    BY <1>1 DEF CharBefore
  <2> HIDE DEF o
  <2>3. Behind(Cursor(c.p, o), c)
    BY <2>1, BehindIs
  <2> QED BY <2>2, <2>3
<1>2. CASE ~(c.o > 0)
  BY <1>2, PrevParaIs DEF CharBefore
<1> QED BY <1>1, <1>2

(* On a line of a paragraph that has one.                                  *)
LEMMA OnLineIs ==
    ASSUME TypeOK, NEW c \in Cursors, NEW p \in Places, Para(p) # <<>>,
           NEW line \in Lines(Para(p)), NEW d \in OnLine(c, p, line)
    PROVE  d = c \/ \E o \in Nat : /\ d = Cursor(p, o)
                                   /\ line <= o /\ o <= LineEnd(Para(p), line)
                                   /\ o <= Len(Para(p))
<1>1. Para(p) \in Seq(Chars) /\ Len(Para(p)) \in Nat
  BY ParagraphsAre
<1>2. /\ line \in Nat /\ LineLength(Para(p), line) \in Nat
      /\ line + LineLength(Para(p), line) <= LineEnd(Para(p), line)
      /\ LineEnd(Para(p), line) \in Nat /\ LineEnd(Para(p), line) <= Len(Para(p))
  <2>1. line \in 0 .. Len(Para(p))
    BY <1>1, LinesAre
  <2>2. LineEnd(Para(p), line) \in line .. Len(Para(p))
    BY <1>1, LineEndIs
  <2> QED BY <1>1, <2>1, <2>2, LineLengthIs
<1>3. CASE d = c
  BY <1>3
<1>4. CASE d # c
  <2>1. PICK k \in 0 .. LineLength(Para(p), line) : d = Cursor(p, line + k)
    BY <1>4 DEF OnLine
  <2>2. /\ line + k \in Nat /\ line <= line + k /\ line + k <= LineEnd(Para(p), line)
        /\ line + k <= Len(Para(p))
    BY <1>1, <1>2
  <2> QED BY <2>1, <2>2
<1> QED BY <1>3, <1>4

LEMMA LineHereIs ==
    ASSUME TypeOK, NEW c \in Cursors, LineOf(Para(c.p), c.o) # NoLine
    PROVE  LET line == LineOf(Para(c.p), c.o)
           IN  /\ Para(c.p) # <<>> /\ InText(c)
               /\ line \in Lines(Para(c.p)) /\ line \in Nat /\ line <= c.o
               /\ ~IsLast(Para(c.p), line) =>
                     /\ LineEnd(Para(c.p), line) \in Lines(Para(c.p))
                     /\ c.o < LineEnd(Para(c.p), line)
               /\ LineEnd(Para(c.p), line) \in Nat /\ LineEnd(Para(c.p), line) <= Len(Para(c.p))
<1> DEFINE t == Para(c.p)
           line == LineOf(t, c.o)
<1>1. t \in Seq(Chars) /\ Len(t) \in Nat /\ c.o \in Nat /\ (InText(c) <=> c.o <= Len(t))
  BY HereIs
<1>2. t # <<>> /\ c.o <= Len(t)
  BY <1>1 DEF LineOf
<1> HIDE DEF t
<1>3. c.o \in 0 .. Len(t)
  BY <1>1, <1>2
<1>4. line \in Lines(t) /\ line <= c.o /\ (~IsLast(t, line) => c.o < LineEnd(t, line))
  BY <1>1, <1>2, <1>3, LineOfIs
<1> HIDE DEF line
<1>5. line \in 0 .. Len(t)
  BY <1>1, <1>2, <1>4, LinesAre
<1>6. LineEnd(t, line) \in line .. Len(t) /\ (~IsLast(t, line) => LineEnd(t, line) \in Lines(t))
  BY <1>1, <1>2, <1>4, LineEndIs
<1>7. line \in Nat /\ LineEnd(t, line) \in Nat /\ LineEnd(t, line) <= Len(t)
  BY <1>1, <1>5, <1>6
<1> QED BY <1>1, <1>2, <1>4, <1>6, <1>7 DEF line, t

LEMMA LineBelowIs ==
    ASSUME TypeOK, NEW c \in Cursors, NEW d \in LineBelow(c)
    PROVE  Ahead(d, c)
<1> DEFINE t == Para(c.p)
           line == LineOf(t, c.o)
<1>0. /\ c.p \in Places /\ c.p \in Nat /\ c.o \in Nat /\ c.p <= LastPara /\ LastPara \in Nat
      /\ c.p < LastPara => c.p + 1 \in Places
  BY HereIs
<1>1. CASE t = <<>>
  BY <1>1, NextParaIs DEF LineBelow
<1>2. CASE t # <<>> /\ c.p < LastPara /\ Para(c.p + 1) = <<>>
  <2>1. d = Cursor(c.p + 1, 0)
    BY <1>2 DEF LineBelow
  <2>2. c.p + 1 \in Places /\ 0 \in Nat /\ c.p < c.p + 1 /\ 0 <= Len(Para(c.p + 1))
    BY <1>0, <1>2, ParagraphsAre
  <2>3. Ahead(Cursor(c.p + 1, 0), c)
    BY <2>2, AheadIs
  <2> QED BY <2>1, <2>3
<1>3. CASE t # <<>> /\ ~(c.p < LastPara /\ Para(c.p + 1) = <<>>)
  <2>1. CASE line = NoLine
    <3>1. d = c
      BY <1>3, <2>1 DEF LineBelow
    <3> QED BY <3>1, StayIs
  <2>2. CASE line # NoLine /\ ~IsLast(t, line)
    <3>1. d \in OnLine(c, c.p, LineEnd(t, line))
      BY <1>3, <2>2 DEF LineBelow
    <3>2. LineEnd(t, line) \in Lines(t) /\ c.o < LineEnd(t, line) /\ LineEnd(t, line) \in Nat
      BY <2>2, LineHereIs
    <3> DEFINE below == LineEnd(t, line)
    <3>3. d = c \/ \E o \in Nat : d = Cursor(c.p, o) /\ below <= o /\ o <= Len(t)
      <4> HIDE DEF below, line
      <4>1. below \in Lines(Para(c.p)) /\ d \in OnLine(c, c.p, below)
        BY <3>1, <3>2 DEF below
      <4> QED BY <1>0, <1>3, <4>1, OnLineIs
    <3>4. ASSUME NEW o \in Nat, d = Cursor(c.p, o), below <= o, o <= Len(t)
          PROVE  Ahead(d, c)
      <4>1. c.o <= o
        <5> HIDE DEF below, line
        <5>1. c.o < below /\ below \in Nat
          BY <3>2 DEF below
        <5> QED BY <1>0, <3>4, <5>1
      <4>2. Ahead(Cursor(c.p, o), c)
        BY <1>0, <3>4, <4>1, AheadIs
      <4> QED BY <3>4, <4>2
    <3> QED BY <3>3, <3>4, StayIs
  <2>3. CASE line # NoLine /\ IsLast(t, line) /\ c.p = LastPara
    <3>1. d = c
      BY <1>3, <2>3 DEF LineBelow
    <3> QED BY <3>1, StayIs
  <2>4. CASE line # NoLine /\ IsLast(t, line) /\ c.p # LastPara
    <3>0. c.p < LastPara /\ c.p + 1 \in Places /\ c.p < c.p + 1
      BY <1>0, <2>4
    <3>1. d \in OnLine(c, c.p + 1, 0)
      BY <1>3, <2>4 DEF LineBelow
    <3>2. Para(c.p + 1) # <<>> /\ Para(c.p + 1) \in Seq(Chars)
      BY <1>3, <3>0, ParagraphsAre
    <3>3. 0 \in Lines(Para(c.p + 1))
      BY <3>2, LinesAre
    <3>4. d = c \/ \E o \in Nat : d = Cursor(c.p + 1, o) /\ o <= Len(Para(c.p + 1))
      BY <3>0, <3>1, <3>2, <3>3, OnLineIs
    <3>5. ASSUME NEW o \in Nat, d = Cursor(c.p + 1, o), o <= Len(Para(c.p + 1))
          PROVE  Ahead(d, c)
      BY <3>0, <3>5, AheadIs
    <3> QED BY <3>4, <3>5, StayIs
  <2> QED BY <2>1, <2>2, <2>3, <2>4
<1> QED BY <1>1, <1>2, <1>3

LEMMA LineAboveIs ==
    ASSUME TypeOK, NEW c \in Cursors, NEW d \in LineAbove(c)
    PROVE  Behind(d, c)
<1> DEFINE t == Para(c.p)
           line == LineOf(t, c.o)
<1>0. /\ c.p \in Places /\ c.p \in Nat /\ c.o \in Nat
      /\ c.p > 0 => c.p - 1 \in Places /\ c.p - 1 < c.p
  BY HereIs
<1>1. ASSUME c.p > 0, d = Cursor(c.p - 1, 0) PROVE Behind(d, c)
  <2>1. c.p - 1 \in Places /\ 0 \in Nat /\ c.p - 1 < c.p /\ 0 <= Len(Para(c.p - 1))
    BY <1>0, <1>1, ParagraphsAre
  <2>2. Behind(Cursor(c.p - 1, 0), c)
    BY <2>1, BehindIs
  <2> QED BY <1>1, <2>2
<1>2. CASE t = <<>>
  <2>1. d = IF c.p > 0 THEN Cursor(c.p - 1, 0) ELSE c
    BY <1>2 DEF LineAbove
  <2> QED BY <1>1, <2>1, StayIs
<1>3. CASE t # <<>> /\ c.p > 0 /\ Para(c.p - 1) = <<>>
  <2>1. d = Cursor(c.p - 1, 0)
    BY <1>3 DEF LineAbove
  <2> QED BY <1>1, <1>3, <2>1
<1>4. CASE t # <<>> /\ ~(c.p > 0 /\ Para(c.p - 1) = <<>>)
  <2>1. CASE line = NoLine
    <3>1. d = c
      BY <1>4, <2>1 DEF LineAbove
    <3> QED BY <3>1, StayIs
  <2>2. CASE line # NoLine /\ line > 0
    <3> DEFINE T == {x \in Lines(t) : x < line}
               above == Max(T)
    <3>1. d \in OnLine(c, c.p, above)
      BY <1>4, <2>2 DEF LineAbove
    <3>2. line \in Lines(t) /\ line \in Nat /\ line <= c.o /\ t \in Seq(Chars)
      BY <2>2, LineHereIs, HereIs
    <3>3. /\ Lines(t) \in SUBSET (0 .. Len(t)) /\ 0 \in Lines(t) /\ Len(t) \in Nat
          /\ Breaks(t) \subseteq Lines(t)
      BY <1>4, <3>2, LinesAre
    <3>4. above \in T
      <4>1. T \in SUBSET (0 .. Len(t)) /\ T # {}
        BY <2>2, <3>3
      <4> HIDE DEF T
      <4> QED BY <3>3, <4>1, GreatestIs
    <3>5. above \in Lines(t) /\ above < line /\ above \in Nat
      BY <3>3, <3>4
    <3>6. LineEnd(t, above) <= line
      <4> HIDE DEF above, line
      <4>1. ~IsLast(t, above)
        <5>1. line <= Max(Lines(t))
          BY <1>4, <3>2, LinesAre
        <5> QED BY <3>2, <3>5, <5>1 DEF IsLast
      <4> DEFINE U == {i \in Breaks(t) : i > above}
      <4>2. LineEnd(t, above) = Min(U)
        BY <4>1 DEF LineEnd
      <4>3. line \in U
        BY <1>4, <3>2, <3>5 DEF Lines
      <4>4. U \in SUBSET Nat
        BY <3>3
      <4> HIDE DEF U
      <4> QED BY <4>2, <4>3, <4>4, LeastIs
    <3> HIDE DEF above, line
    <3>7. d = c \/ \E o \in Nat : /\ d = Cursor(c.p, o) /\ o <= LineEnd(t, above)
                                  /\ o <= Len(t)
      BY <1>0, <1>4, <3>1, <3>5, OnLineIs
    <3>8. ASSUME NEW o \in Nat, d = Cursor(c.p, o), o <= LineEnd(t, above), o <= Len(t)
          PROVE  Behind(d, c)
      <4>1. o <= c.o
        <5>1. LineEnd(t, above) \in Nat
          <6>1. LineEnd(t, above) \in above .. Len(t)
            BY <1>4, <3>2, <3>5, LineEndIs
          <6> QED BY <3>3, <3>5, <6>1
        <5> QED BY <1>0, <3>2, <3>6, <3>8, <5>1
      <4>2. Behind(Cursor(c.p, o), c)
        BY <1>0, <3>8, <4>1, BehindIs
      <4> QED BY <3>8, <4>2
    <3> QED BY <3>7, <3>8, StayIs
  <2>3. CASE line # NoLine /\ ~(line > 0) /\ c.p = 0
    <3>1. d = c
      BY <1>4, <2>3 DEF LineAbove
    <3> QED BY <3>1, StayIs
  <2>4. CASE line # NoLine /\ ~(line > 0) /\ c.p # 0
    <3>0. c.p > 0 /\ c.p - 1 \in Places /\ c.p - 1 < c.p
      BY <1>0, <2>4
    <3>1. d \in OnLine(c, c.p - 1, Max(Lines(Para(c.p - 1))))
      BY <1>4, <2>4 DEF LineAbove
    <3>2. Para(c.p - 1) # <<>> /\ Para(c.p - 1) \in Seq(Chars)
      BY <1>4, <3>0, ParagraphsAre
    <3>3. Max(Lines(Para(c.p - 1))) \in Lines(Para(c.p - 1))
      BY <3>2, LinesAre
    <3>4. d = c \/ \E o \in Nat : d = Cursor(c.p - 1, o) /\ o <= Len(Para(c.p - 1))
      BY <3>0, <3>1, <3>2, <3>3, OnLineIs
    <3>5. ASSUME NEW o \in Nat, d = Cursor(c.p - 1, o), o <= Len(Para(c.p - 1))
          PROVE  Behind(d, c)
      BY <3>0, <3>5, BehindIs
    <3> QED BY <3>4, <3>5, StayIs
  <2> QED BY <2>1, <2>2, <2>3, <2>4
<1> QED BY <1>2, <1>3, <1>4

LEMMA LineEndsAre ==
    ASSUME TypeOK, NEW c \in Cursors
    PROVE  Behind(LineEnds(c).start, c) /\ Ahead(LineEnds(c).end, c)
<1> DEFINE t == Para(c.p)
           line == LineOf(t, c.o)
           last == LineEnd(t, line) - (IF IsLast(t, line) THEN 0 ELSE 1)
<1>0. c.p \in Places /\ c.o \in Nat /\ Len(t) \in Nat
  BY HereIs
<1>1. CASE line = NoLine
  <2>1. LineEnds(c) = [start |-> c, end |-> c]
    BY <1>1 DEF LineEnds
  <2> QED BY <2>1, StayIs
<1>2. CASE line # NoLine
  <2>1. LineEnds(c) = [start |-> Cursor(c.p, line), end |-> Cursor(c.p, last)]
    BY <1>2 DEF LineEnds
  <2>2. /\ InText(c) /\ line \in Nat /\ line <= c.o /\ line \in Lines(t)
        /\ ~IsLast(t, line) => c.o < LineEnd(t, line)
        /\ LineEnd(t, line) \in Nat /\ LineEnd(t, line) <= Len(t)
    BY <1>2, LineHereIs
  <2>3. c.o <= Len(t)
    BY <2>2, HereIs
  <2>4. last \in Nat /\ c.o <= last /\ last <= Len(t)
    <3> HIDE DEF line
    <3>1. CASE IsLast(t, line)
      <4>1. last = LineEnd(t, line) /\ LineEnd(t, line) = Len(t)
        BY <2>2, <3>1 DEF LineEnd
      <4> QED BY <1>0, <2>3, <4>1
    <3>2. CASE ~IsLast(t, line)
      <4>1. last = LineEnd(t, line) - 1
        BY <3>2
      <4> QED BY <1>0, <2>2, <3>2, <4>1
    <3> QED BY <3>1, <3>2
  <2> HIDE DEF last, line
  <2>5. Behind(Cursor(c.p, line), c)
    <3>1. line <= Len(t)
      BY <1>0, <2>2, <2>3
    <3> QED BY <1>0, <2>2, <3>1, BehindIs
  <2>6. Ahead(Cursor(c.p, last), c)
    BY <1>0, <2>4, AheadIs
  <2> QED BY <2>1, <2>5, <2>6
<1> QED BY <1>1, <1>2

LEMMA ForwardTargets ==
    ASSUME TypeOK, NEW c \in Cursors, NEW dir \in Forwards, NEW d \in Targets(dir, c)
    PROVE  Ahead(d, c)
<1> DEFINE len == Len(Para(c.p))
<1>0. /\ c.p \in Places /\ c.p \in Nat /\ c.p <= LastPara /\ c.o \in Nat /\ LastPara \in Nat
      /\ len \in Nat /\ (InText(c) <=> c.o <= len)
  BY HereIs
<1>1. CASE dir = "FWD_CHAR"
  <2>1. d = CharAfter(c)
    BY <1>1 DEF Targets
  <2> QED BY <2>1, CharAfterIs
<1>2. ASSUME NEW o \in Nat, d = Cursor(c.p, o), o <= len, c.o <= len => c.o <= o
      PROVE  Ahead(d, c)
  <2>1. Ahead(Cursor(c.p, o), c)
    BY <1>0, <1>2, AheadIs
  <2> QED BY <1>2, <2>1
<1>3. CASE dir = "FWD_WORD"
  <2>1. CASE c.o = len
    <3>1. d = NextPara(c)
      BY <1>3, <2>1 DEF Targets
    <3> QED BY <3>1, NextParaIs
  <2>2. CASE c.o # len
    <3>1. d \in {Cursor(c.p, o) : o \in {len} \cup (c.o + 1 .. len)}
      BY <1>3, <2>2 DEF Targets
    <3> HIDE DEF len
    <3>2. PICK o \in {len} \cup (c.o + 1 .. len) : d = Cursor(c.p, o)
      BY <3>1
    <3>3. o \in Nat /\ o <= len /\ (c.o <= len => c.o <= o)
      BY <1>0
    <3> QED BY <1>2, <3>2, <3>3
  <2> QED BY <2>1, <2>2
<1>4. CASE dir = "FWD_LINE"
  <2>1. d \in LineBelow(c)
    BY <1>4 DEF Targets
  <2> QED BY <2>1, LineBelowIs
<1>5. CASE dir = "PARA_END"
  <2>1. d = IF c.o = len THEN NextPara(c) ELSE ParaEnd(c.p)
    BY <1>5 DEF Targets
  <2>2. CASE c.o = len
    BY <2>1, <2>2, NextParaIs
  <2>3. CASE c.o # len
    <3>1. d = Cursor(c.p, len)
      BY <2>1, <2>3 DEF ParaEnd
    <3> QED BY <1>0, <1>2, <3>1
  <2> QED BY <2>2, <2>3
<1>6. CASE dir = "LINE_END"
  <2>1. d = LineEnds(c).end
    BY <1>6 DEF Targets
  <2> QED BY <2>1, LineEndsAre
<1>7. CASE dir = "TEXT_END"
  <2>1. d = Cursor(LastPara, Len(Para(LastPara)))
    BY <1>7 DEF Targets, ParaEnd
  <2>2. LastPara \in Places /\ Len(Para(LastPara)) \in Nat
    BY ParagraphsAre
  <2>3. InText(c) => /\ Len(Para(LastPara)) <= Len(Para(LastPara))
                     /\ c.p < LastPara \/ (c.p = LastPara /\ c.o <= Len(Para(LastPara)))
    BY <1>0, <2>2
  <2>4. Ahead(Cursor(LastPara, Len(Para(LastPara))), c)
    BY <2>2, <2>3, AheadIs
  <2> QED BY <2>1, <2>4
<1> QED BY <1>1, <1>3, <1>4, <1>5, <1>6, <1>7 DEF Forwards

LEMMA BackwardTargets ==
    ASSUME TypeOK, NEW c \in Cursors, NEW dir \in Backwards, NEW d \in Targets(dir, c)
    PROVE  Behind(d, c)
<1> DEFINE len == Len(Para(c.p))
<1>0. /\ c.p \in Places /\ c.p \in Nat /\ c.o \in Nat
      /\ len \in Nat /\ (InText(c) <=> c.o <= len)
  BY HereIs
<1>1. CASE dir = "REV_CHAR"
  <2>1. d = CharBefore(c)
    BY <1>1 DEF Targets
  <2> QED BY <2>1, CharBeforeIs
<1>2. ASSUME NEW o \in Nat, d = Cursor(c.p, o), o <= len, o <= c.o
      PROVE  Behind(d, c)
  <2>1. Behind(Cursor(c.p, o), c)
    BY <1>0, <1>2, BehindIs
  <2> QED BY <1>2, <2>1
<1>3. CASE dir = "REV_WORD"
  <2>1. CASE c.o = 0
    <3>1. d = PrevPara(c)
      BY <1>3, <2>1 DEF Targets
    <3> QED BY <3>1, PrevParaIs
  <2>2. CASE c.o # 0
    <3>1. d \in {Cursor(c.p, o) : o \in 0 .. Less(c.o - 1, len)}
      BY <1>3, <2>2 DEF Targets
    <3> HIDE DEF len
    <3>2. PICK o \in 0 .. Less(c.o - 1, len) : d = Cursor(c.p, o)
      BY <3>1
    <3>3. o \in Nat /\ o <= len /\ o <= c.o
      BY <1>0, <2>2 DEF Less
    <3> QED BY <1>2, <3>2, <3>3
  <2> QED BY <2>1, <2>2
<1>4. CASE dir = "REV_LINE"
  <2>1. d \in LineAbove(c)
    BY <1>4 DEF Targets
  <2> QED BY <2>1, LineAboveIs
<1>5. CASE dir = "PARA_START"
  <2>1. d = IF c.o = 0 THEN PrevPara(c) ELSE Cursor(c.p, 0)
    BY <1>5 DEF Targets
  <2>2. CASE c.o = 0
    BY <2>1, <2>2, PrevParaIs
  <2>3. CASE c.o # 0
    <3>1. d = Cursor(c.p, 0)
      BY <2>1, <2>3
    <3> QED BY <1>0, <1>2, <3>1
  <2> QED BY <2>2, <2>3
<1>6. CASE dir = "LINE_START"
  <2>1. d = LineEnds(c).start
    BY <1>6 DEF Targets
  <2> QED BY <2>1, LineEndsAre
<1>7. CASE dir = "TEXT_START"
  <2>1. d = Cursor(0, 0)
    BY <1>7 DEF Targets
  <2>2. 0 \in Places /\ 0 \in Nat /\ 0 <= Len(Para(0))
    BY ParagraphsAre
  <2>3. InText(c) => /\ 0 <= Len(Para(0))
                     /\ 0 < c.p \/ (c.p = 0 /\ 0 <= c.o)
    BY <1>0, <2>2
  <2>4. Behind(Cursor(0, 0), c)
    BY <2>2, <2>3, BehindIs
  <2> QED BY <2>1, <2>4
<1> QED BY <1>1, <1>3, <1>4, <1>5, <1>6, <1>7 DEF Backwards

(* Where an empty paragraph that lags lets a move go: with the caret in    *)
(* the text, End alone leaves it.                                          *)
LEMMA OldTargetsAre ==
    ASSUME TypeOK, NEW c \in Cursors, NEW dir, NEW d \in OldTargets(dir, c)
    PROVE  /\ d \in Cursors
           /\ InText(c) => c.p \in lagging /\ dir \in {"LINE_START", "LINE_END"}
           /\ InText(c) /\ dir = "LINE_START" => d = c
           /\ InText(c) /\ dir = "LINE_END" => ~Before(d, c)
<1>1. /\ c.p \in Places /\ c.p \in Nat /\ c.o \in Nat
      /\ InText(c) <=> c.o <= Len(Para(c.p))
  BY HereIs
<1>2. PICK offsets \in SUBSET Nat :
         /\ d \in OldOffsets(c, offsets)
         /\ \/ dir = "LINE_START" /\ offsets = 0 .. c.o
            \/ dir = "LINE_END" /\ offsets = c.o .. MaxText
            \/ dir \in {"FWD_WORD", "REV_WORD"} /\ c.o # 0
  <2>1. MaxText \in Nat
    BY BoundsAssumption
  <2>2. /\ 0 .. c.o \in SUBSET Nat /\ c.o .. MaxText \in SUBSET Nat
        /\ c.o + 1 .. MaxText \in SUBSET Nat /\ 0 .. c.o - 1 \in SUBSET Nat
    BY <1>1, <2>1
  <2>3. CASE dir = "LINE_START"
    BY <2>2, <2>3 DEF OldTargets
  <2>4. CASE dir = "LINE_END"
    BY <2>2, <2>4 DEF OldTargets
  <2>5. CASE dir = "FWD_WORD" /\ c.o # 0
    BY <2>2, <2>5 DEF OldTargets
  <2>6. CASE dir = "REV_WORD" /\ c.o # 0
    BY <2>2, <2>6 DEF OldTargets
  <2> QED BY <2>3, <2>4, <2>5, <2>6 DEF OldTargets
<1>3. PICK o \in offsets : d = Cursor(c.p, o) /\ c.p \in lagging /\ Para(c.p) = <<>>
  BY <1>2 DEF OldOffsets
<1>4. d \in Cursors /\ d.p = c.p /\ d.o = o
  BY <1>1, <1>2, <1>3, CursorsAre
<1>5. InText(c) => c.o = 0
  BY <1>1, <1>3
<1>6. ASSUME InText(c), dir = "LINE_START" PROVE d = c
  <2>1. o = 0 /\ c.o = 0
    BY <1>2, <1>3, <1>5, <1>6
  <2> QED BY <1>4, <2>1, CursorsAre
<1>7. ASSUME dir = "LINE_END" PROVE ~Before(d, c)
  <2>1. c.o <= o /\ o \in Nat
    BY <1>1, <1>2, <1>3, <1>7
  <2> QED BY <1>1, <1>4, <2>1 DEF Before
<1> QED BY <1>2, <1>3, <1>4, <1>5, <1>6, <1>7

LEMMA HitsAreInText ==
    ASSUME TypeOK, NEW c \in Hits
    PROVE  c \in Cursors /\ InText(c)
<1>1. ASSUME NEW p \in Places, NEW o \in Nat, o <= Len(Para(p)), c = Cursor(p, o)
      PROVE  c \in Cursors /\ InText(c)
  <2>1. c \in Cursors /\ c.p = p /\ c.o = o
    BY <1>1, CursorsAre
  <2> QED BY <1>1, <2>1, HereIs
<1>2. PICK p \in Places :
          c \in IF Para(p) = <<>> THEN {Cursor(p, 0)}
                ELSE UNION {HitsOn(p, line) : line \in Lines(Para(p))}
  BY DEF Hits
<1>3. Para(p) \in Seq(Chars) /\ Len(Para(p)) \in Nat
  BY ParagraphsAre
<1>4. CASE Para(p) = <<>>
  <2>1. c = Cursor(p, 0) /\ 0 \in Nat /\ 0 <= Len(Para(p))
    BY <1>2, <1>3, <1>4
  <2> QED BY <1>1, <2>1
<1>5. CASE Para(p) # <<>>
  <2>1. PICK line \in Lines(Para(p)) : c \in HitsOn(p, line)
    BY <1>2, <1>5
  <2> DEFINE length == LineLength(Para(p), line)
  <2>2. line \in Nat /\ line <= Len(Para(p))
    <3>1. line \in 0 .. Len(Para(p))
      BY <1>3, <1>5, LinesAre
    <3> QED BY <1>3, <3>1
  <2>3. length \in Nat /\ line + length <= Len(Para(p))
    <3>1. LineEnd(Para(p), line) \in line .. Len(Para(p))
      BY <1>3, <1>5, LineEndIs
    <3>2. length \in Nat /\ line + length <= LineEnd(Para(p), line)
      BY <1>3, <1>5, LineLengthIs
    <3> HIDE DEF length
    <3> QED BY <1>3, <2>2, <3>1, <3>2
  <2>4. CASE length = 0
    <3> DEFINE o == IF line = 0 THEN 0 ELSE line - 1
    <3>1. c = Cursor(p, o)
      BY <2>1, <2>4 DEF HitsOn
    <3>2. o \in Nat /\ o <= Len(Para(p))
      BY <1>3, <2>2
    <3> HIDE DEF o
    <3> QED BY <1>1, <3>1, <3>2
  <2>5. CASE length # 0
    <3>1. c \in {Cursor(p, line + k) : k \in 0 .. length}
      BY <2>1, <2>5 DEF HitsOn
    <3> HIDE DEF length
    <3>2. PICK k \in 0 .. length : c = Cursor(p, line + k)
      BY <3>1
    <3>3. line + k \in Nat /\ line + k <= Len(Para(p))
      BY <1>3, <2>2, <2>3
    <3> QED BY <1>1, <3>2, <3>3
  <2> QED BY <2>4, <2>5
<1> QED BY <1>4, <1>5

-----------------------------------------------------------------------------
(* A caret that moves: the selection lies between it and the end it left.  *)

LEMMA BeforeIsOrder ==
    ASSUME TypeOK, NEW c \in Cursors, NEW d \in Cursors
    PROVE  /\ Before(c, d) \in BOOLEAN
           /\ ~(Before(c, d) /\ Before(d, c))
           /\ ~Before(c, d) /\ ~Before(d, c) => c = d
<1>1. c.p \in Nat /\ c.o \in Nat /\ d.p \in Nat /\ d.o \in Nat
  BY CursorsAre
<1>2. Before(c, d) \in BOOLEAN /\ ~(Before(c, d) /\ Before(d, c))
  BY <1>1 DEF Before
<1>3. ASSUME ~Before(c, d), ~Before(d, c) PROVE c = d
  <2>1. c.p = d.p /\ c.o = d.o
    BY <1>1, <1>3 DEF Before
  <2> QED BY <2>1, CursorsAre
<1> QED BY <1>2, <1>3

Between(c, d) ==
    IF Before(c, d) THEN [start |-> c, end |-> d, caret |-> c]
    ELSE [start |-> d, end |-> c, caret |-> c]
(* The end the caret leaves, c itself without shift.                       *)
Left(shift, c) ==
    IF ~shift THEN c
    ELSE IF selection.caret = selection.start THEN selection.end ELSE selection.start

LEMMA SelectionIs ==
    ASSUME TypeOK
    PROVE  /\ selection.start \in Cursors /\ selection.end \in Cursors
           /\ selection.caret \in Cursors
           /\ selection = [start |-> selection.start, end |-> selection.end,
                           caret |-> selection.caret]
BY DEF TypeOK, Selections

LEMMA Exchanged ==
    ASSUME NEW s, NEW e, NEW k, NEW m, m = [start |-> s, end |-> e, caret |-> k]
    PROVE  [m EXCEPT !.start = m.end, !.end = m.start] = [start |-> e, end |-> s, caret |-> k]
<1>1. m.start = s /\ m.end = e
  OBVIOUS
<1>2. PICK n : n = [m EXCEPT !.start = e]
  OBVIOUS
<1>3. n = [start |-> e, end |-> e, caret |-> k]
  BY <1>2
<1>4. [n EXCEPT !.end = s] = [start |-> e, end |-> s, caret |-> k]
  BY <1>3
<1>5. [m EXCEPT !.start = e, !.end = s] = [n EXCEPT !.end = s]
  BY <1>2
<1> QED BY <1>1, <1>4, <1>5

LEMMA CaretMovedIs ==
    ASSUME TypeOK, NEW c \in Cursors, NEW shift \in BOOLEAN
    PROVE  CaretMoved(shift, c) = Between(c, Left(shift, c))
<1> DEFINE moved ==
               IF ~shift THEN At(c)
               ELSE IF selection.caret = selection.start
                    THEN [selection EXCEPT !.start = c, !.caret = c]
                    ELSE [selection EXCEPT !.end = c, !.caret = c]
           result ==
               IF Before(moved.end, moved.start)
               THEN [moved EXCEPT !.start = moved.end, !.end = moved.start]
               ELSE moved
<1>0. CaretMoved(shift, c) = result
  BY DEF CaretMoved
<1>1. ASSUME NEW s, NEW e, moved = [start |-> s, end |-> e, caret |-> c]
      PROVE  result = IF Before(e, s) THEN [start |-> e, end |-> s, caret |-> c]
                      ELSE [start |-> s, end |-> e, caret |-> c]
  <2> HIDE DEF moved
  <2>1. moved.start = s /\ moved.end = e /\ moved.caret = c
    BY <1>1
  <2>2. [moved EXCEPT !.start = moved.end, !.end = moved.start] =
            [start |-> e, end |-> s, caret |-> c]
    BY ZenonT(30), <1>1, Exchanged
  <2> QED BY <1>1, <2>1, <2>2
<1>2. CASE ~shift
  <2>1. moved = [start |-> c, end |-> c, caret |-> c]
    BY <1>2 DEF At
  <2>2. result = [start |-> c, end |-> c, caret |-> c]
    <3> HIDE DEF moved, result
    <3> QED BY <1>1, <2>1
  <2>3. Between(c, Left(shift, c)) = [start |-> c, end |-> c, caret |-> c]
    BY <1>2 DEF Between, Left
  <2> QED BY <1>0, <2>2, <2>3
<1>3. CASE shift /\ selection.caret = selection.start
  <2>1. moved = [start |-> c, end |-> selection.end, caret |-> c]
    BY <1>3, SelectionIs
  <2>2. result = IF Before(selection.end, c)
                 THEN [start |-> selection.end, end |-> c, caret |-> c]
                 ELSE [start |-> c, end |-> selection.end, caret |-> c]
    <3> HIDE DEF moved, result
    <3> QED BY <1>1, <2>1
  <2>3. Left(shift, c) = selection.end
    BY <1>3 DEF Left
  <2> HIDE DEF moved, result
  <2>4. \/ Before(selection.end, c) /\ ~Before(c, selection.end)
        \/ ~Before(selection.end, c) /\ Before(c, selection.end)
        \/ selection.end = c /\ ~Before(selection.end, c) /\ ~Before(c, selection.end)
    BY SelectionIs, BeforeIsOrder
  <2> QED BY <1>0, <2>2, <2>3, <2>4 DEF Between
<1>4. CASE shift /\ selection.caret # selection.start
  <2>1. moved = [start |-> selection.start, end |-> c, caret |-> c]
    BY <1>4, SelectionIs
  <2>2. result = IF Before(c, selection.start)
                 THEN [start |-> c, end |-> selection.start, caret |-> c]
                 ELSE [start |-> selection.start, end |-> c, caret |-> c]
    <3> HIDE DEF moved, result
    <3> QED BY <1>1, <2>1
  <2>3. Left(shift, c) = selection.start
    BY <1>4 DEF Left
  <2> HIDE DEF moved, result
  <2> QED BY <1>0, <2>2, <2>3 DEF Between
<1> QED BY <1>2, <1>3, <1>4

IsOrdered(sel) ==
    /\ InText(sel.start) /\ InText(sel.end)
    /\ ~Before(sel.end, sel.start)
    /\ sel.caret \in {sel.start, sel.end}

LEMMA BetweenIs ==
    ASSUME TypeOK, NEW c \in Cursors, NEW d \in Cursors
    PROVE  /\ Between(c, d) \in Selections(Cursors) /\ Between(c, d).caret = c
           /\ InText(c) /\ InText(d) => IsOrdered(Between(c, d))
<1>1. CASE Before(c, d)
  <2>1. Between(c, d) = [start |-> c, end |-> d, caret |-> c]
    BY <1>1 DEF Between
  <2>2. ~Before(d, c)
    BY <1>1, BeforeIsOrder
  <2> QED BY <2>1, <2>2 DEF Selections, IsOrdered
<1>2. CASE ~Before(c, d)
  <2>1. Between(c, d) = [start |-> d, end |-> c, caret |-> c]
    BY <1>2 DEF Between
  <2> QED BY <1>2, <2>1 DEF Selections, IsOrdered
<1> QED BY <1>1, <1>2

LEMMA CaretMovedType ==
    ASSUME TypeOK, NEW c \in Cursors, NEW shift \in BOOLEAN
    PROVE  /\ CaretMoved(shift, c) \in Selections(Cursors) /\ CaretMoved(shift, c).caret = c
           /\ InText(c) /\ Ordered => IsOrdered(CaretMoved(shift, c))
<1>1. Left(shift, c) \in Cursors
  BY SelectionIs DEF Left
<1>2. InText(c) /\ Ordered => InText(Left(shift, c))
  BY DEF Left, Ordered
<1> QED BY <1>1, <1>2, CaretMovedIs, BetweenIs

-----------------------------------------------------------------------------
(* Edits: paragraphs are put in place of others.                           *)

IsJoined(joined, parts, mid, from, next) ==
    joined = SubSeq(parts, 1, from) \o mid \o SubSeq(parts, next, Len(parts))

(* joined holds mid behind the first parts, and rest parts more.           *)
HoldsPart(joined, S, mid, from, rest) ==
    /\ joined \in Seq(S)
    /\ Len(joined) = from + Len(mid) + rest
    /\ \A i \in 1 .. Len(mid) : joined[from + i] = mid[i]

LEMMA JoinedIs ==
    ASSUME NEW S, NEW parts \in Seq(S), NEW mid \in Seq(S), NEW from \in Nat, NEW next \in Nat,
           from <= Len(parts), next >= 1, next <= Len(parts) + 1,
           NEW joined, IsJoined(joined, parts, mid, from, next)
    PROVE  HoldsPart(joined, S, mid, from, (Len(parts) + 1) - next)
<1> DEFINE A == SubSeq(parts, 1, from)
           C == SubSeq(parts, next, Len(parts))
           AM == A \o mid
<1>0. Len(parts) \in Nat /\ Len(mid) \in Nat
  BY LenProperties
<1>1. A \in Seq(S) /\ Len(A) = from
  <2>1. 1 \in Int /\ from \in Int /\ 1 >= 1 /\ 1 <= from + 1 /\ (from + 1) - 1 = from
    OBVIOUS
  <2> QED BY <2>1, PieceIs
<1>2. C \in Seq(S) /\ Len(C) = (Len(parts) + 1) - next
  <2>1. Len(parts) <= Len(parts) /\ Len(parts) \in Int /\ next \in Int
    BY <1>0
  <2> QED BY <2>1, PieceIs
<1> HIDE DEF A, C
<1>3. /\ AM \in Seq(S) /\ Len(AM) = from + Len(mid)
      /\ \A i \in 1 .. Len(mid) : AM[from + i] = mid[i]
  <2>1. /\ AM \in Seq(S) /\ Len(AM) = from + Len(mid)
        /\ \A i \in 1 .. from + Len(mid) : AM[i] = IF i <= from THEN A[i] ELSE mid[i - from]
    BY ZenonT(30), <1>1, ConcatProperties
  <2> HIDE DEF AM
  <2>2. \A i \in 1 .. Len(mid) :
            from + i \in 1 .. from + Len(mid) /\ ~(from + i <= from) /\ (from + i) - from = i
    BY <1>0
  <2> QED BY <2>1, <2>2
<1> HIDE DEF AM
<1>4. /\ AM \o C \in Seq(S) /\ Len(AM \o C) = (from + Len(mid)) + ((Len(parts) + 1) - next)
      /\ \A i \in 1 .. from + Len(mid) : (AM \o C)[i] = AM[i]
  <2>1. /\ AM \o C \in Seq(S) /\ Len(AM \o C) = Len(AM) + Len(C)
        /\ \A i \in 1 .. Len(AM) + Len(C) :
              (AM \o C)[i] = IF i <= Len(AM) THEN AM[i] ELSE C[i - Len(AM)]
    <3>1. AM \in Seq(S) /\ C \in Seq(S)
      BY <1>2, <1>3
    <3> QED BY <3>1, ConcatProperties
  <2>2. \A i \in 1 .. from + Len(mid) : i \in 1 .. Len(AM) + Len(C) /\ i <= Len(AM)
    BY <1>0, <1>2, <1>3
  <2> QED BY <1>2, <1>3, <2>1, <2>2
<1>5. joined = AM \o C
  BY DEF AM, A, C, IsJoined
<1>6. \A i \in 1 .. Len(mid) : from + i \in 1 .. from + Len(mid)
  BY <1>0
<1> QED BY <1>0, <1>3, <1>4, <1>5, <1>6 DEF HoldsPart

(* What replaces the paragraphs of a selection: one.                       *)

LEMMA ShownIs ==
    ASSUME TypeOK, NEW sel \in Selections(Cursors), NEW t \in Seq(Chars)
    PROVE  LET shown == ShownOf(paragraphs, <<t>>, sel)
               from == sel.start.p
           IN  /\ shown = SubSeq(paragraphs, 1, from) \o <<t>>
                          \o SubSeq(paragraphs, LastOf(sel) + 2, Len(paragraphs))
               /\ shown \in Seq(Seq(Chars)) /\ from \in 0 .. Len(shown) - 1
               /\ shown[from + 1] = t
<1> DEFINE from == sel.start.p
           shown == ShownOf(paragraphs, <<t>>, sel)
<1>1. /\ from \in Nat /\ from < Len(paragraphs) /\ Len(paragraphs) \in Nat
      /\ LastOf(sel) \in Nat /\ LastOf(sel) < Len(paragraphs)
  <2>1. sel.start \in Cursors /\ sel.end \in Cursors
    BY DEF Selections
  <2>2. /\ from \in Nat /\ from <= LastPara /\ sel.end.p \in Nat /\ sel.end.p <= LastPara
        /\ LastPara = Len(paragraphs) - 1 /\ Len(paragraphs) \in Nat
    BY <2>1, HereIs, ParagraphsAre
  <2> HIDE DEF from
  <2>3. LastOf(sel) \in Nat /\ LastOf(sel) <= LastPara
    BY <2>2 DEF LastOf, from
  <2> QED BY <2>2, <2>3
<1>2. Less(from, Len(paragraphs)) = from
  BY <1>1 DEF Less
<1>3. shown = SubSeq(paragraphs, 1, from) \o <<t>>
              \o SubSeq(paragraphs, LastOf(sel) + 2, Len(paragraphs))
  <2>1. <<t>> # <<>>
    OBVIOUS
  <2> QED BY <1>1, <1>2, <2>1, Zenon DEF ShownOf, LastOf
<1>4. /\ paragraphs \in Seq(Seq(Chars)) /\ <<t>> \in Seq(Seq(Chars)) /\ Len(<<t>>) = 1
      /\ <<t>>[1] = t
  BY ParagraphsAre
<1>5. LastOf(sel) + 2 \in Nat /\ LastOf(sel) + 2 >= 1 /\ LastOf(sel) + 2 <= Len(paragraphs) + 1
  BY <1>1
<1> HIDE DEF shown, from
<1>6. /\ shown \in Seq(Seq(Chars))
      /\ Len(shown) = from + 1 + ((Len(paragraphs) + 1) - (LastOf(sel) + 2))
      /\ shown[from + 1] = t
  <2>1. 1 \in 1 .. Len(<<t>>) /\ from <= Len(paragraphs)
    BY <1>1, <1>4
  <2>2. IsJoined(shown, paragraphs, <<t>>, from, LastOf(sel) + 2)
    BY <1>3 DEF IsJoined
  <2>3. /\ shown \in Seq(Seq(Chars))
        /\ Len(shown) = from + Len(<<t>>) + ((Len(paragraphs) + 1) - (LastOf(sel) + 2))
        /\ \A i \in 1 .. Len(<<t>>) : shown[from + i] = <<t>>[i]
    <3>1. HoldsPart(shown, Seq(Chars), <<t>>, from, (Len(paragraphs) + 1) - (LastOf(sel) + 2))
      BY <1>1, <1>4, <1>5, <2>1, <2>2, JoinedIs
    <3> QED BY <3>1 DEF HoldsPart
  <2> QED BY <1>4, <2>1, <2>3
<1>7. from \in 0 .. Len(shown) - 1
  BY <1>1, <1>6
<1> QED BY <1>3, <1>6, <1>7 DEF shown, from

LEMMA MergedIs ==
    ASSUME TypeOK, NEW sel \in Selections(Cursors)
    PROVE  /\ Merged(sel) \in Seq(Chars) /\ Len(Merged(sel)) \in Nat /\ MergeOffset(sel) \in Nat
           /\ sel.start.o \in Nat /\ sel.end.o \in Nat
<1> DEFINE from == sel.start.p
           to == sel.end.p
<1>1. /\ from \in Nat /\ from < Len(paragraphs) /\ to \in Nat /\ to < Len(paragraphs)
      /\ Len(paragraphs) \in Nat /\ paragraphs \in Seq(Seq(Chars))
      /\ sel.start.o \in Nat /\ sel.end.o \in Nat
      /\ Para(from) \in Seq(Chars) /\ Len(Para(from)) \in Nat
  <2>1. sel.start \in Cursors /\ sel.end \in Cursors
    BY DEF Selections
  <2> QED BY SMTT(30), <2>1, HereIs, ParagraphsAre
<1>2. ASSUME NEW n \in Nat, n <= Len(paragraphs)
      PROVE  /\ FlattenSeq(SubSeq(paragraphs, from + 1, n)) \in Seq(Chars)
             /\ Len(FlattenSeq(SubSeq(paragraphs, from + 1, n))) \in Nat
  <2>1. from + 1 \in Int /\ n \in Int /\ from + 1 >= 1
    BY <1>1
  <2>2. SubSeq(paragraphs, from + 1, n) \in Seq(Seq(Chars))
    BY <1>1, <1>2, <2>1, PieceIs
  <2> QED BY <2>2, FlattenType
<1>3. Merged(sel) \in Seq(Chars)
  <2>1. to + 1 \in Nat /\ to + 1 <= Len(paragraphs)
    BY <1>1
  <2>2. Merged(sel) = IF from >= to THEN Para(from)
                      ELSE FlattenSeq(SubSeq(paragraphs, from + 1, to + 1))
    BY DEF Merged
  <2>3. FlattenSeq(SubSeq(paragraphs, from + 1, to + 1)) \in Seq(Chars)
    BY <1>2, <2>1
  <2> QED BY <1>1, <2>2, <2>3
<1>4. MergeOffset(sel) \in Nat
  <2>1. MergeOffset(sel) = IF from = to THEN 0
                           ELSE IF from > to THEN Len(Para(from))
                           ELSE Len(FlattenSeq(SubSeq(paragraphs, from + 1, to)))
    BY DEF MergeOffset
  <2>2. Len(FlattenSeq(SubSeq(paragraphs, from + 1, to))) \in Nat
    BY <1>1, <1>2
  <2> QED BY <1>1, <2>1, <2>2
<1> QED BY <1>1, <1>3, <1>4, LenProperties

LEMMA ReplacedIs ==
    ASSUME TypeOK, NEW sel \in Selections(Cursors), NEW new \in Seq(Chars)
    PROVE  /\ ReplacedText(sel, new) \in Seq(Chars)
           /\ Len(ReplacedText(sel, new)) \in Nat
           /\ sel.end.o + MergeOffset(sel) + Len(ReplacedText(sel, new)) - Len(Merged(sel)) \in Nat
           /\ InRange(Merged(sel), sel.start.o, sel.end.o + MergeOffset(sel)) =>
                 /\ sel.end.o + MergeOffset(sel) + Len(ReplacedText(sel, new)) - Len(Merged(sel))
                       = sel.start.o + Len(new)
                 /\ sel.start.o + Len(new) <= Len(ReplacedText(sel, new))
<1> DEFINE m == Merged(sel)
           a == sel.start.o
           b == sel.end.o + MergeOffset(sel)
           r == ReplacedText(sel, new)
<1>1. m \in Seq(Chars) /\ Len(m) \in Nat /\ a \in Nat /\ b \in Nat /\ Len(new) \in Nat
  BY MergedIs, LenProperties
<1>2. r = Spliced(m, a, b, new)
  BY DEF ReplacedText
<1>3. sel.end.o + MergeOffset(sel) + Len(r) - Len(m) = b + (Len(r) - Len(m))
  BY <1>1
<1> HIDE DEF m, a, b, r
<1>4. /\ r \in Seq(Chars) /\ Len(r) \in Nat
      /\ IF InRange(m, a, b) THEN Len(r) = a + Len(new) + (Len(m) - b) ELSE r = m
  <2>1. a \in Int /\ b \in Int
    BY <1>1
  <2>2. /\ Spliced(m, a, b, new) \in Seq(Chars)
        /\ IF InRange(m, a, b)
           THEN Len(Spliced(m, a, b, new)) = a + Len(new) + (Len(m) - b)
           ELSE Spliced(m, a, b, new) = m
    BY <1>1, <2>1, SplicedIs
  <2> QED BY <1>2, <2>2, LenProperties
<1>5. CASE InRange(m, a, b)
  <2>1. Len(r) = a + Len(new) + (Len(m) - b) /\ b <= Len(m)
    BY <1>4, <1>5 DEF InRange
  <2>2. b + (Len(r) - Len(m)) = a + Len(new) /\ a + Len(new) <= Len(r)
    BY <1>1, <1>4, <2>1
  <2>3. b + (Len(r) - Len(m)) \in Nat
    BY <1>1, <2>2
  <2> QED BY <1>3, <1>4, <2>2, <2>3 DEF m, a, b, r
<1>6. CASE ~InRange(m, a, b)
  <2>1. b + (Len(r) - Len(m)) \in Nat
    BY <1>1, <1>4, <1>6
  <2> QED BY <1>3, <1>4, <1>6, <2>1 DEF m, a, b, r
<1> QED BY <1>5, <1>6

CursorsOf(parts) == [p : 0 .. Len(parts) - 1, o : Nat]

LEMMA ReplaceType ==
    ASSUME TypeOK, NEW sel \in Selections(Cursors), NEW new \in Seq(Chars), Replace(sel, new)
    PROVE  paragraphs' \in Seq(Seq(Chars)) /\ selection' \in Selections(CursorsOf(paragraphs'))
<1> DEFINE t == ReplacedText(sel, new)
           o == sel.end.o + MergeOffset(sel) + Len(t) - Len(Merged(sel))
           shown == ShownOf(paragraphs, <<t>>, sel)
<1>1. t \in Seq(Chars) /\ o \in Nat
  BY ReplacedIs
<1>2. paragraphs' = shown /\ selection' = At(Cursor(sel.start.p, o))
  BY DEF Replace, ParagraphsWith, CaretBehind
<1> HIDE DEF t, o
<1>3. shown \in Seq(Seq(Chars)) /\ sel.start.p \in 0 .. Len(shown) - 1
  BY <1>1, ShownIs
<1> HIDE DEF shown
<1>4. Cursor(sel.start.p, o) \in CursorsOf(shown)
  BY <1>1, <1>3 DEF Cursor, CursorsOf
<1>5. At(Cursor(sel.start.p, o)) \in Selections(CursorsOf(shown))
  BY <1>4 DEF At, Selections
<1> QED BY <1>2, <1>3, <1>5

LEMMA EnterType ==
    ASSUME TypeOK, Enter
    PROVE  paragraphs' \in Seq(Seq(Chars)) /\ selection' \in Selections(CursorsOf(paragraphs'))
<1> DEFINE from == selection.start.p
           to == selection.end.p
           next == (IF to < from THEN from ELSE to + 1) + 1
<1>1. /\ selection.start \in Cursors /\ selection.end \in Cursors
  BY SelectionIs
<1>2. /\ from \in Nat /\ from < Len(paragraphs) /\ to \in Nat /\ to < Len(paragraphs)
      /\ Len(paragraphs) \in Nat /\ paragraphs \in Seq(Seq(Chars))
      /\ selection.start.o \in Int /\ selection.end.o \in Int
      /\ Para(from) \in Seq(Chars) /\ Len(Para(from)) \in Int
      /\ Para(to) \in Seq(Chars) /\ Len(Para(to)) \in Int
  <2>1. /\ Len(paragraphs) \in Nat /\ paragraphs \in Seq(Seq(Chars))
        /\ LastPara = Len(paragraphs) - 1
    BY ParagraphsAre
  <2>2. /\ from \in Nat /\ from <= LastPara /\ selection.start.o \in Nat
        /\ Para(from) \in Seq(Chars) /\ Len(Para(from)) \in Nat
    BY <1>1, HereIs
  <2>3. /\ to \in Nat /\ to <= LastPara /\ selection.end.o \in Nat
        /\ Para(to) \in Seq(Chars) /\ Len(Para(to)) \in Nat
    BY <1>1, HereIs
  <2> HIDE DEF from, to
  <2> QED BY SMTT(30), <2>1, <2>2, <2>3
<1>3. Halves \in Seq(Seq(Chars)) /\ Len(Halves) = 2
  <2>0. 0 \in Int
    OBVIOUS
  <2> DEFINE h1 == TrimmedSubstr(Para(from), 0, selection.start.o)
             h2 == TrimmedSubstr(Para(to), selection.end.o, Len(Para(to)))
  <2>1. h1 \in Seq(Chars)
    BY <1>2, <2>0, TrimmedIs, Zenon
  <2>2. h2 \in Seq(Chars)
    BY <1>2, TrimmedIs, Zenon
  <2>3. Halves = <<h1, h2>>
    BY DEF Halves
  <2> HIDE DEF h1, h2
  <2> QED BY <2>1, <2>2, <2>3
<1>4. next \in Nat /\ next >= 1 /\ next <= Len(paragraphs) + 1
  <2> HIDE DEF from, to
  <2>1. CASE to < from
    <3>1. next = from + 1
      BY <2>1
    <3> QED BY <1>2, <3>1
  <2>2. CASE ~(to < from)
    <3>1. next = to + 1 + 1
      BY <2>2
    <3> QED BY <1>2, <3>1
  <2> QED BY <2>1, <2>2
<1>5. /\ paragraphs' = SubSeq(paragraphs, 1, from) \o Halves
                       \o SubSeq(paragraphs, next, Len(paragraphs))
      /\ selection' = At(Cursor(from + 1, 0))
  BY DEF Enter
<1> HIDE DEF from, next
<1>6. /\ paragraphs' \in Seq(Seq(Chars))
      /\ Len(paragraphs') = from + 2 + ((Len(paragraphs) + 1) - next)
  <2>1. from \in Nat /\ from <= Len(paragraphs) /\ paragraphs \in Seq(Seq(Chars))
    BY <1>2
  <2>2. /\ paragraphs' \in Seq(Seq(Chars))
        /\ Len(paragraphs') = from + Len(Halves) + ((Len(paragraphs) + 1) - next)
    <3>1. IsJoined(paragraphs', paragraphs, Halves, from, next)
      BY <1>5 DEF IsJoined
    <3>2. HoldsPart(paragraphs', Seq(Chars), Halves, from, (Len(paragraphs) + 1) - next)
      BY <1>3, <1>4, <2>1, <3>1, JoinedIs
    <3> QED BY <3>2 DEF HoldsPart
  <2> QED BY <1>3, <2>2
<1>7. from + 1 \in 0 .. Len(paragraphs') - 1
  <2>1. from \in Nat /\ Len(paragraphs) \in Nat /\ next \in Nat /\ next <= Len(paragraphs) + 1
    BY <1>2, <1>4
  <2> DEFINE new == Len(paragraphs')
             old == Len(paragraphs)
  <2>2. new = from + 2 + ((old + 1) - next)
    BY <1>6
  <2> HIDE DEF new, old
  <2>3. from + 1 \in 0 .. new - 1
    BY <2>1, <2>2 DEF old
  <2> QED BY <2>3 DEF new
<1>8. Cursor(from + 1, 0) \in CursorsOf(paragraphs')
  BY <1>7 DEF Cursor, CursorsOf
<1> QED BY <1>5, <1>6, <1>8 DEF At, Selections

(* _fix_selection brings any selection into the text.                      *)
LEMMA FixedIs ==
    ASSUME NEW parts \in Seq(Seq(Chars)), Len(parts) >= 1,
           NEW sel \in Selections([p : Int, o : Int])
    PROVE  /\ Fixed(parts, sel) \in Selections(CursorsOf(parts))
           /\ \A c \in {Fixed(parts, sel).start, Fixed(parts, sel).end, Fixed(parts, sel).caret} :
                c.o <= Len(parts[c.p + 1])
<1>1. Len(parts) \in Nat /\ \A i \in 1 .. Len(parts) : Len(parts[i]) \in Nat
  BY LenProperties, ElementOfSeq
<1>2. ASSUME NEW c \in [p : Int, o : Int]
      PROVE  /\ FixedCursor(parts, c) \in CursorsOf(parts)
             /\ FixedCursor(parts, c).o <= Len(parts[FixedCursor(parts, c).p + 1])
  <2> DEFINE p == Clamp(c.p, 0, Len(parts) - 1)
             o == Clamp(c.o, 0, Len(parts[p + 1]))
  <2>1. p \in 0 .. Len(parts) - 1
    BY <1>1 DEF Clamp
  <2> HIDE DEF p
  <2>2. Len(parts[p + 1]) \in Nat
    BY <1>1, <2>1
  <2>3. o \in Nat /\ o <= Len(parts[p + 1])
    BY <2>2 DEF Clamp
  <2>4. FixedCursor(parts, c) = [p |-> p, o |-> o]
    BY DEF FixedCursor, Cursor, p
  <2> HIDE DEF o
  <2> QED BY <2>1, <2>3, <2>4 DEF CursorsOf
<1>3. sel.start \in [p : Int, o : Int] /\ sel.end \in [p : Int, o : Int]
      /\ sel.caret \in [p : Int, o : Int]
  BY DEF Selections
<1>4. Fixed(parts, sel) = [start |-> FixedCursor(parts, sel.start),
                           end |-> FixedCursor(parts, sel.end),
                           caret |-> FixedCursor(parts, sel.caret)]
  BY DEF Fixed
<1>5. /\ FixedCursor(parts, sel.start) \in CursorsOf(parts)
      /\ FixedCursor(parts, sel.end) \in CursorsOf(parts)
      /\ FixedCursor(parts, sel.caret) \in CursorsOf(parts)
  BY <1>2, <1>3, Zenon
<1>6. \A c \in {FixedCursor(parts, sel.start), FixedCursor(parts, sel.end),
                FixedCursor(parts, sel.caret)} : c.o <= Len(parts[c.p + 1])
  BY <1>2, <1>3, Zenon
<1>7. Fixed(parts, sel) \in Selections(CursorsOf(parts))
  BY <1>4, <1>5 DEF Selections
<1>8. /\ Fixed(parts, sel).start = FixedCursor(parts, sel.start)
      /\ Fixed(parts, sel).end = FixedCursor(parts, sel.end)
      /\ Fixed(parts, sel).caret = FixedCursor(parts, sel.caret)
  BY <1>4
<1> QED BY <1>6, <1>7, <1>8, Zenon

-----------------------------------------------------------------------------
(* The types, kept by every action.                                        *)

TextTyped ==
    paragraphs \in Seq(Seq(Chars)) /\ selection \in Selections(CursorsOf(paragraphs))
RestTyped ==
    /\ ime \in Seq(Seq(Chars)) /\ Len(ime) <= 1
    /\ lagging \subseteq Int /\ in_focus \in BOOLEAN
    /\ readonly \in BOOLEAN /\ selectable \in BOOLEAN

LEMMA CursorsOfText == Cursors = CursorsOf(paragraphs)
BY DEF Cursors, CursorsOf, Places, LastPara

LEMMA TypeParts == TypeOK <=> TextTyped /\ RestTyped /\ defined \in BOOLEAN
BY CursorsOfText DEF TypeOK, TextTyped, RestTyped

LEMMA LaggingType ==
    ASSUME RestTyped, NEW from \in Int, NEW to \in Int, NEW count \in Int
    PROVE  LaggingWith(from, to, count) \subseteq Int
<1> DEFINE moved == {p + count - (to - from + 1) : p \in {q \in lagging : q > to}}
<1>1. lagging \subseteq Int
  BY DEF RestTyped
<1>2. \A p \in {q \in lagging : q > to} : p + count - (to - from + 1) \in Int
  BY <1>1
<1>3. moved \subseteq Int
  BY <1>2, Zenon
<1>4. LaggingWith(from, to, count) = {p \in lagging : p < from} \cup moved
  BY DEF LaggingWith
<1> HIDE DEF moved
<1> QED BY <1>1, <1>3, <1>4

RestKept == UNCHANGED <<ime, in_focus, settings>> /\ lagging' \subseteq Int

LEMMA RestKeptType ==
    ASSUME RestTyped, RestKept
    PROVE  RestTyped'
BY DEF RestTyped, RestKept, settings

LEMMA TextsAre ==
    /\ \A ch \in Typed \cup {NL} : <<ch>> \in Seq(Chars)
    /\ Pasted \subseteq Seq(Chars) /\ Composed \subseteq Seq(Chars) /\ <<>> \in Seq(Chars)
    /\ ScriptTexts \subseteq Seq(Chars)
<1>1. ASSUME NEW ch \in Typed \cup {NL} PROVE <<ch>> \in Seq(Chars)
  <2>1. ch \in Chars
    BY DEF Chars
  <2> QED BY <2>1
<1>2. Pasted \subseteq Seq(Chars) /\ Composed \subseteq Seq(Chars) /\ <<>> \in Seq(Chars)
  BY TextsAssumption, EmptySeq
<1> QED BY <1>1, <1>2 DEF ScriptTexts

LEMMA ReplaceKeeps ==
    ASSUME TypeOK, NEW sel \in Selections(Cursors), NEW new \in Seq(Chars), Replace(sel, new)
    PROVE  TextTyped' /\ RestKept
<1>1. TextTyped'
  BY ReplaceType DEF TextTyped
<1>2. sel.start.p \in Int /\ sel.end.p \in Int
  <2>1. sel.start \in Cursors /\ sel.end \in Cursors
    BY DEF Selections
  <2> QED BY <2>1, CursorsAre
<1>3. LastOf(sel) \in Int
  BY <1>2 DEF LastOf
<1>4. lagging' \subseteq Int
  BY <1>2, <1>3, TypeParts, LaggingType DEF Replace
<1> QED BY <1>1, <1>4 DEF RestKept, Replace

LEMMA KeyboardType ==
    ASSUME TypeOK, Keyboard
    PROVE  TextTyped' /\ RestKept
<1>0. RestTyped
  BY TypeParts
<1>1. ASSUME NEW sel \in Selections(Cursors), NEW new \in Seq(Chars), Replace(sel, new)
      PROVE  TextTyped' /\ RestKept
  BY <1>1, ReplaceKeeps
<1>2. selection \in Selections(Cursors) /\ selection.caret \in Cursors
  BY SelectionIs DEF TypeOK
<1>3. ASSUME NEW shift \in BOOLEAN, NEW dir \in Forwards \cup Backwards,
             ChangeSelection(shift, dir)
      PROVE  TextTyped' /\ RestKept
  <2>1. selection' \in Selections(Cursors)
    <3>1. CASE ~shift /\ selection.start # selection.end
      <4>1. selection' = At(IF dir \in Backwards THEN selection.start ELSE selection.end)
        BY <1>3, <3>1 DEF ChangeSelection
      <4> QED BY <4>1, SelectionIs DEF At, Selections
    <3>2. CASE ~(~shift /\ selection.start # selection.end)
      <4>1. PICK c \in Targets(dir, selection.caret) \cup OldTargets(dir, selection.caret) :
               selection' = CaretMoved(shift, c)
        BY <1>3, <3>2 DEF ChangeSelection
      <4>2. c \in Cursors
        <5>1. c \in Targets(dir, selection.caret) /\ dir \in Forwards => c \in Cursors
          BY <1>2, ForwardTargets DEF Ahead
        <5>2. c \in Targets(dir, selection.caret) /\ dir \in Backwards => c \in Cursors
          BY <1>2, BackwardTargets DEF Behind
        <5>3. c \in OldTargets(dir, selection.caret) => c \in Cursors
          BY <1>2, OldTargetsAre
        <5> QED BY <4>1, <5>1, <5>2, <5>3
      <4> QED BY <4>1, <4>2, CaretMovedType
    <3> QED BY <3>1, <3>2
  <2>2. paragraphs' = paragraphs /\ paragraphs \in Seq(Seq(Chars))
    BY <1>3, ParagraphsAre DEF ChangeSelection
  <2>3. TextTyped'
    BY <2>1, <2>2, CursorsOfText DEF TextTyped
  <2> QED BY <1>0, <1>3, <2>3 DEF RestKept, RestTyped, ChangeSelection
<1>4. ASSUME NEW ch \in Typed \cup {NL}, Type(ch) PROVE TextTyped' /\ RestKept
  BY <1>1, <1>2, <1>4, TextsAre DEF Type
<1>5. ASSUME NEW t \in Pasted, Paste(t) PROVE TextTyped' /\ RestKept
  BY <1>1, <1>2, <1>5, TextsAre DEF Paste
<1>6. CASE Cut
  BY <1>1, <1>2, <1>6, TextsAre DEF Cut
<1>7. CASE Enter
  <2>1. TextTyped'
    BY <1>7, EnterType DEF TextTyped
  <2> DEFINE from == selection.start.p
             to == selection.end.p
  <2>2. from \in Int /\ to \in Int
    BY SelectionIs, CursorsAre
  <2>3. lagging' = IF to < from THEN LaggingWith(from, from - 1, 2)
                   ELSE LaggingWith(from, to, 2)
    BY <1>7 DEF Enter
  <2>4. UNCHANGED <<ime, in_focus, settings>>
    BY <1>7 DEF Enter
  <2> HIDE DEF from, to
  <2>5. /\ LaggingWith(from, from - 1, 2) \subseteq Int
        /\ LaggingWith(from, to, 2) \subseteq Int
    BY <1>0, <2>2, LaggingType
  <2> QED BY <2>1, <2>3, <2>4, <2>5 DEF RestKept
<1>8. ASSUME NEW c \in Cursors PROVE Extended(c) \in Selections(Cursors)
  BY <1>2, CaretMovedType DEF Extended
<1>9. CASE Backspace
  <2>1. CharBefore(selection.caret) \in Cursors
    BY <1>2, CharBeforeIs DEF Behind
  <2> QED BY <1>1, <1>8, <1>9, <2>1, TextsAre DEF Backspace
<1>10. CASE Delete
  <2>1. CharAfter(selection.caret) \in Cursors
    BY <1>2, CharAfterIs DEF Ahead
  <2> QED BY <1>1, <1>8, <1>10, <2>1, TextsAre DEF Delete
<1> QED BY <1>3, <1>4, <1>5, <1>6, <1>7, <1>9, <1>10 DEF Keyboard

LEMMA MouseType ==
    ASSUME TypeOK, Mouse
    PROVE  TextTyped' /\ RestKept
<1>1. PICK shift \in BOOLEAN, c \in Hits : Click(shift, c)
  BY DEF Mouse
<1>2. selection' = CaretMoved(shift, c) /\ paragraphs' = paragraphs
  BY <1>1 DEF Click
<1>3. selection' \in Selections(Cursors)
  BY <1>2, HitsAreInText, CaretMovedType
<1>4. TextTyped'
  BY <1>2, <1>3, CursorsOfText, ParagraphsAre DEF TextTyped
<1>5. RestTyped
  BY TypeParts
<1> QED BY <1>1, <1>4, <1>5 DEF RestKept, RestTyped, Click

LEMMA InputMethodType ==
    ASSUME TypeOK, InputMethod
    PROVE  TextTyped' /\ RestTyped'
<1>1. TextTyped /\ RestTyped
  BY TypeParts
<1>2. paragraphs' = paragraphs /\ selection' = selection
  BY DEF InputMethod, FocusEnter, FocusExit, ImeUpdate
<1>3. TextTyped'
  BY <1>1, <1>2 DEF TextTyped
<1>4. CASE FocusEnter
  <2>1. RestTyped'
    BY <1>1, <1>4 DEF FocusEnter, RestTyped, settings
  <2> QED BY <1>3, <2>1
<1>5. CASE FocusExit
  <2>1. ime' \in Seq(Seq(Chars)) /\ Len(ime') <= 1
    BY <1>5, EmptySeq DEF FocusExit
  <2> QED BY <1>1, <1>3, <1>5, <2>1 DEF FocusExit, RestTyped, settings
<1>6. ASSUME NEW t \in Composed \cup {<<>>}, ImeUpdate(t) PROVE RestTyped'
  <2>2. ime' \in Seq(Seq(Chars)) /\ Len(ime') <= 1
    <3>1. CASE t = <<>>
      BY <1>6, <3>1, EmptySeq DEF ImeUpdate
    <3>2. CASE t # <<>>
      <4>1. ime' = <<Preview(t)>>
        BY <1>6, <3>2 DEF ImeUpdate
      <4>2. Preview(t) = ReplacedText(selection, t)
        BY DEF Preview, ReplacedText
      <4>3. Preview(t) \in Seq(Chars)
        BY <4>2, TextsAre, ReplacedIs DEF TypeOK
      <4> QED BY <4>1, <4>3
    <3> QED BY <3>1, <3>2
  <2> QED BY <1>1, <1>6, <2>2 DEF ImeUpdate, RestTyped, settings
<1> QED BY <1>3, <1>4, <1>5, <1>6 DEF InputMethod

(* A text is put in the place of a paragraph's.                            *)
LEMMA SetParagraphType ==
    ASSUME TypeOK, NEW p \in Places, NEW t \in Seq(Chars),
           SetParagraph(p, t) \/ (EmptyParagraph(p) /\ t = <<>>)
    PROVE  TextTyped' /\ RestKept
<1>1. /\ paragraphs \in Seq(Seq(Chars)) /\ p + 1 \in 1 .. Len(paragraphs)
      /\ p \in Int /\ lagging \subseteq Int
  BY ParagraphsAre DEF TypeOK
<1>2. paragraphs' = [paragraphs EXCEPT ![p + 1] = t] /\ selection' = selection
  BY DEF SetParagraph, EmptyParagraph
<1>3. paragraphs' \in Seq(Seq(Chars)) /\ Len(paragraphs') = Len(paragraphs)
  BY <1>1, <1>2, ExceptSeq
<1>4. TextTyped'
  BY <1>2, <1>3, TypeParts DEF TextTyped, CursorsOf
<1>5. lagging' = lagging \ {p} \/ lagging' = lagging \cup {p}
  BY DEF SetParagraph, EmptyParagraph
<1>6. UNCHANGED <<ime, in_focus, settings>>
  BY DEF SetParagraph, EmptyParagraph
<1> QED BY <1>1, <1>4, <1>5, <1>6 DEF RestKept

LEMMA CursorsAreFixable == ASSUME TypeOK PROVE selection \in Selections([p : Int, o : Int])
<1>1. \A c \in Cursors : c \in [p : Int, o : Int]
  <2>1. \A p \in Places : p \in Int
    BY ParagraphsAre
  <2> QED BY <2>1 DEF Cursors
<1> QED BY <1>1 DEF TypeOK, Selections

LEMMA InsertParagraphType ==
    ASSUME TypeOK, NEW p \in Places \cup {Len(paragraphs)}, NEW t \in Seq(Chars),
           InsertParagraph(p, t)
    PROVE  TextTyped' /\ RestKept
<1>1. /\ paragraphs \in Seq(Seq(Chars)) /\ Len(paragraphs) \in Nat /\ Len(paragraphs) >= 1
      /\ p \in Nat /\ p <= Len(paragraphs)
  BY ParagraphsAre
<1>2. /\ paragraphs' = InsertAt(paragraphs, p + 1, t)
      /\ selection' = Fixed(paragraphs, selection)
  BY DEF InsertParagraph
<1>3. /\ paragraphs' \in Seq(Seq(Chars)) /\ Len(paragraphs') = Len(paragraphs) + 1
  <2>1. (p + 1) - 1 = p /\ p + 1 \in Nat /\ p + 1 >= 1 /\ p + 1 <= Len(paragraphs) + 1
    BY <1>1
  <2>2. IsJoined(paragraphs', paragraphs, <<t>>, p, p + 1)
    BY <1>2, <2>1 DEF IsJoined, InsertAt
  <2>3. <<t>> \in Seq(Seq(Chars)) /\ Len(<<t>>) = 1
    OBVIOUS
  <2>4. HoldsPart(paragraphs', Seq(Chars), <<t>>, p, (Len(paragraphs) + 1) - (p + 1))
    BY <1>1, <2>1, <2>2, <2>3, JoinedIs
  <2> QED BY <1>1, <2>3, <2>4 DEF HoldsPart
<1>4. selection' \in Selections(CursorsOf(paragraphs))
  BY <1>1, <1>2, CursorsAreFixable, FixedIs
<1>5. \A c \in CursorsOf(paragraphs) : c \in CursorsOf(paragraphs')
  <2>1. \A q \in 0 .. Len(paragraphs) - 1 : q \in 0 .. Len(paragraphs') - 1
    BY <1>1, <1>3
  <2> QED BY <2>1 DEF CursorsOf
<1>6. TextTyped'
  BY <1>3, <1>4, <1>5 DEF TextTyped, Selections
<1>7. lagging' \subseteq Int
  <2>1. p \in Int /\ p - 1 \in Int /\ 1 \in Int
    BY <1>1
  <2> QED BY <2>1, TypeParts, LaggingType DEF InsertParagraph
<1> QED BY <1>6, <1>7 DEF InsertParagraph, RestKept

LEMMA RemoveParagraphType ==
    ASSUME TypeOK, NEW p \in Places, RemoveParagraph(p)
    PROVE  /\ TextTyped' /\ RestKept
           /\ \A c \in {selection'.start, selection'.end, selection'.caret} :
                c.o <= Len(paragraphs'[c.p + 1])
<1>1. /\ paragraphs \in Seq(Seq(Chars)) /\ Len(paragraphs) \in Nat /\ Len(paragraphs) > 1
      /\ p \in Nat /\ p + 1 <= Len(paragraphs)
  BY ParagraphsAre DEF RemoveParagraph
<1>2. /\ paragraphs' = RemoveAt(paragraphs, p + 1)
      /\ selection' = Fixed(paragraphs', selection)
  BY DEF RemoveParagraph
<1>3. /\ paragraphs' \in Seq(Seq(Chars)) /\ Len(paragraphs') = Len(paragraphs) - 1
  <2> DEFINE A == SubSeq(paragraphs, 1, p)
             C == SubSeq(paragraphs, p + 2, Len(paragraphs))
  <2>1. paragraphs' = A \o C
    <3>1. (p + 1) - 1 = p /\ p + 1 + 1 = p + 2
      BY <1>1
    <3> QED BY <1>2, <3>1 DEF RemoveAt
  <2>2. A \in Seq(Seq(Chars)) /\ Len(A) = p
    <3>1. 1 \in Int /\ 1 >= 1 /\ p \in Int /\ p <= Len(paragraphs) /\ 1 <= p + 1
          /\ (p + 1) - 1 = p
      BY <1>1
    <3> QED BY <1>1, <3>1, PieceIs
  <2>3. C \in Seq(Seq(Chars)) /\ Len(C) = (Len(paragraphs) + 1) - (p + 2)
    <3>1. p + 2 \in Int /\ p + 2 >= 1 /\ Len(paragraphs) \in Int
          /\ Len(paragraphs) <= Len(paragraphs) /\ p + 2 <= Len(paragraphs) + 1
      BY <1>1
    <3> QED BY <1>1, <3>1, PieceIs
  <2> HIDE DEF A, C
  <2>4. A \o C \in Seq(Seq(Chars)) /\ Len(A \o C) = Len(A) + Len(C)
    BY <2>2, <2>3, ConcatProperties
  <2> QED BY <1>1, <2>1, <2>2, <2>3, <2>4
<1>4. selection \in Selections([p : Int, o : Int]) /\ Len(paragraphs') >= 1
  BY <1>1, <1>3, CursorsAreFixable
<1>5. /\ selection' \in Selections(CursorsOf(paragraphs'))
      /\ \A c \in {selection'.start, selection'.end, selection'.caret} :
                c.o <= Len(paragraphs'[c.p + 1])
  <2> DEFINE parts == paragraphs'
  <2>1. parts \in Seq(Seq(Chars)) /\ Len(parts) >= 1
    BY <1>3, <1>4
  <2> HIDE DEF parts
  <2>2. /\ Fixed(parts, selection) \in Selections(CursorsOf(parts))
        /\ \A c \in {Fixed(parts, selection).start, Fixed(parts, selection).end,
                     Fixed(parts, selection).caret} :
                c.o <= Len(parts[c.p + 1])
    BY <1>4, <2>1, FixedIs
  <2>3. selection' = Fixed(parts, selection)
    BY <1>2 DEF parts
  <2> QED BY <2>2, <2>3 DEF parts
<1>6. TextTyped'
  BY <1>3, <1>5 DEF TextTyped
<1>7. lagging' \subseteq Int
  <2>1. p \in Int /\ 0 \in Int
    BY <1>1
  <2> QED BY <2>1, TypeParts, LaggingType DEF RemoveParagraph
<1> QED BY <1>5, <1>6, <1>7 DEF RemoveParagraph, RestKept

LEMMA SetCursorType ==
    ASSUME TypeOK, NEW sel \in Selections(Cursors), NEW field \in {"start", "end", "caret"},
           NEW coordinate \in {"p", "o"}, SetCursor(field, coordinate, sel[field][coordinate])
    PROVE  TextTyped' /\ RestKept
<1> DEFINE value == sel[field][coordinate]
<1>1. /\ selection.start \in Cursors /\ selection.end \in Cursors /\ selection.caret \in Cursors
      /\ sel.start \in Cursors /\ sel.end \in Cursors /\ sel.caret \in Cursors
      /\ selection = [start |-> selection.start, end |-> selection.end,
                      caret |-> selection.caret]
  BY SelectionIs DEF Selections
<1>2. sel[field] \in Cursors
  BY <1>1
<1>3. ASSUME NEW c \in Cursors PROVE [c EXCEPT ![coordinate] = value] \in Cursors
  <2>1. CASE coordinate = "p"
    <3>1. value \in Places
      BY <1>2, <2>1 DEF Cursors
    <3> HIDE DEF value
    <3> QED BY <2>1, <3>1 DEF Cursors
  <2>2. CASE coordinate = "o"
    <3>1. value \in Nat
      BY <1>2, <2>2 DEF Cursors
    <3> HIDE DEF value
    <3> QED BY <2>2, <3>1 DEF Cursors
  <2> QED BY <2>1, <2>2
<1>4. selection' = [selection EXCEPT ![field] = [selection[field] EXCEPT ![coordinate] = value]]
  BY DEF SetCursor
<1>5. selection[field] \in Cursors
  BY <1>1
<1>6. PICK c \in Cursors : c = [selection[field] EXCEPT ![coordinate] = value]
  BY <1>3, <1>5
<1> HIDE DEF value
<1>7. selection' = [selection EXCEPT ![field] = c]
  BY <1>4, <1>6
<1>8. selection' \in Selections(Cursors)
  BY <1>1, <1>7 DEF Selections
<1>9. paragraphs' = paragraphs /\ paragraphs \in Seq(Seq(Chars))
  BY ParagraphsAre DEF SetCursor
<1>10. TextTyped'
  BY <1>8, <1>9, CursorsOfText DEF TextTyped
<1> QED BY <1>10 DEF SetCursor, RestKept, TypeOK

LEMMA MethodsType ==
    ASSUME TypeOK, Methods
    PROVE  TextTyped' /\ RestTyped'
<1>0. TextTyped /\ RestTyped
  BY TypeParts
<1>1. CASE Clear
  <2>1. paragraphs' = <<<<>>>> /\ selection' = At(Cursor(0, 0)) /\ ime' = <<>>
    BY <1>1 DEF Clear
  <2>2. paragraphs' \in Seq(Seq(Chars)) /\ Len(paragraphs') = 1
    <3>1. <<>> \in Seq(Chars)
      BY EmptySeq
    <3> QED BY <2>1, <3>1
  <2>3. Cursor(0, 0) \in CursorsOf(paragraphs')
    BY <2>2 DEF Cursor, CursorsOf
  <2>4. TextTyped'
    BY <2>1, <2>2, <2>3 DEF TextTyped, At, Selections
  <2>5. ime' \in Seq(Seq(Chars)) /\ Len(ime') <= 1
    BY <2>1, EmptySeq
  <2> QED BY <1>0, <1>1, <2>4, <2>5 DEF Clear, RestTyped, settings
<1>2. ASSUME NEW p \in Places, EmptyParagraph(p) \/ RebuildParagraph(p)
      PROVE  TextTyped' /\ RestTyped'
  <2>1. CASE EmptyParagraph(p)
    BY <1>0, <2>1, SetParagraphType, TextsAre, RestKeptType
  <2>2. CASE RebuildParagraph(p)
    BY <1>0, <2>2 DEF RebuildParagraph, RestTyped, TextTyped, settings
  <2> QED BY <1>2, <2>1, <2>2
<1>3. ASSUME NEW p \in Places, NEW t \in ScriptTexts, SetParagraph(p, t)
      PROVE  TextTyped' /\ RestTyped'
  BY <1>0, <1>3, SetParagraphType, TextsAre, RestKeptType
<1>4. ASSUME NEW p \in Places \cup {Len(paragraphs)}, NEW t \in ScriptTexts,
             InsertParagraph(p, t)
      PROVE  TextTyped' /\ RestTyped'
  BY <1>0, <1>4, InsertParagraphType, TextsAre, RestKeptType
<1>5. ASSUME NEW p \in Places, RemoveParagraph(p)
      PROVE  TextTyped' /\ RestTyped'
  BY <1>0, <1>5, RemoveParagraphType, RestKeptType
<1>6. ASSUME NEW sel \in ScriptSelections, SetSelection(sel)
      PROVE  TextTyped' /\ RestTyped'
  <2>1. /\ selection' = Fixed(paragraphs, sel) /\ paragraphs' = paragraphs
        /\ paragraphs \in Seq(Seq(Chars)) /\ Len(paragraphs) >= 1
    BY <1>6, ParagraphsAre DEF SetSelection
  <2>2. sel \in Selections([p : Int, o : Int])
    BY ScriptsAssumption
  <2>3. selection' \in Selections(CursorsOf(paragraphs))
    BY <2>1, <2>2, FixedIs
  <2>4. TextTyped'
    BY <2>1, <2>3 DEF TextTyped
  <2>5. RestKept
    BY <1>0, <1>6 DEF SetSelection, RestKept, RestTyped
  <2> QED BY <1>0, <2>4, <2>5, RestKeptType
<1>7. ASSUME NEW sel \in ScriptSelections, NEW t \in ScriptTexts, Reachable(sel),
             ReplaceText(sel, t)
      PROVE  TextTyped' /\ RestTyped'
  <2>1. sel \in Selections(Cursors) /\ t \in Seq(Chars) /\ Replace(sel, t)
    BY <1>7, TextsAre DEF Reachable, ReplaceText
  <2> QED BY <1>0, <2>1, ReplaceKeeps, RestKeptType
<1>8. ASSUME NEW sel \in ScriptSelections, NEW field \in {"start", "end", "caret"},
             NEW coordinate \in {"p", "o"}, Reachable(sel),
             SetCursor(field, coordinate, sel[field][coordinate])
      PROVE  TextTyped' /\ RestTyped'
  <2>1. sel \in Selections(Cursors)
    BY <1>8 DEF Reachable
  <2> QED BY <1>0, <1>8, <2>1, SetCursorType, RestKeptType
<1>9. ASSUME NEW b \in ReadonlyValues, SetReadonly(b) PROVE TextTyped' /\ RestTyped'
  <2>1. b \in BOOLEAN
    BY SettingsAssumption
  <2> QED BY <1>0, <1>9, <2>1 DEF SetReadonly, RestTyped, TextTyped
<1>10. ASSUME NEW b \in SelectableValues, SetSelectable(b) PROVE TextTyped' /\ RestTyped'
  <2>1. b \in BOOLEAN
    BY SettingsAssumption
  <2> QED BY <1>0, <1>10, <2>1 DEF SetSelectable, RestTyped, TextTyped
<1> QED BY <1>1, <1>2, <1>3, <1>4, <1>5, <1>6, <1>7, <1>8, <1>9, <1>10 DEF Methods

LEMMA InitType == Init => TypeOK
<1> SUFFICES ASSUME Init PROVE TypeOK
  OBVIOUS
<1>1. paragraphs \in Seq(Seq(Chars)) /\ Len(paragraphs) = 1
  <2>1. <<>> \in Seq(Chars)
    BY EmptySeq
  <2> QED BY <2>1 DEF Init
<1>2. Cursor(0, 0) \in CursorsOf(paragraphs)
  BY <1>1 DEF Cursor, CursorsOf
<1>3. TextTyped
  BY <1>1, <1>2 DEF Init, TextTyped, At, Selections
<1>4. ime \in Seq(Seq(Chars)) /\ Len(ime) <= 1
  BY EmptySeq DEF Init
<1>5. RestTyped /\ defined \in BOOLEAN
  BY <1>4 DEF Init, RestTyped
<1> QED BY <1>3, <1>5, TypeParts

LEMMA TypeStep == TypeOK /\ [Next]_vars => TypeOK'
<1> SUFFICES ASSUME TypeOK, [Next]_vars PROVE TypeOK'
  OBVIOUS
<1>0. TextTyped /\ RestTyped /\ defined \in BOOLEAN
  BY TypeParts
<1>1. ASSUME TextTyped', RestTyped', defined' \in BOOLEAN PROVE TypeOK'
  BY <1>1 DEF TypeOK, TextTyped, RestTyped, Cursors, CursorsOf, Places, LastPara
<1>2. CASE Input
  <2>1. defined' = defined
    BY <1>2 DEF Input
  <2>2. TextTyped' /\ RestTyped'
    <3>1. CASE Keyboard
      BY <1>0, <3>1, KeyboardType, RestKeptType
    <3>2. CASE Mouse
      BY <1>0, <3>2, MouseType, RestKeptType
    <3>3. CASE InputMethod
      BY <3>3, InputMethodType
    <3>4. CASE Methods
      BY <3>4, MethodsType
    <3> QED BY <1>2, <3>1, <3>2, <3>3, <3>4 DEF Input, UserInput
  <2> QED BY <1>0, <1>1, <2>1, <2>2
<1>3. CASE RemoveOnlyParagraph
  <2>1. TextTyped'
    BY <1>0, <1>3 DEF RemoveOnlyParagraph, TextTyped
  <2>2. RestTyped' /\ defined' \in BOOLEAN
    BY <1>0, <1>3 DEF RemoveOnlyParagraph, RestTyped, settings
  <2> QED BY <1>1, <2>1, <2>2
<1>4. CASE UNCHANGED vars
  <2>1. TextTyped' /\ RestTyped' /\ defined' \in BOOLEAN
    BY <1>0, <1>4 DEF vars, settings, TextTyped, RestTyped
  <2> QED BY <1>1, <2>1
<1> QED BY <1>2, <1>3, <1>4 DEF Next

(* The paragraphs are texts and never none, every cursor is in a paragraph *)
(* that exists, and there is at most one composition (every handler of     *)
(* tl_rich_text_edit.cpp).                                                 *)
THEOREM TypeCorrect == Spec => []TypeOK
BY InitType, TypeStep, PTL DEF Spec


-----------------------------------------------------------------------------
(* Pieces of sequences.                                                    *)

(* A text, halved at an offset.                                            *)
IsHalved(S, t, o, f, l) ==
    /\ f \in Seq(S) /\ l \in Seq(S) /\ t = f \o l /\ Len(f) = o
    /\ f = SubSeq(t, 1, o) /\ l = SubSeq(t, o + 1, Len(t))

LEMMA HalvedIs ==
    ASSUME NEW S, NEW t \in Seq(S), NEW o \in 0 .. Len(t)
    PROVE  \E f, l : IsHalved(S, t, o, f, l)
<1>1. Len(t) \in Nat /\ o \in Nat
  BY LenProperties
<1>2. 1 \in 1 .. Len(t) + 1 /\ o \in 1 - 1 .. Len(t) /\ Len(t) \in o .. Len(t)
  BY <1>1
<1>3. SubSeq(t, 1, o) \o SubSeq(t, o + 1, Len(t)) = SubSeq(t, 1, Len(t))
  BY <1>2, ConcatAdjacentSubSeq
<1>4. SubSeq(t, 1, o) \in Seq(S) /\ Len(SubSeq(t, 1, o)) = o
  <2>1. 1 \in Int /\ o \in Int /\ 1 >= 1 /\ 1 <= o + 1 /\ (o + 1) - 1 = o /\ o <= Len(t)
    BY <1>1
  <2> QED BY <2>1, PieceIs
<1>5. SubSeq(t, o + 1, Len(t)) \in Seq(S)
  <2>1. o + 1 \in Int /\ o + 1 >= 1 /\ Len(t) \in Int /\ Len(t) <= Len(t)
    BY <1>1
  <2> QED BY <2>1, PieceIs
<1>6. SubSeq(t, 1, Len(t)) = t
  BY SubSeqFull
<1>7. IsHalved(S, t, o, SubSeq(t, 1, o), SubSeq(t, o + 1, Len(t)))
  BY <1>3, <1>4, <1>5, <1>6, Zenon DEF IsHalved
<1> QED BY <1>7

IsRegrouped(a, b, c, d, e) ==
    (a \o b) \o (c \o (d \o e)) = a \o ((b \o (c \o d)) \o e)

LEMMA Regrouped ==
    ASSUME NEW S, NEW a \in Seq(S), NEW b \in Seq(S), NEW c \in Seq(S), NEW d \in Seq(S),
           NEW e \in Seq(S)
    PROVE  IsRegrouped(a, b, c, d, e)
<1> DEFINE cd == c \o d
           cde == c \o (d \o e)
<1>1. cd \in Seq(S) /\ d \o e \in Seq(S)
  BY ConcatProperties, Zenon
<1>2. cde \in Seq(S)
  BY <1>1, ConcatProperties, Zenon
<1>3. IsJoint(c, d, e)
  BY JoinsAssociate, Zenon
<1>4. cd \o e = cde
  BY <1>3, Zenon DEF IsJoint
<1> HIDE DEF cd, cde
<1>5. IsJoint(b, cd, e) /\ IsJoint(a, b, cde)
  BY <1>1, <1>2, JoinsAssociate, Zenon
<1>6. (a \o b) \o cde = a \o ((b \o cd) \o e)
  BY <1>4, <1>5, Zenon DEF IsJoint
<1> QED BY <1>6, Zenon DEF IsRegrouped, cd, cde

IsUnfolded(a, b, c, d, e) ==
    (a \o (b \o (c \o d))) \o e = (a \o b) \o (c \o (d \o e))

LEMMA Unfolded ==
    ASSUME NEW S, NEW a \in Seq(S), NEW b \in Seq(S), NEW c \in Seq(S), NEW d \in Seq(S),
           NEW e \in Seq(S)
    PROVE  IsUnfolded(a, b, c, d, e)
<1> DEFINE ab == a \o b
           cd == c \o d
<1>1. ab \in Seq(S) /\ cd \in Seq(S)
  BY ConcatProperties, Zenon
<1>2. IsJoint(c, d, e)
  BY JoinsAssociate, Zenon
<1>3. cd \o e = c \o (d \o e)
  BY <1>2, Zenon DEF IsJoint
<1> HIDE DEF cd
<1>4. IsJoint(a, b, cd)
  BY <1>1, JoinsAssociate, Zenon
<1>5. a \o (b \o cd) = ab \o cd
  BY <1>4, Zenon DEF IsJoint
<1> HIDE DEF ab
<1>6. IsJoint(ab, cd, e)
  BY <1>1, JoinsAssociate, Zenon
<1>7. (a \o (b \o cd)) \o e = ab \o (c \o (d \o e))
  BY <1>3, <1>5, <1>6, Zenon DEF IsJoint
<1> QED BY <1>7, Zenon DEF IsUnfolded, ab, cd

-----------------------------------------------------------------------------
(* The whole text: what stands for the paragraphs in it.                   *)

Symbols == Chars \cup {ParagraphBreak}
Marked(parts) == [i \in DOMAIN parts |-> <<ParagraphBreak>> \o parts[i]]

LEMMA TextsAreSymbols == \A t \in Seq(Chars) : t \in Seq(Symbols)
BY SeqMonotonic DEF Symbols

LEMMA MarkIs ==
    ASSUME NEW t \in Seq(Symbols)
    PROVE  /\ <<ParagraphBreak>> \in Seq(Symbols) /\ Len(<<ParagraphBreak>>) = 1
           /\ <<ParagraphBreak>> \o t \in Seq(Symbols)
           /\ Len(<<ParagraphBreak>> \o t) = Len(t) + 1
<1>1. ParagraphBreak \in Symbols
  BY DEF Symbols
<1>2. <<ParagraphBreak>> \in Seq(Symbols) /\ Len(<<ParagraphBreak>>) = 1
  BY <1>1
<1>3. /\ <<ParagraphBreak>> \o t \in Seq(Symbols)
      /\ Len(<<ParagraphBreak>> \o t) = Len(<<ParagraphBreak>>) + Len(t) /\ Len(t) \in Nat
  BY <1>2, ConcatProperties, LenProperties
<1> QED BY <1>2, <1>3

LEMMA MarkedIs ==
    ASSUME NEW parts \in Seq(Seq(Chars))
    PROVE  /\ Marked(parts) \in Seq(Seq(Symbols)) /\ Len(Marked(parts)) = Len(parts)
           /\ \A i \in 1 .. Len(parts) : Marked(parts)[i] = <<ParagraphBreak>> \o parts[i]
<1>1. Len(parts) \in Nat /\ DOMAIN parts = 1 .. Len(parts)
  BY LenProperties
<1>2. ASSUME NEW i \in 1 .. Len(parts) PROVE <<ParagraphBreak>> \o parts[i] \in Seq(Symbols)
  <2>1. parts[i] \in Seq(Symbols)
    BY ElementOfSeq, TextsAreSymbols
  <2> QED BY <2>1, MarkIs
<1> DEFINE N == Len(parts)
           marked == [i \in 1 .. N |-> <<ParagraphBreak>> \o parts[i]]
<1>3. Marked(parts) = marked
  BY <1>1 DEF Marked
<1>4. marked \in [1 .. N -> Seq(Symbols)]
  BY <1>2
<1>5. \A i \in 1 .. N : marked[i] = <<ParagraphBreak>> \o parts[i]
  OBVIOUS
<1> HIDE DEF marked
<1>6. marked \in Seq(Seq(Symbols)) /\ Len(marked) = N
  BY <1>1, <1>4
<1> QED BY <1>3, <1>5, <1>6

LEMMA BrokenType ==
    ASSUME NEW parts \in Seq(Seq(Chars))
    PROVE  Broken(parts) \in Seq(Symbols) /\ Len(Broken(parts)) \in Nat
BY MarkedIs, FlattenType DEF Broken, Marked

LEMMA BrokenOfNone == Broken(<<>>) = <<>>
<1>1. Marked(<<>>) = <<>>
  BY DEF Marked
<1> QED BY <1>1, FlattenOfNone DEF Broken, Marked

LEMMA BrokenOfOne ==
    ASSUME NEW t \in Seq(Chars)
    PROVE  Broken(<<t>>) = <<ParagraphBreak>> \o t
<1>1. Marked(<<t>>) = << <<ParagraphBreak>> \o t>>
  BY DEF Marked
<1>2. <<ParagraphBreak>> \o t \in Seq(Symbols)
  BY TextsAreSymbols, MarkIs
<1> QED BY <1>1, <1>2, FlattenOfOne DEF Broken, Marked

LEMMA BrokenConcat ==
    ASSUME NEW left \in Seq(Seq(Chars)), NEW right \in Seq(Seq(Chars))
    PROVE  Broken(left \o right) = Broken(left) \o Broken(right)
<1> DEFINE M == Len(left)
           N == Len(right)
           both == left \o right
           S == Seq(Symbols)
<1>1. /\ both \in Seq(Seq(Chars)) /\ M \in Nat /\ N \in Nat /\ Len(both) = M + N
      /\ \A i \in 1 .. M + N : both[i] = IF i <= M THEN left[i] ELSE right[i - M]
  BY ConcatProperties, LenProperties
<1>2. /\ Marked(left) \in Seq(S) /\ Len(Marked(left)) = M
      /\ \A i \in 1 .. M : Marked(left)[i] = <<ParagraphBreak>> \o left[i]
      /\ Marked(right) \in Seq(S) /\ Len(Marked(right)) = N
      /\ \A i \in 1 .. N : Marked(right)[i] = <<ParagraphBreak>> \o right[i]
  BY MarkedIs
<1> HIDE DEF both
<1>3. /\ Marked(both) \in Seq(S) /\ Len(Marked(both)) = M + N
      /\ \A i \in 1 .. M + N : Marked(both)[i] = <<ParagraphBreak>> \o both[i]
  <2>1. /\ Marked(both) \in Seq(S) /\ Len(Marked(both)) = Len(both)
        /\ \A i \in 1 .. Len(both) : Marked(both)[i] = <<ParagraphBreak>> \o both[i]
    BY <1>1, MarkedIs
  <2> QED BY <1>1, <2>1
<1> DEFINE joined == Marked(left) \o Marked(right)
<1>4. /\ joined \in Seq(S) /\ Len(joined) = M + N
      /\ \A i \in 1 .. M + N :
            joined[i] = IF i <= M THEN Marked(left)[i] ELSE Marked(right)[i - M]
  <2> DEFINE x == Marked(left)
             y == Marked(right)
  <2>1. x \in Seq(S) /\ y \in Seq(S) /\ Len(x) = M /\ Len(y) = N
    BY <1>2
  <2> HIDE DEF x, y, M, N, S
  <2>2. IsJoin(x \o y, x, y, S, M, N)
    BY <2>1, JoinedPoints, Zenon DEF S
  <2> QED BY <2>2, Zenon DEF x, y, IsJoin
<1> HIDE DEF M, N, S, joined
<1>5. ASSUME NEW i \in 1 .. M + N PROVE Marked(both)[i] = joined[i]
  <2>1. CASE i <= M
    <3>1. i \in 1 .. M
      BY <1>1, <2>1
    <3>2. both[i] = left[i] /\ joined[i] = Marked(left)[i]
      BY <1>1, <1>4, <2>1
    <3>3. Marked(left)[i] = <<ParagraphBreak>> \o left[i]
      BY <1>2, <3>1
    <3>4. Marked(both)[i] = <<ParagraphBreak>> \o both[i]
      BY <1>3
    <3> QED BY <3>2, <3>3, <3>4, Zenon
  <2>2. CASE ~(i <= M)
    <3>1. i - M \in 1 .. N
      BY <1>1, <2>2
    <3>2. both[i] = right[i - M] /\ joined[i] = Marked(right)[i - M]
      BY <1>1, <1>4, <2>2
    <3>3. Marked(right)[i - M] = <<ParagraphBreak>> \o right[i - M]
      BY <1>2, <3>1
    <3>4. Marked(both)[i] = <<ParagraphBreak>> \o both[i]
      BY <1>3
    <3> QED BY <3>2, <3>3, <3>4, Zenon
  <2> QED BY <2>1, <2>2
<1>6. Marked(both) = joined
  BY <1>3, <1>4, <1>5, SeqEqual
<1>7. FlattenSeq(joined) = FlattenSeq(Marked(left)) \o FlattenSeq(Marked(right))
  BY <1>2, FlattenConcat DEF joined, S
<1>8. \A parts : Broken(parts) = FlattenSeq(Marked(parts))
  BY DEF Broken, Marked
<1> QED BY <1>6, <1>7, <1>8 DEF both

(* The same, of parts that are known.                                      *)
IsText(x, a) == FlattenSeq(x) = a
IsBroken(x, a) == Broken(x) = a

LEMMA FlattenJoin ==
    ASSUME NEW S, NEW x \in Seq(Seq(S)), NEW y \in Seq(Seq(S)), NEW a, NEW b,
           IsText(x, a), IsText(y, b)
    PROVE  IsText(x \o y, a \o b)
BY FlattenConcat DEF IsText

LEMMA BrokenJoin ==
    ASSUME NEW x \in Seq(Seq(Chars)), NEW y \in Seq(Seq(Chars)), NEW a, NEW b,
           IsBroken(x, a), IsBroken(y, b)
    PROVE  IsBroken(x \o y, a \o b)
BY BrokenConcat DEF IsBroken

LEMMA BrokenLength ==
    ASSUME NEW parts \in Seq(Seq(Chars))
    PROVE  Len(Broken(parts)) = Len(parts) + Len(FlattenSeq(parts))
<1> DEFINE N == Len(parts)
           Head0(n) == SubSeq(parts, 1, n)
           G == {n \in 0 .. N : Len(Broken(Head0(n))) = n + Len(FlattenSeq(Head0(n)))}
<1>1. N \in Nat
  BY LenProperties
<1>2. 0 \in G
  <2>1. Head0(0) = <<>>
    BY SubSeqEmpty
  <2>2. Len(Broken(<<>>)) = 0 /\ Len(FlattenSeq(<<>>)) = 0
    BY BrokenOfNone, FlattenOfNone
  <2> HIDE DEF Head0, N
  <2>3. 0 \in 0 .. N /\ 0 = 0 + 0
    BY <1>1
  <2>4. Len(Broken(Head0(0))) = 0 + Len(FlattenSeq(Head0(0)))
    BY <2>1, <2>2, <2>3, Zenon
  <2> QED BY <2>3, <2>4
<1>3. ASSUME NEW n \in 1 .. N, n - 1 \in G PROVE n \in G
  <2> DEFINE before == Head0(n - 1)
             t == parts[n]
  <2>1. Head0(n) = before \o <<t>>
    <3>1. 1 \in 1 .. Len(parts) /\ n \in 1 .. Len(parts)
      BY <1>1
    <3> QED BY <3>1, SubSeqRecursiveSecond
  <2>2. before \in Seq(Seq(Chars)) /\ t \in Seq(Chars) /\ <<t>> \in Seq(Seq(Chars))
    <3>1. 1 \in Int /\ n - 1 \in Int /\ 1 >= 1 /\ n - 1 <= Len(parts)
      BY <1>1
    <3>2. t \in Seq(Chars)
      BY ElementOfSeq
    <3>3. before \in Seq(Seq(Chars))
      BY <3>1, PieceIs
    <3> QED BY <3>2, <3>3
  <2>3. Len(Broken(before)) = (n - 1) + Len(FlattenSeq(before))
    BY <1>3
  <2> HIDE DEF before, t, Head0
  <2>4. /\ Len(Broken(before \o <<t>>)) = Len(Broken(before)) + (Len(t) + 1)
        /\ Len(Broken(before)) \in Nat /\ Len(t) \in Nat
    <3>1. Broken(before \o <<t>>) = Broken(before) \o (<<ParagraphBreak>> \o t)
      BY <2>2, BrokenConcat, BrokenOfOne
    <3>2. t \in Seq(Symbols)
      BY <2>2, TextsAreSymbols
    <3>3. /\ <<ParagraphBreak>> \o t \in Seq(Symbols)
          /\ Len(<<ParagraphBreak>> \o t) = Len(t) + 1
      BY <3>2, MarkIs
    <3>4. Broken(before) \in Seq(Symbols) /\ Len(Broken(before)) \in Nat
      BY <2>2, BrokenType
    <3>5. Len(Broken(before) \o (<<ParagraphBreak>> \o t)) = Len(Broken(before)) + (Len(t) + 1)
      BY <3>3, <3>4, ConcatProperties
    <3> QED BY <2>2, <3>1, <3>4, <3>5, LenProperties
  <2>5. /\ Len(FlattenSeq(before \o <<t>>)) = Len(FlattenSeq(before)) + Len(t)
        /\ Len(FlattenSeq(before)) \in Nat
    <3>1. FlattenSeq(before \o <<t>>) = FlattenSeq(before) \o t
      <4>1. FlattenSeq(before \o <<t>>) = FlattenSeq(before) \o FlattenSeq(<<t>>)
        BY <2>2, FlattenConcat
      <4>2. FlattenSeq(<<t>>) = t
        BY <2>2, FlattenOfOne
      <4> QED BY <4>1, <4>2, Zenon
    <3>2. FlattenSeq(before) \in Seq(Chars) /\ Len(FlattenSeq(before)) \in Nat
      BY <2>2, FlattenType
    <3> QED BY <2>2, <3>1, <3>2, ConcatProperties
  <2>6. Len(Broken(Head0(n))) = n + Len(FlattenSeq(Head0(n)))
    BY <2>1, <2>3, <2>4, <2>5
  <2> QED BY <1>1, <2>6
<1>4. \A n \in 0 .. N : n \in G
  <2> HIDE DEF G, N
  <2> QED BY <1>1, <1>2, <1>3, InductionUpTo
<1>5. N \in G
  <2>1. N \in 0 .. N
    BY <1>1
  <2> QED BY <1>4, <2>1
<1>6. Head0(N) = parts
  BY SubSeqFull
<1> QED BY <1>5, <1>6

(* What is before a paragraph, and the place of a cursor.                  *)
LEMMA AboveIs ==
    ASSUME TypeOK, NEW p \in 0 .. Len(paragraphs)
    PROVE  /\ SubSeq(paragraphs, 1, p) \in Seq(Seq(Chars)) /\ Len(SubSeq(paragraphs, 1, p)) = p
           /\ SubSeq(paragraphs, p + 1, Len(paragraphs)) \in Seq(Seq(Chars))
<1>1. paragraphs \in Seq(Seq(Chars)) /\ Len(paragraphs) \in Nat
  BY ParagraphsAre
<1>2. 1 \in Int /\ p \in Int /\ 1 >= 1 /\ 1 <= p + 1 /\ (p + 1) - 1 = p /\ p <= Len(paragraphs)
  BY <1>1
<1>3. p + 1 \in Int /\ p + 1 >= 1 /\ Len(paragraphs) \in Int /\ Len(paragraphs) <= Len(paragraphs)
  BY <1>1
<1>4. SubSeq(paragraphs, 1, p) \in Seq(Seq(Chars)) /\ Len(SubSeq(paragraphs, 1, p)) = p
  BY <1>1, <1>2, PieceIs
<1>5. SubSeq(paragraphs, p + 1, Len(paragraphs)) \in Seq(Seq(Chars))
  BY <1>1, <1>3, PieceIs
<1> QED BY <1>4, <1>5

LEMMA PlaceIs ==
    ASSUME TypeOK, NEW c \in Cursors
    PROVE  /\ Place(c) = Len(Broken(SubSeq(paragraphs, 1, c.p))) + c.o /\ Place(c) \in Nat
           /\ Len(Broken(SubSeq(paragraphs, 1, c.p))) \in Nat
<1>1. c.p \in 0 .. Len(paragraphs) /\ c.p \in Nat /\ c.o \in Nat
  BY HereIs, ParagraphsAre
<1> DEFINE above == SubSeq(paragraphs, 1, c.p)
<1>2. above \in Seq(Seq(Chars)) /\ Len(above) = c.p
  BY <1>1, AboveIs
<1>3. Place(c) = c.p + Len(FlattenSeq(above)) + c.o
  BY DEF Place
<1> HIDE DEF above
<1>4. Len(Broken(above)) = c.p + Len(FlattenSeq(above)) /\ Len(Broken(above)) \in Nat
  BY <1>2, BrokenLength, BrokenType
<1> QED BY <1>1, <1>3, <1>4 DEF above

-----------------------------------------------------------------------------
(* A selection in order, in the merged paragraphs and in the whole text: f *)
(* is before it in its first paragraph, l behind it in its last, cut is    *)
(* what is selected of the merged text and gone what is selected of the    *)
(* whole one.                                                              *)

InOrder(sel) ==
    /\ sel \in Selections(Cursors)
    /\ InText(sel.start) /\ InText(sel.end) /\ ~Before(sel.end, sel.start)

IsSelected(sel, f, cut, gone, l) ==
    LET from == sel.start.p
        to == sel.end.p
    IN  /\ f \in Seq(Chars) /\ cut \in Seq(Chars) /\ gone \in Seq(Symbols) /\ l \in Seq(Chars)
        /\ Merged(sel) = f \o (cut \o l)
        /\ Len(f) = sel.start.o /\ Len(f) + Len(cut) = sel.end.o + MergeOffset(sel)
        /\ Broken(SubSeq(paragraphs, from + 1, to + 1)) =
               (<<ParagraphBreak>> \o f) \o (gone \o l)
        /\ Place(sel.start) + Len(gone) = Place(sel.end)
        /\ f = SubSeq(Para(from), 1, sel.start.o)
        /\ l = SubSeq(Para(to), sel.end.o + 1, Len(Para(to)))

LEMMA InOrderIs ==
    ASSUME TypeOK, NEW sel, InOrder(sel)
    PROVE  /\ sel.start \in Cursors /\ sel.end \in Cursors
           /\ sel.start.p \in Nat /\ sel.end.p \in Nat /\ sel.start.p <= sel.end.p
           /\ sel.end.p < Len(paragraphs) /\ Len(paragraphs) \in Nat
           /\ sel.start.o \in 0 .. Len(Para(sel.start.p)) /\ Para(sel.start.p) \in Seq(Chars)
           /\ sel.end.o \in 0 .. Len(Para(sel.end.p)) /\ Para(sel.end.p) \in Seq(Chars)
           /\ sel.start.p = sel.end.p => sel.start.o <= sel.end.o
<1>1. sel.start \in Cursors /\ sel.end \in Cursors
  BY DEF InOrder, Selections
<1>2. /\ sel.start.p \in Nat /\ sel.start.o \in Nat /\ Para(sel.start.p) \in Seq(Chars)
      /\ Len(Para(sel.start.p)) \in Nat /\ sel.start.o <= Len(Para(sel.start.p))
  BY <1>1, HereIs DEF InOrder
<1>3. /\ sel.end.p \in Nat /\ sel.end.o \in Nat /\ Para(sel.end.p) \in Seq(Chars)
      /\ Len(Para(sel.end.p)) \in Nat /\ sel.end.o <= Len(Para(sel.end.p))
      /\ sel.end.p <= LastPara
  BY <1>1, HereIs DEF InOrder
<1>4. LastPara = Len(paragraphs) - 1 /\ Len(paragraphs) \in Nat
  BY ParagraphsAre
<1>5. /\ sel.start.p <= sel.end.p
      /\ sel.start.p = sel.end.p => sel.start.o <= sel.end.o
  BY <1>2, <1>3 DEF InOrder, Before
<1> QED BY <1>1, <1>2, <1>3, <1>4, <1>5

LEMMA SelectedInOne ==
    ASSUME TypeOK, NEW sel, InOrder(sel), sel.start.p = sel.end.p
    PROVE  \E f, cut, gone, l : IsSelected(sel, f, cut, gone, l)
<1> DEFINE p == sel.start.p
           t == Para(p)
           s == sel.start.o
           e == sel.end.o
           f == SubSeq(t, 1, s)
           cut == SubSeq(t, s + 1, e)
           l == SubSeq(t, e + 1, Len(t))
           mark == <<ParagraphBreak>>
<1>1. /\ p \in Nat /\ p < Len(paragraphs) /\ Len(paragraphs) \in Nat
      /\ t \in Seq(Chars) /\ Len(t) \in Nat /\ s \in Nat /\ e \in Nat /\ s <= e /\ e <= Len(t)
      /\ Para(sel.end.p) = t
  BY InOrderIs, LenProperties
<1>2. Merged(sel) = t /\ MergeOffset(sel) = 0
  BY <1>1 DEF Merged, MergeOffset
<1>3. SubSeq(paragraphs, p + 1, sel.end.p + 1) = <<t>>
  <2>1. p + 1 \in 1 .. Len(paragraphs) /\ p + 1 \in p + 1 .. Len(paragraphs)
        /\ p + 1 + 1 > p + 1 /\ p + 1 + 1 \in Int /\ p + 1 \in Int
    BY <1>1
  <2>2. SubSeq(paragraphs, p + 1, p + 1) =
            <<paragraphs[p + 1]>> \o SubSeq(paragraphs, p + 1 + 1, p + 1)
    BY <2>1, ParagraphsAre, SubSeqRecursiveFirst
  <2>3. SubSeq(paragraphs, p + 1 + 1, p + 1) = <<>>
    BY <2>1, SubSeqEmpty
  <2>4. <<t>> \in Seq(Seq(Chars))
    BY <1>1
  <2>5. <<t>> \o <<>> = <<t>>
    BY <2>4, ConcatEmptySeq
  <2> QED BY <2>2, <2>3, <2>5 DEF Para
<1>4. f \in Seq(Chars) /\ Len(f) = s
  <2>1. 1 \in Int /\ 1 >= 1 /\ s \in Int /\ 1 <= s + 1 /\ (s + 1) - 1 = s /\ s <= Len(t)
    BY <1>1
  <2> HIDE DEF t, s
  <2> QED BY <1>1, <2>1, PieceIs
<1>5. cut \in Seq(Chars) /\ Len(cut) = e - s
  <2> HIDE DEF t, s, e, p
  <2>1. s + 1 \in Int /\ s + 1 >= 1 /\ e \in Int /\ s + 1 <= e + 1 /\ (e + 1) - (s + 1) = e - s
    BY <1>1
  <2> QED BY <1>1, <2>1, PieceIs
<1>6. l \in Seq(Chars)
  <2>1. e + 1 \in Int /\ e + 1 >= 1 /\ Len(t) \in Int /\ Len(t) <= Len(t)
    BY <1>1
  <2> HIDE DEF t, e
  <2> QED BY <1>1, <2>1, PieceIs
<1>7. t = (f \o cut) \o l
  <2> HIDE DEF t, s, e
  <2>1. /\ 1 \in 1 .. Len(t) + 1 /\ s \in 1 - 1 .. Len(t) /\ e \in s .. Len(t)
        /\ e \in 1 - 1 .. Len(t) /\ Len(t) \in e .. Len(t)
    BY <1>1
  <2>2. f \o cut = SubSeq(t, 1, e)
    BY <1>1, <2>1, ConcatAdjacentSubSeq
  <2>3. SubSeq(t, 1, e) \o l = SubSeq(t, 1, Len(t))
    BY <1>1, <2>1, ConcatAdjacentSubSeq
  <2> QED BY <1>1, <2>2, <2>3, SubSeqFull
<1> HIDE DEF f, cut, l, t
<1>8. t = f \o (cut \o l)
  <2>1. IsJoint(f, cut, l)
    BY <1>4, <1>5, <1>6, JoinsAssociate, Zenon
  <2> QED BY <1>7, <2>1, Zenon DEF IsJoint
<1>9. Broken(<<t>>) = (mark \o f) \o (cut \o l)
  <2>1. Broken(<<t>>) = mark \o (f \o (cut \o l))
    BY <1>1, <1>8, BrokenOfOne
  <2>2. /\ f \in Seq(Symbols) /\ cut \in Seq(Symbols) /\ l \in Seq(Symbols)
        /\ mark \in Seq(Symbols)
    BY <1>4, <1>5, <1>6, TextsAreSymbols, MarkIs
  <2> HIDE DEF mark
  <2>3. cut \o l \in Seq(Symbols)
    BY <2>2, ConcatProperties
  <2>4. IsJoint(mark, f, cut \o l)
    BY <2>2, <2>3, JoinsAssociate, Zenon
  <2> QED BY <2>1, <2>4, Zenon DEF IsJoint
<1>10. Place(sel.start) + Len(cut) = Place(sel.end)
  <2>1. /\ Place(sel.start) = Len(Broken(SubSeq(paragraphs, 1, p))) + s
        /\ Place(sel.end) = Len(Broken(SubSeq(paragraphs, 1, p))) + e
        /\ Len(Broken(SubSeq(paragraphs, 1, p))) \in Nat
    BY InOrderIs, PlaceIs
  <2> HIDE DEF p, s, e
  <2> QED BY <1>1, <1>5, <2>1
<1>11. cut \in Seq(Symbols)
  BY <1>5, TextsAreSymbols
<1>12. /\ Merged(sel) = f \o (cut \o l)
       /\ Len(f) = sel.start.o /\ Len(f) + Len(cut) = sel.end.o + MergeOffset(sel)
  BY <1>1, <1>2, <1>4, <1>5, <1>8
<1>13. f = SubSeq(Para(p), 1, s) /\ l = SubSeq(Para(sel.end.p), e + 1, Len(Para(sel.end.p)))
  BY <1>1 DEF f, l, t
<1>14. Broken(SubSeq(paragraphs, p + 1, sel.end.p + 1)) = (<<ParagraphBreak>> \o f) \o (cut \o l)
  BY <1>3, <1>9
<1>15. IsSelected(sel, f, cut, cut, l)
  BY <1>4, <1>5, <1>6, <1>10, <1>11, <1>12, <1>13, <1>14, Zenon DEF IsSelected
<1> QED BY <1>15

(* The selected paragraphs, of a selection over several.                   *)
LEMMA SeveralAre ==
    ASSUME TypeOK, NEW sel, InOrder(sel), sel.start.p # sel.end.p
    PROVE  LET from == sel.start.p
               to == sel.end.p
               mid == SubSeq(paragraphs, from + 2, to)
           IN  /\ SubSeq(paragraphs, from + 1, to + 1) =
                      <<Para(from)>> \o (mid \o <<Para(to)>>)
               /\ SubSeq(paragraphs, from + 1, to) = <<Para(from)>> \o mid
               /\ SubSeq(paragraphs, 1, to) =
                      SubSeq(paragraphs, 1, from) \o (<<Para(from)>> \o mid)
               /\ SubSeq(paragraphs, 1, from) \in Seq(Seq(Chars))
               /\ mid \in Seq(Seq(Chars)) /\ from < to
<1> DEFINE from == sel.start.p
           to == sel.end.p
           N == Len(paragraphs)
           mid == SubSeq(paragraphs, from + 2, to)
<1>1. /\ from \in Nat /\ to \in Nat /\ from < to /\ to < N /\ N \in Nat
      /\ paragraphs \in Seq(Seq(Chars))
  BY InOrderIs, ParagraphsAre
<1> HIDE DEF from, to
<1>2. /\ from + 1 \in 1 .. N /\ to \in from + 1 .. N /\ to + 1 \in from + 1 .. N
      /\ from + 2 \in 1 .. N /\ to + 1 \in from + 2 .. N
      /\ (from + 1) + 1 = from + 2 /\ (to + 1) - 1 = to
      /\ 1 \in 1 .. N + 1 /\ from \in 1 - 1 .. N /\ to \in from .. N
  BY <1>1
<1>3. SubSeq(paragraphs, from + 1, to) = <<Para(from)>> \o mid
  BY SMTT(30), <1>1, <1>2, SubSeqRecursiveFirst DEF Para
<1>4. SubSeq(paragraphs, from + 1, to + 1) = <<Para(from)>> \o SubSeq(paragraphs, from + 2, to + 1)
  BY <1>1, <1>2, SubSeqRecursiveFirst DEF Para
<1>5. SubSeq(paragraphs, from + 2, to + 1) = mid \o <<Para(to)>>
  <2>1. SubSeq(paragraphs, from + 2, to + 1) =
            SubSeq(paragraphs, from + 2, (to + 1) - 1) \o <<paragraphs[to + 1]>>
    BY <1>1, <1>2, SubSeqRecursiveSecond
  <2> QED BY <1>2, <2>1 DEF Para
<1>6. SubSeq(paragraphs, 1, to) = SubSeq(paragraphs, 1, from) \o SubSeq(paragraphs, from + 1, to)
  BY <1>1, <1>2, ConcatAdjacentSubSeq
<1>7. mid \in Seq(Seq(Chars)) /\ SubSeq(paragraphs, 1, from) \in Seq(Seq(Chars))
  <2>1. /\ from + 2 \in Int /\ from + 2 >= 1 /\ to \in Int /\ to <= N
        /\ 1 \in Int /\ 1 >= 1 /\ from \in Int /\ from <= N
    BY <1>1
  <2> QED BY <1>1, <2>1, PieceIs
<1> QED BY <1>1, <1>3, <1>4, <1>5, <1>6, <1>7, Zenon DEF from, to

LEMMA SelectedInSeveral ==
    ASSUME TypeOK, NEW sel, InOrder(sel), sel.start.p # sel.end.p
    PROVE  \E f, cut, gone, l : IsSelected(sel, f, cut, gone, l)
<1> DEFINE from == sel.start.p
           to == sel.end.p
           F == Para(from)
           L == Para(to)
           s == sel.start.o
           e == sel.end.o
           mark == <<ParagraphBreak>>
           mid == SubSeq(paragraphs, from + 2, to)
           above == SubSeq(paragraphs, 1, from)
           M == FlattenSeq(mid)
           BM == Broken(mid)
<1>1. /\ from \in Nat /\ to \in Nat /\ s \in 0 .. Len(F) /\ e \in 0 .. Len(L)
      /\ F \in Seq(Chars) /\ L \in Seq(Chars) /\ Len(F) \in Nat /\ Len(L) \in Nat
  BY InOrderIs, LenProperties
<1>2. /\ SubSeq(paragraphs, from + 1, to + 1) = <<F>> \o (mid \o <<L>>)
      /\ SubSeq(paragraphs, from + 1, to) = <<F>> \o mid
      /\ SubSeq(paragraphs, 1, to) = above \o (<<F>> \o mid)
      /\ above \in Seq(Seq(Chars)) /\ mid \in Seq(Seq(Chars)) /\ from < to
  BY SeveralAre
<1> HIDE DEF F, L, s, e, mid, above
<1>a. PICK f, f2 : IsHalved(Chars, F, s, f, f2)
  BY <1>1, HalvedIs
<1>b. PICK l1, l : IsHalved(Chars, L, e, l1, l)
  BY <1>1, HalvedIs
<1>3. /\ f \in Seq(Chars) /\ f2 \in Seq(Chars)
      /\ F = f \o f2 /\ Len(f) = s /\ f = SubSeq(F, 1, s)
  BY <1>a, Zenon DEF IsHalved
<1>4. /\ l1 \in Seq(Chars) /\ l \in Seq(Chars)
      /\ L = l1 \o l /\ Len(l1) = e /\ l = SubSeq(L, e + 1, Len(L))
  BY <1>b, Zenon DEF IsHalved
<1>5. <<F>> \in Seq(Seq(Chars)) /\ <<L>> \in Seq(Seq(Chars))
  BY <1>1
<1>6. Merged(sel) = FlattenSeq(<<F>> \o (mid \o <<L>>))
  <2>1. ~(from >= to)
    BY SMTT(30), <1>1, <1>2
  <2>2. Merged(sel) = FlattenSeq(SubSeq(paragraphs, from + 1, to + 1))
    BY <2>1, Zenon DEF Merged
  <2> QED BY <1>2, <2>2, Zenon
<1>7. MergeOffset(sel) = Len(FlattenSeq(<<F>> \o mid))
  <2>1. ~(from = to) /\ ~(from > to)
    BY SMTT(30), <1>1, <1>2
  <2>2. MergeOffset(sel) = Len(FlattenSeq(SubSeq(paragraphs, from + 1, to)))
    BY <2>1, Zenon DEF MergeOffset
  <2> QED BY <1>2, <2>2, Zenon
<1>8. /\ Place(sel.start) = Len(Broken(above)) + s
      /\ Place(sel.end) = Len(Broken(above \o (<<F>> \o mid))) + e
  <2>1. /\ Place(sel.start) = Len(Broken(SubSeq(paragraphs, 1, from))) + s
        /\ Place(sel.end) = Len(Broken(SubSeq(paragraphs, 1, to))) + e
    BY InOrderIs, PlaceIs DEF s, e
  <2> QED BY <1>2, <2>1, Zenon DEF above
<1>9. /\ M \in Seq(Chars) /\ Len(M) \in Nat
      /\ BM \in Seq(Symbols) /\ Len(BM) \in Nat
      /\ Broken(above) \in Seq(Symbols) /\ Len(Broken(above)) \in Nat
  BY <1>2, FlattenType, BrokenType
<1> HIDE DEF from, to
<1>10. mid \o <<L>> \in Seq(Seq(Chars)) /\ <<F>> \o mid \in Seq(Seq(Chars))
  BY <1>2, <1>5, ConcatProperties
<1>c. IsText(<<F>>, F) /\ IsText(<<L>>, L) /\ IsText(mid, M)
  BY <1>1, FlattenOfOne DEF IsText
<1>d. IsBroken(<<F>>, mark \o F) /\ IsBroken(<<L>>, mark \o L) /\ IsBroken(mid, BM)
  BY <1>1, BrokenOfOne DEF IsBroken
<1> DEFINE cut == f2 \o (M \o l1)
           gone == f2 \o (BM \o (mark \o l1))
<1> HIDE DEF M, BM, mark
<1>11. Merged(sel) = f \o (cut \o l)
  <2>1. IsText(mid \o <<L>>, M \o L)
    BY <1>2, <1>5, <1>c, FlattenJoin, Zenon
  <2>2. IsText(<<F>> \o (mid \o <<L>>), F \o (M \o L))
    BY <1>5, <1>10, <1>c, <2>1, FlattenJoin, Zenon
  <2>3. IsRegrouped(f, f2, M, l1, l)
    BY <1>3, <1>4, <1>9, Regrouped, Zenon
  <2> QED BY <1>3, <1>4, <1>6, <2>2, <2>3, Zenon DEF IsRegrouped, IsText
<1>12. cut \in Seq(Chars) /\ Len(cut) = Len(f2) + (Len(M) + e)
  <2>1. HasLength(M, Chars, Len(M)) /\ HasLength(l1, Chars, e) /\ HasLength(f2, Chars, Len(f2))
    BY <1>3, <1>4, <1>9, Zenon DEF HasLength
  <2>2. HasLength(M \o l1, Chars, Len(M) + e)
    BY <2>1, JoinsStay, Zenon
  <2>3. HasLength(cut, Chars, Len(f2) + (Len(M) + e))
    BY <2>1, <2>2, JoinsStay, Zenon
  <2> QED BY <2>3, Zenon DEF HasLength
<1>13. MergeOffset(sel) = Len(F) + Len(M) /\ Len(F) = s + Len(f2) /\ Len(f2) \in Nat
  <2>1. IsText(<<F>> \o mid, F \o M)
    BY <1>2, <1>5, <1>c, FlattenJoin, Zenon
  <2>2. /\ HasLength(F, Chars, Len(F)) /\ HasLength(M, Chars, Len(M))
        /\ HasLength(f, Chars, s) /\ HasLength(f2, Chars, Len(f2))
    BY <1>1, <1>3, <1>9, Zenon DEF HasLength
  <2>3. HasLength(F \o M, Chars, Len(F) + Len(M)) /\ HasLength(f \o f2, Chars, s + Len(f2))
    BY <2>2, JoinsStay, Zenon
  <2>4. Len(f2) \in Nat
    BY <1>3, LenProperties
  <2> QED BY <1>3, <1>7, <2>1, <2>3, <2>4, Zenon DEF HasLength, IsText
<1>14. /\ f \in Seq(Symbols) /\ f2 \in Seq(Symbols) /\ l1 \in Seq(Symbols) /\ l \in Seq(Symbols)
       /\ F \in Seq(Symbols) /\ L \in Seq(Symbols)
  BY <1>1, <1>3, <1>4, TextsAreSymbols
<1>15. /\ mark \in Seq(Symbols) /\ Len(mark) = 1
       /\ mark \o f \in Seq(Symbols) /\ mark \o l1 \in Seq(Symbols) /\ Len(mark \o l1) = e + 1
       /\ mark \o F \in Seq(Symbols) /\ Len(mark \o F) = Len(F) + 1
  BY <1>4, <1>14, MarkIs DEF mark
<1> DEFINE MF == mark \o f
           ML == mark \o l1
<1>16. Broken(<<F>> \o (mid \o <<L>>)) = MF \o (gone \o l)
  <2>1. IsBroken(mid \o <<L>>, BM \o (mark \o L))
    BY <1>2, <1>5, <1>d, BrokenJoin, Zenon
  <2>2. IsBroken(<<F>> \o (mid \o <<L>>), (mark \o F) \o (BM \o (mark \o L)))
    BY <1>5, <1>10, <1>d, <2>1, BrokenJoin, Zenon
  <2>3. IsJoint(mark, f, f2) /\ IsJoint(mark, l1, l)
    BY <1>14, <1>15, JoinsAssociate, Zenon
  <2>4. mark \o F = MF \o f2 /\ mark \o L = ML \o l
    BY <1>3, <1>4, <2>3, Zenon DEF IsJoint
  <2>5. IsRegrouped(MF, f2, BM, ML, l)
    BY <1>9, <1>14, <1>15, Regrouped, Zenon
  <2> QED BY <2>2, <2>4, <2>5, Zenon DEF IsRegrouped, IsBroken
<1>17. gone \in Seq(Symbols) /\ Len(gone) = Len(f2) + (Len(BM) + (e + 1))
  <2>1. /\ HasLength(BM, Symbols, Len(BM)) /\ HasLength(ML, Symbols, e + 1)
        /\ HasLength(f2, Symbols, Len(f2))
    BY <1>9, <1>14, <1>15, Zenon DEF HasLength
  <2>2. HasLength(BM \o ML, Symbols, Len(BM) + (e + 1))
    BY <2>1, JoinsStay, Zenon
  <2>3. HasLength(gone, Symbols, Len(f2) + (Len(BM) + (e + 1)))
    BY <2>1, <2>2, JoinsStay, Zenon
  <2> QED BY <2>3, Zenon DEF HasLength
<1>18. Len(Broken(above \o (<<F>> \o mid))) = Len(Broken(above)) + ((Len(F) + 1) + Len(BM))
  <2>1. IsBroken(<<F>> \o mid, (mark \o F) \o BM)
    BY <1>2, <1>5, <1>d, BrokenJoin, Zenon
  <2>2. IsBroken(above \o (<<F>> \o mid), Broken(above) \o ((mark \o F) \o BM))
    <3>1. IsBroken(above, Broken(above))
      BY Zenon DEF IsBroken
    <3> QED BY <1>2, <1>10, <2>1, <3>1, BrokenJoin, Zenon
  <2>3. /\ HasLength(mark \o F, Symbols, Len(F) + 1) /\ HasLength(BM, Symbols, Len(BM))
        /\ HasLength(Broken(above), Symbols, Len(Broken(above)))
    BY <1>9, <1>15, Zenon DEF HasLength
  <2>4. HasLength((mark \o F) \o BM, Symbols, (Len(F) + 1) + Len(BM))
    BY <2>3, JoinsStay, Zenon
  <2>5. HasLength(Broken(above) \o ((mark \o F) \o BM), Symbols,
                  Len(Broken(above)) + ((Len(F) + 1) + Len(BM)))
    BY <2>3, <2>4, JoinsStay, Zenon
  <2> QED BY <2>2, <2>5, Zenon DEF HasLength, IsBroken
<1> DEFINE nF == Len(F)
           nM == Len(M)
           nBM == Len(BM)
           nf2 == Len(f2)
           nA == Len(Broken(above))
           start == Place(sel.start)
           end == Place(sel.end)
<1>e. nBM = Len(BM) /\ nF \in Nat /\ nM \in Nat /\ nBM \in Nat /\ nf2 \in Nat /\ nA \in Nat
      /\ s \in Int /\ e \in Int
  BY <1>1, <1>9, <1>13
<1>f. /\ start = nA + s /\ end = (nA + ((nF + 1) + nBM)) + e
      /\ nF = s + nf2 /\ Len(gone) = nf2 + (nBM + (e + 1))
      /\ MergeOffset(sel) = nF + nM /\ Len(f) = s /\ Len(cut) = nf2 + (nM + e)
  BY <1>3, <1>8, <1>12, <1>13, <1>17, <1>18, Zenon
<1> DEFINE ngone == Len(gone)
           ncut == Len(cut)
           offset == MergeOffset(sel)
<1> HIDE DEF nF, nM, nBM, nf2, nA, start, end, ngone, ncut, offset
<1>19. Place(sel.start) + Len(gone) = Place(sel.end)
  <2>1. start + ngone = end
    BY <1>e, <1>f DEF ngone
  <2> QED BY <2>1 DEF start, ngone, end
<1>20. Len(f) = s /\ Len(f) + Len(cut) = e + MergeOffset(sel)
  <2>1. s + ncut = e + offset
    <3>1. s = Len(f) /\ nF = Len(f) + nf2 /\ offset = nF + nM /\ ncut = nf2 + (nM + e)
      BY <1>f DEF ncut, offset
    <3>2. s \in Int /\ e \in Int /\ nf2 \in Int /\ nM \in Int
      BY <1>e
    <3> QED BY <3>1, <3>2
  <2> QED BY <1>f, <2>1 DEF ncut, offset
<1> HIDE DEF cut, gone
<1>21. IsSelected(sel, f, cut, gone, l)
  <2>1. Broken(SubSeq(paragraphs, from + 1, to + 1)) = (<<ParagraphBreak>> \o f) \o (gone \o l)
    BY <1>2, <1>16, Zenon DEF mark
  <2> QED BY <1>3, <1>4, <1>11, <1>12, <1>17, <1>19, <1>20, <2>1, Zenon
      DEF IsSelected, from, to, s, e, F, L
<1> QED BY <1>21

LEMMA SelectedIs ==
    ASSUME TypeOK, NEW sel, InOrder(sel)
    PROVE  \E f, cut, gone, l : IsSelected(sel, f, cut, gone, l)
BY SelectedInOne, SelectedInSeveral

-----------------------------------------------------------------------------
(* An edit replaces what is selected of the whole text.                    *)

(* The text t, of which new replaced what was between from and to.         *)
IsSplice(t, from, to, new, r) == InRange(t, from, to) /\ Spliced(t, from, to, new) = r

LEMMA SpliceOf ==
    ASSUME NEW S, NEW x \in Seq(S), NEW y \in Seq(S), NEW z \in Seq(S), NEW new \in Seq(S),
           NEW t, NEW from, NEW to,
           t = x \o (y \o z), Len(x) = from, Len(x) + Len(y) = to
    PROVE  IsSplice(t, from, to, new, (x \o new) \o z)
<1> DEFINE a == Len(x)
           b == Len(y)
           c == Len(z)
           yz == y \o z
<1>1. a \in Nat /\ b \in Nat /\ c \in Nat
  BY LenProperties
<1>2. /\ yz \in Seq(S) /\ Len(yz) = b + c
      /\ \A i \in 1 .. b + c : yz[i] = IF i <= b THEN y[i] ELSE z[i - b]
  <2>1. Len(y) = b /\ Len(z) = c
    OBVIOUS
  <2> HIDE DEF b, c
  <2>2. IsJoin(yz, y, z, S, b, c)
    BY <2>1, JoinedPoints, Zenon
  <2> HIDE DEF yz
  <2> QED BY <2>2, Zenon DEF IsJoin
<1> DEFINE bc == b + c
<1> HIDE DEF yz, a, b, c, bc
<1>3. /\ t \in Seq(S) /\ Len(t) = a + (b + c)
      /\ \A i \in 1 .. a + (b + c) : t[i] = IF i <= a THEN x[i] ELSE yz[i - a]
  <2>1. Len(x) = a /\ t = x \o yz
    BY Zenon DEF a, yz
  <2>2. Len(yz) = bc
    BY <1>2, Zenon DEF bc
  <2>3. IsJoin(t, x, yz, S, a, bc)
    BY <1>2, <2>1, <2>2, JoinedPoints, Zenon
  <2>4. /\ t \in Seq(S) /\ Len(t) = a + bc
        /\ \A i \in 1 .. a + bc : t[i] = IF i <= a THEN x[i] ELSE yz[i - a]
    BY <2>3, Zenon DEF IsJoin
  <2> QED BY <2>4, Zenon DEF bc
<1>4. InRange(t, a, a + b)
  BY <1>1, <1>3 DEF InRange
<1> DEFINE A == SubSeq(t, 1, a)
           C == SubSeq(t, a + b + 1, Len(t))
<1>5. Spliced(t, a, a + b, new) = (A \o new) \o C
  <2>1. a \in Int /\ a + b \in Int
    BY <1>1
  <2>2. t \in Seq(S)
    BY <1>3
  <2>3. IsInserted(t, a, a + b, new)
    BY <1>4, <2>1, <2>2, InsertedIs, Zenon
  <2> QED BY <2>3, Zenon DEF IsInserted
<1>6. A = x
  <2>1. 1 \in Int /\ 1 >= 1 /\ a \in Int /\ 1 <= a + 1 /\ a = (a + 1) - 1 /\ a <= Len(t)
    BY <1>1, <1>3
  <2>2. A \in Seq(S) /\ Len(A) = a /\ \A i \in 1 .. a : A[i] = t[1 + i - 1]
    <3>1. IsPiece(A, t, S, 1, a)
      BY <1>3, <2>1, KnownPiece, Zenon
    <3> QED BY <3>1, Zenon DEF IsPiece
  <2> HIDE DEF A
  <2>3. \A i \in 1 .. a : 1 + i - 1 = i /\ i <= a /\ i \in 1 .. a + (b + c)
    BY <1>1
  <2>4. \A i \in 1 .. a : A[i] = x[i]
    <3> TAKE i \in 1 .. a
    <3>1. t[1 + i - 1] = t[i]
      BY <2>3, Zenon
    <3>2. t[i] = x[i]
      BY <1>3, <2>3, Zenon
    <3> QED BY <2>2, <3>1, <3>2, Zenon
  <2> QED BY <2>2, <2>4, SeqEqual DEF a
<1>7. C = z
  <2>1. /\ a + b + 1 \in Int /\ a + b + 1 >= 1 /\ Len(t) \in Int /\ Len(t) <= Len(t)
        /\ a + b + 1 <= Len(t) + 1 /\ c = (Len(t) + 1) - (a + b + 1)
    BY <1>1, <1>3
  <2>2. C \in Seq(S) /\ Len(C) = c /\ \A i \in 1 .. c : C[i] = t[a + b + 1 + i - 1]
    <3>1. IsPiece(C, t, S, a + b + 1, c)
      BY <1>3, <2>1, KnownPiece, Zenon
    <3> QED BY <3>1, Zenon DEF IsPiece
  <2> HIDE DEF C
  <2>3. ASSUME NEW i \in 1 .. c PROVE C[i] = z[i]
    <3>1. /\ a + b + 1 + i - 1 = a + (b + i) /\ a + (b + i) \in 1 .. a + (b + c)
          /\ ~(a + (b + i) <= a) /\ (a + (b + i)) - a = b + i
          /\ b + i \in 1 .. b + c /\ ~(b + i <= b) /\ (b + i) - b = i
      BY <1>1
    <3>2. C[i] = t[a + (b + i)]
      BY <2>2, <3>1
    <3>3. t[a + (b + i)] = yz[b + i]
      BY <1>3, <3>1
    <3>4. yz[b + i] = z[i]
      BY <1>2, <3>1
    <3> QED BY <3>2, <3>3, <3>4
  <2> QED BY <2>2, <2>3, SeqEqual DEF c
<1>8. from = a /\ to = a + b
  BY Zenon DEF a, b
<1> HIDE DEF A, C
<1>9. IsSplice(t, a, a + b, new, (x \o new) \o z)
  BY <1>4, <1>5, <1>6, <1>7, Zenon DEF IsSplice
<1> QED BY <1>8, <1>9, Zenon

(* What is left of a text when its first symbol is taken away.             *)
IsTail(x, r) == Tail(x) = r

LEMMA TailOfConcat ==
    ASSUME NEW S, NEW x \in Seq(S), NEW y \in Seq(S), Len(x) >= 1
    PROVE  /\ Tail(x) \in Seq(S) /\ Len(Tail(x)) = Len(x) - 1
           /\ IsTail(x \o y, Tail(x) \o y)
<1> DEFINE a == Len(x)
           b == Len(y)
           xy == x \o y
           tx == Tail(x)
           txy == tx \o y
<1>1. a \in Nat /\ a >= 1 /\ b \in Nat /\ x # <<>>
  BY LenProperties, EmptySeq
<1>2. /\ xy \in Seq(S) /\ Len(xy) = a + b
      /\ \A i \in 1 .. a + b : xy[i] = IF i <= a THEN x[i] ELSE y[i - a]
  BY ConcatProperties
<1>3. tx \in Seq(S) /\ Len(tx) = a - 1 /\ \A i \in 1 .. a - 1 : tx[i] = x[i + 1]
  BY <1>1, HeadTailProperties
<1> HIDE DEF xy, tx
<1>4. /\ txy \in Seq(S) /\ Len(txy) = (a - 1) + b
      /\ \A i \in 1 .. (a - 1) + b : txy[i] = IF i <= a - 1 THEN tx[i] ELSE y[i - (a - 1)]
  <2>1. /\ txy \in Seq(S) /\ Len(txy) = Len(tx) + b
        /\ \A i \in 1 .. Len(tx) + b : txy[i] = IF i <= Len(tx) THEN tx[i] ELSE y[i - Len(tx)]
    BY <1>3, ConcatProperties
  <2> QED BY <1>3, <2>1
<1> HIDE DEF txy, a, b
<1>5. xy # <<>>
  BY <1>1, <1>2, EmptySeq
<1>6. Tail(xy) \in Seq(S) /\ Len(Tail(xy)) = (a - 1) + b
      /\ \A i \in 1 .. (a - 1) + b : Tail(xy)[i] = xy[i + 1]
  <2>1. /\ Tail(xy) \in Seq(S) /\ Len(Tail(xy)) = Len(xy) - 1
        /\ \A i \in 1 .. Len(Tail(xy)) : Tail(xy)[i] = xy[i + 1]
    BY <1>2, <1>5, HeadTailProperties
  <2>2. Len(xy) - 1 = (a - 1) + b
    BY <1>1, <1>2
  <2> QED BY <2>1, <2>2
<1>7. ASSUME NEW i \in 1 .. (a - 1) + b PROVE Tail(xy)[i] = txy[i]
  <2>1. i + 1 \in 1 .. a + b /\ Tail(xy)[i] = xy[i + 1]
    BY <1>1, <1>6
  <2>2. CASE i <= a - 1
    <3>1. i \in 1 .. a - 1 /\ i + 1 <= a
      BY <1>1, <2>2
    <3>2. xy[i + 1] = x[i + 1] /\ tx[i] = x[i + 1] /\ txy[i] = tx[i]
      BY <1>2, <1>3, <1>4, <2>1, <2>2, <3>1
    <3> QED BY <2>1, <3>2
  <2>3. CASE ~(i <= a - 1)
    <3>1. ~(i + 1 <= a) /\ (i + 1) - a = i - (a - 1)
      BY <1>1, <2>3
    <3>2. xy[i + 1] = y[i - (a - 1)] /\ txy[i] = y[i - (a - 1)]
      BY <1>2, <1>4, <2>1, <2>3, <3>1
    <3> QED BY <2>1, <3>2
  <2> QED BY <2>2, <2>3
<1>8. Tail(xy) = txy
  BY <1>4, <1>6, <1>7, SeqEqual
<1> QED BY <1>3, <1>8 DEF xy, txy, tx, a, IsTail

(* The paragraphs above a selection, and those below it.                   *)
Above(sel) == SubSeq(paragraphs, 1, sel.start.p)
Below(sel) == SubSeq(paragraphs, sel.end.p + 2, Len(paragraphs))

LEMMA PartsAre ==
    ASSUME TypeOK, NEW sel, InOrder(sel)
    PROVE  LET chosen == SubSeq(paragraphs, sel.start.p + 1, sel.end.p + 1)
           IN  /\ Above(sel) \in Seq(Seq(Chars)) /\ chosen \in Seq(Seq(Chars))
               /\ Below(sel) \in Seq(Seq(Chars))
               /\ paragraphs = (Above(sel) \o chosen) \o Below(sel)
<1> DEFINE from == sel.start.p
           to == sel.end.p
           N == Len(paragraphs)
           chosen == SubSeq(paragraphs, from + 1, to + 1)
<1>1. /\ from \in Nat /\ to \in Nat /\ from <= to /\ to < N /\ N \in Nat
      /\ paragraphs \in Seq(Seq(Chars))
  BY InOrderIs, ParagraphsAre
<1> HIDE DEF from, to
<1>2. /\ 1 \in 1 .. N + 1 /\ from \in 1 - 1 .. N /\ to + 1 \in from .. N
      /\ to + 1 \in 1 - 1 .. N /\ N \in to + 1 .. N /\ (to + 1) + 1 = to + 2
  BY <1>1
<1>3. SubSeq(paragraphs, 1, from) \o chosen = SubSeq(paragraphs, 1, to + 1)
  BY <1>1, <1>2, ConcatAdjacentSubSeq
<1>4. SubSeq(paragraphs, 1, to + 1) \o SubSeq(paragraphs, to + 2, N) = SubSeq(paragraphs, 1, N)
  BY <1>1, <1>2, ConcatAdjacentSubSeq
<1>5. /\ SubSeq(paragraphs, 1, from) \in Seq(Seq(Chars)) /\ chosen \in Seq(Seq(Chars))
      /\ SubSeq(paragraphs, to + 2, N) \in Seq(Seq(Chars))
  <2>1. /\ 1 \in Int /\ 1 >= 1 /\ from \in Int /\ from <= N
        /\ from + 1 \in Int /\ from + 1 >= 1 /\ to + 1 \in Int /\ to + 1 <= N
        /\ to + 2 \in Int /\ to + 2 >= 1 /\ N \in Int /\ N <= N
    BY <1>1
  <2> QED BY <1>1, <2>1, PieceIs
<1>6. SubSeq(paragraphs, 1, N) = paragraphs
  BY <1>1, SubSeqFull
<1> QED BY <1>3, <1>4, <1>5, <1>6 DEF Above, Below, from, to

(* The whole text around a selection, and what replaces it there.          *)
IsAround(sel, x, gone, z) ==
    /\ x \in Seq(Symbols) /\ gone \in Seq(Symbols) /\ z \in Seq(Symbols)
    /\ Flat(paragraphs) = x \o (gone \o z)
    /\ Len(x) = Place(sel.start) /\ Len(x) + Len(gone) = Place(sel.end)

LEMMA AroundIs ==
    ASSUME TypeOK, NEW sel, InOrder(sel), NEW f, NEW cut, NEW gone, NEW l,
           IsSelected(sel, f, cut, gone, l)
    PROVE  LET X == Broken(Above(sel)) \o (<<ParagraphBreak>> \o f)
               z == l \o Broken(Below(sel))
           IN  /\ IsAround(sel, Tail(X), gone, z)
               /\ X \in Seq(Symbols) /\ Len(X) >= 1
<1> DEFINE mf == <<ParagraphBreak>> \o f
           A == Above(sel)
           B == SubSeq(paragraphs, sel.start.p + 1, sel.end.p + 1)
           C == Below(sel)
           X == Broken(A) \o mf
           z == l \o Broken(C)
<1>1. /\ f \in Seq(Symbols) /\ l \in Seq(Symbols) /\ gone \in Seq(Symbols)
      /\ Len(f) = sel.start.o /\ Len(f) \in Nat
      /\ Broken(B) = mf \o (gone \o l)
      /\ Place(sel.start) + Len(gone) = Place(sel.end)
  BY TextsAreSymbols, LenProperties DEF IsSelected
<1>2. /\ A \in Seq(Seq(Chars)) /\ B \in Seq(Seq(Chars)) /\ C \in Seq(Seq(Chars))
      /\ paragraphs = (A \o B) \o C
  BY PartsAre
<1>3. mf \in Seq(Symbols) /\ Len(mf) = Len(f) + 1
  BY <1>1, MarkIs
<1>4. /\ Place(sel.start) = Len(Broken(A)) + sel.start.o
  BY InOrderIs, PlaceIs DEF Above
<1> HIDE DEF mf, A, B, C
<1>5. /\ Broken(A) \in Seq(Symbols) /\ Len(Broken(A)) \in Nat /\ Broken(C) \in Seq(Symbols)
      /\ A \o B \in Seq(Seq(Chars))
  BY <1>2, BrokenType, ConcatProperties
<1>6. Broken(paragraphs) = (Broken(A) \o (mf \o (gone \o l))) \o Broken(C)
  <2>1. IsBroken(A, Broken(A)) /\ IsBroken(B, mf \o (gone \o l)) /\ IsBroken(C, Broken(C))
    BY <1>1, Zenon DEF IsBroken
  <2>2. IsBroken(A \o B, Broken(A) \o (mf \o (gone \o l)))
    BY <1>2, <2>1, BrokenJoin, Zenon
  <2>3. IsBroken((A \o B) \o C, (Broken(A) \o (mf \o (gone \o l))) \o Broken(C))
    BY <1>2, <1>5, <2>1, <2>2, BrokenJoin, Zenon
  <2> QED BY <1>2, <2>3, Zenon DEF IsBroken
<1>7. /\ X \in Seq(Symbols) /\ Len(X) = Len(Broken(A)) + (Len(f) + 1)
      /\ z \in Seq(Symbols) /\ gone \o z \in Seq(Symbols)
  <2>1. X \in Seq(Symbols) /\ Len(X) = Len(Broken(A)) + (Len(f) + 1)
    BY <1>3, <1>5, ConcatProperties
  <2>2. z \in Seq(Symbols)
    BY <1>1, <1>5, ConcatProperties
  <2> HIDE DEF X, z
  <2> QED BY <1>1, <2>1, <2>2, ConcatProperties
<1>8. Broken(paragraphs) = X \o (gone \o z)
  <2>1. IsUnfolded(Broken(A), mf, gone, l, Broken(C))
    BY <1>1, <1>3, <1>5, Unfolded, Zenon
  <2> QED BY <1>6, <2>1, Zenon DEF IsUnfolded
<1> HIDE DEF X, z
<1>9. Len(X) >= 1
  <2> DEFINE ba == Len(Broken(A))
             lf == Len(f)
  <2>1. ba \in Nat /\ lf \in Nat /\ Len(X) = ba + (lf + 1)
    BY <1>1, <1>5, <1>7, Zenon
  <2> HIDE DEF ba, lf
  <2>2. ba + (lf + 1) >= 1
    BY <2>1
  <2> QED BY <2>1, <2>2, Zenon
<1>10. /\ Tail(X) \in Seq(Symbols) /\ Len(Tail(X)) = Len(X) - 1
       /\ Flat(paragraphs) = Tail(X) \o (gone \o z)
  <2>1. /\ Tail(X) \in Seq(Symbols) /\ Len(Tail(X)) = Len(X) - 1
        /\ IsTail(X \o (gone \o z), Tail(X) \o (gone \o z))
    BY <1>7, <1>9, TailOfConcat, Zenon
  <2> QED BY <1>8, <2>1, Zenon DEF Flat, IsTail
<1>11. Len(Tail(X)) = Place(sel.start)
  <2> DEFINE ba == Len(Broken(A))
             lf == Len(f)
  <2>1. ba \in Nat /\ lf \in Nat /\ Place(sel.start) = ba + lf /\ Len(X) = ba + (lf + 1)
    BY <1>1, <1>4, <1>5, <1>7, Zenon
  <2> HIDE DEF ba, lf
  <2>2. (ba + (lf + 1)) - 1 = ba + lf
    BY <2>1
  <2> QED BY <1>10, <2>1, <2>2, Zenon
<1>12. IsAround(sel, Tail(X), gone, z)
  <2>1. Len(Tail(X)) + Len(gone) = Place(sel.end)
    BY <1>1, <1>11, Zenon
  <2> QED BY <1>1, <1>7, <1>10, <1>11, <2>1, Zenon DEF IsAround
<1> QED BY ZenonT(30), <1>7, <1>9, <1>12 DEF X, z, mf, A, C

(* What an edit makes of the whole text is therefore known.                *)
LEMMA SplicedAround ==
    ASSUME NEW sel, NEW x, NEW gone, NEW z, IsAround(sel, x, gone, z), NEW new \in Seq(Symbols)
    PROVE  IsSplice(Flat(paragraphs), Place(sel.start), Place(sel.end), new, (x \o new) \o z)
BY SpliceOf, Zenon DEF IsAround

LEMMA ReplacedInOrder ==
    ASSUME NEW sel, NEW f, NEW cut, NEW gone, NEW l, IsSelected(sel, f, cut, gone, l),
           NEW new \in Seq(Chars)
    PROVE  /\ ReplacedText(sel, new) = (f \o new) \o l
           /\ InRange(Merged(sel), sel.start.o, sel.end.o + MergeOffset(sel))
<1>1. /\ f \in Seq(Chars) /\ cut \in Seq(Chars) /\ l \in Seq(Chars)
      /\ Merged(sel) = f \o (cut \o l)
      /\ Len(f) = sel.start.o /\ Len(f) + Len(cut) = sel.end.o + MergeOffset(sel)
  BY DEF IsSelected
<1>2. IsSplice(Merged(sel), sel.start.o, sel.end.o + MergeOffset(sel), new, (f \o new) \o l)
  BY <1>1, SpliceOf, Zenon
<1> QED BY ZenonT(30), <1>2 DEF ReplacedText, IsSplice

LEMMA EditIs ==
    ASSUME TypeOK, NEW sel, InOrder(sel), NEW new \in Seq(Chars)
    PROVE  Flat(ParagraphsWith(sel, new)) =
               Spliced(Flat(paragraphs), Place(sel.start), Place(sel.end), new)
<1>1. PICK f, cut, gone, l : IsSelected(sel, f, cut, gone, l)
  BY SelectedIs
<1> DEFINE mark == <<ParagraphBreak>>
           A == Above(sel)
           C == Below(sel)
           mf == mark \o f
           X == Broken(A) \o mf
           z == l \o Broken(C)
           r == (f \o new) \o l
<1>2. /\ IsAround(sel, Tail(X), gone, z) /\ X \in Seq(Symbols) /\ Len(X) >= 1
  BY ZenonT(30), <1>1, AroundIs
<1>3. new \in Seq(Symbols) /\ f \in Seq(Symbols) /\ l \in Seq(Symbols) /\ mark \in Seq(Symbols)
  BY <1>1, TextsAreSymbols, MarkIs DEF IsSelected
<1>4. A \in Seq(Seq(Chars)) /\ C \in Seq(Seq(Chars))
  BY PartsAre
<1>5. ReplacedText(sel, new) = r /\ r \in Seq(Chars)
  <2>1. f \in Seq(Chars) /\ l \in Seq(Chars)
    BY <1>1 DEF IsSelected
  <2>2. f \o new \in Seq(Chars)
    BY <2>1, ConcatProperties, Zenon
  <2>3. r \in Seq(Chars)
    BY <2>1, <2>2, ConcatProperties, Zenon
  <2>4. ReplacedText(sel, new) = r
    BY <1>1, ReplacedInOrder
  <2> QED BY SMTT(30), <2>3, <2>4
<1>6. ParagraphsWith(sel, new) = (A \o <<r>>) \o C
  <2>1. LastOf(sel) = sel.end.p
    BY InOrderIs DEF LastOf
  <2>2. sel \in Selections(Cursors)
    BY DEF InOrder
  <2>3. ShownOf(paragraphs, <<r>>, sel) =
            SubSeq(paragraphs, 1, sel.start.p) \o <<r>>
                \o SubSeq(paragraphs, LastOf(sel) + 2, Len(paragraphs))
    <3> HIDE DEF r
    <3> QED BY <1>5, <2>2, ShownIs
  <2> HIDE DEF r
  <2> QED BY <1>5, <2>1, <2>3 DEF ParagraphsWith, Above, Below
<1> HIDE DEF mark, A, C
<1>7. Broken((A \o <<r>>) \o C) = (Broken(A) \o (mark \o r)) \o Broken(C)
  <2> HIDE DEF r
  <2>1. <<r>> \in Seq(Seq(Chars))
    BY <1>5
  <2>2. A \o <<r>> \in Seq(Seq(Chars))
    BY <1>4, <2>1, ConcatProperties
  <2>3. IsBroken(A, Broken(A)) /\ IsBroken(C, Broken(C)) /\ IsBroken(<<r>>, mark \o r)
    BY <1>5, BrokenOfOne, Zenon DEF IsBroken, mark
  <2>4. IsBroken(A \o <<r>>, Broken(A) \o (mark \o r))
    BY <1>4, <2>1, <2>3, BrokenJoin, Zenon
  <2>5. IsBroken((A \o <<r>>) \o C, (Broken(A) \o (mark \o r)) \o Broken(C))
    BY <1>4, <2>2, <2>3, <2>4, BrokenJoin, Zenon
  <2> QED BY <2>5, Zenon DEF IsBroken
<1>8. /\ Broken(A) \in Seq(Symbols) /\ Broken(C) \in Seq(Symbols)
  BY <1>4, BrokenType
<1>10. (Broken(A) \o (mark \o r)) \o Broken(C) = X \o (new \o z)
  <2>1. new \o l \in Seq(Symbols) /\ mf \in Seq(Symbols)
    BY <1>3, ConcatProperties, Zenon
  <2>2. r = f \o (new \o l)
    <3>1. IsJoint(f, new, l)
      BY <1>3, JoinsAssociate, Zenon
    <3> QED BY <3>1, Zenon DEF IsJoint
  <2>3. mark \o r = mf \o (new \o l)
    <3>1. IsJoint(mark, f, new \o l)
      BY <1>3, <2>1, JoinsAssociate, Zenon
    <3> HIDE DEF r
    <3> QED BY <2>2, <3>1, Zenon DEF IsJoint
  <2> HIDE DEF r, mf
  <2>4. IsUnfolded(Broken(A), mf, new, l, Broken(C))
    BY <1>3, <1>8, <2>1, Unfolded, Zenon
  <2> QED BY <2>3, <2>4, Zenon DEF IsUnfolded
<1> HIDE DEF X, r
<1>11. z \in Seq(Symbols) /\ Tail(X) \in Seq(Symbols)
  BY <1>2 DEF IsAround
<1> HIDE DEF z
<1>12. Tail(X \o (new \o z)) = Tail(X) \o (new \o z)
  <2>1. new \o z \in Seq(Symbols)
    BY <1>3, <1>11, ConcatProperties
  <2>2. IsTail(X \o (new \o z), Tail(X) \o (new \o z))
    BY <1>2, <2>1, TailOfConcat, Zenon
  <2> QED BY <2>2, Zenon DEF IsTail
<1>13. Tail(X) \o (new \o z) = (Tail(X) \o new) \o z
  <2>1. IsJoint(Tail(X), new, z)
    BY <1>3, <1>11, JoinsAssociate, Zenon
  <2> QED BY <2>1, Zenon DEF IsJoint
<1>14. Flat(ParagraphsWith(sel, new)) = (Tail(X) \o new) \o z
  <2>1. Broken(ParagraphsWith(sel, new)) = X \o (new \o z)
    BY <1>6, <1>7, <1>10, Zenon
  <2>2. Flat(ParagraphsWith(sel, new)) = Tail(X \o (new \o z))
    BY <2>1, Zenon DEF Flat
  <2> QED BY <1>12, <1>13, <2>2, Zenon
<1>15. Spliced(Flat(paragraphs), Place(sel.start), Place(sel.end), new) = (Tail(X) \o new) \o z
  <2>1. IsSplice(Flat(paragraphs), Place(sel.start), Place(sel.end), new,
                 (Tail(X) \o new) \o z)
    BY <1>2, <1>3, SplicedAround, Zenon
  <2> QED BY <2>1, Zenon DEF IsSplice
<1> QED BY <1>14, <1>15, Zenon

-----------------------------------------------------------------------------
(* Keys and mouse keep the selection in order.                             *)

InParts(parts, c) == c.p \in 0 .. Len(parts) - 1 /\ c.o \in 0 .. Len(parts[c.p + 1])
OrderedIn(parts, sel) ==
    /\ InParts(parts, sel.start) /\ InParts(parts, sel.end)
    /\ ~Before(sel.end, sel.start)
    /\ sel.caret \in {sel.start, sel.end}

LEMMA OrderedIs ==
    /\ Ordered <=> OrderedIn(paragraphs, selection)
    /\ Ordered' <=> OrderedIn(paragraphs', selection')
    /\ Ordered <=> IsOrdered(selection)
    /\ \A sel : IsOrdered(sel) <=> OrderedIn(paragraphs, sel)
BY DEF Ordered, OrderedIn, IsOrdered, InText, InParts, LastPara, Para

LEMMA OrderedAt ==
    ASSUME NEW parts \in Seq(Seq(Chars)), NEW c \in CursorsOf(parts), c.o <= Len(parts[c.p + 1])
    PROVE  OrderedIn(parts, At(c))
<1>1. Len(parts) \in Nat /\ c.p \in 0 .. Len(parts) - 1 /\ c.o \in Nat
  BY LenProperties DEF CursorsOf
<1>2. Len(parts[c.p + 1]) \in Nat
  <2>1. c.p + 1 \in 1 .. Len(parts)
    BY <1>1
  <2>2. parts[c.p + 1] \in Seq(Chars)
    BY <2>1, ElementOfSeq
  <2> QED BY <2>2, LenProperties
<1>3. InParts(parts, c)
  BY <1>1, <1>2 DEF InParts
<1>4. ~Before(c, c)
  BY <1>1 DEF Before
<1> QED BY <1>3, <1>4 DEF OrderedIn, At

LEMMA OrderedSelection ==
    ASSUME TypeOK, Ordered
    PROVE  /\ InOrder(selection) /\ selection.caret \in Cursors /\ InText(selection.caret)
           /\ selection.start = selection.end => selection.caret = selection.end
BY SelectionIs DEF TypeOK, Ordered, InOrder

LEMMA ReplaceOrders ==
    ASSUME TypeOK, NEW sel, InOrder(sel), NEW new \in Seq(Chars), Replace(sel, new)
    PROVE  Ordered'
<1> DEFINE t == ReplacedText(sel, new)
           o == sel.end.o + MergeOffset(sel) + Len(t) - Len(Merged(sel))
           shown == ShownOf(paragraphs, <<t>>, sel)
<1>1. sel \in Selections(Cursors) /\ sel.start.p \in Nat
  BY InOrderIs DEF InOrder
<1>2. InRange(Merged(sel), sel.start.o, sel.end.o + MergeOffset(sel))
  BY SelectedIs, ReplacedInOrder
<1>3. t \in Seq(Chars) /\ o \in Nat /\ o <= Len(t)
  BY <1>1, <1>2, ReplacedIs
<1>4. paragraphs' = shown /\ selection' = At(Cursor(sel.start.p, o))
  BY DEF Replace, ParagraphsWith, CaretBehind
<1> HIDE DEF t, o
<1>5. /\ shown \in Seq(Seq(Chars)) /\ sel.start.p \in 0 .. Len(shown) - 1
      /\ shown[sel.start.p + 1] = t
  BY <1>1, <1>3, ShownIs
<1> HIDE DEF shown
<1> DEFINE c == Cursor(sel.start.p, o)
<1>6. c \in CursorsOf(shown) /\ c.p = sel.start.p /\ c.o = o
  BY <1>3, <1>5 DEF Cursor, CursorsOf
<1> HIDE DEF c
<1>7. OrderedIn(shown, At(c))
  BY <1>3, <1>5, <1>6, OrderedAt
<1> QED BY <1>4, <1>7, OrderedIs DEF c

LEMMA EnterOrders ==
    ASSUME TypeOK, Enter
    PROVE  Ordered'
<1> DEFINE c == Cursor(selection.start.p + 1, 0)
           parts == paragraphs'
<1>1. parts \in Seq(Seq(Chars)) /\ selection' \in Selections(CursorsOf(parts))
  BY SMTT(30), EnterType
<1>2. selection' = At(c)
  BY DEF Enter
<1>3. c.o = 0
  BY DEF Cursor
<1> HIDE DEF c, parts
<1>4. c \in CursorsOf(parts)
  BY <1>1, <1>2 DEF At, Selections
<1>5. Len(parts[c.p + 1]) \in Nat
  <2>1. c.p \in 0 .. Len(parts) - 1 /\ Len(parts) \in Nat
    BY <1>1, <1>4, LenProperties DEF CursorsOf
  <2>2. c.p + 1 \in 1 .. Len(parts)
    BY <2>1
  <2>3. parts[c.p + 1] \in Seq(Chars)
    BY <1>1, <2>2, ElementOfSeq
  <2> QED BY <2>3, LenProperties
<1>6. OrderedIn(parts, At(c))
  BY <1>1, <1>3, <1>4, <1>5, OrderedAt
<1> QED BY <1>2, <1>6, OrderedIs DEF parts

(* What Backspace and Delete remove.                                       *)
LEMMA ExtendedIs ==
    ASSUME TypeOK, Ordered, NEW c \in Cursors, InText(c)
    PROVE  /\ InOrder(Extended(c))
           /\ selection.start # selection.end => Extended(c) = selection
           /\ selection.start = selection.end /\ ~Before(c, selection.start) =>
                 Extended(c).start = selection.start /\ Extended(c).end = c
           /\ selection.start = selection.end /\ ~Before(selection.start, c) =>
                 Extended(c).start = c /\ Extended(c).end = selection.start
<1>1. InOrder(selection) /\ selection.start \in Cursors
  BY OrderedSelection, SelectionIs
<1>2. ASSUME selection.start # selection.end PROVE Extended(c) = selection
  BY <1>2 DEF Extended
<1>3. ASSUME selection.start = selection.end
      PROVE  /\ Extended(c) = Between(c, selection.start)
             /\ InOrder(Extended(c))
  <2>1. Extended(c) = CaretMoved(TRUE, c)
    BY <1>3 DEF Extended
  <2>2. Left(TRUE, c) = selection.start
    BY <1>3 DEF Left
  <2>3. CaretMoved(TRUE, c) = Between(c, selection.start)
    BY <2>2, CaretMovedIs
  <2>4. /\ CaretMoved(TRUE, c) \in Selections(Cursors)
        /\ IsOrdered(CaretMoved(TRUE, c))
    BY CaretMovedType
  <2> QED BY <2>1, <2>3, <2>4 DEF InOrder, IsOrdered
<1>4. /\ ~Before(c, selection.start) =>
             /\ Between(c, selection.start).start = selection.start
             /\ Between(c, selection.start).end = c
      /\ Before(c, selection.start) =>
             /\ Between(c, selection.start).start = c
             /\ Between(c, selection.start).end = selection.start
  BY DEF Between
<1>5. ~Before(selection.start, c) /\ ~Before(c, selection.start) => c = selection.start
  BY <1>1, BeforeIsOrder
<1> QED BY <1>1, <1>2, <1>3, <1>4, <1>5

LEMMA NeighboursInText ==
    ASSUME TypeOK, Ordered
    PROVE  /\ CharBefore(selection.caret) \in Cursors /\ InText(CharBefore(selection.caret))
           /\ ~Before(selection.caret, CharBefore(selection.caret))
           /\ CharAfter(selection.caret) \in Cursors /\ InText(CharAfter(selection.caret))
           /\ ~Before(CharAfter(selection.caret), selection.caret)
BY OrderedSelection, CharBeforeIs, CharAfterIs DEF Ahead, Behind

(* Where a move takes the caret.                                           *)
EndLags(dir) == dir = "LINE_END" /\ selection.caret.p \in lagging

LEMMA TargetsInText ==
    ASSUME TypeOK, Ordered, NEW dir \in Forwards \cup Backwards,
           NEW c \in Targets(dir, selection.caret) \cup OldTargets(dir, selection.caret)
    PROVE  /\ c \in Cursors /\ (InText(c) \/ EndLags(dir))
           /\ dir \in Forwards => ~Before(c, selection.caret)
           /\ dir \in Backwards => ~Before(selection.caret, c)
<1>1. selection.caret \in Cursors /\ InText(selection.caret)
  BY OrderedSelection
<1>2. CASE c \in Targets(dir, selection.caret)
  BY <1>1, <1>2, ForwardTargets, BackwardTargets DEF Ahead, Behind
<1>3. CASE c \in OldTargets(dir, selection.caret)
  <2>1. CASE dir = "LINE_START"
    <3>1. c = selection.caret
      BY <1>1, <1>3, <2>1, OldTargetsAre
    <3>2. ~Before(c, c)
      BY <1>1, <3>1, StayIs DEF Ahead
    <3> QED BY <1>1, <3>1, <3>2
  <2>2. CASE dir = "LINE_END"
    <3>1. dir \notin Backwards
      BY <2>2 DEF Backwards
    <3> QED BY <1>1, <1>3, <2>2, <3>1, OldTargetsAre DEF EndLags
  <2> QED BY <1>1, <1>3, <2>1, <2>2, OldTargetsAre
<1> QED BY <1>2, <1>3

LEMMA KeysKeepOrder ==
    ASSUME TypeOK, Ordered, Keyboard,
           \A shift \in BOOLEAN, dir \in Forwards \cup Backwards :
              EndLags(dir) => ~ChangeSelection(shift, dir)
    PROVE  Ordered'
<1>1. InOrder(selection)
  BY OrderedSelection
<1>2. ASSUME NEW shift \in BOOLEAN, NEW dir \in Forwards \cup Backwards,
             ChangeSelection(shift, dir)
      PROVE  Ordered'
  <2>1. OrderedIn(paragraphs, selection')
    <3>1. CASE ~shift /\ selection.start # selection.end
      <4> DEFINE c == IF dir \in Backwards THEN selection.start ELSE selection.end
      <4>1. selection' = At(c)
        BY <1>2, <3>1 DEF ChangeSelection
      <4>2. c \in Cursors /\ InText(c)
        BY SelectionIs DEF Ordered
      <4> HIDE DEF c
      <4>3. c \in CursorsOf(paragraphs) /\ c.o <= Len(paragraphs[c.p + 1])
        BY <4>2, CursorsOfText, HereIs DEF Para
      <4>4. OrderedIn(paragraphs, At(c))
        BY <4>3, ParagraphsAre, OrderedAt
      <4> QED BY <4>1, <4>4
    <3>2. CASE ~(~shift /\ selection.start # selection.end)
      <4>1. PICK c \in Targets(dir, selection.caret) \cup OldTargets(dir, selection.caret) :
               selection' = CaretMoved(shift, c)
        BY <1>2, <3>2 DEF ChangeSelection
      <4>2. c \in Cursors /\ InText(c)
        BY <1>2, TargetsInText
      <4>3. IsOrdered(CaretMoved(shift, c))
        BY <4>2, CaretMovedType
      <4> QED BY <4>1, <4>3, OrderedIs
    <3> QED BY <3>1, <3>2
  <2>2. paragraphs' = paragraphs
    BY <1>2 DEF ChangeSelection
  <2> QED BY <2>1, <2>2, OrderedIs
<1>3. ASSUME NEW ch \in Typed \cup {NL}, Type(ch) PROVE Ordered'
  BY <1>1, <1>3, ReplaceOrders, TextsAre DEF Type
<1>4. ASSUME NEW t \in Pasted, Paste(t) PROVE Ordered'
  BY <1>1, <1>4, ReplaceOrders, TextsAre DEF Paste
<1>5. CASE Cut
  BY <1>1, <1>5, ReplaceOrders, TextsAre DEF Cut
<1>6. CASE Enter
  BY <1>6, EnterOrders
<1>7. CASE Backspace
  <2>1. InOrder(Extended(CharBefore(selection.caret)))
    BY NeighboursInText, ExtendedIs
  <2> QED BY <1>7, <2>1, ReplaceOrders, TextsAre DEF Backspace
<1>8. CASE Delete
  <2>1. InOrder(Extended(CharAfter(selection.caret)))
    BY NeighboursInText, ExtendedIs
  <2> QED BY <1>8, <2>1, ReplaceOrders, TextsAre DEF Delete
<1> QED BY <1>2, <1>3, <1>4, <1>5, <1>6, <1>7, <1>8 DEF Keyboard

LEMMA MouseKeepsOrder ==
    ASSUME TypeOK, Ordered, Mouse
    PROVE  Ordered'
<1>1. PICK shift \in BOOLEAN, c \in Hits : Click(shift, c)
  BY DEF Mouse
<1>2. selection' = CaretMoved(shift, c) /\ paragraphs' = paragraphs
  BY <1>1 DEF Click
<1>3. c \in Cursors /\ InText(c)
  BY HitsAreInText
<1>4. IsOrdered(CaretMoved(shift, c))
  BY <1>3, CaretMovedType
<1> QED BY <1>2, <1>4, OrderedIs

LEMMA RemovalKeepsInText ==
    ASSUME TypeOK, NEW p \in Places, RemoveParagraph(p)
    PROVE  AllInText'
<1> DEFINE parts == paragraphs'
           ends == {selection'.start, selection'.end, selection'.caret}
<1>1. /\ parts \in Seq(Seq(Chars)) /\ selection' \in Selections(CursorsOf(parts))
      /\ \A c \in ends : c.o <= Len(parts[c.p + 1])
  BY RemoveParagraphType DEF TextTyped
<1>2. AllInText' <=> \A c \in ends : InParts(parts, c)
  BY DEF AllInText, InText, InParts, LastPara, Para
<1>3. ends \subseteq CursorsOf(parts)
  BY <1>1 DEF Selections
<1> HIDE DEF parts, ends
<1>4. ASSUME NEW c \in ends PROVE InParts(parts, c)
  <2>1. Len(parts) \in Nat /\ c.p \in 0 .. Len(parts) - 1 /\ c.o \in Nat
    BY <1>1, <1>3, LenProperties DEF CursorsOf
  <2>2. c.p + 1 \in 1 .. Len(parts)
    BY <2>1
  <2>3. parts[c.p + 1] \in Seq(Chars)
    BY <1>1, <2>2, ElementOfSeq
  <2>4. Len(parts[c.p + 1]) \in Nat
    BY <2>3, LenProperties
  <2> QED BY <1>1, <2>1, <2>4 DEF InParts
<1> QED BY <1>2, <1>4

(* Keys and mouse leave a selection that is in order in order, for the     *)
(* moves of _change_selection, the hits of _hit_test and every edit, and   *)
(* the removal of a paragraph leaves it in the text (_fix_selection).  The *)
(* one exception is End in a paragraph that has the lines of a text before.*)
THEOREM SelectionStays == Spec => SelectionStaysInText
<1>1. ASSUME TypeOK, [Next]_vars
      PROVE  /\ Ordered /\ ~Ordered' /\ UserInput =>
                   /\ selection.caret.p \in lagging
                   /\ \E shift \in BOOLEAN : ChangeSelection(shift, "LINE_END")
             /\ ~AllInText' => \A p \in Places : ~RemoveParagraph(p)
  <2>1. ASSUME Ordered, ~Ordered', UserInput
        PROVE  /\ selection.caret.p \in lagging
               /\ \E shift \in BOOLEAN : ChangeSelection(shift, "LINE_END")
    <3>1. Keyboard
      BY <1>1, <2>1, MouseKeepsOrder DEF UserInput
    <3> QED BY <1>1, <2>1, <3>1, KeysKeepOrder DEF EndLags
  <2>2. ASSUME NEW p \in Places, RemoveParagraph(p) PROVE AllInText'
    BY <1>1, <2>2, RemovalKeepsInText
  <2> QED BY <2>1, <2>2
<1> QED BY <1>1, TypeCorrect, PTL DEF Spec, SelectionStaysInText

(* A forward key never takes the caret back and a backward key never       *)
(* forward, over lines and paragraphs of any length (_change_selection).   *)
THEOREM MovesKeepDirection == Spec => MovesKeepTheirDirection
<1>1. ASSUME TypeOK, NEW shift \in BOOLEAN, Ordered,
             shift \/ selection.start = selection.end,
             NEW dir \in Forwards \cup Backwards, ChangeSelection(shift, dir)
      PROVE  /\ dir \in Forwards => ~Before(selection'.caret, selection.caret)
             /\ dir \in Backwards => ~Before(selection.caret, selection'.caret)
  <2>1. PICK c \in Targets(dir, selection.caret) \cup OldTargets(dir, selection.caret) :
           selection' = CaretMoved(shift, c)
    BY <1>1 DEF ChangeSelection
  <2>2. /\ c \in Cursors
        /\ dir \in Forwards => ~Before(c, selection.caret)
        /\ dir \in Backwards => ~Before(selection.caret, c)
    BY <1>1, TargetsInText
  <2>3. selection'.caret = c
    BY <1>1, <2>1, <2>2, CaretMovedType
  <2> QED BY <2>2, <2>3
<1>2. ASSUME TypeOK, [Next]_vars
      PROVE  \A shift \in BOOLEAN :
          Ordered /\ (shift \/ selection.start = selection.end) =>
          /\ Before(selection'.caret, selection.caret) =>
                \A dir \in Forwards : ~ChangeSelection(shift, dir)
          /\ Before(selection.caret, selection'.caret) =>
                \A dir \in Backwards : ~ChangeSelection(shift, dir)
  BY <1>1, <1>2
<1> QED BY <1>2, TypeCorrect, PTL DEF Spec, MovesKeepTheirDirection

-----------------------------------------------------------------------------
(* What Backspace and Delete remove of the whole text.                     *)

LEMMA FlatIs ==
    ASSUME TypeOK
    PROVE  /\ Flat(paragraphs) \in Seq(Symbols)
           /\ Len(Flat(paragraphs)) = Len(Broken(paragraphs)) - 1
           /\ Len(Broken(paragraphs)) \in Nat
<1>1. paragraphs \in Seq(Seq(Chars)) /\ Len(paragraphs) \in Nat /\ Len(paragraphs) >= 1
  BY ParagraphsAre
<1>2. Broken(paragraphs) \in Seq(Symbols) /\ Len(Broken(paragraphs)) \in Nat
  BY <1>1, BrokenType
<1>3. Len(Broken(paragraphs)) >= 1
  <2>1. Len(FlattenSeq(paragraphs)) \in Nat
    BY <1>1, FlattenType
  <2>2. Len(Broken(paragraphs)) = Len(paragraphs) + Len(FlattenSeq(paragraphs))
    BY <1>1, BrokenLength
  <2> QED BY <1>1, <2>1, <2>2
<1>4. <<>> \in Seq(Symbols)
  BY EmptySeq
<1> QED BY <1>2, <1>3, <1>4, TailOfConcat DEF Flat

LEMMA NextAboveIs ==
    ASSUME TypeOK, NEW p \in Places
    PROVE  LET above(q) == Len(Broken(SubSeq(paragraphs, 1, q)))
           IN  above(p + 1) = above(p) + (Len(Para(p)) + 1)
<1> DEFINE A == SubSeq(paragraphs, 1, p)
           t == Para(p)
<1>1. /\ p \in Nat /\ p < Len(paragraphs) /\ Len(paragraphs) \in Nat
      /\ paragraphs \in Seq(Seq(Chars)) /\ t \in Seq(Chars)
  BY ParagraphsAre
<1>2. SubSeq(paragraphs, 1, p + 1) = A \o <<t>>
  <2>1. 1 \in 1 .. Len(paragraphs) /\ p + 1 \in 1 .. Len(paragraphs) /\ (p + 1) - 1 = p
    BY <1>1
  <2>2. SubSeq(paragraphs, 1, p + 1) = SubSeq(paragraphs, 1, (p + 1) - 1) \o <<paragraphs[p + 1]>>
    BY <1>1, <2>1, SubSeqRecursiveSecond
  <2> QED BY <2>1, <2>2 DEF Para
<1>3. A \in Seq(Seq(Chars)) /\ <<t>> \in Seq(Seq(Chars))
  <2>1. p \in 0 .. Len(paragraphs)
    BY <1>1
  <2> QED BY <1>1, <2>1, AboveIs
<1> HIDE DEF A, t
<1>4. Broken(A \o <<t>>) = Broken(A) \o (<<ParagraphBreak>> \o t)
  BY <1>1, <1>3, BrokenConcat, BrokenOfOne
<1>5. /\ <<ParagraphBreak>> \o t \in Seq(Symbols) /\ Len(<<ParagraphBreak>> \o t) = Len(t) + 1
      /\ Broken(A) \in Seq(Symbols)
  BY <1>1, <1>3, TextsAreSymbols, MarkIs, BrokenType
<1>6. Len(Broken(A) \o (<<ParagraphBreak>> \o t)) = Len(Broken(A)) + (Len(t) + 1)
  BY <1>5, ConcatProperties
<1> QED BY <1>2, <1>4, <1>6 DEF A, t

LEMMA PlaceAfter ==
    ASSUME TypeOK, NEW c \in Cursors, InText(c)
    PROVE  \/ Place(CharAfter(c)) = Place(c) + 1
           \/ CharAfter(c) = c /\ Place(c) = Len(Flat(paragraphs))
<1>1. /\ c.p \in Places /\ c.p \in Nat /\ c.o \in Nat /\ Len(Para(c.p)) \in Nat
      /\ c.o <= Len(Para(c.p)) /\ c.p <= LastPara /\ LastPara \in Nat
      /\ c.p < LastPara => c.p + 1 \in Places
      /\ LastPara = Len(paragraphs) - 1
  BY HereIs, ParagraphsAre
<1> DEFINE above(q) == Len(Broken(SubSeq(paragraphs, 1, q)))
<1>2. Place(c) = above(c.p) + c.o /\ above(c.p) \in Nat
  BY PlaceIs
<1>3. above(c.p + 1) = above(c.p) + (Len(Para(c.p)) + 1)
  BY <1>1, NextAboveIs
<1>4. CASE c.o < Len(Para(c.p))
  <2>1. CharAfter(c) = Cursor(c.p, c.o + 1)
    BY <1>4 DEF CharAfter
  <2>2. /\ Cursor(c.p, c.o + 1) \in Cursors /\ Cursor(c.p, c.o + 1).p = c.p
        /\ Cursor(c.p, c.o + 1).o = c.o + 1
    BY <1>1, CursorsAre
  <2>3. Place(Cursor(c.p, c.o + 1)) = above(c.p) + (c.o + 1)
    BY <2>2, PlaceIs
  <2> HIDE DEF above
  <2> QED BY <1>1, <1>2, <2>1, <2>3
<1>5. CASE ~(c.o < Len(Para(c.p))) /\ c.p < LastPara
  <2>1. CharAfter(c) = Cursor(c.p + 1, 0)
    BY <1>5 DEF CharAfter, NextPara
  <2>2. /\ Cursor(c.p + 1, 0) \in Cursors /\ Cursor(c.p + 1, 0).p = c.p + 1
        /\ Cursor(c.p + 1, 0).o = 0
    BY <1>1, <1>5, CursorsAre
  <2>3. Place(Cursor(c.p + 1, 0)) = above(c.p + 1) + 0 /\ above(c.p + 1) \in Nat
    BY <2>2, PlaceIs
  <2> HIDE DEF above
  <2> QED BY <1>1, <1>2, <1>3, <1>5, <2>1, <2>3
<1>6. CASE ~(c.o < Len(Para(c.p))) /\ ~(c.p < LastPara)
  <2>1. CharAfter(c) = c
    BY <1>6 DEF CharAfter, NextPara
  <2>2. c.p + 1 = Len(paragraphs) /\ c.o = Len(Para(c.p))
    BY <1>1, <1>6
  <2>3. above(c.p + 1) = Len(Broken(paragraphs))
    BY <2>2, ParagraphsAre, SubSeqFull
  <2> HIDE DEF above
  <2>4. Place(c) = Len(Flat(paragraphs))
    BY SMTT(30), <1>1, <1>2, <1>3, <2>2, <2>3, FlatIs
  <2> QED BY <2>1, <2>4
<1> QED BY <1>4, <1>5, <1>6

LEMMA PlaceBefore ==
    ASSUME TypeOK, NEW c \in Cursors, InText(c)
    PROVE  \/ Place(CharBefore(c)) = Place(c) - 1
           \/ CharBefore(c) = c /\ Place(c) = 0
<1>1. /\ c.p \in Places /\ c.p \in Nat /\ c.o \in Nat /\ Len(Para(c.p)) \in Nat
      /\ c.o <= Len(Para(c.p)) /\ (c.p > 0 => c.p - 1 \in Places)
  BY HereIs DEF InText
<1> DEFINE above(q) == Len(Broken(SubSeq(paragraphs, 1, q)))
<1>2. Place(c) = above(c.p) + c.o /\ above(c.p) \in Nat
  BY PlaceIs
<1>3. CASE c.o > 0
  <2>0. c.o - 1 \in Nat /\ c.o - 1 <= Len(Para(c.p))
    <3> DEFINE o == c.o
               length == Len(Para(c.p))
    <3>1. o \in Nat /\ length \in Nat /\ o <= length /\ o > 0
      BY <1>1, <1>3, Zenon
    <3> HIDE DEF o, length
    <3>2. o - 1 \in Nat /\ o - 1 <= length
      BY <3>1
    <3> QED BY <3>2, Zenon DEF o, length
  <2>1. CharBefore(c) = Cursor(c.p, c.o - 1) /\ c.o - 1 \in Nat
    <3>1. Less(c.o - 1, Len(Para(c.p))) = c.o - 1
      <4> DEFINE before == c.o - 1
                 length == Len(Para(c.p))
      <4>1. before \in Nat /\ length \in Nat /\ before <= length
        BY <1>1, <2>0
      <4> HIDE DEF before, length
      <4>2. Less(before, length) = before
        BY <4>1 DEF Less
      <4> QED BY <4>2 DEF before, length
    <3> QED BY <1>3, <2>0, <3>1, Zenon DEF CharBefore
  <2>2. /\ Cursor(c.p, c.o - 1) \in Cursors /\ Cursor(c.p, c.o - 1).p = c.p
        /\ Cursor(c.p, c.o - 1).o = c.o - 1
    BY <1>1, <2>1, CursorsAre
  <2>3. Place(Cursor(c.p, c.o - 1)) = above(c.p) + (c.o - 1)
    BY <2>2, PlaceIs
  <2> HIDE DEF above
  <2> QED BY <1>1, <1>2, <2>1, <2>3
<1>4. CASE ~(c.o > 0) /\ c.p > 0
  <2> DEFINE q == c.p - 1
  <2>1. CharBefore(c) = Cursor(q, Len(Para(q)))
    BY <1>4 DEF CharBefore, PrevPara, ParaEnd
  <2>2. q \in Places /\ Len(Para(q)) \in Nat /\ q + 1 = c.p
    BY SMTT(30), <1>1, <1>4, ParagraphsAre
  <2> HIDE DEF q
  <2>3. /\ Cursor(q, Len(Para(q))) \in Cursors /\ Cursor(q, Len(Para(q))).p = q
        /\ Cursor(q, Len(Para(q))).o = Len(Para(q))
    BY <2>2, CursorsAre
  <2>4. Place(Cursor(q, Len(Para(q)))) = above(q) + Len(Para(q)) /\ above(q) \in Nat
    BY <2>3, PlaceIs
  <2>5. above(q + 1) = above(q) + (Len(Para(q)) + 1)
    BY <2>2, NextAboveIs
  <2> HIDE DEF above
  <2> QED BY <1>1, <1>2, <1>4, <2>1, <2>2, <2>4, <2>5
<1>5. CASE ~(c.o > 0) /\ ~(c.p > 0)
  <2>1. CharBefore(c) = c /\ c.p = 0 /\ c.o = 0
    BY <1>1, <1>5 DEF CharBefore, PrevPara
  <2>2. SubSeq(paragraphs, 1, 0) = <<>>
    BY SubSeqEmpty
  <2>3. above(c.p) = 0
    <3>1. Broken(SubSeq(paragraphs, 1, c.p)) = <<>>
      BY <2>1, <2>2, BrokenOfNone, Zenon
    <3>2. Len(<<>>) = 0
      OBVIOUS
    <3> QED BY <3>1, <3>2, Zenon
  <2> HIDE DEF above
  <2> QED BY <1>2, <2>1, <2>3
<1> QED BY <1>3, <1>4, <1>5

LEMMA NothingSpliced ==
    ASSUME NEW S, NEW t \in Seq(S), NEW n \in Int
    PROVE  Spliced(t, n, n, <<>>) = t
<1>1. <<>> \in Seq(S) /\ Len(t) \in Nat
  BY EmptySeq, LenProperties
<1>2. CASE ~InRange(t, n, n)
  BY <1>1, <1>2, SplicedIs
<1>3. CASE InRange(t, n, n)
  <2>1. n \in 0 .. Len(t)
    BY <1>1, <1>3 DEF InRange
  <2>2. PICK f, l : IsHalved(S, t, n, f, l)
    BY <2>1, HalvedIs
  <2>3. IsInserted(t, n, n, <<>>)
    BY <1>3, InsertedIs
  <2>4. /\ f \in Seq(S) /\ t = f \o l
        /\ f = SubSeq(t, 1, n) /\ l = SubSeq(t, n + 1, Len(t))
    BY <2>2, Zenon DEF IsHalved
  <2>5. f \o <<>> = f
    BY <2>4, ConcatEmptySeq
  <2> QED BY <2>3, <2>4, <2>5, Zenon DEF IsInserted
<1> QED BY <1>2, <1>3

LEMMA OutOfRange ==
    ASSUME NEW t, NEW from, NEW to, NEW new, from < 0 \/ to > Len(t)
    PROVE  Spliced(t, from, to, new) = t
BY DEF Spliced

-----------------------------------------------------------------------------
(* The edits.                                                              *)

LEMMA ReplaceEdits ==
    ASSUME TypeOK, NEW sel, InOrder(sel), NEW new \in Seq(Chars), Replace(sel, new)
    PROVE  Flat(paragraphs') =
               Spliced(Flat(paragraphs), Place(sel.start), Place(sel.end), new)
<1>1. paragraphs' = ParagraphsWith(sel, new)
  BY DEF Replace
<1>2. Flat(paragraphs') = Flat(ParagraphsWith(sel, new))
  BY <1>1
<1> QED BY <1>2, EditIs

(* The caret of a selection has no part in an edit.                        *)
LEMMA ScriptEdits ==
    ASSUME TypeOK, NEW sel \in ScriptSelections, InText(sel.start), InText(sel.end),
           ~Before(sel.end, sel.start), NEW new \in Seq(Chars), ReplaceText(sel, new)
    PROVE  Flat(paragraphs') =
               Spliced(Flat(paragraphs), Place(sel.start), Place(sel.end), new)
<1> DEFINE ends == [start |-> sel.start, end |-> sel.end, caret |-> sel.end]
<1>1. sel.start \in [p : Int, o : Int] /\ sel.end \in [p : Int, o : Int]
  BY ScriptsAssumption DEF Selections
<1>2. ASSUME NEW c \in [p : Int, o : Int], InText(c) PROVE c \in Cursors
  <2>1. c.p \in Places /\ c.o \in Nat
    BY <1>2 DEF InText, Places
  <2> QED BY <1>2, <2>1 DEF Cursors
<1>3. sel.start \in Cursors /\ sel.end \in Cursors
  BY <1>1, <1>2
<1>4. ends.start = sel.start /\ ends.end = sel.end
  OBVIOUS
<1>5. InOrder(ends)
  BY <1>3 DEF InOrder, Selections
<1> HIDE DEF ends
<1>6. ParagraphsWith(sel, new) = ParagraphsWith(ends, new)
  BY <1>4 DEF ParagraphsWith, ShownOf, LastOf, ReplacedText, Merged, MergeOffset
<1>7. paragraphs' = ParagraphsWith(ends, new)
  BY <1>6 DEF ReplaceText, Replace
<1>8. Flat(paragraphs') = Flat(ParagraphsWith(ends, new))
  BY <1>7
<1> QED BY <1>4, <1>5, <1>8, EditIs

LEMMA BackspaceEdits ==
    ASSUME TypeOK, Ordered, Backspace
    PROVE  LET text == Flat(paragraphs)
               from == Place(selection.start)
           IN  Flat(paragraphs') =
                   IF selection.start = selection.end THEN Spliced(text, from - 1, from, <<>>)
                   ELSE FlatWith(<<>>)
<1> DEFINE c == CharBefore(selection.caret)
           text == Flat(paragraphs)
           from == Place(selection.start)
<1>1. /\ c \in Cursors /\ InText(c) /\ ~Before(selection.caret, c)
      /\ selection.start = selection.end => selection.caret = selection.start
      /\ <<>> \in Seq(Chars)
  BY NeighboursInText, OrderedSelection, TextsAre
<1>2. Replace(Extended(c), <<>>)
  BY DEF Backspace
<1>3. InOrder(Extended(c))
  BY <1>1, ExtendedIs
<1>4. Flat(paragraphs') =
          Spliced(text, Place(Extended(c).start), Place(Extended(c).end), <<>>)
  BY <1>1, <1>2, <1>3, ReplaceEdits
<1>5. CASE selection.start # selection.end
  <2>1. Extended(c) = selection
    BY <1>1, <1>5, ExtendedIs
  <2> QED BY <1>4, <1>5, <2>1 DEF FlatWith
<1>6. CASE selection.start = selection.end
  <2>1. Extended(c).start = c /\ Extended(c).end = selection.start
    BY <1>1, <1>6, ExtendedIs
  <2>2. Flat(paragraphs') = Spliced(text, Place(c), from, <<>>)
    BY <1>4, <2>1
  <2>3. Place(c) = from - 1 \/ (c = selection.caret /\ from = 0)
    BY <1>1, <1>6, OrderedSelection, PlaceBefore
  <2>4. text \in Seq(Symbols) /\ from \in Nat
    BY FlatIs, SelectionIs, PlaceIs
  <2>5. CASE c = selection.caret /\ from = 0
    <3>1. Place(c) = from
      BY <1>1, <1>6, <2>5
    <3> HIDE DEF text, from, c
    <3>2. Spliced(text, from, from, <<>>) = text
      BY <2>4, NothingSpliced
    <3>3. Spliced(text, from - 1, from, <<>>) = text
      <4>1. from - 1 < 0
        BY <2>5
      <4> QED BY <4>1, OutOfRange
    <3> QED BY <1>6, <2>2, <3>1, <3>2, <3>3 DEF text, from
  <2>6. CASE Place(c) = from - 1
    BY <1>6, <2>2, <2>6
  <2> QED BY <2>3, <2>5, <2>6
<1> QED BY <1>5, <1>6

LEMMA DeleteEdits ==
    ASSUME TypeOK, Ordered, Delete
    PROVE  LET text == Flat(paragraphs)
               from == Place(selection.start)
           IN  Flat(paragraphs') =
                   IF selection.start = selection.end THEN Spliced(text, from, from + 1, <<>>)
                   ELSE FlatWith(<<>>)
<1> DEFINE c == CharAfter(selection.caret)
           text == Flat(paragraphs)
           from == Place(selection.start)
<1>1. /\ c \in Cursors /\ InText(c) /\ ~Before(c, selection.caret)
      /\ selection.start = selection.end => selection.caret = selection.start
      /\ <<>> \in Seq(Chars)
  BY NeighboursInText, OrderedSelection, TextsAre
<1>2. Replace(Extended(c), <<>>)
  BY DEF Delete
<1>3. InOrder(Extended(c))
  BY <1>1, ExtendedIs
<1>4. Flat(paragraphs') =
          Spliced(text, Place(Extended(c).start), Place(Extended(c).end), <<>>)
  BY <1>1, <1>2, <1>3, ReplaceEdits
<1>5. CASE selection.start # selection.end
  <2>1. Extended(c) = selection
    BY <1>1, <1>5, ExtendedIs
  <2> QED BY <1>4, <1>5, <2>1 DEF FlatWith
<1>6. CASE selection.start = selection.end
  <2>1. Extended(c).start = selection.start /\ Extended(c).end = c
    BY <1>1, <1>6, ExtendedIs
  <2>2. Flat(paragraphs') = Spliced(text, from, Place(c), <<>>)
    BY <1>4, <2>1
  <2>3. Place(c) = from + 1 \/ (c = selection.caret /\ from = Len(text))
    BY <1>1, <1>6, OrderedSelection, PlaceAfter
  <2>4. text \in Seq(Symbols) /\ from \in Nat
    BY FlatIs, SelectionIs, PlaceIs
  <2>5. CASE c = selection.caret /\ from = Len(text)
    <3>1. Place(c) = from
      BY <1>1, <1>6, <2>5
    <3> HIDE DEF text, from, c
    <3>2. Spliced(text, from, from, <<>>) = text
      BY <2>4, NothingSpliced
    <3>3. Spliced(text, from, from + 1, <<>>) = text
      <4>1. from + 1 > Len(text)
        BY <2>4, <2>5
      <4> QED BY <4>1, OutOfRange
    <3> QED BY <1>6, <2>2, <3>1, <3>2, <3>3 DEF text, from
  <2>6. CASE Place(c) = from + 1
    BY <1>6, <2>2, <2>6
  <2> QED BY <2>3, <2>5, <2>6
<1> QED BY <1>5, <1>6

(* An edit of a selection that is in order replaces what is selected of    *)
(* the whole text and nothing else, however many paragraphs it merges, and *)
(* with nothing selected Backspace and Delete remove the character or the  *)
(* paragraph break next to the caret (replace_text, _gui_input).           *)
THEOREM EditsReplace == Spec => EditsReplaceTheSelection
<1>1. ASSUME TypeOK, Ordered, NEW t \in Seq(Chars), Replace(selection, t)
      PROVE  Flat(paragraphs') = FlatWith(t)
  BY <1>1, OrderedSelection, ReplaceEdits DEF FlatWith
<1>2. ASSUME TypeOK, [Next]_vars, Ordered
      PROVE
        /\ \A t \in Pasted : Paste(t) => Flat(paragraphs') = FlatWith(t)
        /\ Cut => Flat(paragraphs') = FlatWith(<<>>)
        /\ \A sel \in ScriptSelections, t \in Pasted :
             InText(sel.start) /\ InText(sel.end) /\ ~Before(sel.end, sel.start)
                /\ ReplaceText(sel, t) =>
             Flat(paragraphs') = Spliced(Flat(paragraphs), Place(sel.start), Place(sel.end), t)
        /\ LET text == Flat(paragraphs)
               from == Place(selection.start)
               empty == selection.start = selection.end
           IN  /\ Backspace => Flat(paragraphs') =
                    IF empty THEN Spliced(text, from - 1, from, <<>>) ELSE FlatWith(<<>>)
               /\ Delete => Flat(paragraphs') =
                    IF empty THEN Spliced(text, from, from + 1, <<>>) ELSE FlatWith(<<>>)
  <2>1. ASSUME NEW t \in Pasted, Paste(t) PROVE Flat(paragraphs') = FlatWith(t)
    BY <1>1, <1>2, <2>1, TextsAre DEF Paste
  <2>2. ASSUME Cut PROVE Flat(paragraphs') = FlatWith(<<>>)
    BY <1>1, <1>2, <2>2, TextsAre DEF Cut
  <2>3. ASSUME NEW sel \in ScriptSelections, NEW t \in Pasted, InText(sel.start),
               InText(sel.end), ~Before(sel.end, sel.start), ReplaceText(sel, t)
        PROVE  Flat(paragraphs') = Spliced(Flat(paragraphs), Place(sel.start), Place(sel.end), t)
    BY <1>2, <2>3, ScriptEdits, TextsAre
  <2> QED BY <1>2, <2>1, <2>2, <2>3, BackspaceEdits, DeleteEdits
<1> QED BY <1>2, TypeCorrect, PTL DEF Spec, EditsReplaceTheSelection

(* While text is composed, the paragraph that previews it stands where the *)
(* edit would put it: the whole text shown is the one the composed text    *)
(* would give if it were entered (NOTIFICATION_OS_IME_UPDATE).             *)
THEOREM CompositionShows == Spec => CompositionShowsTheEdit
<1>1. ASSUME TypeOK, [Next]_vars
      PROVE  \A t \in Composed : Ordered /\ ImeUpdate(t) => Flat(Shown') = FlatWith(t)
  <2> SUFFICES ASSUME NEW t \in Composed, Ordered, ImeUpdate(t)
               PROVE  Flat(Shown') = FlatWith(t)
    OBVIOUS
  <2>1. t # <<>> /\ t \in Seq(Chars)
    BY TextsAssumption
  <2>2. /\ ime' = <<Preview(t)>> /\ paragraphs' = paragraphs /\ selection' = selection
    BY <2>1 DEF ImeUpdate
  <2>3. Preview(t) = ReplacedText(selection, t)
    BY DEF Preview, ReplacedText
  <2>4. Shown' = ParagraphsWith(selection, t)
    BY <2>2, <2>3 DEF Shown, ParagraphsWith
  <2>5. Flat(ParagraphsWith(selection, t)) = FlatWith(t)
    BY <1>1, <2>1, OrderedSelection, EditIs DEF FlatWith
  <2> QED BY <2>4, <2>5
<1> QED BY <1>1, TypeCorrect, PTL DEF Spec, CompositionShowsTheEdit

-----------------------------------------------------------------------------
(* Enter: the text without its line breaks.                                *)

Single(x) == IF x = NL THEN <<>> ELSE <<x>>
Singles(t) == [i \in DOMAIN t |-> Single(t[i])]

LEMMA SinglesAre ==
    ASSUME NEW t \in Seq(Symbols)
    PROVE  /\ Singles(t) \in Seq(Seq(Symbols)) /\ Len(Singles(t)) = Len(t)
           /\ \A i \in 1 .. Len(t) : Singles(t)[i] = Single(t[i])
           /\ WithoutBreaks(t) = FlattenSeq(Singles(t)) /\ WithoutBreaks(t) \in Seq(Symbols)
<1>1. Len(t) \in Nat /\ DOMAIN t = 1 .. Len(t)
  BY LenProperties
<1>2. ASSUME NEW i \in 1 .. Len(t) PROVE Single(t[i]) \in Seq(Symbols)
  <2>1. t[i] \in Symbols
    BY ElementOfSeq
  <2>2. <<t[i]>> \in Seq(Symbols) /\ <<>> \in Seq(Symbols)
    BY <2>1, EmptySeq
  <2> QED BY <2>2 DEF Single
<1> DEFINE N == Len(t)
           singles == [i \in 1 .. N |-> Single(t[i])]
<1>3. Singles(t) = singles
  BY <1>1 DEF Singles
<1>4. singles \in [1 .. N -> Seq(Symbols)] /\ \A i \in 1 .. N : singles[i] = Single(t[i])
  BY <1>2
<1> HIDE DEF singles
<1>5. singles \in Seq(Seq(Symbols)) /\ Len(singles) = N
  BY <1>1, <1>4
<1>6. WithoutBreaks(t) = FlattenSeq(Singles(t))
  BY DEF WithoutBreaks, Singles, Single
<1>7. FlattenSeq(singles) \in Seq(Symbols)
  BY <1>5, FlattenType
<1> QED BY <1>3, <1>4, <1>5, <1>6, <1>7

(* Line breaks are left out of each part of a text by itself.              *)
LosesApart(x, y) == WithoutBreaks(x \o y) = WithoutBreaks(x) \o WithoutBreaks(y)

LEMMA WithoutConcat ==
    ASSUME NEW x \in Seq(Symbols), NEW y \in Seq(Symbols)
    PROVE  LosesApart(x, y) /\ x \o y \in Seq(Symbols)
<1> DEFINE M == Len(x)
           N == Len(y)
           xy == x \o y
           S == Seq(Symbols)
<1>1. /\ xy \in S /\ M \in Nat /\ N \in Nat /\ Len(xy) = M + N
      /\ \A i \in 1 .. M + N : xy[i] = IF i <= M THEN x[i] ELSE y[i - M]
  BY ConcatProperties, LenProperties
<1>2. /\ Singles(x) \in Seq(S) /\ Len(Singles(x)) = M
      /\ \A i \in 1 .. M : Singles(x)[i] = Single(x[i])
      /\ Singles(y) \in Seq(S) /\ Len(Singles(y)) = N
      /\ \A i \in 1 .. N : Singles(y)[i] = Single(y[i])
  BY SinglesAre
<1> HIDE DEF xy
<1>3. /\ Singles(xy) \in Seq(S) /\ Len(Singles(xy)) = M + N
      /\ \A i \in 1 .. M + N : Singles(xy)[i] = Single(xy[i])
  <2>1. /\ Singles(xy) \in Seq(S) /\ Len(Singles(xy)) = Len(xy)
        /\ \A i \in 1 .. Len(xy) : Singles(xy)[i] = Single(xy[i])
    BY <1>1, SinglesAre
  <2> QED BY <1>1, <2>1
<1> DEFINE joined == Singles(x) \o Singles(y)
<1>4. /\ joined \in Seq(S) /\ Len(joined) = M + N
      /\ \A i \in 1 .. M + N : joined[i] = IF i <= M THEN Singles(x)[i] ELSE Singles(y)[i - M]
  <2> DEFINE sx == Singles(x)
             sy == Singles(y)
  <2>1. sx \in Seq(S) /\ sy \in Seq(S) /\ Len(sx) = M /\ Len(sy) = N
    BY <1>2
  <2> HIDE DEF sx, sy, M, N, S
  <2>2. IsJoin(sx \o sy, sx, sy, S, M, N)
    BY <2>1, JoinedPoints, Zenon DEF S
  <2> QED BY <2>2, Zenon DEF sx, sy, IsJoin
<1> HIDE DEF M, N, S, joined
<1>5. ASSUME NEW i \in 1 .. M + N PROVE Singles(xy)[i] = joined[i]
  <2>0. Singles(xy)[i] = Single(xy[i])
    BY <1>3
  <2>1. CASE i <= M
    <3>1. i \in 1 .. M
      BY <1>1, <2>1
    <3>2. xy[i] = x[i] /\ joined[i] = Singles(x)[i]
      BY <1>1, <1>4, <2>1
    <3>3. Singles(x)[i] = Single(x[i])
      BY <1>2, <3>1
    <3> QED BY <2>0, <3>2, <3>3, Zenon
  <2>2. CASE ~(i <= M)
    <3>1. i - M \in 1 .. N
      BY <1>1, <2>2
    <3>2. xy[i] = y[i - M] /\ joined[i] = Singles(y)[i - M]
      BY <1>1, <1>4, <2>2
    <3>3. Singles(y)[i - M] = Single(y[i - M])
      BY <1>2, <3>1
    <3> QED BY <2>0, <3>2, <3>3, Zenon
  <2> QED BY <2>1, <2>2
<1>6. Singles(xy) = joined
  BY <1>3, <1>4, <1>5, SeqEqual
<1>7. FlattenSeq(joined) = FlattenSeq(Singles(x)) \o FlattenSeq(Singles(y))
  BY <1>2, FlattenConcat DEF joined, S
<1>8. /\ WithoutBreaks(xy) = FlattenSeq(Singles(xy))
      /\ WithoutBreaks(x) = FlattenSeq(Singles(x)) /\ WithoutBreaks(y) = FlattenSeq(Singles(y))
  BY <1>1, SinglesAre DEF S
<1> QED BY <1>1, <1>6, <1>7, <1>8, Zenon DEF xy, S, LosesApart

LEMMA FlattenOfEmpties ==
    ASSUME NEW S, NEW parts \in Seq(Seq(S)), \A i \in 1 .. Len(parts) : parts[i] = <<>>
    PROVE  FlattenSeq(parts) = <<>>
<1> DEFINE N == Len(parts)
<1>1. PICK a : Growing(a, parts, S)
  BY GrowingExists
<1>2. FlattenSeq(parts) = a[N]
  BY <1>1, FlattenGrows
<1>3. N \in Nat /\ a[0] = <<>> /\ \A n \in 1 .. N : a[n] = a[n - 1] \o parts[n]
  BY <1>1, LenProperties DEF Growing
<1> DEFINE G == {n \in 0 .. N : a[n] = <<>>}
<1>4. 0 \in G
  BY <1>3
<1>5. ASSUME NEW n \in 1 .. N, n - 1 \in G PROVE n \in G
  <2>1. a[n] = <<>> \o <<>>
    BY <1>3, <1>5
  <2>2. <<>> \in Seq(S)
    BY EmptySeq
  <2>3. a[n] = <<>>
    BY <2>1, <2>2, ConcatEmptySeq
  <2> QED BY <1>3, <2>3
<1>6. \A n \in 0 .. N : n \in G
  <2> HIDE DEF G, N
  <2> QED BY <1>3, <1>4, <1>5, InductionUpTo
<1>7. N \in 0 .. N
  BY <1>3
<1> QED BY <1>2, <1>6, <1>7

LEMMA BreaksAreLeftOut ==
    ASSUME NEW t \in Seq(Chars), NEW m \in Int, NEW n \in Int, m >= 1, n <= Len(t),
           \A i \in m .. n : t[i] = NL
    PROVE  SubSeq(t, m, n) \in Seq(Symbols) /\ WithoutBreaks(SubSeq(t, m, n)) = <<>>
<1> DEFINE piece == SubSeq(t, m, n)
<1>1. /\ piece \in Seq(Chars) /\ Len(piece) \in Nat
      /\ m <= n + 1 => Len(piece) = (n + 1) - m
      /\ \A i \in 1 .. Len(piece) : piece[i] = t[m + i - 1]
  BY PieceIs
<1>2. piece \in Seq(Symbols)
  BY <1>1, TextsAreSymbols
<1>3. ASSUME NEW i \in 1 .. Len(piece) PROVE piece[i] = NL
  <2>1. CASE m <= n + 1
    <3>1. m + i - 1 \in m .. n
      <4> HIDE DEF piece
      <4> QED BY <1>1, <2>1
    <3> QED BY <1>1, <3>1
  <2>2. CASE ~(m <= n + 1)
    <3>1. piece = <<>>
      <4>1. n < m
        BY <2>2
      <4> QED BY <4>1, SubSeqEmpty
    <3> HIDE DEF piece
    <3>2. Len(piece) = 0
      BY <3>1
    <3> QED BY <3>2
  <2> QED BY <2>1, <2>2
<1> HIDE DEF piece
<1>4. /\ Singles(piece) \in Seq(Seq(Symbols)) /\ Len(Singles(piece)) = Len(piece)
      /\ \A i \in 1 .. Len(piece) : Singles(piece)[i] = Single(piece[i])
      /\ WithoutBreaks(piece) = FlattenSeq(Singles(piece))
  BY <1>2, SinglesAre
<1>5. \A i \in 1 .. Len(Singles(piece)) : Singles(piece)[i] = <<>>
  BY <1>3, <1>4 DEF Single
<1>6. FlattenSeq(Singles(piece)) = <<>>
  BY <1>4, <1>5, FlattenOfEmpties
<1> QED BY <1>2, <1>4, <1>6 DEF piece

(* The trimmed substr loses line breaks only.                              *)
LEMMA TrimmedLosesBreaks ==
    ASSUME NEW t \in Seq(Chars), NEW from \in Nat, NEW to \in Nat, from <= to, to <= Len(t)
    PROVE  WithoutBreaks(TrimmedSubstr(t, from, to)) = WithoutBreaks(SubSeq(t, from + 1, to))
<1> DEFINE solid == {i \in from + 1 .. to : t[i] # NL}
           kept == {i \in from + 1 .. to : \E j, k \in solid : j <= i /\ i <= k}
<1>0. Len(t) \in Nat
  BY LenProperties
<1>1. TrimmedSubstr(t, from, to) =
          IF kept = {} THEN <<>> ELSE SubSeq(t, Min(kept), Max(kept))
  <2>1. ~(from < 0 \/ to > Len(t) \/ from > to)
    BY <1>0
  <2>2. kept = Kept(t, from, to)
    BY DEF Kept
  <2> HIDE DEF kept
  <2> QED BY <2>1, <2>2 DEF TrimmedSubstr
<1>2. \A i \in from + 1 .. to : i \notin kept => t[i] = NL
  <2>1. ASSUME NEW i \in from + 1 .. to, t[i] # NL PROVE i \in kept
    <3>1. i \in solid /\ i <= i
      BY <2>1
    <3> QED BY <3>1
  <2> QED BY <2>1
<1>3. kept \in SUBSET (from + 1 .. to)
  OBVIOUS
<1> HIDE DEF kept
<1>4. from + 1 \in Int /\ from + 1 >= 1 /\ to \in Int
  OBVIOUS
<1>5. CASE kept = {}
  <2>1. WithoutBreaks(SubSeq(t, from + 1, to)) = <<>>
    BY <1>2, <1>4, <1>5, BreaksAreLeftOut
  <2>2. WithoutBreaks(<<>>) = <<>>
    <3>1. Singles(<<>>) = <<>>
      BY DEF Singles
    <3>2. <<>> \in Seq(Symbols)
      BY EmptySeq
    <3> QED BY <3>1, <3>2, SinglesAre, FlattenOfNone
  <2> QED BY <1>1, <1>5, <2>1, <2>2
<1>6. CASE kept # {}
  <2>1. kept \in SUBSET (0 .. to) /\ kept \in SUBSET Nat
    BY <1>3
  <2>2. Max(kept) \in kept /\ \A n \in kept : n <= Max(kept)
    BY <1>6, <2>1, GreatestIs
  <2>3. Min(kept) \in kept /\ \A n \in kept : Min(kept) <= n
    BY <1>6, <2>1, LeastIs
  <2> DEFINE a == Min(kept)
             b == Max(kept)
  <2>4. /\ a \in from + 1 .. to /\ b \in from + 1 .. to /\ a <= b
        /\ \A n \in kept : a <= n /\ n <= b
    BY <1>3, <2>2, <2>3
  <2>5. TrimmedSubstr(t, from, to) = SubSeq(t, a, b)
    BY <1>1, <1>6
  <2> HIDE DEF a, b
  <2>6. /\ a - 1 \in Int /\ b + 1 \in Int /\ b + 1 >= 1 /\ a - 1 <= Len(t)
        /\ a \in Int /\ a >= 1 /\ b \in Int /\ b <= Len(t)
    BY <1>0, <2>4
  <2>7. \A i \in from + 1 .. a - 1 : t[i] = NL
    <3>1. \A i \in from + 1 .. a - 1 : i \in from + 1 .. to /\ ~(a <= i)
      BY <2>4
    <3> QED BY <1>2, <2>4, <3>1
  <2>8. \A i \in b + 1 .. to : t[i] = NL
    <3>1. \A i \in b + 1 .. to : i \in from + 1 .. to /\ ~(i <= b)
      BY <2>4
    <3> QED BY <1>2, <2>4, <3>1
  <2> DEFINE before == SubSeq(t, from + 1, a - 1)
             part == SubSeq(t, a, b)
             behind == SubSeq(t, b + 1, to)
  <2>9. before \in Seq(Symbols) /\ WithoutBreaks(before) = <<>>
    BY <1>4, <2>6, <2>7, BreaksAreLeftOut
  <2>10. behind \in Seq(Symbols) /\ WithoutBreaks(behind) = <<>>
    BY <1>4, <2>6, <2>8, BreaksAreLeftOut
  <2>11. part \in Seq(Symbols)
    BY <2>6, PieceIs, TextsAreSymbols
  <2>12. SubSeq(t, from + 1, to) = (before \o part) \o behind
    <3>1. /\ from + 1 \in 1 .. Len(t) + 1 /\ a - 1 \in (from + 1) - 1 .. Len(t)
          /\ b \in a - 1 .. Len(t) /\ b \in (from + 1) - 1 .. Len(t) /\ to \in b .. Len(t)
          /\ (a - 1) + 1 = a
      BY <1>0, <2>4
    <3>2. before \o part = SubSeq(t, from + 1, b)
      <4>1. SubSeq(t, from + 1, a - 1) \o SubSeq(t, (a - 1) + 1, b) = SubSeq(t, from + 1, b)
        BY <3>1, ConcatAdjacentSubSeq
      <4> QED BY <3>1, <4>1
    <3>3. SubSeq(t, from + 1, b) \o behind = SubSeq(t, from + 1, to)
      BY <3>1, ConcatAdjacentSubSeq
    <3> QED BY <3>2, <3>3
  <2> HIDE DEF before, part, behind
  <2>13. WithoutBreaks((before \o part) \o behind) =
             (WithoutBreaks(before) \o WithoutBreaks(part)) \o WithoutBreaks(behind)
    <3>1. LosesApart(before, part) /\ before \o part \in Seq(Symbols)
      BY <2>9, <2>11, WithoutConcat, Zenon
    <3>2. LosesApart(before \o part, behind)
      BY <2>10, <3>1, WithoutConcat, Zenon
    <3> QED BY <3>1, <3>2, Zenon DEF LosesApart
  <2>14. (<<>> \o WithoutBreaks(part)) \o <<>> = WithoutBreaks(part)
    <3>1. WithoutBreaks(part) \in Seq(Symbols)
      BY <2>11, SinglesAre
    <3>2. /\ <<>> \o WithoutBreaks(part) = WithoutBreaks(part)
          /\ WithoutBreaks(part) \o <<>> = WithoutBreaks(part)
      BY <3>1, ConcatEmptySeq
    <3> QED BY <3>2
  <2>15. WithoutBreaks(SubSeq(t, from + 1, to)) = WithoutBreaks(part)
    BY <2>9, <2>10, <2>12, <2>13, <2>14, Zenon
  <2> QED BY <2>5, <2>15 DEF part
<1> QED BY <1>5, <1>6

(* Without its first paragraph break.                                      *)
LEMMA WithoutFirst ==
    ASSUME NEW A \in Seq(Seq(Chars)), NEW x \in Seq(Symbols), NEW y \in Seq(Symbols),
           WithoutBreaks(x) = WithoutBreaks(y)
    PROVE  LET first(t) == Tail(Broken(A) \o (<<ParagraphBreak>> \o t))
           IN  /\ first(x) \in Seq(Symbols) /\ first(y) \in Seq(Symbols)
               /\ WithoutBreaks(first(x)) = WithoutBreaks(first(y))
<1> DEFINE mark == <<ParagraphBreak>>
           B == Broken(A)
           first(t) == Tail(B \o (mark \o t))
           start == IF Len(B) = 0 THEN <<>> ELSE Tail(B) \o mark
<1>1. B \in Seq(Symbols) /\ Len(B) \in Nat /\ mark \in Seq(Symbols) /\ Len(mark) = 1
  BY BrokenType, MarkIs
<1> HIDE DEF B, mark
<1>2. start \in Seq(Symbols) /\ \A t \in Seq(Symbols) : first(t) = start \o t
  <2>1. CASE Len(B) = 0
    <3>1. B = <<>> /\ start = <<>>
      BY <1>1, <2>1, EmptySeq
    <3>2. ASSUME NEW t \in Seq(Symbols) PROVE first(t) = <<>> \o t
      <4>1. mark \o t \in Seq(Symbols)
        BY <1>1, ConcatProperties
      <4>2. B \o (mark \o t) = mark \o t
        BY <3>1, <4>1, ConcatEmptySeq
      <4>3. IsTail(mark \o t, Tail(mark) \o t)
        <5>1. Len(mark) >= 1
          BY <1>1
        <5> QED BY <1>1, <5>1, TailOfConcat, Zenon
      <4>4. Tail(mark) = <<>>
        BY DEF mark
      <4> QED BY <4>2, <4>3, <4>4, Zenon DEF IsTail
    <3> QED BY <3>1, <3>2, EmptySeq
  <2>2. CASE Len(B) # 0
    <3>1. Len(B) >= 1 /\ start = Tail(B) \o mark
      BY <1>1, <2>2
    <3>2. Tail(B) \in Seq(Symbols)
      BY <1>1, <3>1, TailOfConcat
    <3>3. ASSUME NEW t \in Seq(Symbols) PROVE first(t) = (Tail(B) \o mark) \o t
      <4>1. mark \o t \in Seq(Symbols)
        BY <1>1, ConcatProperties
      <4>2. IsTail(B \o (mark \o t), Tail(B) \o (mark \o t))
        BY <1>1, <3>1, <4>1, TailOfConcat, Zenon
      <4>3. IsJoint(Tail(B), mark, t)
        BY <1>1, <3>2, JoinsAssociate, Zenon
      <4> QED BY <4>2, <4>3, Zenon DEF IsTail, IsJoint
    <3>4. Tail(B) \o mark \in Seq(Symbols)
      BY <1>1, <3>2, ConcatProperties
    <3> QED BY <3>1, <3>3, <3>4
  <2> QED BY <2>1, <2>2
<1> HIDE DEF start, first
<1>3. /\ LosesApart(start, x) /\ LosesApart(start, y)
      /\ start \o x \in Seq(Symbols) /\ start \o y \in Seq(Symbols)
  BY <1>2, WithoutConcat, Zenon
<1>4. /\ first(x) \in Seq(Symbols) /\ first(y) \in Seq(Symbols)
      /\ WithoutBreaks(first(x)) = WithoutBreaks(first(y))
  <2>1. first(x) = start \o x /\ first(y) = start \o y
    BY <1>2, Zenon
  <2> QED BY <1>3, <2>1, Zenon DEF LosesApart
<1> QED BY <1>4 DEF first, B, mark

LEMMA OneAndOne ==
    ASSUME NEW S, NEW x \in S, NEW y \in S
    PROVE  <<x, y>> = <<x>> \o <<y>>
<1>1. <<x>> \in Seq(S) /\ <<y>> \in Seq(S) /\ Len(<<x>>) = 1 /\ Len(<<y>>) = 1
  OBVIOUS
<1> DEFINE both == <<x>> \o <<y>>
           pair == <<x, y>>
<1>2. both \in Seq(S) /\ Len(both) = 2 /\ both[1] = x /\ both[2] = y
  <2>1. /\ <<x>> \o <<y>> \in Seq(S) /\ Len(<<x>> \o <<y>>) = 1 + 1
        /\ \A i \in 1 .. 1 + 1 :
              (<<x>> \o <<y>>)[i] = IF i <= 1 THEN <<x>>[i] ELSE <<y>>[i - 1]
    <3>1. IsJoin(<<x>> \o <<y>>, <<x>>, <<y>>, S, 1, 1)
      BY <1>1, JoinedPoints, Zenon
    <3> QED BY <3>1, Zenon DEF IsJoin
  <2> HIDE DEF both
  <2>2. /\ both \in Seq(S) /\ Len(both) = 1 + 1
        /\ \A i \in 1 .. 1 + 1 : both[i] = IF i <= 1 THEN <<x>>[i] ELSE <<y>>[i - 1]
    BY <2>1, Zenon DEF both
  <2>3. 1 \in 1 .. 1 + 1 /\ 2 \in 1 .. 1 + 1 /\ ~(2 <= 1) /\ 1 <= 1 /\ 2 - 1 = 1 /\ 1 + 1 = 2
    OBVIOUS
  <2>4. <<x>>[1] = x /\ <<y>>[1] = y
    OBVIOUS
  <2> QED BY <2>2, <2>3, <2>4, Zenon
<1>3. pair \in Seq(S) /\ Len(pair) = 2 /\ pair[1] = x /\ pair[2] = y
  OBVIOUS
<1> HIDE DEF both, pair
<1>4. \A i \in 1 .. 2 : i = 1 \/ i = 2
  OBVIOUS
<1>5. \A i \in 1 .. 2 : both[i] = pair[i]
  BY <1>2, <1>3, <1>4, Zenon
<1>6. both = pair
  BY <1>2, <1>3, <1>5, SeqEqual, Zenon
<1> QED BY <1>6, Zenon DEF both, pair

(* The halves Enter leaves of the selection's paragraphs.                  *)
AreHalves(h1, h2, f, cut, gone, l) ==
    /\ h1 \in Seq(Chars) /\ h2 \in Seq(Chars) /\ f \in Seq(Chars) /\ l \in Seq(Chars)
    /\ IsSelected(selection, f, cut, gone, l)
    /\ WithoutBreaks(h1) = WithoutBreaks(f) /\ WithoutBreaks(h2) = WithoutBreaks(l)
    /\ Broken(paragraphs') =
           (Broken(Above(selection)) \o (Broken(<<h1>>) \o Broken(<<h2>>)))
               \o Broken(Below(selection))

LEMMA EnterParagraphs ==
    ASSUME TypeOK, Ordered, Enter
    PROVE  \E h1, h2, f, cut, gone, l : AreHalves(h1, h2, f, cut, gone, l)
<1> DEFINE from == selection.start.p
           to == selection.end.p
           F == Para(from)
           L == Para(to)
           s == selection.start.o
           e == selection.end.o
           h1 == TrimmedSubstr(F, 0, s)
           h2 == TrimmedSubstr(L, e, Len(L))
           A == Above(selection)
           C == Below(selection)
<1>0. InOrder(selection)
  BY OrderedSelection
<1>1. /\ from \in Nat /\ to \in Nat /\ from <= to
      /\ F \in Seq(Chars) /\ L \in Seq(Chars) /\ Len(F) \in Nat /\ Len(L) \in Nat
      /\ s \in 0 .. Len(F) /\ e \in 0 .. Len(L)
  BY <1>0, InOrderIs, LenProperties
<1>2. PICK f, cut, gone, l : IsSelected(selection, f, cut, gone, l)
  BY SMTT(30), <1>0, SelectedIs
<1>3. /\ f \in Seq(Chars) /\ l \in Seq(Chars)
      /\ f = SubSeq(F, 1, s) /\ l = SubSeq(L, e + 1, Len(L))
  BY <1>2 DEF IsSelected
<1>4. paragraphs' = (A \o <<h1, h2>>) \o C
  <2>1. (IF to < from THEN from ELSE to + 1) + 1 = to + 2
    BY SMTT(30), <1>1
  <2>2. paragraphs' = SubSeq(paragraphs, 1, from) \o Halves
                      \o SubSeq(paragraphs, (IF to < from THEN from ELSE to + 1) + 1,
                                Len(paragraphs))
    BY DEF Enter
  <2>3. Halves = <<h1, h2>>
    BY DEF Halves
  <2> HIDE DEF h1, h2, F, L, s, e
  <2>4. paragraphs' = SubSeq(paragraphs, 1, from) \o <<h1, h2>>
                      \o SubSeq(paragraphs, to + 2, Len(paragraphs))
    BY <2>1, <2>2, <2>3, Zenon
  <2> QED BY <2>4, Zenon DEF Above, Below
<1> HIDE DEF F, L, s, e, from, to
<1>5. h1 \in Seq(Chars) /\ h2 \in Seq(Chars)
  <2>1. 0 \in Int /\ s \in Int /\ e \in Int /\ Len(L) \in Int
    BY <1>1
  <2> QED BY <1>1, <2>1, TrimmedIs
<1>6. WithoutBreaks(h1) = WithoutBreaks(f)
  <2>1. 0 \in Nat /\ s \in Nat /\ 0 <= s /\ s <= Len(F) /\ 0 + 1 = 1
    BY <1>1
  <2>2. WithoutBreaks(h1) = WithoutBreaks(SubSeq(F, 0 + 1, s))
    BY <1>1, <2>1, TrimmedLosesBreaks
  <2> QED BY <1>3, <2>1, <2>2
<1>7. WithoutBreaks(h2) = WithoutBreaks(l)
  <2>1. e \in Nat /\ Len(L) \in Nat /\ e <= Len(L) /\ Len(L) <= Len(L)
    BY <1>1
  <2>2. WithoutBreaks(h2) = WithoutBreaks(SubSeq(L, e + 1, Len(L)))
    BY <1>1, <2>1, TrimmedLosesBreaks
  <2> QED BY <1>3, <2>2
<1> HIDE DEF h1, h2, A, C
<1>8. A \in Seq(Seq(Chars)) /\ C \in Seq(Seq(Chars))
  BY <1>0, PartsAre DEF A, C
<1>9. /\ <<h1>> \in Seq(Seq(Chars)) /\ <<h2>> \in Seq(Seq(Chars))
      /\ <<h1, h2>> \in Seq(Seq(Chars)) /\ <<h1, h2>> = <<h1>> \o <<h2>>
  <2>1. <<h1>> \in Seq(Seq(Chars)) /\ <<h2>> \in Seq(Seq(Chars))
    BY <1>5
  <2>2. <<h1, h2>> = <<h1>> \o <<h2>>
    BY <1>5, OneAndOne, Zenon
  <2>3. <<h1>> \o <<h2>> \in Seq(Seq(Chars))
    BY <2>1, ConcatProperties, Zenon
  <2> QED BY <2>1, <2>2, <2>3, Zenon
<1> DEFINE halves == <<h1, h2>>
           b1 == Broken(<<h1>>)
           b2 == Broken(<<h2>>)
<1>10. /\ IsBroken(<<h1>>, b1) /\ IsBroken(<<h2>>, b2)
       /\ IsBroken(A, Broken(A)) /\ IsBroken(C, Broken(C))
  BY Zenon DEF IsBroken
<1>11. IsBroken(halves, b1 \o b2)
  BY <1>9, <1>10, BrokenJoin, Zenon
<1> HIDE DEF halves, b1, b2
<1>12. IsBroken(A \o halves, Broken(A) \o (b1 \o b2)) /\ A \o halves \in Seq(Seq(Chars))
  <2>1. halves \in Seq(Seq(Chars))
    BY <1>9, Zenon DEF halves
  <2> QED BY <1>8, <1>10, <1>11, <2>1, BrokenJoin, ConcatProperties, Zenon
<1>13. IsBroken((A \o halves) \o C, (Broken(A) \o (b1 \o b2)) \o Broken(C))
  BY <1>8, <1>10, <1>12, BrokenJoin, Zenon
<1>14. Broken(paragraphs') = (Broken(A) \o (Broken(<<h1>>) \o Broken(<<h2>>))) \o Broken(C)
  BY <1>4, <1>13, Zenon DEF IsBroken, halves, b1, b2
<1>15. AreHalves(h1, h2, f, cut, gone, l)
  BY <1>2, <1>3, <1>5, <1>6, <1>7, <1>14, Zenon DEF AreHalves, A, C
<1> QED BY <1>15, Zenon

LEMMA EnterSplitsIt ==
    ASSUME TypeOK, Ordered, Enter
    PROVE  WithoutBreaks(Flat(paragraphs')) = WithoutBreaks(FlatWith(<<ParagraphBreak>>))
<1> DEFINE mark == <<ParagraphBreak>>
           BA == Broken(Above(selection))
           BC == Broken(Below(selection))
           W(t) == WithoutBreaks(t)
           first(t) == Tail(BA \o (mark \o t))
<1>0. InOrder(selection)
  BY OrderedSelection
<1>a. PICK h1, h2, f, cut, gone, l : AreHalves(h1, h2, f, cut, gone, l)
  BY EnterParagraphs, Zenon
<1>b. h1 \in Seq(Chars) /\ h2 \in Seq(Chars) /\ f \in Seq(Chars) /\ l \in Seq(Chars)
  BY <1>a, Zenon DEF AreHalves
<1>1. /\ IsSelected(selection, f, cut, gone, l)
      /\ W(h1) = W(f) /\ W(h2) = W(l)
      /\ Broken(paragraphs') = (BA \o (Broken(<<h1>>) \o Broken(<<h2>>))) \o BC
  BY <1>a, Zenon DEF AreHalves
<1>2. /\ h1 \in Seq(Symbols) /\ h2 \in Seq(Symbols) /\ f \in Seq(Symbols) /\ l \in Seq(Symbols)
      /\ mark \in Seq(Symbols) /\ Len(mark) = 1
      /\ mark \o h1 \in Seq(Symbols) /\ Len(mark \o h1) = Len(h1) + 1 /\ Len(h1) \in Nat
      /\ mark \o h2 \in Seq(Symbols)
  BY <1>b, TextsAreSymbols, MarkIs, LenProperties
<1>3. Above(selection) \in Seq(Seq(Chars)) /\ Below(selection) \in Seq(Seq(Chars))
  BY <1>0, PartsAre
<1>4. BA \in Seq(Symbols) /\ Len(BA) \in Nat /\ BC \in Seq(Symbols)
  BY <1>3, BrokenType
<1>5. Broken(<<h1>>) = mark \o h1 /\ Broken(<<h2>>) = mark \o h2
  BY <1>b, BrokenOfOne, Zenon
<1>6. W(first(h1)) = W(first(f)) /\ first(h1) \in Seq(Symbols) /\ first(f) \in Seq(Symbols)
  <2>1. WithoutBreaks(h1) = WithoutBreaks(f)
    BY <1>1
  <2>2. LET one(t) == Tail(Broken(Above(selection)) \o (<<ParagraphBreak>> \o t))
        IN  /\ one(h1) \in Seq(Symbols) /\ one(f) \in Seq(Symbols)
            /\ WithoutBreaks(one(h1)) = WithoutBreaks(one(f))
    BY ZenonT(30), <1>2, <1>3, <2>1, WithoutFirst
  <2> QED BY <2>2
<1>7. /\ l \o BC \in Seq(Symbols) /\ h2 \o BC \in Seq(Symbols)
      /\ W(l \o BC) = W(l) \o W(BC) /\ W(h2 \o BC) = W(h2) \o W(BC)
  <2> HIDE DEF BC
  <2>1. /\ LosesApart(l, BC) /\ LosesApart(h2, BC)
        /\ l \o BC \in Seq(Symbols) /\ h2 \o BC \in Seq(Symbols)
    BY <1>2, <1>4, WithoutConcat, Zenon
  <2> QED BY <2>1, Zenon DEF LosesApart
<1>8. FlatWith(mark) = (first(f) \o mark) \o (l \o BC)
  <2>1. IsAround(selection, first(f), gone, l \o BC)
    BY <1>0, <1>1, AroundIs
  <2> HIDE DEF first, BC
  <2>2. IsSplice(Flat(paragraphs), Place(selection.start), Place(selection.end), mark,
                 (first(f) \o mark) \o (l \o BC))
    <3> HIDE DEF mark
    <3> QED BY <1>2, <2>1, SplicedAround, Zenon
  <2> QED BY <2>2, Zenon DEF FlatWith, IsSplice
<1>9. Flat(paragraphs') = (first(h1) \o mark) \o (h2 \o BC)
  <2> DEFINE X == BA \o (mark \o h1)
             Y == mark \o h2
  <2> HIDE DEF BA, BC, mark
  <2>2. X \in Seq(Symbols) /\ Len(X) = Len(BA) + (Len(h1) + 1) /\ Len(X) >= 1
    <3>1. X \in Seq(Symbols) /\ Len(X) = Len(BA) + Len(mark \o h1)
      BY <1>2, <1>4, ConcatProperties
    <3> HIDE DEF X
    <3> QED BY <1>2, <1>4, <3>1
  <2>3. Broken(paragraphs') = (BA \o ((mark \o h1) \o Y)) \o BC
    BY <1>1, <1>5, Zenon
  <2>4. BA \o ((mark \o h1) \o Y) = X \o Y
    <3>1. IsJoint(BA, mark \o h1, Y)
      BY <1>2, <1>4, JoinsAssociate, Zenon
    <3> QED BY <3>1, Zenon DEF IsJoint
  <2>5. first(h1) = Tail(X) /\ first(h1) \in Seq(Symbols)
    BY <1>6
  <2>6. Y \in Seq(Symbols)
    BY <1>2
  <2> HIDE DEF X, Y, first
  <2>7. (X \o Y) \o BC = X \o (Y \o BC) /\ Y \o BC \in Seq(Symbols)
    <3>1. Y \o BC \in Seq(Symbols)
      BY <1>4, <2>6, ConcatProperties
    <3>2. IsJoint(X, Y, BC)
      BY <1>4, <2>2, <2>6, JoinsAssociate, Zenon
    <3> QED BY <3>1, <3>2, Zenon DEF IsJoint
  <2>8. Tail(X \o (Y \o BC)) = Tail(X) \o (Y \o BC)
    <3>1. IsTail(X \o (Y \o BC), Tail(X) \o (Y \o BC))
      BY <2>2, <2>7, TailOfConcat, Zenon
    <3> QED BY <3>1, Zenon DEF IsTail
  <2>9. Y \o BC = mark \o (h2 \o BC)
    <3>1. IsJoint(mark, h2, BC)
      BY <1>2, <1>4, JoinsAssociate, Zenon
    <3> QED BY <3>1, Zenon DEF IsJoint, Y
  <2>10. first(h1) \o (mark \o (h2 \o BC)) = (first(h1) \o mark) \o (h2 \o BC)
    <3>1. IsJoint(first(h1), mark, h2 \o BC)
      BY <1>2, <1>7, <2>5, JoinsAssociate, Zenon DEF BC
    <3> QED BY <3>1, Zenon DEF IsJoint
  <2>11. Broken(paragraphs') = X \o (Y \o BC)
    BY <2>3, <2>4, <2>7, Zenon
  <2>12. Flat(paragraphs') = Tail(X \o (Y \o BC))
    BY <2>11, Zenon DEF Flat
  <2> QED BY <2>5, <2>8, <2>9, <2>10, <2>12, Zenon
<1> HIDE DEF first, BC, mark, W
<1>10. ASSUME NEW x \in Seq(Symbols), NEW y \in Seq(Symbols)
       PROVE  W((x \o mark) \o y) = (W(x) \o W(mark)) \o W(y)
  <2>1. LosesApart(x, mark) /\ x \o mark \in Seq(Symbols)
    BY <1>2, WithoutConcat, Zenon
  <2>2. LosesApart(x \o mark, y)
    BY <2>1, WithoutConcat, Zenon
  <2> QED BY <2>1, <2>2, Zenon DEF LosesApart, W
<1>11. W((first(h1) \o mark) \o (h2 \o BC)) = (W(first(h1)) \o W(mark)) \o W(h2 \o BC)
  <2>1. first(h1) \in Seq(Symbols) /\ h2 \o BC \in Seq(Symbols)
    BY <1>6, <1>7, Zenon
  <2> QED BY <2>1, <1>10, Zenon
<1>12. W((first(f) \o mark) \o (l \o BC)) = (W(first(f)) \o W(mark)) \o W(l \o BC)
  <2>1. first(f) \in Seq(Symbols) /\ l \o BC \in Seq(Symbols)
    BY <1>6, <1>7, Zenon
  <2> QED BY <2>1, <1>10, Zenon
<1>13. W(h2 \o BC) = W(l \o BC)
  BY <1>1, <1>7
<1>14. W(Flat(paragraphs')) = W(FlatWith(mark))
  BY <1>6, <1>8, <1>9, <1>11, <1>12, <1>13, Zenon
<1> QED BY <1>14 DEF W, mark

(* Enter puts a paragraph break in place of the selection and loses no     *)
(* character but line breaks, those its halves end and start with (the     *)
(* trimmed substr of KEY_ENTER).                                           *)
THEOREM EnterSplits == Spec => EnterSplitsTheText
<1>1. ASSUME TypeOK, [Next]_vars
      PROVE  Ordered /\ Enter =>
                WithoutBreaks(Flat(paragraphs')) = WithoutBreaks(FlatWith(<<ParagraphBreak>>))
  BY <1>1, EnterSplitsIt
<1> QED BY <1>1, TypeCorrect, PTL DEF Spec, EnterSplitsTheText
=============================================================================
