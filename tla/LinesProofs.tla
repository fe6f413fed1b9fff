----------------------------- MODULE LinesProofs -----------------------------
(***************************************************************************)
(* The lines of a text that is shaped, and the carets and highlights on    *)
(* them: for texts of every length and any pieces, faces, clusters and     *)
(* widths.  All of it rests on the clusters cutting the text: each         *)
(* character lies in one of them.                                          *)
(***************************************************************************)
EXTENDS FontFallbackProofs, HitTesting

-----------------------------------------------------------------------------
(* Sums.                                                                   *)

LEMMA SumIs ==
    ASSUME NEW w \in Seq(Nat)
    PROVE  /\ SumOf(w, 0) = 0
           /\ \A n \in 1 .. Len(w) : SumOf(w, n) = SumOf(w, n - 1) + w[n]
           /\ \A n \in 0 .. Len(w) : SumOf(w, n) \in Nat
<1> DEFINE N == Len(w)
           step == [x \in Nat \X (1 .. N) |-> x[1] + w[x[2]]]
           IsSum(f) == f = [k \in 0 .. N |-> IF k = 0 THEN 0 ELSE f[k - 1] + w[k]]
           sum == CHOOSE f : IsSum(f)
<1>1. N \in Nat /\ \A k \in 1 .. N : w[k] \in Nat
  BY LenProperties, ElementOfSeq
<1>2. step \in [Nat \X (1 .. N) -> Nat]
  <2> HIDE DEF N
  <2> QED BY <1>1
<1>3. PICK a \in [0 .. N -> Nat] : IsFold(a, step, 0, N)
  <2> HIDE DEF step, N
  <2> QED BY <1>1, <1>2, FoldExists
<1>4. \A n \in 0 .. N : a[n] = IF n = 0 THEN 0 ELSE step[a[n - 1], n]
  <2> HIDE DEF step, N
  <2> QED BY <1>3, Zenon DEF IsFold
<1>5. ASSUME NEW n \in 1 .. N PROVE step[a[n - 1], n] = a[n - 1] + w[n] /\ n \in 0 .. N
  <2>1. n - 1 \in 0 .. N /\ n \in 0 .. N
    BY <1>1
  <2>2. <<a[n - 1], n>> \in Nat \X (1 .. N)
    <3> HIDE DEF N, step
    <3> QED BY <2>1
  <2> HIDE DEF N
  <2> QED BY <2>1, <2>2
<1>6. \A n \in 0 .. N : a[n] = IF n = 0 THEN 0 ELSE a[n - 1] + w[n]
  <2>1. \A n \in 0 .. N : n # 0 => n \in 1 .. N
    BY <1>1
  <2> HIDE DEF step, N
  <2> QED BY <1>4, <1>5, <2>1
<1>7. IsSum(a)
  <2>1. a = [n \in 0 .. N |-> a[n]]
    BY <1>3
  <2> HIDE DEF N
  <2> QED BY <1>6, <2>1
<1>8. IsSum(sum)
  <2> HIDE DEF IsSum
  <2> QED BY <1>7
<1>9. sum = a
  <2>1. a[0] = 0 /\ sum[0] = 0 /\ a = [n \in 0 .. N |-> a[n]] /\ sum = [n \in 0 .. N |-> sum[n]]
    <3>1. 0 \in 0 .. N
      BY <1>1
    <3>2. sum[0] = 0 /\ sum = [n \in 0 .. N |-> sum[n]]
      <4> HIDE DEF sum, N
      <4> QED BY <1>8, <3>1
    <3> HIDE DEF sum, N
    <3> QED BY <1>3, <1>6, <3>1, <3>2
  <2>2. \A n \in 1 .. N : sum[n] = sum[n - 1] + w[n] /\ a[n] = a[n - 1] + w[n]
    <3>1. \A n \in 1 .. N : n \in 0 .. N /\ n # 0
      BY <1>1
    <3>2. \A n \in 0 .. N : sum[n] = IF n = 0 THEN 0 ELSE sum[n - 1] + w[n]
      <4> HIDE DEF sum, N
      <4> QED BY <1>8
    <3> HIDE DEF sum, N, IsSum
    <3> QED BY <1>6, <3>1, <3>2
  <2>3. SameSteps(sum, a, N)
    <3> HIDE DEF sum, N
    <3> QED BY <2>1, <2>2 DEF SameSteps
  <2> HIDE DEF sum, N
  <2> QED BY <1>1, <2>3, SameFold
<1>10. \A n : SumOf(w, n) = sum[n]
  BY DEF SumOf
<1>11. \A n \in 0 .. N : sum[n] \in Nat
  <2> HIDE DEF sum, N
  <2> QED BY <1>3, <1>9
<1>12. sum[0] = 0 /\ \A n \in 1 .. N : sum[n] = sum[n - 1] + w[n]
  <2>1. \A n \in 1 .. N : n \in 0 .. N /\ n # 0
    BY <1>1
  <2>2. 0 \in 0 .. N
    BY <1>1
  <2> HIDE DEF sum, N, IsSum, step
  <2> QED BY <1>6, <1>9, <2>1, <2>2
<1> HIDE DEF sum
<1> QED BY <1>10, <1>11, <1>12

(* How far n widths reach grows with n.                                    *)
LEMMA SumGrows ==
    ASSUME NEW w \in Seq(Nat), NEW m \in 0 .. Len(w)
    PROVE  \A n \in 0 .. Len(w) : m <= n => SumOf(w, m) <= SumOf(w, n)
<1> DEFINE N == Len(w)
           G == {n \in 0 .. N : m <= n => SumOf(w, m) <= SumOf(w, n)}
<1>1. N \in Nat /\ m \in 0 .. N
  BY LenProperties
<1>2. \A n \in 0 .. N : SumOf(w, n) \in Nat
  BY SumIs
<1>3. 0 \in G
  <2>1. 0 \in 0 .. N /\ (m <= 0 => m = 0)
    BY <1>1
  <2> HIDE DEF N
  <2> QED BY <1>1, <1>2, <2>1
<1>4. ASSUME NEW n \in 1 .. N, n - 1 \in G PROVE n \in G
  <2>1. n - 1 \in 0 .. N /\ n \in 0 .. N /\ (m <= n => m <= n - 1 \/ m = n)
    BY <1>1
  <2>2. SumOf(w, n) = SumOf(w, n - 1) + w[n] /\ w[n] \in Nat
    BY SumIs, ElementOfSeq
  <2>3. SumOf(w, n) >= SumOf(w, n - 1)
    BY <1>2, <2>1, <2>2
  <2>4. SumOf(w, n) \in Nat /\ SumOf(w, n - 1) \in Nat /\ SumOf(w, m) \in Nat
    BY <1>1, <1>2, <2>1
  <2>5. CASE m <= n - 1
    <3>1. SumOf(w, m) <= SumOf(w, n - 1)
      BY <1>4, <2>5
    <3> QED BY <2>1, <2>3, <2>4, <3>1
  <2>6. CASE m = n
    BY <2>1, <2>4, <2>6
  <2> QED BY <2>1, <2>5, <2>6
<1>5. \A n \in 0 .. N : n \in G
  <2> HIDE DEF G, N
  <2> QED BY <1>1, <1>3, <1>4, InductionUpTo
<1> QED BY <1>5

-----------------------------------------------------------------------------
(* What is drawn up to a place of a piece.                                 *)

Within(c) == c.start .. c.end
IsWhole(r, c) ==
    c \in Clusters /\ c.start <= c.end /\ c.start + 1 .. c.end \subseteq r.joined

(* The clusters of v cut T: each position of T lies in one of them.        *)
Cuts(r, v, T) ==
    /\ \A k \in DOMAIN v : IsWhole(r, v[k]) /\ Within(v[k]) \subseteq T
    /\ \A p \in T : \E k \in DOMAIN v : p \in Within(v[k])
    /\ \A j, k \in DOMAIN v : \A p \in T : p \in Within(v[j]) /\ p \in Within(v[k]) => j = k

Reached(r, d, a) ==
    {p \in Positions(r) : \E k \in DOMAIN r.pieces :
        /\ Holds(r.pieces[k], p)
        /\ k < d \/ (k = d /\ IF r.pieces[k].rtl THEN a < p ELSE p < a)}

LEMMA CutsMore ==
    ASSUME NEW r, NEW v \in Seq(Clusters), NEW T, Cuts(r, v, T),
           NEW c, IsWhole(r, c), \A p \in Within(c) : p \notin T,
           NEW U, U = T \cup Within(c)
    PROVE  Cuts(r, Append(v, c), U) /\ Append(v, c) \in Seq(Clusters)
<1> DEFINE w == Append(v, c)
           n == Len(v)
<1>1. /\ w \in Seq(Clusters) /\ Len(w) = n + 1 /\ n \in Nat
      /\ \A k \in 1 .. n : w[k] = v[k]
      /\ w[n + 1] = c
      /\ DOMAIN w = 1 .. n + 1 /\ DOMAIN v = 1 .. n
  <2>1. c \in Clusters
    BY DEF IsWhole
  <2> QED BY <2>1, AppendProperties, LenProperties
<1> HIDE DEF w, n
<1>2. \A k \in DOMAIN w : k \in DOMAIN v \/ k = n + 1
  BY <1>1
<1>3. \A k \in DOMAIN v : w[k] = v[k] /\ k \in DOMAIN w /\ k # n + 1
  BY <1>1
<1>4. n + 1 \in DOMAIN w
  BY <1>1
<1>5. \A k \in DOMAIN w : IsWhole(r, w[k]) /\ Within(w[k]) \subseteq T \cup Within(c)
  BY <1>1, <1>2, <1>3 DEF Cuts
<1>6. \A p \in T \cup Within(c) : \E k \in DOMAIN w : p \in Within(w[k])
  BY <1>1, <1>3, <1>4 DEF Cuts
<1>7. ASSUME NEW j \in DOMAIN w, NEW k \in DOMAIN w, NEW p \in T \cup Within(c),
             p \in Within(w[j]), p \in Within(w[k])
      PROVE  j = k
  <2>1. CASE j \in DOMAIN v /\ k \in DOMAIN v
    BY <1>3, <1>7, <2>1 DEF Cuts
  <2>2. CASE j \in DOMAIN v /\ k = n + 1
    BY <1>1, <1>3, <1>7, <2>2 DEF Cuts
  <2>3. CASE j = n + 1 /\ k \in DOMAIN v
    BY <1>1, <1>3, <1>7, <2>3 DEF Cuts
  <2> QED BY <1>2, <2>1, <2>2, <2>3
<1>8. Cuts(r, w, T \cup Within(c))
  BY <1>5, <1>6, <1>7, Zenon DEF Cuts
<1> QED BY <1>1, <1>8 DEF w

(* A piece of a request and the positions of the text.                     *)
LEMMA PieceHolds ==
    ASSUME NEW r \in Requests, NEW k \in 1 .. Len(r.pieces)
    PROVE  /\ r.pieces[k].from \in Nat /\ r.pieces[k].to \in Nat /\ r.size \in Nat
           /\ r.pieces[k].from < r.pieces[k].to /\ r.pieces[k].to <= r.size
           /\ k \in DOMAIN r.pieces /\ Len(r.pieces) \in Nat
           /\ \A p \in Int : Holds(r.pieces[k], p) => p \in Positions(r)
           /\ \A j \in DOMAIN r.pieces : \A p \in Int :
                  Holds(r.pieces[j], p) /\ Holds(r.pieces[k], p) => j = k
<1>1. r.pieces[k] \in Piece /\ k \in DOMAIN r.pieces /\ Len(r.pieces) \in Nat
  BY PieceIs, RequestIs
<1>2. r.pieces[k].from < r.pieces[k].to /\ r.pieces[k].to <= r.size /\ r.size \in Nat
  BY <1>1, RequestsAssumption, PiecesAssumption
<1>3. r.pieces[k].from \in Nat /\ r.pieces[k].to \in Nat
  BY <1>1 DEF Piece
<1>4. \A p \in Int : Holds(r.pieces[k], p) => p \in Positions(r)
  BY <1>2, <1>3 DEF Holds, Positions
<1>5. \A j \in DOMAIN r.pieces : \A p \in Int :
          Holds(r.pieces[j], p) /\ Holds(r.pieces[k], p) => j = k
  BY <1>1, <1>4, PiecesAssumption
<1> QED BY <1>1, <1>2, <1>3, <1>4, <1>5

(* From a on, s .. e is next in a piece, and z is the place behind it.     *)
IsNext(p, a, s, e, z) ==
    /\ p.from <= s /\ s <= e /\ e < p.to
    /\ IF p.rtl THEN e = a /\ z = s - 1 ELSE s = a /\ z = e + 1

LEMMA ReachedMore ==
    ASSUME NEW r \in Requests, NEW k \in 1 .. Len(r.pieces), NEW a \in Int,
           NEW s \in Int, NEW e \in Int, NEW z, IsNext(r.pieces[k], a, s, e, z)
    PROVE  /\ Reached(r, k, z) = Reached(r, k, a) \cup s .. e
           /\ \A p \in s .. e : p \notin Reached(r, k, a)
<1> USE DEF IsNext
<1>1. /\ r.pieces[k].from \in Nat /\ r.pieces[k].to \in Nat /\ r.size \in Nat
      /\ k \in DOMAIN r.pieces /\ r.pieces[k].to <= r.size
      /\ \A j \in DOMAIN r.pieces : \A p \in Int :
             Holds(r.pieces[j], p) /\ Holds(r.pieces[k], p) => j = k
  BY PieceHolds
<1>2. ASSUME NEW p \in s .. e
      PROVE  p \in Int /\ Holds(r.pieces[k], p) /\ p \in Positions(r)
  <2>1. /\ r.pieces[k].from \in Nat /\ r.pieces[k].to \in Nat /\ r.size \in Nat
        /\ r.pieces[k].to <= r.size
    BY <1>1
  <2>2. p \in Int /\ r.pieces[k].from <= p /\ p < r.pieces[k].to
    BY <2>1
  <2>3. p \in 0 .. r.size - 1
    BY <2>1, <2>2
  <2> QED BY <2>2, <2>3 DEF Holds, Positions
<1>3. \A p \in s .. e : IF r.pieces[k].rtl THEN z < p /\ ~(a < p) ELSE p < z /\ ~(p < a)
  OBVIOUS
<1>4. \A p \in Int : p \notin s .. e =>
          /\ r.pieces[k].rtl => (z < p <=> a < p)
          /\ ~r.pieces[k].rtl => (p < z <=> p < a)
  OBVIOUS
<1>5. Positions(r) \subseteq Int
  BY DEF Positions
<1>6. ASSUME NEW p \in Positions(r), p \notin s .. e
      PROVE  p \in Reached(r, k, z) <=> p \in Reached(r, k, a)
  BY <1>4, <1>5, <1>6 DEF Reached
<1>7. ASSUME NEW p \in s .. e
      PROVE  p \in Reached(r, k, z) /\ p \notin Reached(r, k, a)
  <2>1. p \in Reached(r, k, z)
    BY <1>1, <1>2, <1>3 DEF Reached
  <2>2. ASSUME NEW j \in DOMAIN r.pieces, Holds(r.pieces[j], p)
        PROVE  j = k
    BY <1>1, <1>2, <2>2
  <2>3. ~(k < k)
    OBVIOUS
  <2>4. p \notin Reached(r, k, a)
    BY <1>3, <2>2, <2>3 DEF Reached
  <2> QED BY <2>1, <2>4
<1>8. Reached(r, k, z) \subseteq Positions(r) /\ Reached(r, k, a) \subseteq Positions(r)
  BY DEF Reached
<1>9. Reached(r, k, z) = Reached(r, k, a) \cup s .. e
  BY <1>6, <1>7, <1>8
<1> QED BY <1>7, <1>9

(* Behind a piece all of it is drawn, and nothing of the next one is.      *)
LEMMA ReachedNext ==
    ASSUME NEW r \in Requests, NEW k \in 1 .. Len(r.pieces), NEW a \in Int,
           IF r.pieces[k].rtl THEN a = r.pieces[k].from - 1 ELSE a = r.pieces[k].to,
           NEW z, k + 1 <= Len(r.pieces) =>
                      z = FirstOf(r.pieces[k + 1].rtl, r.pieces[k + 1].from, r.pieces[k + 1].to)
    PROVE  Reached(r, k + 1, z) = Reached(r, k, a)
<1>1. /\ r.pieces[k].from \in Nat /\ r.pieces[k].to \in Nat /\ Len(r.pieces) \in Nat
      /\ k \in DOMAIN r.pieces
  BY PieceHolds
<1>2. DOMAIN r.pieces = 1 .. Len(r.pieces) /\ Positions(r) \subseteq Int
  BY RequestIs, LenProperties DEF Positions
<1>3. ASSUME NEW p \in Positions(r), NEW j \in DOMAIN r.pieces, Holds(r.pieces[j], p)
      PROVE  (j < k + 1 \/ (j = k + 1 /\ IF r.pieces[j].rtl THEN z < p ELSE p < z))
                 <=> (j < k \/ (j = k /\ IF r.pieces[j].rtl THEN a < p ELSE p < a))
  <2>1. p \in Int /\ j \in 1 .. Len(r.pieces)
    BY <1>2
  <2>2. CASE j = k + 1
    <3>1. z = FirstOf(r.pieces[j].rtl, r.pieces[j].from, r.pieces[j].to)
      BY <1>1, <2>1, <2>2
    <3>2. r.pieces[j].from \in Nat /\ r.pieces[j].to \in Nat
      BY <2>1, PieceHolds
    <3>3. IF r.pieces[j].rtl THEN ~(z < p) ELSE ~(p < z)
      BY <1>3, <2>1, <3>1, <3>2 DEF Holds, FirstOf
    <3> QED BY <2>1, <2>2, <3>3
  <2>3. CASE j = k
    <3>1. IF r.pieces[k].rtl THEN a < p ELSE p < a
      BY <1>1, <1>3, <2>1, <2>3 DEF Holds
    <3> QED BY <2>1, <2>3, <3>1
  <2>4. CASE j # k /\ j # k + 1
    BY <2>1, <2>4
  <2> QED BY <2>2, <2>3, <2>4
<1> QED BY <1>3, Zenon DEF Reached

LEMMA ReachedFirst ==
    ASSUME NEW r \in Requests, NEW a,
           1 <= Len(r.pieces) =>
               a = FirstOf(r.pieces[1].rtl, r.pieces[1].from, r.pieces[1].to)
    PROVE  Reached(r, 1, a) = {}
<1>1. DOMAIN r.pieces = 1 .. Len(r.pieces) /\ Len(r.pieces) \in Nat
  BY RequestIs, LenProperties
<1>2. ASSUME NEW p \in Positions(r), NEW k \in DOMAIN r.pieces, Holds(r.pieces[k], p)
      PROVE  ~(k < 1 \/ (k = 1 /\ IF r.pieces[k].rtl THEN a < p ELSE p < a))
  <2>1. p \in Int /\ k \in 1 .. Len(r.pieces)
    BY <1>1 DEF Positions
  <2>2. CASE k = 1
    <3>1. a = FirstOf(r.pieces[k].rtl, r.pieces[k].from, r.pieces[k].to)
      BY <1>1, <2>1, <2>2
    <3>2. r.pieces[k].from \in Nat /\ r.pieces[k].to \in Nat
      BY <2>1, PieceHolds
    <3> QED BY <1>2, <2>1, <2>2, <3>1, <3>2 DEF Holds, FirstOf
  <2> QED BY <2>1, <2>2
<1> QED BY <1>2, Zenon DEF Reached

LEMMA ReachedAll ==
    ASSUME NEW r \in Requests, NEW a
    PROVE  Reached(r, Len(r.pieces) + 1, a) = Positions(r)
<1>1. DOMAIN r.pieces = 1 .. Len(r.pieces) /\ Len(r.pieces) \in Nat
  BY RequestIs, LenProperties
<1>2. \A k \in DOMAIN r.pieces : k < Len(r.pieces) + 1
  BY <1>1
<1> QED BY <1>2, PiecesAssumption DEF Reached

-----------------------------------------------------------------------------
(* The clusters cut what is drawn, step by step of FirstCovering.          *)

HasFace(r, d, c) ==
    \E k \in DOMAIN CandidatesOf(r, d) :
        CandidatesOf(r, d)[k] \in r.loads /\ Covers(r, CandidatesOf(r, d)[k], c)

(* The place is where a cluster begins, or inside of one no face has.      *)
AtPlace(r, d, a) ==
    LET p == r.pieces[d]
    IN  /\ IF p.rtl THEN p.from - 1 <= a /\ a < p.to ELSE p.from <= a /\ a <= p.to
        /\ Holds(p, a) /\ HasFace(r, d, PieceCluster(r, p, a)) =>
               Boundary(r, p, IF p.rtl THEN a + 1 ELSE a)

Drawn(r, v, d, a) ==
    /\ v \in Seq(Clusters)
    /\ d \in 1 .. Len(r.pieces) + 1
    /\ a \in Int
    /\ Cuts(r, v, Reached(r, d, a))
    /\ d <= Len(r.pieces) => AtPlace(r, d, a)

IsPiece(r, d, p) == d <= Len(r.pieces) /\ p = r.pieces[d]

(* A cluster that a face has is drawn from its first character on.         *)
LEMMA DrawsCluster ==
    ASSUME NEW r \in Requests, NEW v, NEW d, NEW a \in Int, Drawn(r, v, d, a),
           NEW p, IsPiece(r, d, p), Holds(p, a),
           NEW c, c = PieceCluster(r, p, a), HasFace(r, d, c),
           NEW face \in Faces
    PROVE  Drawn(r, Append(v, Cluster(c.start, c.end, face)), d, Behind(p.rtl, c))
<1> DEFINE new == Cluster(c.start, c.end, face)
           z == Behind(p.rtl, c)
<1>1. /\ v \in Seq(Clusters) /\ d \in 1 .. Len(r.pieces) /\ d \in 1 .. Len(r.pieces) + 1
      /\ a \in Int /\ Cuts(r, v, Reached(r, d, a)) /\ AtPlace(r, d, a)
  <2>1. Len(r.pieces) \in Nat
    BY RequestIs
  <2> QED BY <2>1 DEF Drawn, IsPiece
<1>2. p \in Piece /\ p.from \in Nat /\ p.to \in Nat /\ p.rtl \in BOOLEAN
  BY <1>1, PieceIs DEF Piece, IsPiece
<1>3. a \in p.from .. p.to - 1
  BY <1>1, <1>2 DEF Holds
<1>4. /\ c.start \in Int /\ c.end \in Int
      /\ p.from <= c.start /\ c.start <= a /\ a <= c.end /\ c.end < p.to
      /\ Boundary(r, p, c.start) /\ Boundary(r, p, c.end + 1)
      /\ Boundary(r, p, a) => c.start = a
      /\ Boundary(r, p, a + 1) => c.end = a
  <2>1. c = ClusterAt(r, p.from, p.to, a)
    BY DEF PieceCluster
  <2> QED BY <1>2, <1>3, <2>1, ClusterBounds
<1>5. IF p.rtl THEN c.end = a ELSE c.start = a
  BY <1>1, <1>4 DEF AtPlace, IsPiece
<1>6. z = IF p.rtl THEN c.start - 1 ELSE c.end + 1
  BY DEF Behind
<1> HIDE DEF z
<1>7. /\ Reached(r, d, z) = Reached(r, d, a) \cup c.start .. c.end
      /\ \A q \in c.start .. c.end : q \notin Reached(r, d, a)
  <2>1. IsNext(p, a, c.start, c.end, z)
    BY <1>4, <1>5, <1>6 DEF IsNext
  <2>2. IsNext(r.pieces[d], a, c.start, c.end, z)
    BY <2>1 DEF IsPiece
  <2> QED BY <1>1, <1>4, <2>2, ReachedMore
<1>8. IsWhole(r, new) /\ Within(new) = c.start .. c.end
  <2>1. new \in Clusters
    BY <1>2, <1>4 DEF Cluster, Clusters
  <2>2. new.start = c.start /\ new.end = c.end
    BY DEF Cluster
  <2>3. ASSUME NEW q \in c.start + 1 .. c.end PROVE q \in r.joined
    <3>1. IsCluster(r, p.from, p.to, a, c)
      BY <1>2, <1>3, ClusterIs DEF PieceCluster
    <3>2. CASE p.rtl
      <4>1. q \in c.start + 1 .. a /\ q # p.from
        BY <1>2, <1>4, <1>5, <3>2
      <4> QED BY <3>1, <4>1 DEF IsCluster, IsClusterStart, StartsAt
    <3>3. CASE ~p.rtl
      <4>1. q \in a + 1 .. c.end
        BY <1>4, <1>5, <3>3
      <4> QED BY <3>1, <4>1 DEF IsCluster, IsClusterEnd
    <3> QED BY <3>2, <3>3
  <2> HIDE DEF new
  <2> QED BY <1>4, <2>1, <2>2, <2>3 DEF IsWhole, Within
<1> HIDE DEF new
<1>9. Cuts(r, Append(v, new), Reached(r, d, z)) /\ Append(v, new) \in Seq(Clusters)
  <2>1. Reached(r, d, z) = Reached(r, d, a) \cup Within(new)
    BY <1>7, <1>8
  <2>2. \A q \in Within(new) : q \notin Reached(r, d, a)
    BY <1>7, <1>8
  <2> QED BY <1>1, <1>8, <2>1, <2>2, CutsMore
<1>10. z \in Int /\ AtPlace(r, d, z)
  <2>1. IF p.rtl THEN p.from - 1 <= z /\ z < p.to ELSE p.from <= z /\ z <= p.to
    BY <1>2, <1>4, <1>6
  <2>2. Boundary(r, p, IF p.rtl THEN z + 1 ELSE z) /\ z \in Int
    BY <1>4, <1>6
  <2> QED BY <2>1, <2>2 DEF AtPlace, IsPiece
<1> QED BY <1>1, <1>9, <1>10 DEF Drawn, new, z

(* Of a cluster that no face has one character is drawn at a time.         *)
LEMMA DrawsBox ==
    ASSUME NEW r \in Requests, NEW v, NEW d, NEW a \in Int, Drawn(r, v, d, a),
           NEW p, IsPiece(r, d, p), Holds(p, a),
           ~HasFace(r, d, PieceCluster(r, p, a))
    PROVE  Drawn(r, Append(v, Cluster(a, a, Hex)), d, Behind(p.rtl, Cluster(a, a, Hex)))
<1> DEFINE new == Cluster(a, a, Hex)
           z == Behind(p.rtl, new)
           c == PieceCluster(r, p, a)
<1>1. /\ v \in Seq(Clusters) /\ d \in 1 .. Len(r.pieces) /\ d \in 1 .. Len(r.pieces) + 1
      /\ a \in Int /\ Cuts(r, v, Reached(r, d, a)) /\ AtPlace(r, d, a)
  <2>1. Len(r.pieces) \in Nat
    BY RequestIs
  <2> QED BY <2>1 DEF Drawn, IsPiece
<1>2. p \in Piece /\ p.from \in Nat /\ p.to \in Nat /\ p.rtl \in BOOLEAN
  BY <1>1, PieceIs DEF Piece, IsPiece
<1>3. a \in p.from .. p.to - 1 /\ p.from <= a /\ a < p.to
  BY <1>1, <1>2 DEF Holds
<1>4. new.start = a /\ new.end = a /\ new \in Clusters
  BY <1>2, <1>3 DEF Cluster, Clusters
<1>5. z = IF p.rtl THEN a - 1 ELSE a + 1
  BY <1>4 DEF Behind
<1>6. Within(new) = a .. a
  BY <1>4 DEF Within
<1>7. IsWhole(r, new)
  <2> HIDE DEF new
  <2>1. a + 1 .. a \subseteq r.joined
    BY <1>3
  <2> QED BY <1>3, <1>4, <2>1 DEF IsWhole
<1>8. /\ Reached(r, d, z) = Reached(r, d, a) \cup a .. a
      /\ \A q \in a .. a : q \notin Reached(r, d, a)
  <2> HIDE DEF z
  <2>1. IsNext(p, a, a, a, z)
    BY <1>3, <1>5 DEF IsNext
  <2>2. IsNext(r.pieces[d], a, a, a, z)
    BY <2>1 DEF IsPiece
  <2> QED BY <1>1, <2>2, ReachedMore
<1>9. Cuts(r, Append(v, new), Reached(r, d, z)) /\ Append(v, new) \in Seq(Clusters)
  <2> HIDE DEF new, z
  <2>1. Reached(r, d, z) = Reached(r, d, a) \cup Within(new)
    BY <1>6, <1>8
  <2>2. \A q \in Within(new) : q \notin Reached(r, d, a)
    BY <1>6, <1>8
  <2> QED BY <1>1, <1>7, <2>1, <2>2, CutsMore
<1>10. ASSUME Holds(p, z), HasFace(r, d, PieceCluster(r, p, z))
       PROVE  Boundary(r, p, IF p.rtl THEN z + 1 ELSE z)
  <2>1. z \in p.from .. p.to - 1
    BY <1>2, <1>3, <1>5, <1>10 DEF Holds
  <2>2. c = ClusterAt(r, p.from, p.to, a)
    BY DEF PieceCluster
  <2>3. z \notin c.start .. c.end
    <3>1. ASSUME z \in c.start .. c.end PROVE FALSE
      <4>1. ClusterAt(r, p.from, p.to, z) = c
        <5> HIDE DEF c, z
        <5> QED BY <1>2, <1>3, <2>2, <3>1, SameCluster
      <4> QED BY <1>10, <4>1 DEF PieceCluster
    <3> QED BY <3>1
  <2>4. /\ c.start \in Int /\ c.end \in Int
        /\ p.from <= c.start /\ c.start <= a /\ a <= c.end /\ c.end < p.to
        /\ Boundary(r, p, c.start) /\ Boundary(r, p, c.end + 1)
    <3> HIDE DEF c
    <3> QED BY <1>2, <1>3, <2>2, ClusterBounds
  <2>5. IF p.rtl THEN z + 1 = c.start ELSE z = c.end + 1
    <3> HIDE DEF c
    <3> QED BY <1>3, <1>5, <2>3, <2>4
  <2> HIDE DEF c, z
  <2> QED BY <2>4, <2>5
<1>11. z \in Int /\ AtPlace(r, d, z)
  <2>1. IF p.rtl THEN p.from - 1 <= z /\ z < p.to ELSE p.from <= z /\ z <= p.to
    BY <1>2, <1>3, <1>5
  <2>2. z \in Int
    BY <1>3, <1>5
  <2> HIDE DEF z
  <2> QED BY <1>10, <2>1, <2>2 DEF AtPlace, IsPiece
<1> QED BY <1>1, <1>9, <1>11 DEF Drawn

LEMMA DrawsNextPiece ==
    ASSUME NEW r \in Requests, NEW v, NEW d, NEW a, Drawn(r, v, d, a),
           d <= Len(r.pieces), ~Holds(r.pieces[d], a)
    PROVE  Drawn(r, v, d + 1, Promise!StartOf(r, d + 1))
<1> DEFINE p == r.pieces[d]
           z == Promise!StartOf(r, d + 1)
<1>1. /\ v \in Seq(Clusters) /\ d \in 1 .. Len(r.pieces) /\ d + 1 \in 1 .. Len(r.pieces) + 1
      /\ a \in Int /\ Cuts(r, v, Reached(r, d, a)) /\ AtPlace(r, d, a)
  <2>1. Len(r.pieces) \in Nat
    BY RequestIs
  <2> QED BY <2>1 DEF Drawn
<1>2. p.from \in Nat /\ p.to \in Nat /\ Len(r.pieces) \in Nat /\ p.from < p.to
  BY <1>1, PieceHolds
<1>3. IF p.rtl THEN a = p.from - 1 ELSE a = p.to
  BY <1>1, <1>2 DEF AtPlace, Holds
<1>4. z = IF d = Len(r.pieces) THEN 0
          ELSE FirstOf(r.pieces[d + 1].rtl, r.pieces[d + 1].from, r.pieces[d + 1].to)
  <2>1. d \in 0 .. Len(r.pieces)
    BY <1>1
  <2> QED BY <2>1, StartIs
<1>5. d + 1 <= Len(r.pieces) =>
          z = FirstOf(r.pieces[d + 1].rtl, r.pieces[d + 1].from, r.pieces[d + 1].to)
  BY <1>2, <1>4
<1>6. Reached(r, d + 1, z) = Reached(r, d, a)
  <2> HIDE DEF p, z
  <2> QED BY <1>1, <1>3, <1>5, ReachedNext DEF p
<1>7. ASSUME d + 1 <= Len(r.pieces)
      PROVE  z \in Int /\ AtPlace(r, d + 1, z)
  <2> DEFINE next == r.pieces[d + 1]
  <2>1. d + 1 \in 1 .. Len(r.pieces)
    BY <1>1, <1>7
  <2>2. next.from \in Nat /\ next.to \in Nat /\ next.from < next.to
    BY <2>1, PieceHolds
  <2>3. z = FirstOf(next.rtl, next.from, next.to)
    BY <1>5, <1>7
  <2> HIDE DEF next, z
  <2>4. IF next.rtl THEN z = next.to - 1 ELSE z = next.from
    BY <2>3 DEF FirstOf
  <2>5. Boundary(r, next, IF next.rtl THEN z + 1 ELSE z)
    BY <2>2, <2>4 DEF Boundary
  <2>6. /\ z \in Int
        /\ IF next.rtl THEN next.from - 1 <= z /\ z < next.to ELSE next.from <= z /\ z <= next.to
    BY <2>2, <2>4
  <2> QED BY <2>5, <2>6 DEF AtPlace, next
<1>8. z \in Int
  BY <1>1, <1>2, <1>4, <1>7
<1> HIDE DEF z
<1> QED BY <1>1, <1>6, <1>7, <1>8 DEF Drawn, z

LEMMA PromisedAt ==
    ASSUME NEW r \in Requests, NEW d \in 1 .. Len(r.pieces)
    PROVE  CandidatesOf(r, d) \in Seq(Faces)
<1>1. r.pieces[d] \in Piece /\ IsStyle(r.data)
  BY PieceIs, RequestIs
<1>2. Fallbacks(r.data, TagOf(r, r.pieces[d])) \in Seq(Faces)
  BY <1>1, StyleIs, ConcatProperties DEF Fallbacks
<1>3. <<>> \in Seq(Faces)
  BY EmptySeq
<1> QED BY <1>2, <1>3 DEF CandidatesOf

LEMMA ShowDraws ==
    ASSUME ShapeInv, Drawn(req, visual, DrawnPiece, DrawnAt),
           Promise!ShowIn(CandidatesOf(req, DrawnPiece))
    PROVE  Drawn(req', visual', DrawnPiece', DrawnAt')
<1> DEFINE p == req.pieces[DrawnPiece]
           c == PieceCluster(req, p, DrawnAt)
           faces == CandidatesOf(req, DrawnPiece)
           fit == {k \in DOMAIN faces : Promise!Showing(faces[k], c)}
<1>1. /\ req \in Requests /\ DrawnAt \in Int /\ DrawnPiece \in 1 .. Len(req.pieces)
      /\ AtPlace(req, DrawnPiece, DrawnAt) /\ IsPiece(req, DrawnPiece, p)
  <2>1. DrawnPiece <= Len(req.pieces) /\ Len(req.pieces) \in Nat
    BY RequestIs DEF ShapeInv, Promise!ShowIn, Promise!IsIn
  <2> QED BY <2>1 DEF ShapeInv, Drawn, IsPiece
<1>2. Promise!Here = p
  BY DEF Promise!Here
<1>3. p.from \in Nat /\ p.to \in Nat
  BY <1>1, PieceHolds
<1>4. Holds(p, DrawnAt)
  <2>1. ~Promise!IsPast(p.rtl, p.from, p.to, DrawnAt)
    BY <1>2 DEF Promise!ShowIn, Promise!IsIn
  <2> QED BY <1>1, <1>3, <2>1 DEF Promise!IsPast, AtPlace, Holds
<1>5. \A face : Promise!Showing(face, c) <=> (face \in req.loads /\ Covers(req, face, c))
  BY DEF Promise!Showing, Promise!Covers, Covers
<1>6. Promise!ClusterAt(req, Promise!Here.from, Promise!Here.to, DrawnAt) = c
  BY <1>2, PromisedClusters DEF PieceCluster
<1>7. req' = req /\ DrawnPiece' = DrawnPiece
  BY DEF Promise!ShowIn
<1>8. CASE \E k \in fit :
             /\ visual' = Append(visual, Promise!Cluster(c.start, c.end, faces[k]))
             /\ DrawnAt' = Promise!Behind(p.rtl, c)
  <2>1. PICK k \in fit :
             /\ visual' = Append(visual, Promise!Cluster(c.start, c.end, faces[k]))
             /\ DrawnAt' = Promise!Behind(p.rtl, c)
    BY <1>8
  <2> DEFINE face == CandidatesOf(req, DrawnPiece)[k]
  <2>2. k \in DOMAIN CandidatesOf(req, DrawnPiece) /\ face \in req.loads /\ Covers(req, face, c)
    BY <1>5
  <2>3. face \in Faces
    <3>1. CandidatesOf(req, DrawnPiece) \in Seq(Faces)
      BY <1>1, PromisedAt
    <3> QED BY <2>2, <3>1, ElementOfSeq, LenProperties
  <2>4. HasFace(req, DrawnPiece, c)
    BY <2>2 DEF HasFace
  <2>5. /\ visual' = Append(visual, Cluster(c.start, c.end, face))
        /\ DrawnAt' = Behind(p.rtl, c)
    BY <2>1 DEF Promise!Cluster, Cluster, Promise!Behind, Behind
  <2> HIDE DEF p, face, fit
  <2>6. Drawn(req, Append(visual, Cluster(c.start, c.end, face)), DrawnPiece, Behind(p.rtl, c))
    <3>1. c = PieceCluster(req, p, DrawnAt)
      OBVIOUS
    <3> HIDE DEF c
    <3> QED BY <1>1, <1>4, <2>3, <2>4, <3>1, DrawsCluster
  <2> QED BY <1>7, <2>5, <2>6
<1>9. CASE /\ fit = {}
            /\ visual' = Append(visual, Promise!Cluster(DrawnAt, DrawnAt, Hex))
            /\ DrawnAt' = Promise!Behind(p.rtl, Promise!Cluster(DrawnAt, DrawnAt, Hex))
  <2>1. ~HasFace(req, DrawnPiece, c)
    BY <1>5, <1>9 DEF HasFace
  <2>2. /\ visual' = Append(visual, Cluster(DrawnAt, DrawnAt, Hex))
        /\ DrawnAt' = Behind(p.rtl, Cluster(DrawnAt, DrawnAt, Hex))
    BY <1>9 DEF Promise!Cluster, Cluster, Promise!Behind, Behind
  <2> HIDE DEF p, fit
  <2>3. Drawn(req, Append(visual, Cluster(DrawnAt, DrawnAt, Hex)), DrawnPiece,
              Behind(p.rtl, Cluster(DrawnAt, DrawnAt, Hex)))
    BY <1>1, <1>4, <2>1, DrawsBox
  <2> QED BY <1>7, <2>2, <2>3
<1> HIDE DEF p, c
<1> QED BY <1>2, <1>6, <1>8, <1>9 DEF Promise!ShowIn

LEMMA PromiseDraws ==
    ASSUME ShapeInv, Drawn(req, visual, DrawnPiece, DrawnAt), [DrawStep]_(Promise!vars)
    PROVE  Drawn(req', visual', DrawnPiece', DrawnAt')
<1>1. CASE Promise!ShowIn(CandidatesOf(req, DrawnPiece))
  BY <1>1, ShowDraws
<1>2. CASE Promise!NextPiece
  <2> DEFINE p == req.pieces[DrawnPiece]
  <2>1. /\ req \in Requests /\ DrawnAt \in Int /\ DrawnPiece \in 1 .. Len(req.pieces)
        /\ AtPlace(req, DrawnPiece, DrawnAt)
    <3>1. DrawnPiece <= Len(req.pieces) /\ Len(req.pieces) \in Nat
      BY <1>2, RequestIs DEF ShapeInv, Promise!NextPiece
    <3> QED BY <3>1 DEF ShapeInv, Drawn
  <2>2. p.from \in Nat /\ p.to \in Nat
    BY <2>1, PieceHolds
  <2>3. Promise!IsPast(p.rtl, p.from, p.to, DrawnAt)
    BY <1>2 DEF Promise!NextPiece, Promise!IsIn, Promise!Here
  <2>4. ~Holds(p, DrawnAt)
    BY <2>1, <2>2, <2>3 DEF Promise!IsPast, Holds
  <2>5. /\ req' = req /\ visual' = visual /\ DrawnPiece' = DrawnPiece + 1
        /\ DrawnAt' = Promise!StartOf(req, DrawnPiece + 1)
    BY <1>2 DEF Promise!NextPiece
  <2>6. Drawn(req, visual, DrawnPiece + 1, Promise!StartOf(req, DrawnPiece + 1))
    BY <2>1, <2>4, DrawsNextPiece
  <2> QED BY <2>5, <2>6
<1>3. CASE UNCHANGED Promise!vars
  BY <1>3 DEF Promise!vars
<1> QED BY <1>1, <1>2, <1>3 DEF DrawStep

(* What is drawn is cut by its clusters; a text that is shaped is drawn.   *)
DrawInv ==
    /\ ShapeInv
    /\ Drawn(req, visual, DrawnPiece, DrawnAt)
    /\ valid => stack = <<>> /\ piece = Len(req.pieces)

LEMMA DrawBegins ==
    ASSUME ShapeInit, BoxedOnce(req)
    PROVE  DrawInv
<1>1. ShapeInv /\ Promise!Init
  BY Begins, PromiseBegins
<1>2. /\ req \in Requests /\ visual = <<>> /\ DrawnPiece = 1
      /\ DrawnAt = Promise!StartOf(req, 1)
  BY <1>1 DEF Promise!Init, ShapeInv
<1>3. /\ DOMAIN req.pieces = 1 .. Len(req.pieces) /\ Len(req.pieces) \in Nat
      /\ Promise!StartOf(req, 1) =
             IF 0 = Len(req.pieces) THEN 0
             ELSE FirstOf(req.pieces[1].rtl, req.pieces[1].from, req.pieces[1].to)
  <2>1. 0 \in 0 .. Len(req.pieces) /\ Len(req.pieces) \in Nat
    BY <1>2, RequestIs
  <2>2. req.pieces \in Seq(Piece)
    BY <1>2, RequestIs
  <2> QED BY <1>2, <2>1, <2>2, StartIs, LenProperties
<1>4. Reached(req, 1, DrawnAt) = {}
  <2>1. 1 <= Len(req.pieces) =>
            DrawnAt = FirstOf(req.pieces[1].rtl, req.pieces[1].from, req.pieces[1].to)
    BY <1>2, <1>3
  <2> QED BY <1>2, <2>1, ReachedFirst
<1>5. Cuts(req, visual, {}) /\ visual \in Seq(Clusters)
  <2>1. DOMAIN visual = {} /\ visual \in Seq(Clusters)
    BY <1>2, EmptySeq
  <2> QED BY <2>1 DEF Cuts
<1>6. ASSUME 1 <= Len(req.pieces)
      PROVE  DrawnAt \in Int /\ AtPlace(req, 1, DrawnAt)
  <2> DEFINE p == req.pieces[1]
  <2>1. p.from \in Nat /\ p.to \in Nat /\ p.from < p.to
    BY <1>2, <1>3, <1>6, PieceHolds
  <2>2. DrawnAt = IF p.rtl THEN p.to - 1 ELSE p.from
    BY <1>2, <1>3, <1>6 DEF FirstOf
  <2> HIDE DEF p
  <2>3. Boundary(req, p, IF p.rtl THEN DrawnAt + 1 ELSE DrawnAt)
    BY <2>1, <2>2 DEF Boundary
  <2>4. /\ DrawnAt \in Int
        /\ IF p.rtl THEN p.from - 1 <= DrawnAt /\ DrawnAt < p.to
           ELSE p.from <= DrawnAt /\ DrawnAt <= p.to
    BY <2>1, <2>2
  <2> QED BY <2>3, <2>4 DEF AtPlace, p
<1>7. DrawnAt \in Int
  BY <1>2, <1>3, <1>6
<1>8. Drawn(req, visual, DrawnPiece, DrawnAt)
  <2>1. 1 \in 1 .. Len(req.pieces) + 1
    BY <1>3
  <2>2. Drawn(req, visual, 1, DrawnAt)
    BY <1>4, <1>5, <1>6, <1>7, <2>1 DEF Drawn
  <2> QED BY <1>2, <2>2
<1>9. valid = FALSE
  BY DEF ShapeInit
<1> QED BY <1>1, <1>8, <1>9 DEF DrawInv

LEMMA DrawSteps ==
    ASSUME DrawInv, [ShapeStep]_shapeVars
    PROVE  DrawInv'
<1>1. ShapeInv' /\ [DrawStep]_(Promise!vars)
  BY Steps DEF DrawInv
<1>2. Drawn(req', visual', DrawnPiece', DrawnAt')
  BY <1>1, PromiseDraws DEF DrawInv
<1>3. ASSUME valid' PROVE stack' = <<>> /\ piece' = Len(req'.pieces)
  BY <1>3 DEF DrawInv, ShapeStep, shapeVars, ShapePiece, ShapeBoxes, SkipFace, TakeCluster,
              FailCluster, Reshape, HexChar, Return, Shaped, TopShapes, Running
<1> QED BY <1>1, <1>2, <1>3 DEF DrawInv

(* The clusters of a text that is shaped cut it.                           *)
LEMMA DrawnAll ==
    ASSUME DrawInv, valid
    PROVE  /\ req \in Requests /\ visual \in Seq(Clusters)
           /\ Cuts(req, visual, Positions(req))
<1>1. req \in Requests /\ DrawnPiece = Len(req.pieces) + 1
  BY DEF DrawInv, ShapeInv, DrawnPiece, Running
<1>2. Reached(req, Len(req.pieces) + 1, DrawnAt) = Positions(req)
  BY <1>1, ReachedAll
<1> QED BY <1>1, <1>2 DEF DrawInv, Drawn

-----------------------------------------------------------------------------
(* The edges of the clusters of a line, from the left.                     *)

LEMMA ClusterIsWhole ==
    ASSUME NEW r, NEW v \in Seq(Clusters), NEW T, Cuts(r, v, T), NEW k \in DOMAIN v
    PROVE  /\ v[k].start \in Nat /\ v[k].end \in Nat /\ v[k].start <= v[k].end
           /\ Within(v[k]) \subseteq T /\ IsWhole(r, v[k])
BY DEF Cuts, IsWhole, Clusters

LEMMA EdgesAre ==
    ASSUME DrawInv, HasLine
    PROVE  /\ Len(visual) \in Nat \ {0} /\ DOMAIN visual = 1 .. Len(visual)
           /\ \A k \in DOMAIN visual :
                 /\ visual[k].start \in Nat /\ visual[k].end \in Nat
                 /\ visual[k].start <= visual[k].end
                 /\ LeftEdge(k) \in Nat /\ RightEdge(k) \in Nat
                 /\ RightEdge(k) = LeftEdge(k) + (visual[k].end + 1 - visual[k].start)
           /\ LeftEdge(1) = 0
           /\ \A k \in DOMAIN visual : k > 1 => LeftEdge(k) = RightEdge(k - 1)
           /\ LineEnd \in Nat /\ \A k \in DOMAIN visual : RightEdge(k) <= LineEnd
<1> DEFINE N == Len(visual)
           w == [j \in DOMAIN visual |-> CharsIn(visual[j])]
<1>1. visual \in Seq(Clusters) /\ Cuts(req, visual, Positions(req)) /\ visual # <<>>
  BY DrawnAll DEF HasLine
<1>2. N \in Nat /\ DOMAIN visual = 1 .. N /\ N # 0
  BY <1>1, LenProperties, EmptySeq
<1>3. \A k \in 1 .. N : /\ visual[k].start \in Nat /\ visual[k].end \in Nat
                        /\ visual[k].start <= visual[k].end
  BY <1>1, <1>2, ClusterIsWhole
<1>4. \A k \in 1 .. N : /\ CharsIn(visual[k]) \in Nat
                        /\ CharsIn(visual[k]) = visual[k].end + 1 - visual[k].start
  BY <1>3 DEF CharsIn
<1>5. w \in Seq(Nat) /\ Len(w) = N
  <2>1. w \in [1 .. N -> Nat]
    BY <1>2, <1>4
  <2> HIDE DEF w
  <2> QED BY <1>2, <2>1, IsASeq, LenProperties
<1>6. \A k \in 1 .. N : w[k] = CharsIn(visual[k])
  BY <1>2
<1>7. \A k : LeftEdge(k) = SumOf(w, k - 1)
  BY DEF LeftEdge
<1> HIDE DEF w, N
<1>8. /\ SumOf(w, 0) = 0
      /\ \A n \in 1 .. N : SumOf(w, n) = SumOf(w, n - 1) + w[n]
      /\ \A n \in 0 .. N : SumOf(w, n) \in Nat
  BY <1>5, SumIs
<1>9. \A k \in 1 .. N : LeftEdge(k) \in Nat
  BY <1>7, <1>8, <1>2
<1>10. \A k \in 1 .. N : RightEdge(k) = SumOf(w, k) /\ RightEdge(k) \in Nat
  <2> SUFFICES ASSUME NEW k \in 1 .. N
               PROVE  RightEdge(k) = SumOf(w, k) /\ SumOf(w, k) \in Nat
    OBVIOUS
  <2>1. RightEdge(k) = SumOf(w, k - 1) + w[k]
    BY <1>6, <1>7 DEF RightEdge
  <2>2. k \in 0 .. N
    BY <1>2
  <2> QED BY <1>8, <2>1, <2>2
<1>11. \A k \in 1 .. N : k > 1 => LeftEdge(k) = RightEdge(k - 1)
  <2>1. \A k \in 1 .. N : k > 1 => k - 1 \in 1 .. N
    BY <1>2
  <2> QED BY <1>7, <1>10, <2>1
<1>12. LeftEdge(1) = 0
  <2>1. LeftEdge(1) = SumOf(w, 1 - 1) /\ 1 - 1 = 0
    BY <1>7
  <2> QED BY <1>8, <2>1
<1>13. LineEnd = RightEdge(N) /\ N \in 1 .. N
  BY <1>2 DEF LineEnd, N
<1>14. \A k \in 1 .. N : RightEdge(k) <= LineEnd
  <2> SUFFICES ASSUME NEW k \in 1 .. N PROVE SumOf(w, k) <= SumOf(w, N)
    BY <1>10, <1>13
  <2>1. k \in 0 .. Len(w) /\ N \in 0 .. Len(w) /\ k <= N
    BY <1>2, <1>5
  <2> QED BY <1>5, <2>1, SumGrows
<1>15. \A k \in 1 .. N :
           RightEdge(k) = LeftEdge(k) + (visual[k].end + 1 - visual[k].start)
  BY <1>4 DEF RightEdge
<1> QED BY <1>2, <1>3, <1>9, <1>10, <1>11, <1>12, <1>13, <1>14, <1>15 DEF N

LEMMA HitClusterIs ==
    ASSUME DrawInv, HasLine, NEW x \in 0 .. LineEnd, NEW k, k = HitCluster(x)
    PROVE  k \in DOMAIN visual /\ LeftEdge(k) <= x /\ x <= RightEdge(k)
<1> DEFINE T == {j \in DOMAIN visual : x <= RightEdge(j)}
<1>1. /\ Len(visual) \in Nat \ {0} /\ DOMAIN visual = 1 .. Len(visual)
      /\ \A j \in DOMAIN visual : LeftEdge(j) \in Nat /\ RightEdge(j) \in Nat
      /\ LeftEdge(1) = 0
      /\ \A j \in DOMAIN visual : j > 1 => LeftEdge(j) = RightEdge(j - 1)
      /\ LineEnd \in Nat
  BY EdgesAre
<1>2. T \subseteq Nat /\ Len(visual) \in T
  BY <1>1 DEF LineEnd
<1>3. PICK n \in T : \A m \in T : n <= m
  <2> HIDE DEF T
  <2> QED BY <1>2, LeastNat
<1>4. n \in DOMAIN visual /\ x <= RightEdge(n) /\ \A j \in 1 .. n - 1 : RightEdge(j) < x
  <2>1. \A j \in 1 .. n - 1 : j \in DOMAIN visual /\ ~(n <= j)
    BY <1>1, <1>3
  <2> QED BY <1>1, <1>3, <2>1
<1>5. k \in DOMAIN visual /\ x <= RightEdge(k) /\ \A j \in 1 .. k - 1 : RightEdge(j) < x
  BY <1>4, Zenon DEF HitCluster
<1>6. k \in Nat /\ k >= 1
  BY <1>1, <1>5
<1>7. CASE k = 1
  BY <1>1, <1>5, <1>7
<1>8. CASE k > 1
  <2>1. k - 1 \in 1 .. k - 1 /\ k - 1 \in DOMAIN visual
    BY <1>1, <1>5, <1>6, <1>8
  <2>2. RightEdge(k - 1) < x /\ RightEdge(k - 1) \in Nat
    BY <1>1, <1>5, <2>1
  <2> QED BY <1>1, <1>5, <1>8, <2>2
<1> QED BY <1>6, <1>7, <1>8

(* A caret appears where the text was clicked (hit_test and                *)
(* get_cursor_positions agree on the side of a cluster).                   *)
LEMMA ClickIsACaret ==
    ASSUME DrawInv, HasLine, NEW x \in Int
    PROVE  OnLine(x) \in CursorPositions(HitTest(x))
<1> DEFINE y == OnLine(x)
           k == HitCluster(y)
           p == HitTest(x)
           st == visual[k].start
           en == visual[k].end
<1>1. y \in 0 .. LineEnd
  BY EdgesAre DEF OnLine
<1>2. k \in DOMAIN visual /\ LeftEdge(k) <= y /\ y <= RightEdge(k)
  <2> HIDE DEF y
  <2> QED BY <1>1, HitClusterIs
<1>3. /\ st \in Nat /\ en \in Nat /\ st <= en /\ LeftEdge(k) \in Nat /\ RightEdge(k) \in Nat
      /\ RightEdge(k) = LeftEdge(k) + (en + 1 - st) /\ y \in Nat
  <2> HIDE DEF y, k
  <2>1. LineEnd \in Nat
    BY EdgesAre
  <2> QED BY <1>1, <1>2, <2>1, EdgesAre
<1>4. p = IF IsRtl(visual[k]) THEN en + 1 - (y - LeftEdge(k)) ELSE st + (y - LeftEdge(k))
  BY DEF HitTest
<1>5. /\ visual[k].end = p - 1 => LeadingEdge(k) \in CursorPositions(p)
      /\ visual[k].start = p => TrailingEdge(k) \in CursorPositions(p)
      /\ visual[k].start < p /\ p <= visual[k].end =>
             (IF IsRtl(visual[k]) THEN TrailingEdge(k) - (p - visual[k].start)
              ELSE TrailingEdge(k) + (p - visual[k].start)) \in CursorPositions(p)
  <2> HIDE DEF k, p
  <2> QED BY <1>2, Zenon DEF CursorPositions
<1> HIDE DEF y, k, p
<1>6. CASE IsRtl(visual[k])
  <2>1. TrailingEdge(k) = RightEdge(k) /\ LeadingEdge(k) = LeftEdge(k)
    BY <1>6 DEF TrailingEdge, LeadingEdge
  <2>2. p = en + 1 - (y - LeftEdge(k))
    BY <1>4, <1>6
  <2>3. CASE y = LeftEdge(k)
    <3>1. visual[k].end = p - 1
      BY <1>3, <2>2, <2>3
    <3> QED BY <1>5, <2>1, <2>3, <3>1 DEF y, p
  <2>4. CASE y = RightEdge(k)
    <3>1. visual[k].start = p
      BY <1>3, <2>2, <2>4
    <3> QED BY <1>5, <2>1, <2>4, <3>1 DEF y, p
  <2>5. CASE y # LeftEdge(k) /\ y # RightEdge(k)
    <3>1. st < p /\ p <= en /\ RightEdge(k) - (p - st) = y
      BY <1>2, <1>3, <2>2, <2>5
    <3>2. RightEdge(k) - (p - st) \in CursorPositions(p)
      BY <1>5, <1>6, <2>1, <3>1
    <3> QED BY <3>1, <3>2 DEF y, p
  <2> QED BY <2>3, <2>4, <2>5
<1>7. CASE ~IsRtl(visual[k])
  <2>1. TrailingEdge(k) = LeftEdge(k) /\ LeadingEdge(k) = RightEdge(k)
    BY <1>7 DEF TrailingEdge, LeadingEdge
  <2>2. p = st + (y - LeftEdge(k))
    BY <1>4, <1>7
  <2>3. CASE y = LeftEdge(k)
    <3>1. visual[k].start = p
      BY <1>3, <2>2, <2>3
    <3> QED BY <1>5, <2>1, <2>3, <3>1 DEF y, p
  <2>4. CASE y = RightEdge(k)
    <3>1. visual[k].end = p - 1
      BY <1>3, <2>2, <2>4
    <3> QED BY <1>5, <2>1, <2>4, <3>1 DEF y, p
  <2>5. CASE y # LeftEdge(k) /\ y # RightEdge(k)
    <3>1. st < p /\ p <= en /\ LeftEdge(k) + (p - st) = y
      BY <1>2, <1>3, <2>2, <2>5
    <3>2. LeftEdge(k) + (p - st) \in CursorPositions(p)
      BY <1>5, <1>7, <2>1, <3>1
    <3> QED BY <3>1, <3>2 DEF y, p
  <2> QED BY <2>3, <2>4, <2>5
<1> QED BY <1>6, <1>7

(* Every position has a caret, one or two.                                 *)
LEMMA PositionHasCarets ==
    ASSUME DrawInv, HasLine, NEW p \in 0 .. req.size
    PROVE  /\ CursorPositions(p) # {}
           /\ \A x, y, z \in CursorPositions(p) : z \in {x, y} \/ x = y
<1> DEFINE leading == {k \in DOMAIN visual : visual[k].end = p - 1}
           trailing == {k \in DOMAIN visual : visual[k].start = p}
           mid == {k \in DOMAIN visual : visual[k].start < p /\ p <= visual[k].end}
           Inside(k) == IF IsRtl(visual[k])
                        THEN TrailingEdge(k) - (p - visual[k].start)
                        ELSE TrailingEdge(k) + (p - visual[k].start)
           A == {LeadingEdge(k) : k \in leading}
           B == {TrailingEdge(k) : k \in trailing}
           D == {Inside(k) : k \in mid}
<1>1. CursorPositions(p) = A \cup B \cup D
  BY Zenon DEF CursorPositions
<1>2. /\ Cuts(req, visual, Positions(req)) /\ req.size \in Nat \ {0} /\ p \in Int
      /\ \A k \in DOMAIN visual :
            /\ visual[k].start \in Nat /\ visual[k].end \in Nat
            /\ visual[k].start <= visual[k].end
            /\ visual[k].start .. visual[k].end \subseteq 0 .. req.size - 1
  <2>1. req \in Requests /\ visual \in Seq(Clusters) /\ Cuts(req, visual, Positions(req))
    BY DrawnAll DEF HasLine
  <2>2. req.size \in Nat \ {0}
    BY <2>1, PiecesAssumption
  <2>3. \A k \in DOMAIN visual :
            /\ visual[k].start \in Nat /\ visual[k].end \in Nat
            /\ visual[k].start <= visual[k].end
            /\ visual[k].start .. visual[k].end \subseteq Positions(req)
    BY <2>1, ClusterIsWhole DEF Within
  <2> QED BY <2>1, <2>2, <2>3 DEF Positions
<1>3. /\ \A q \in 0 .. req.size - 1 : \E k \in DOMAIN visual : q \in visual[k].start .. visual[k].end
      /\ \A j, k \in DOMAIN visual : \A q \in 0 .. req.size - 1 :
             q \in visual[j].start .. visual[j].end /\ q \in visual[k].start .. visual[k].end => j = k
  BY <1>2 DEF Cuts, Within, Positions
<1>4. \A j, k \in leading : j = k
  <2> SUFFICES ASSUME NEW j \in leading, NEW k \in leading PROVE j = k
    OBVIOUS
  <2>1. p - 1 \in visual[j].start .. visual[j].end /\ p - 1 \in visual[k].start .. visual[k].end
    BY <1>2
  <2> QED BY <1>2, <1>3, <2>1
<1>5. \A j, k \in trailing : j = k
  <2> SUFFICES ASSUME NEW j \in trailing, NEW k \in trailing PROVE j = k
    OBVIOUS
  <2>1. p \in visual[j].start .. visual[j].end /\ p \in visual[k].start .. visual[k].end
    BY <1>2
  <2> QED BY <1>2, <1>3, <2>1
<1>6. ASSUME NEW k \in mid
      PROVE  leading = {} /\ trailing = {} /\ \A j \in mid : j = k
  <2>1. /\ p \in visual[k].start .. visual[k].end /\ p - 1 \in visual[k].start .. visual[k].end
        /\ visual[k].end # p - 1 /\ visual[k].start # p
    BY <1>2
  <2>2. ASSUME NEW j \in leading PROVE FALSE
    <3>1. p - 1 \in visual[j].start .. visual[j].end
      BY <1>2
    <3>2. j = k
      BY <1>2, <1>3, <2>1, <3>1
    <3> QED BY <2>1, <3>2
  <2>3. ASSUME NEW j \in trailing PROVE FALSE
    <3>1. p \in visual[j].start .. visual[j].end
      BY <1>2
    <3>2. j = k
      BY <1>2, <1>3, <2>1, <3>1
    <3> QED BY <2>1, <3>2
  <2>4. ASSUME NEW j \in mid PROVE j = k
    <3>1. p \in visual[j].start .. visual[j].end
      BY <1>2
    <3> QED BY <1>2, <1>3, <2>1, <3>1
  <2> QED BY <2>2, <2>3, <2>4
<1>7. leading # {} \/ trailing # {} \/ mid # {}
  <2>1. CASE p = req.size
    <3>1. p - 1 \in 0 .. req.size - 1
      BY <1>2, <2>1
    <3>2. PICK k \in DOMAIN visual : p - 1 \in visual[k].start .. visual[k].end
      BY <1>3, <3>1
    <3>3. visual[k].end \in 0 .. req.size - 1
      BY <1>2
    <3>4. visual[k].end = p - 1
      BY <1>2, <2>1, <3>2, <3>3
    <3> QED BY <3>4
  <2>2. CASE p # req.size
    <3>1. p \in 0 .. req.size - 1
      BY <1>2, <2>2
    <3>2. PICK k \in DOMAIN visual : p \in visual[k].start .. visual[k].end
      BY <1>3, <3>1
    <3>3. visual[k].start = p \/ (visual[k].start < p /\ p <= visual[k].end)
      BY <1>2, <3>2
    <3> QED BY <3>3
  <2> QED BY <2>1, <2>2
<1> HIDE DEF leading, trailing, mid, Inside
<1>8. A \cup B \cup D # {}
  BY <1>7
<1>9. (\A x, y \in A : x = y) /\ (\A x, y \in B : x = y)
  BY <1>4, <1>5
<1>10. CASE mid = {}
  <2>1. D = {}
    BY <1>10
  <2> HIDE DEF A, B, D
  <2> QED BY <1>1, <1>8, <1>9, <2>1
<1>11. CASE mid # {}
  <2>1. PICK k \in mid : TRUE
    BY <1>11
  <2>2. A = {} /\ B = {} /\ \A x, y \in D : x = y
    BY <1>6
  <2> HIDE DEF A, B, D
  <2> QED BY <1>1, <1>8, <2>2
<1> QED BY <1>10, <1>11

(* A caret appears where the text was clicked, and every position of the   *)
(* text has a caret, one or two (hit_test and get_cursor_positions), for   *)
(* every text, direction and cutting to clusters.                          *)
LEMMA CaretsAre ==
    ASSUME DrawInv
    PROVE  CaretComesBack
<1> SUFFICES ASSUME HasLine
             PROVE  /\ \A x \in -1 .. LineEnd + 1 : OnLine(x) \in CursorPositions(HitTest(x))
                    /\ \A p \in 0 .. req.size :
                           CursorPositions(p) # {} /\
                           \A x, y, z \in CursorPositions(p) : z \in {x, y} \/ x = y
  BY Zenon DEF CaretComesBack
<1>1. LineEnd \in Nat
  BY EdgesAre
<1>2. \A x \in -1 .. LineEnd + 1 : x \in Int
  BY <1>1
<1>3. \A x \in -1 .. LineEnd + 1 : OnLine(x) \in CursorPositions(HitTest(x))
  BY <1>2, ClickIsACaret, Zenon
<1>4. \A p \in 0 .. req.size :
           CursorPositions(p) # {} /\
           \A x, y, z \in CursorPositions(p) : z \in {x, y} \/ x = y
  BY PositionHasCarets, Zenon
<1> QED BY <1>3, <1>4

-----------------------------------------------------------------------------
(* Where characters lie.                                                   *)

CellIn(k, p) ==
    IF IsRtl(visual[k])
    THEN LeftEdge(k) + (visual[k].end - p)
    ELSE LeftEdge(k) + (p - visual[k].start)

LEMMA CellIs ==
    ASSUME DrawInv, HasLine, NEW k \in DOMAIN visual, NEW p \in visual[k].start .. visual[k].end
    PROVE  CellOf(p) = CellIn(k, p) /\ p \in Positions(req)
<1>1. visual \in Seq(Clusters) /\ Cuts(req, visual, Positions(req))
  BY DrawnAll DEF HasLine
<1>2. p \in Positions(req)
  BY <1>1, ClusterIsWhole DEF Within
<1>3. ASSUME NEW j \in DOMAIN visual, p \in visual[j].start .. visual[j].end
      PROVE  j = k
  BY <1>1, <1>2, <1>3 DEF Cuts, Within
<1>4. (CHOOSE j \in DOMAIN visual : p \in visual[j].start .. visual[j].end) = k
  BY <1>3
<1> QED BY <1>2, <1>4 DEF CellOf, CellIn

Uncut(c, p) == p <= c.start \/ c.end < p

(* Of a cluster the characters in the range are highlighted.               *)
LEMMA HighlightsCharacters ==
    ASSUME NEW c, c.start \in Nat, c.end \in Nat, c.start <= c.end,
           NEW s \in Nat, NEW e \in Nat, s <= e,
           IsRtl(c) => Uncut(c, s) /\ Uncut(c, e),
           NEW ofs \in 0 .. CharsIn(c) - 1,
           NEW p, p = IF IsRtl(c) THEN c.end - ofs ELSE c.start + ofs
    PROVE  IsHighlighted(c, ofs, s, e) <=> p \in s .. e - 1
<1>1. PICK st \in Nat, en \in Nat : st = c.start /\ en = c.end
  OBVIOUS
<1>2. ofs \in 0 .. en - st /\ ofs \in Int /\ st <= en
  BY <1>1 DEF CharsIn
<1>3. CASE IsRtl(c)
  <2>1. p = en - ofs /\ (s <= st \/ en < s) /\ (e <= st \/ en < e)
    BY <1>1, <1>3 DEF Uncut
  <2>2. IsHighlighted(c, ofs, s, e) <=>
            \/ s <= st /\ en < e
            \/ st < s /\ e <= en /\ ofs \in s - st .. e - st - 1
            \/ st < s /\ s <= en /\ en < e /\ ofs < s - st
            \/ s <= st /\ st < e /\ e <= en /\ ofs >= e - st
    BY <1>1, <1>3 DEF IsHighlighted
  <2> QED BY <1>2, <2>1, <2>2
<1>4. CASE ~IsRtl(c)
  <2>1. p = st + ofs
    BY <1>1, <1>4
  <2>2. IsHighlighted(c, ofs, s, e) <=>
            \/ s <= st /\ en < e
            \/ st < s /\ e <= en /\ ofs \in s - st .. e - st - 1
            \/ st < s /\ s <= en /\ en < e /\ ofs >= s - st
            \/ s <= st /\ st < e /\ e <= en /\ ofs < e - st
    BY <1>1, <1>4 DEF IsHighlighted
  <2> QED BY <1>2, <2>1, <2>2
<1> QED BY <1>3, <1>4

LEMMA HighlightIs ==
    ASSUME DrawInv, HasLine, NEW s \in 0 .. req.size, NEW e \in 0 .. req.size, s <= e,
           \A k \in DOMAIN visual :
               IsRtl(visual[k]) => Uncut(visual[k], s) /\ Uncut(visual[k], e)
    PROVE  Highlight(s, e) = {CellOf(p) : p \in s .. e - 1}
<1> DEFINE Char(k, ofs) == IF IsRtl(visual[k]) THEN visual[k].end - ofs ELSE visual[k].start + ofs
<1>1. s \in Nat /\ e \in Nat /\ req.size \in Nat
  <2>1. req.size \in Nat
    BY DrawnAll, PiecesAssumption DEF HasLine
  <2> QED BY <2>1
<1>2. \A k \in DOMAIN visual :
          /\ visual[k].start \in Nat /\ visual[k].end \in Nat
          /\ visual[k].start <= visual[k].end /\ LeftEdge(k) \in Nat
  BY EdgesAre
<1>3. ASSUME NEW k \in DOMAIN visual, NEW ofs \in 0 .. CharsIn(visual[k]) - 1
      PROVE  /\ IsHighlighted(visual[k], ofs, s, e) <=> Char(k, ofs) \in s .. e - 1
             /\ Char(k, ofs) \in visual[k].start .. visual[k].end
             /\ LeftEdge(k) + ofs = CellIn(k, Char(k, ofs))
  <2>1. PICK st \in Nat, en \in Nat, left \in Nat :
            st = visual[k].start /\ en = visual[k].end /\ left = LeftEdge(k) /\ st <= en
    BY <1>2
  <2>2. ofs \in 0 .. en - st /\ ofs \in Int
    BY <2>1 DEF CharsIn
  <2>3. Char(k, ofs) = IF IsRtl(visual[k]) THEN en - ofs ELSE st + ofs
    BY <2>1
  <2>4. IsHighlighted(visual[k], ofs, s, e) <=> Char(k, ofs) \in s .. e - 1
    <3> HIDE DEF Char
    <3> QED BY <1>1, <1>2, <2>1, <2>3, HighlightsCharacters
  <2>5. CellIn(k, Char(k, ofs)) = IF IsRtl(visual[k]) THEN left + (en - Char(k, ofs))
                                  ELSE left + (Char(k, ofs) - st)
    BY <2>1 DEF CellIn
  <2> HIDE DEF Char
  <2> QED BY <2>1, <2>2, <2>3, <2>4, <2>5
<1>4. ASSUME NEW x \in Highlight(s, e)
      PROVE  x \in {CellOf(p) : p \in s .. e - 1}
  <2>1. PICK k \in DOMAIN visual : \E ofs \in 0 .. CharsIn(visual[k]) - 1 :
            IsHighlighted(visual[k], ofs, s, e) /\ x = LeftEdge(k) + ofs
    BY <1>4 DEF Highlight
  <2>2. PICK ofs \in 0 .. CharsIn(visual[k]) - 1 :
            IsHighlighted(visual[k], ofs, s, e) /\ x = LeftEdge(k) + ofs
    BY <2>1
  <2> HIDE DEF Char
  <2>3. /\ Char(k, ofs) \in s .. e - 1 /\ Char(k, ofs) \in visual[k].start .. visual[k].end
        /\ x = CellIn(k, Char(k, ofs))
    BY <1>3, <2>2
  <2>4. CellOf(Char(k, ofs)) = CellIn(k, Char(k, ofs))
    BY <2>3, CellIs
  <2> QED BY <2>3, <2>4
<1>5. ASSUME NEW p \in s .. e - 1
      PROVE  CellOf(p) \in Highlight(s, e)
  <2>1. Cuts(req, visual, Positions(req)) /\ p \in Positions(req)
    BY <1>1, DrawnAll DEF HasLine, Positions
  <2>2. PICK k \in DOMAIN visual : p \in visual[k].start .. visual[k].end
    BY <2>1 DEF Cuts, Within
  <2> DEFINE ofs == IF IsRtl(visual[k]) THEN visual[k].end - p ELSE p - visual[k].start
  <2>3. ofs \in 0 .. CharsIn(visual[k]) - 1 /\ Char(k, ofs) = p
    <3>1. PICK st \in Nat, en \in Nat : st = visual[k].start /\ en = visual[k].end
      BY <1>2
    <3>2. ofs = IF IsRtl(visual[k]) THEN en - p ELSE p - st
      BY <3>1
    <3>3. Char(k, ofs) = IF IsRtl(visual[k]) THEN en - ofs ELSE st + ofs
      BY <3>1
    <3>4. CharsIn(visual[k]) = en + 1 - st
      BY <3>1 DEF CharsIn
    <3> HIDE DEF ofs, Char
    <3> QED BY <1>1, <2>2, <3>1, <3>2, <3>3, <3>4
  <2> HIDE DEF ofs, Char
  <2>4. IsHighlighted(visual[k], ofs, s, e) /\ LeftEdge(k) + ofs = CellIn(k, p)
    BY <1>3, <2>3
  <2>5. CellOf(p) = LeftEdge(k) + ofs
    BY <2>2, <2>4, CellIs
  <2> QED BY <2>3, <2>4, <2>5 DEF Highlight
<1> QED BY <1>4, <1>5, Zenon DEF Highlight

LEMMA HighlightsAre ==
    ASSUME DrawInv
    PROVE  HighlightIsTheRange
<1> SUFFICES ASSUME HasLine, NEW s \in 0 .. req.size, NEW e \in 0 .. req.size, s <= e,
                    \A k \in DOMAIN visual :
                        IsRtl(visual[k]) =>
                            \A p \in {s, e} : p <= visual[k].start \/ visual[k].end < p
             PROVE  Highlight(s, e) = {CellOf(p) : p \in s .. e - 1}
  BY Zenon DEF HighlightIsTheRange
<1>1. \A k \in DOMAIN visual :
          IsRtl(visual[k]) => Uncut(visual[k], s) /\ Uncut(visual[k], e)
  BY DEF Uncut
<1> QED BY <1>1, HighlightIs

-----------------------------------------------------------------------------
(* The clusters in logical order.                                          *)

StartIn(r, s, k) == IF k = Len(s) + 1 THEN r.size ELSE s[k].start
IsLogical(r, s) ==
    /\ s \in Seq(Clusters) /\ Len(s) \in Nat \ {0}
    /\ s[1].start = 0
    /\ \A k \in 1 .. Len(s) : IsWhole(r, s[k]) /\ s[k].end + 1 = StartIn(r, s, k + 1)
    /\ \A j, k \in 1 .. Len(s) : j < k => s[j].start < s[k].start

(* Clusters that cut a text and begin one behind the other leave no gap.   *)
LEMMA OrderedIsLogical ==
    ASSUME NEW r, r.size \in Nat \ {0}, NEW s \in Seq(Clusters), Cuts(r, s, Positions(r)),
           \A j, k \in 1 .. Len(s) : j < k => s[j].start < s[k].start
    PROVE  IsLogical(r, s)
<1> DEFINE N == Len(s)
<1>1. /\ N \in Nat /\ DOMAIN s = 1 .. N
      /\ \A k \in 1 .. N : /\ s[k].start \in Nat /\ s[k].end \in Nat
                           /\ s[k].start <= s[k].end /\ s[k].end < r.size
                           /\ IsWhole(r, s[k])
  <2>1. N \in Nat /\ DOMAIN s = 1 .. N
    BY LenProperties
  <2>2. \A k \in 1 .. N : /\ s[k].start \in Nat /\ s[k].end \in Nat
                          /\ s[k].start <= s[k].end
                          /\ s[k].start .. s[k].end \subseteq Positions(r) /\ IsWhole(r, s[k])
    <3> HIDE DEF N
    <3> QED BY <2>1, ClusterIsWhole DEF Within
  <2>3. \A k \in 1 .. N : s[k].end \in Positions(r)
    <3> HIDE DEF N
    <3> QED BY <2>2
  <2> HIDE DEF N
  <2> QED BY <2>1, <2>2, <2>3 DEF Positions
<1> HIDE DEF N
<1>2. ASSUME NEW p \in 0 .. r.size - 1
      PROVE  \E k \in 1 .. N : s[k].start <= p /\ p <= s[k].end
  <2>1. \E k \in 1 .. N : p \in s[k].start .. s[k].end
    BY <1>1 DEF Cuts, Within, Positions
  <2> QED BY <1>1, <2>1
<1>3. ASSUME NEW j \in 1 .. N, NEW k \in 1 .. N, s[j].start <= s[k].start, s[k].start <= s[j].end
      PROVE  j = k
  <2>1. /\ s[k].start \in s[j].start .. s[j].end /\ s[k].start \in s[k].start .. s[k].end
        /\ s[k].start \in Positions(r)
    BY <1>1, <1>3 DEF Positions
  <2> QED BY <1>1, <2>1 DEF Cuts, Within
<1>4. PICK first \in 1 .. N : s[first].start <= 0
  <2>1. 0 \in 0 .. r.size - 1
    OBVIOUS
  <2> QED BY <1>2, <2>1
<1>5. N \in Nat \ {0} /\ s[1].start = 0
  <2>1. N # 0 /\ 1 \in 1 .. N
    BY <1>1, <1>4
  <2>2. first = 1
    <3>1. ASSUME first # 1 PROVE FALSE
      <4>1. s[1].start < s[first].start
        BY <1>1, <2>1, <3>1 DEF N
      <4> QED BY <1>1, <1>4, <2>1, <4>1
    <3> QED BY <3>1
  <2> QED BY <1>1, <1>4, <2>1, <2>2
<1>6. ASSUME NEW k \in 1 .. N, NEW m \in 1 .. N,
             s[m].start <= s[k].end + 1, s[k].end + 1 <= s[m].end
      PROVE  k < m
  <2>1. m # k
    BY <1>1, <1>6
  <2>2. ASSUME m < k PROVE FALSE
    <3>1. s[m].start <= s[k].start /\ s[k].start <= s[m].end
      BY <1>1, <1>6, <2>2 DEF N
    <3> QED BY <1>3, <2>1, <3>1
  <2> QED BY <1>1, <2>1, <2>2
<1>7. ASSUME NEW k \in 1 .. N
      PROVE  s[k].end + 1 = StartIn(r, s, k + 1)
  <2>1. CASE k = N
    <3>1. StartIn(r, s, k + 1) = r.size
      BY <2>1 DEF StartIn, N
    <3>2. ASSUME s[k].end + 1 < r.size PROVE FALSE
      <4>1. s[k].end + 1 \in 0 .. r.size - 1
        BY <1>1, <3>2
      <4>2. PICK m \in 1 .. N : s[m].start <= s[k].end + 1 /\ s[k].end + 1 <= s[m].end
        BY <1>2, <4>1
      <4> QED BY <1>1, <1>6, <2>1, <4>2
    <3> QED BY <1>1, <3>1, <3>2
  <2>2. CASE k # N
    <3>1. k + 1 \in 1 .. N /\ StartIn(r, s, k + 1) = s[k + 1].start
      BY <1>1, <2>2 DEF StartIn, N
    <3>2. s[k].start < s[k + 1].start
      BY <1>1, <3>1 DEF N
    <3>3. s[k].end < s[k + 1].start
      BY <1>1, <1>3, <3>1, <3>2
    <3>4. s[k].end + 1 \in 0 .. r.size - 1
      <4>1. /\ s[k].end \in Nat /\ r.size \in Nat
            /\ s[k + 1].start \in Nat /\ s[k + 1].start < r.size
        BY <1>1, <3>1
      <4> QED BY SMTT(20), <3>3, <4>1
    <3>5. PICK m \in 1 .. N : s[m].start <= s[k].end + 1 /\ s[k].end + 1 <= s[m].end
      BY <1>2, <3>4
    <3>6. k < m
      BY <1>6, <3>5
    <3>7. m = k + 1 \/ s[k + 1].start < s[m].start
      BY <1>1, <3>1, <3>6 DEF N
    <3> QED BY <1>1, <3>1, <3>3, <3>5, <3>7
  <2> QED BY <2>1, <2>2
<1> QED BY <1>1, <1>5, <1>7 DEF IsLogical, N

(* std::sort with ClusterCompare puts clusters that cut a text in the      *)
(* order of the text: no two begin at the same position.                   *)
LEMMA SortedIs ==
    ASSUME NEW r, r.size \in Nat \ {0}, NEW v \in Seq(Clusters), Cuts(r, v, Positions(r)),
           NEW s \in SortedClusters(v)
    PROVE  IsLogical(r, s)
<1> DEFINE N == Len(v)
<1>1. /\ N \in Nat /\ DOMAIN v = 1 .. N
      /\ \A k \in 1 .. N : v[k].start \in Nat /\ v[k].end \in Nat /\ v[k].start <= v[k].end
  <2>1. N \in Nat /\ DOMAIN v = 1 .. N
    BY LenProperties
  <2> HIDE DEF N
  <2> QED BY <2>1, ClusterIsWhole
<1> HIDE DEF N
<1>2. ASSUME NEW j \in 1 .. N, NEW k \in 1 .. N, v[j].start = v[k].start PROVE j = k
  <2>1. v[j].start \in Within(v[j]) /\ v[j].start \in Within(v[k])
    BY <1>1, <1>2 DEF Within
  <2>2. Within(v[j]) \subseteq Positions(r)
    BY <1>1 DEF Cuts
  <2> QED BY <1>1, <2>1, <2>2 DEF Cuts
<1>3. PICK order \in [1 .. N -> 1 .. N] :
         /\ s = [k \in 1 .. N |-> v[order[k]]]
         /\ \A j, k \in 1 .. N :
               /\ order[j] = order[k] => j = k
               /\ j < k => ~(v[order[k]].start < v[order[j]].start)
  BY <1>1 DEF SortedClusters, ClusterCompare
<1>4. ASSUME NEW n \in 1 .. N PROVE \E k \in 1 .. N : order[k] = n
  <2>1. IsFiniteSet(1 .. N)
    BY <1>1, FS_Interval
  <2>2. order \in Injection(1 .. N, 1 .. N)
    BY <1>3 DEF Injection, IsInjective
  <2>3. order \in Surjection(1 .. N, 1 .. N)
    BY <2>1, <2>2, FS_Injection
  <2> QED BY <2>3 DEF Surjection
<1>5. s \in Seq(Clusters) /\ Len(s) = N /\ DOMAIN s = 1 .. N
      /\ \A n \in 1 .. N : s[n] = v[order[n]] /\ order[n] \in 1 .. N
  <2>1. \A n \in 1 .. N : v[order[n]] \in Clusters
    BY <1>1, <1>3, ElementOfSeq DEF N
  <2>2. s \in [1 .. N -> Clusters]
    BY <1>3, <2>1
  <2>3. s \in Seq(Clusters) /\ Len(s) = N
    BY <1>1, <2>2, IsASeq, LenProperties
  <2> QED BY <1>3, <2>2, <2>3
<1>6. ASSUME NEW j \in 1 .. N, NEW k \in 1 .. N, j < k
      PROVE  s[j].start < s[k].start
  <2>1. order[j] \in 1 .. N /\ order[k] \in 1 .. N /\ order[j] # order[k]
    BY <1>1, <1>3, <1>6
  <2>2. v[order[j]].start # v[order[k]].start
    BY <1>2, <2>1
  <2>3. ~(v[order[k]].start < v[order[j]].start)
    BY <1>3, <1>6
  <2>4. v[order[j]].start \in Nat /\ v[order[k]].start \in Nat
    BY <1>1, <2>1
  <2>5. s[j].start = v[order[j]].start /\ s[k].start = v[order[k]].start
    BY <1>5
  <2>6. v[order[j]].start < v[order[k]].start
    BY <2>2, <2>3, <2>4
  <2> QED BY <2>5, <2>6
<1>7. Cuts(r, s, Positions(r))
  <2>1. \A k \in DOMAIN s : IsWhole(r, s[k]) /\ Within(s[k]) \subseteq Positions(r)
    BY <1>1, <1>5 DEF Cuts
  <2>2. ASSUME NEW p \in Positions(r) PROVE \E k \in DOMAIN s : p \in Within(s[k])
    <3>1. PICK k \in 1 .. N : p \in Within(v[k])
      BY <1>1 DEF Cuts
    <3>2. PICK n \in 1 .. N : order[n] = k
      BY <1>4
    <3> QED BY <1>5, <3>1, <3>2
  <2>3. ASSUME NEW j \in DOMAIN s, NEW k \in DOMAIN s, NEW p \in Positions(r),
               p \in Within(s[j]), p \in Within(s[k])
        PROVE  j = k
    <3>1. order[j] = order[k]
      BY <1>1, <1>5, <2>3 DEF Cuts
    <3> QED BY <1>3, <1>5, <3>1
  <2> QED BY <2>1, <2>2, <2>3 DEF Cuts
<1> QED BY <1>5, <1>6, <1>7, OrderedIsLogical

-----------------------------------------------------------------------------
(* Places in the text: clusters, break opportunities and widths.           *)

LEMMA LogicalIs ==
    ASSUME NEW r, r.size \in Nat \ {0}, NEW s, IsLogical(r, s)
    PROVE  /\ Len(s) \in Nat \ {0} /\ DOMAIN s = 1 .. Len(s) /\ s \in Seq(Clusters)
           /\ \A k \in 1 .. Len(s) :
                 /\ s[k].start \in Nat /\ s[k].end \in Nat /\ s[k].start <= s[k].end
                 /\ StartIn(r, s, k) = s[k].start /\ StartIn(r, s, k + 1) = s[k].end + 1
                 /\ s[k].end < r.size
           /\ \A k \in 1 .. Len(s) + 1 : StartIn(r, s, k) \in 0 .. r.size
           /\ StartIn(r, s, Len(s) + 1) = r.size
           /\ StartIn(r, s, 1) = 0
           /\ \A j, k \in 1 .. Len(s) + 1 : j <= k => StartIn(r, s, j) <= StartIn(r, s, k)
<1> DEFINE N == Len(s)
<1>1. /\ N \in Nat \ {0} /\ DOMAIN s = 1 .. N /\ s \in Seq(Clusters)
  BY LenProperties DEF IsLogical
<1>2. /\ \A k \in 1 .. N : /\ s[k].start \in Nat /\ s[k].end \in Nat /\ s[k].start <= s[k].end
                           /\ s[k].end + 1 = StartIn(r, s, k + 1)
      /\ s[1].start = 0
      /\ \A j, k \in 1 .. N : j < k => s[j].start < s[k].start
  BY DEF IsLogical, IsWhole, Clusters
<1> HIDE DEF N
<1>3. StartIn(r, s, N + 1) = r.size /\ \A k \in 1 .. N : StartIn(r, s, k) = s[k].start
  BY <1>1 DEF StartIn, N
<1>4. ASSUME NEW k \in 1 .. N PROVE s[k].start <= s[N].start /\ s[N].start < r.size
  <2>1. N \in 1 .. N /\ (k = N \/ k < N)
    BY <1>1
  <2>2. s[k].start \in Nat /\ s[N].start \in Nat /\ s[N].end \in Nat /\ s[N].start <= s[N].end
    BY <1>2, <2>1
  <2>3. s[N].end + 1 = r.size
    BY <1>2, <1>3, <2>1
  <2>4. k < N => s[k].start < s[N].start
    BY <1>2, <2>1
  <2> QED BY <2>1, <2>2, <2>3, <2>4
<1>5. ASSUME NEW k \in 1 .. N PROVE s[k].end < r.size
  <2>1. CASE k = N
    BY <1>2, <1>3, <2>1
  <2>2. CASE k # N
    <3>1. k + 1 \in 1 .. N
      BY <1>1, <2>2
    <3>2. s[k].end + 1 = s[k + 1].start /\ s[k + 1].start <= s[N].start /\ s[N].start < r.size
      BY <1>2, <1>3, <1>4, <3>1
    <3>3. s[N].start \in Nat /\ N \in 1 .. N
      BY <1>1, <1>2
    <3> QED BY <1>2, <3>1, <3>2, <3>3
  <2> QED BY <2>1, <2>2
<1>6. \A k \in 1 .. N + 1 : k \in 1 .. N \/ k = N + 1
  BY <1>1
<1>7. ASSUME NEW k \in 1 .. N + 1 PROVE StartIn(r, s, k) \in 0 .. r.size
  <2>1. CASE k = N + 1
    BY <1>3, <2>1
  <2>2. CASE k \in 1 .. N
    <3>1. s[k].start \in Nat /\ s[k].end \in Nat /\ s[k].start <= s[k].end /\ s[k].end < r.size
      BY <1>2, <1>5, <2>2
    <3> QED BY <1>3, <2>2, <3>1
  <2> QED BY <1>6, <2>1, <2>2
<1>8. ASSUME NEW j \in 1 .. N + 1, NEW k \in 1 .. N + 1, j <= k
      PROVE  StartIn(r, s, j) <= StartIn(r, s, k)
  <2>1. StartIn(r, s, j) \in 0 .. r.size /\ StartIn(r, s, k) \in 0 .. r.size
    BY <1>7
  <2>2. CASE k = N + 1
    BY <1>3, <2>1, <2>2
  <2>3. CASE j = k
    BY <2>1, <2>3
  <2>4. CASE k \in 1 .. N /\ j < k
    <3>1. j \in 1 .. N
      BY <1>1, <2>4
    <3>2. s[j].start < s[k].start
      BY <1>2, <2>4, <3>1
    <3> QED BY <1>3, <2>1, <2>4, <3>1, <3>2
  <2> QED BY <1>1, <1>6, <1>8, <2>2, <2>3, <2>4
<1>9. StartIn(r, s, 1) = 0
  BY <1>1, <1>2, <1>3
<1> QED BY <1>1, <1>2, <1>3, <1>5, <1>7, <1>8, <1>9 DEF N

LEMMA OpsAre ==
    ASSUME NEW r \in Requests
    PROVE  /\ r.size \in Nat \ {0} /\ Len(r.ops) \in Nat /\ DOMAIN r.ops = 1 .. Len(r.ops)
           /\ r.width \in Int
           /\ \A k \in 1 .. Len(r.ops) :
                 /\ r.ops[k].position \in 1 .. r.size /\ r.ops[k].position \notin r.joined
                 /\ r.ops[k].position \in Nat /\ r.ops[k].position >= 1
                 /\ r.ops[k].hard \in BOOLEAN
           /\ \A j, k \in 1 .. Len(r.ops) : j < k => r.ops[j].position < r.ops[k].position
<1>1. r.size \in Nat \ {0} /\ r.ops \in Seq(Opportunity) /\ r.width \in Int
  BY PiecesAssumption, OpportunitiesAssumption, WidthsAssumption
<1>2. Len(r.ops) \in Nat /\ DOMAIN r.ops = 1 .. Len(r.ops)
  BY <1>1, LenProperties
<1>3. \A k \in 1 .. Len(r.ops) :
          /\ r.ops[k].position \in 1 .. r.size /\ r.ops[k].position \notin r.joined
  BY <1>2, OpportunitiesAssumption
<1>4. \A k \in 1 .. Len(r.ops) : r.ops[k].hard \in BOOLEAN
  <2>1. \A k \in 1 .. Len(r.ops) : r.ops[k] \in Opportunity
    BY <1>1, ElementOfSeq
  <2> QED BY <2>1 DEF Opportunity
<1>5. \A j, k \in 1 .. Len(r.ops) : j < k => r.ops[j].position < r.ops[k].position
  BY <1>2, OpportunitiesAssumption
<1>6. \A k \in 1 .. Len(r.ops) : r.ops[k].position \in Nat /\ r.ops[k].position >= 1
  BY <1>1, <1>3
<1> QED BY <1>1, <1>2, <1>3, <1>4, <1>5, <1>6

(* ICU breaks no cluster: an opportunity behind the start of a cluster is  *)
(* behind all of it.                                                       *)
LEMMA BreaksNoCluster ==
    ASSUME NEW r, r.size \in Nat \ {0}, NEW s, IsLogical(r, s), NEW k \in 1 .. Len(s),
           NEW q \in Nat, q \notin r.joined, s[k].start < q
    PROVE  StartIn(r, s, k + 1) <= q
<1>1. /\ s[k].start \in Nat /\ s[k].end \in Nat
      /\ StartIn(r, s, k + 1) = s[k].end + 1
  BY LogicalIs
<1>2. s[k].start + 1 .. s[k].end \subseteq r.joined
  BY DEF IsLogical, IsWhole
<1>3. q \notin s[k].start + 1 .. s[k].end
  BY <1>2
<1> QED BY <1>1, <1>3

LEMMA WidthsAre ==
    ASSUME NEW r \in Requests
    PROVE  \A from, to \in 0 .. r.size :
               /\ WidthOf(r, from, to) \in Int
               /\ WidthOf(r, from, from) = 0
               /\ from <= to => WidthOf(r, from, to) \in Nat
               /\ \A p \in 0 .. r.size :
                     /\ WidthOf(r, p, from) + WidthOf(r, from, to) = WidthOf(r, p, to)
                     /\ from <= to => WidthOf(r, p, from) <= WidthOf(r, p, to)
<1> DEFINE w == [k \in 1 .. r.size |-> r.advance[k - 1]]
<1>1. r.size \in Nat /\ w \in Seq(Nat) /\ Len(w) = r.size
  <2>1. r.size \in Nat /\ r.advance \in [0 .. r.size - 1 -> Nat]
    BY PiecesAssumption, WidthsAssumption DEF Positions
  <2>2. \A k \in 1 .. r.size : k - 1 \in 0 .. r.size - 1
    BY <2>1
  <2>3. w \in [1 .. r.size -> Nat]
    BY <2>1, <2>2
  <2> HIDE DEF w
  <2> QED BY <2>1, <2>3, IsASeq, LenProperties
<1>2. \A p : WidthBefore(r, p) = SumOf(w, p)
  BY DEF WidthBefore
<1> HIDE DEF w
<1>3. \A p \in 0 .. r.size : WidthBefore(r, p) \in Nat
  BY <1>1, <1>2, SumIs
<1>4. \A p, q \in 0 .. r.size : p <= q => WidthBefore(r, p) <= WidthBefore(r, q)
  BY <1>1, <1>2, SumGrows
<1> QED BY <1>3, <1>4 DEF WidthOf

-----------------------------------------------------------------------------
(* The bounds so far.                                                      *)

NonDecreasing(bs) == \A j, k \in 1 .. Len(bs) : j <= k => bs[j] <= bs[k]
UpTo(bs, x) == \A k \in 1 .. Len(bs) : bs[k] <= x
IsBound(bs, x) == \E k \in 1 .. Len(bs) : bs[k] = x
LineStartIn(bs, k) == IF k = 1 THEN 0 ELSE bs[k - 1]

CountedFrom(r, s, from) ==
    IF \E j \in DOMAIN r.ops : r.ops[j].hard /\ r.ops[j].position = from
    THEN (CHOOSE c \in {s[l] : l \in DOMAIN s} : c.start = from).end + 1
    ELSE from
OpsBehind(r, p) == {q \in 1 .. r.size : q > p /\ \E j \in DOMAIN r.ops : r.ops[j].position = q}
IsGreedy(r, s, from, to) ==
    /\ (\E q \in OpsBehind(r, from) : q < to) => WidthOf(r, CountedFrom(r, s, from), to) < r.width
    /\ \A j \in DOMAIN r.ops :
           ~r.ops[j].hard /\ r.ops[j].position = to /\ to < r.size =>
               \A next \in OpsBehind(r, to) \cup {r.size} :
                   WidthOf(r, CountedFrom(r, s, from), next) >= r.width
GreedyLines(r, s, bs) == \A k \in 1 .. Len(bs) : IsGreedy(r, s, LineStartIn(bs, k), bs[k])

LEMMA MoreBounds ==
    ASSUME NEW S, NEW bs \in Seq(S), NEW x \in S
    PROVE  /\ Append(bs, x) \in Seq(S) /\ Len(bs) \in Nat /\ Len(Append(bs, x)) = Len(bs) + 1
           /\ Append(bs, x)[Len(bs) + 1] = x
           /\ \A k \in 1 .. Len(bs) : Append(bs, x)[k] = bs[k] /\ bs[k] \in S
           /\ LineStartIn(Append(bs, x), Len(bs) + 2) = x
           /\ \A k \in 1 .. Len(bs) + 1 : LineStartIn(Append(bs, x), k) = LineStartIn(bs, k)
<1>1. /\ Append(bs, x) \in Seq(S) /\ Len(bs) \in Nat /\ Len(Append(bs, x)) = Len(bs) + 1
      /\ Append(bs, x)[Len(bs) + 1] = x
      /\ \A k \in 1 .. Len(bs) : Append(bs, x)[k] = bs[k] /\ bs[k] \in S
  BY AppendProperties, LenProperties, ElementOfSeq
<1>2. LineStartIn(Append(bs, x), Len(bs) + 2) = x
  <2>1. Len(bs) + 2 # 1 /\ Len(bs) + 2 - 1 = Len(bs) + 1
    BY <1>1
  <2> QED BY <1>1, <2>1 DEF LineStartIn
<1>3. ASSUME NEW k \in 1 .. Len(bs) + 1
      PROVE  LineStartIn(Append(bs, x), k) = LineStartIn(bs, k)
  <2>1. k = 1 \/ k - 1 \in 1 .. Len(bs)
    BY <1>1
  <2> QED BY <1>1, <2>1 DEF LineStartIn
<1> QED BY <1>1, <1>2, <1>3

(* A bound that is not before the others keeps their order.                *)
LEMMA MoreInOrder ==
    ASSUME NEW bs \in Seq(Int), NEW x \in Int, NonDecreasing(bs), UpTo(bs, x)
    PROVE  /\ NonDecreasing(Append(bs, x)) /\ UpTo(Append(bs, x), x)
           /\ IsBound(Append(bs, x), x) /\ \A p : IsBound(bs, p) => IsBound(Append(bs, x), p)
<1> DEFINE z == Append(bs, x)
<1>1. /\ Len(bs) \in Nat /\ Len(z) = Len(bs) + 1 /\ z[Len(bs) + 1] = x
      /\ \A k \in 1 .. Len(bs) : z[k] = bs[k] /\ bs[k] \in Int
  BY MoreBounds
<1> HIDE DEF z
<1>2. \A k \in 1 .. Len(z) : k \in 1 .. Len(bs) \/ k = Len(bs) + 1
  BY <1>1
<1>3. \A k \in 1 .. Len(bs) : k \in 1 .. Len(z)
  BY <1>1
<1>4. Len(bs) + 1 \in 1 .. Len(z)
  BY <1>1
<1>5. UpTo(z, x)
  BY <1>1, <1>2 DEF UpTo
<1>6. ASSUME NEW j \in 1 .. Len(z), NEW k \in 1 .. Len(z), j <= k
      PROVE  z[j] <= z[k]
  <2>1. CASE k = Len(bs) + 1
    BY <1>1, <1>5, <2>1 DEF UpTo
  <2>2. CASE k \in 1 .. Len(bs)
    <3>1. j \in 1 .. Len(bs)
      BY <1>1, <1>6, <2>2
    <3>2. bs[j] <= bs[k]
      BY <1>6, <2>2, <3>1 DEF NonDecreasing
    <3> QED BY <1>1, <2>2, <3>1, <3>2
  <2> QED BY <1>2, <2>1, <2>2
<1>7. IsBound(z, x)
  BY <1>1, <1>4 DEF IsBound
<1>8. \A p : IsBound(bs, p) => IsBound(z, p)
  BY <1>1, <1>3 DEF IsBound
<1>9. NonDecreasing(z)
  BY <1>6, Zenon DEF NonDecreasing
<1> QED BY <1>5, <1>7, <1>8, <1>9 DEF z

LEMMA MoreGreedy ==
    ASSUME NEW r, NEW s, NEW S, NEW bs \in Seq(S), NEW x \in S, GreedyLines(r, s, bs),
           IsGreedy(r, s, LineStartIn(bs, Len(bs) + 1), x)
    PROVE  GreedyLines(r, s, Append(bs, x))
<1> DEFINE z == Append(bs, x)
<1>1. /\ Len(bs) \in Nat /\ Len(z) = Len(bs) + 1 /\ z[Len(bs) + 1] = x
      /\ \A k \in 1 .. Len(bs) : z[k] = bs[k]
      /\ \A k \in 1 .. Len(bs) + 1 : LineStartIn(z, k) = LineStartIn(bs, k)
  BY MoreBounds
<1> HIDE DEF z
<1>2. ASSUME NEW k \in 1 .. Len(z)
      PROVE  IsGreedy(r, s, LineStartIn(z, k), z[k])
  <2>1. CASE k \in 1 .. Len(bs)
    <3>1. LineStartIn(z, k) = LineStartIn(bs, k) /\ z[k] = bs[k]
      BY <1>1, <2>1
    <3>2. IsGreedy(r, s, LineStartIn(bs, k), bs[k])
      BY <2>1 DEF GreedyLines
    <3> QED BY <3>1, <3>2
  <2>2. CASE k = Len(bs) + 1
    <3>1. LineStartIn(z, k) = LineStartIn(bs, Len(bs) + 1) /\ z[k] = x
      BY <1>1, <2>2
    <3> QED BY <3>1
  <2> QED BY <1>1, <2>1, <2>2
<1> QED BY <1>2 DEF GreedyLines, z

(* The first character that is counted of a line.                          *)
LEMMA CountedIs ==
    ASSUME NEW r \in Requests, NEW s, IsLogical(r, s)
    PROVE  /\ \A p : (\A j \in 1 .. Len(r.ops) : r.ops[j].position = p => ~r.ops[j].hard) =>
                  CountedFrom(r, s, p) = p
           /\ \A k \in 1 .. Len(s), j \in 1 .. Len(r.ops) :
                  r.ops[j].hard /\ r.ops[j].position = s[k].start =>
                      CountedFrom(r, s, s[k].start) = StartIn(r, s, k + 1)
<1>1. r.size \in Nat \ {0} /\ DOMAIN r.ops = 1 .. Len(r.ops)
  BY OpsAre
<1>2. /\ DOMAIN s = 1 .. Len(s)
      /\ \A k \in 1 .. Len(s) : StartIn(r, s, k + 1) = s[k].end + 1 /\ s[k].start \in Nat
      /\ \A j, k \in 1 .. Len(s) : j < k => s[j].start < s[k].start
  BY <1>1, LogicalIs DEF IsLogical
<1>3. ASSUME NEW p, \A j \in 1 .. Len(r.ops) : r.ops[j].position = p => ~r.ops[j].hard
      PROVE  CountedFrom(r, s, p) = p
  BY <1>1, <1>3 DEF CountedFrom
<1>4. ASSUME NEW k \in 1 .. Len(s), NEW j \in 1 .. Len(r.ops),
             r.ops[j].hard, r.ops[j].position = s[k].start
      PROVE  CountedFrom(r, s, s[k].start) = StartIn(r, s, k + 1)
  <2> DEFINE all == {s[l] : l \in DOMAIN s}
             c == CHOOSE c \in all : c.start = s[k].start
  <2>1. CountedFrom(r, s, s[k].start) = c.end + 1
    BY <1>1, <1>4 DEF CountedFrom
  <2>2. s[k] \in all
    BY <1>2
  <2>3. c \in all /\ c.start = s[k].start
    <3> HIDE DEF all
    <3> QED BY <2>2
  <2>4. PICK l \in 1 .. Len(s) : c = s[l]
    BY <1>2, <2>3
  <2>5. ~(l < k) /\ ~(k < l)
    <3>1. s[l].start = s[k].start /\ s[k].start \in Nat
      BY <1>2, <2>3, <2>4
    <3>2. ~(s[l].start < s[k].start) /\ ~(s[k].start < s[l].start)
      BY <3>1
    <3> QED BY <1>2, <3>2
  <2>6. l = k
    BY <2>5
  <2> HIDE DEF c
  <2> QED BY <1>2, <2>1, <2>4, <2>6
<1> QED BY <1>3, <1>4

-----------------------------------------------------------------------------
(* The loop of break_lines: n is the cluster to place, m the next break    *)
(* opportunity, sb and sc the last one passed and its cluster, ls where    *)
(* the line starts and w what is counted of it.                            *)

Passed(r, s, bs, n, m, ls) ==
    /\ \A k \in m .. Len(r.ops) :
           StartIn(r, s, n) <= r.ops[k].position /\ ls < r.ops[k].position
    /\ \A k \in 1 .. m - 1 : r.ops[k].hard => IsBound(bs, r.ops[k].position)

Safe(r, s, bs, n, m, ls, sb, sc) ==
    /\ sb \in {0, m - 1}
    /\ sb # 0 =>
        /\ ~r.ops[sb].hard /\ ls < r.ops[sb].position
        /\ sc \in 1 .. n - 1
        /\ r.ops[sb].position = s[sc].start
        /\ UpTo(bs, r.ops[sb].position)

Counted(r, s, bs) == CountedFrom(r, s, LineStartIn(bs, Len(bs) + 1))
Measured(r, s, bs, n, m, sb, w) ==
    /\ Counted(r, s, bs) \in 0 .. r.size /\ Counted(r, s, bs) <= StartIn(r, s, n)
    /\ w = WidthOf(r, Counted(r, s, bs), StartIn(r, s, n))
    /\ sb # 0 => w < r.width
    /\ sb = 0 => \A k \in 1 .. m - 1 : r.ops[k].position <= LineStartIn(bs, Len(bs) + 1)
    /\ GreedyLines(r, s, bs)

AtWords(r) == r.flags = "WORD_BOUND" /\ r.width > 0

Loop(r, s, bs, n, m, ls, sb, sc, w) ==
    /\ r.flags # "NONE" /\ IsLogical(r, s)
    /\ n \in 1 .. Len(s) + 1 /\ m \in 1 .. Len(r.ops) + 1
    /\ bs \in Seq(0 .. r.size) /\ w \in Nat /\ ls \in 0 .. r.size - 1 /\ sc \in 0 .. Len(s)
    /\ NonDecreasing(bs) /\ UpTo(bs, StartIn(r, s, n))
    /\ Passed(r, s, bs, n, m, ls)
    /\ Safe(r, s, bs, n, m, ls, sb, sc)
    /\ AtWords(r) => Measured(r, s, bs, n, m, sb, w)

Passes(r, s, n, m) == m <= Len(r.ops) /\ r.ops[m].position <= s[n].start
BehindBreak(r, s, n, m) == IF Passes(r, s, n, m) THEN m + 1 ELSE m

LEMMA LoopIs ==
    ASSUME NEW r \in Requests, NEW s, NEW bs, NEW n, NEW m, NEW ls, NEW sb, NEW sc, NEW w,
           Loop(r, s, bs, n, m, ls, sb, sc, w)
    PROVE  /\ n \in 1 .. Len(s) + 1 /\ n \in Nat /\ m \in 1 .. Len(r.ops) + 1 /\ m \in Nat
           /\ bs \in Seq(0 .. r.size) /\ bs \in Seq(Int) /\ Len(bs) \in Nat
           /\ \A k \in 1 .. Len(bs) : bs[k] \in 0 .. r.size
           /\ LineStartIn(bs, Len(bs) + 1) \in 0 .. r.size
           /\ w \in Nat /\ ls \in 0 .. r.size - 1 /\ sc \in 0 .. Len(s) /\ sb \in 0 .. m - 1
<1>1. r.size \in Nat \ {0} /\ Len(r.ops) \in Nat
  BY OpsAre
<1>2. Len(s) \in Nat
  BY DEF Loop, IsLogical
<1>3. /\ n \in 1 .. Len(s) + 1 /\ m \in 1 .. Len(r.ops) + 1
      /\ bs \in Seq(0 .. r.size) /\ w \in Nat /\ ls \in 0 .. r.size - 1 /\ sc \in 0 .. Len(s)
  BY DEF Loop
<1>4. Len(bs) \in Nat /\ \A k \in 1 .. Len(bs) : bs[k] \in 0 .. r.size
  BY <1>3, LenProperties, ElementOfSeq
<1>5. bs \in Seq(Int)
  BY <1>1, <1>3
<1>6. LineStartIn(bs, Len(bs) + 1) \in 0 .. r.size
  <2>1. Len(bs) + 1 = 1 \/ (Len(bs) + 1 # 1 /\ Len(bs) + 1 - 1 \in 1 .. Len(bs))
    BY <1>4
  <2> QED BY <1>1, <1>4, <2>1 DEF LineStartIn
<1>7. sb \in 0 .. m - 1
  BY <1>1, <1>3 DEF Loop, Safe
<1> QED BY <1>1, <1>2, <1>3, <1>4, <1>5, <1>6, <1>7

(* An opportunity that is passed lies where a cluster begins, and the ones *)
(* behind it lie behind that cluster.                                      *)
LEMMA OpsAhead ==
    ASSUME NEW r \in Requests, NEW s, IsLogical(r, s), NEW n \in 1 .. Len(s),
           NEW m \in 1 .. Len(r.ops) + 1,
           \A k \in m .. Len(r.ops) : StartIn(r, s, n) <= r.ops[k].position,
           NEW next, next = BehindBreak(r, s, n, m)
    PROVE  /\ Passes(r, s, n, m) => m \in 1 .. Len(r.ops) /\ r.ops[m].position = s[n].start
           /\ next \in 1 .. Len(r.ops) + 1 /\ m <= next
           /\ \A k \in next .. Len(r.ops) :
                 /\ k \in m .. Len(r.ops) /\ s[n].start < r.ops[k].position
                 /\ StartIn(r, s, n + 1) <= r.ops[k].position
                 /\ s[n].end < r.ops[k].position
<1>1. /\ r.size \in Nat \ {0} /\ Len(r.ops) \in Nat
      /\ \A k \in 1 .. Len(r.ops) : r.ops[k].position \in Nat /\ r.ops[k].position \notin r.joined
      /\ \A j, k \in 1 .. Len(r.ops) : j < k => r.ops[j].position < r.ops[k].position
  BY OpsAre
<1>2. /\ s[n].start \in Nat /\ s[n].end \in Nat /\ StartIn(r, s, n) = s[n].start
      /\ StartIn(r, s, n + 1) = s[n].end + 1
  BY <1>1, LogicalIs
<1>3. ASSUME Passes(r, s, n, m)
      PROVE  m \in 1 .. Len(r.ops) /\ r.ops[m].position = s[n].start
  <2>1. m \in 1 .. Len(r.ops) /\ m \in m .. Len(r.ops)
    BY <1>1, <1>3 DEF Passes
  <2>2. StartIn(r, s, n) <= r.ops[m].position /\ r.ops[m].position <= s[n].start
    BY <1>3, <2>1 DEF Passes
  <2> QED BY <1>1, <1>2, <2>1, <2>2
<1>4. next \in 1 .. Len(r.ops) + 1 /\ m <= next
  BY <1>1, <1>3 DEF BehindBreak
<1>5. ASSUME NEW k \in next .. Len(r.ops)
      PROVE  /\ k \in m .. Len(r.ops) /\ s[n].start < r.ops[k].position
             /\ StartIn(r, s, n + 1) <= r.ops[k].position
             /\ s[n].end < r.ops[k].position
  <2>1. k \in 1 .. Len(r.ops) /\ k \in m .. Len(r.ops)
    BY <1>1, <1>4
  <2>2. s[n].start < r.ops[k].position
    <3>1. CASE Passes(r, s, n, m)
      <4>1. m < k
        BY <1>1, <2>1, <3>1 DEF BehindBreak
      <4> QED BY <1>1, <1>3, <2>1, <3>1, <4>1
    <3>2. CASE ~Passes(r, s, n, m)
      <4>1. m \in 1 .. Len(r.ops) /\ (m = k \/ m < k)
        BY <1>1, <2>1
      <4>2. s[n].start < r.ops[m].position
        BY <1>1, <1>2, <3>2, <4>1 DEF Passes
      <4>3. m < k => r.ops[m].position < r.ops[k].position
        BY <1>1, <2>1, <4>1
      <4>4. r.ops[m].position \in Nat /\ r.ops[k].position \in Nat /\ s[n].start \in Nat
        BY <1>1, <1>2, <2>1, <4>1
      <4>5. CASE m = k
        BY <4>2, <4>5
      <4>6. CASE m < k
        <5>1. r.ops[m].position < r.ops[k].position
          BY <4>3, <4>6
        <5> QED BY SMTT(30), <4>2, <4>4, <5>1
      <4> QED BY <4>1, <4>5, <4>6
    <3> QED BY <3>1, <3>2
  <2>3. r.ops[k].position \in Nat /\ r.ops[k].position \notin r.joined
    BY <1>1, <2>1
  <2>4. StartIn(r, s, n + 1) <= r.ops[k].position
    <3>1. r.size \in Nat \ {0}
      BY <1>1
    <3> QED BY <2>2, <2>3, <3>1, BreaksNoCluster
  <2> QED BY <1>2, <2>1, <2>2, <2>3, <2>4
<1> QED BY <1>3, <1>4, <1>5

(* A line ends at x and the next one begins with the cluster n1.           *)
LEMMA LineEnds ==
    ASSUME NEW r \in Requests, NEW s, NEW bs, NEW n, NEW m, NEW ls, NEW sb, NEW sc, NEW w,
           Loop(r, s, bs, n, m, ls, sb, sc, w),
           NEW x \in 0 .. r.size, NEW n1 \in 1 .. Len(s) + 1, NEW m1 \in 1 .. Len(r.ops) + 1,
           NEW ls1 \in 0 .. r.size - 1,
           UpTo(bs, x), x <= StartIn(r, s, n1),
           \A k \in m1 .. Len(r.ops) :
               StartIn(r, s, n1) <= r.ops[k].position /\ ls1 < r.ops[k].position,
           \A k \in 1 .. m1 - 1 :
               r.ops[k].hard => IsBound(bs, r.ops[k].position) \/ r.ops[k].position = x,
           AtWords(r) =>
               /\ CountedFrom(r, s, x) = StartIn(r, s, n1)
               /\ \A k \in 1 .. m1 - 1 : r.ops[k].position <= x
               /\ IsGreedy(r, s, LineStartIn(bs, Len(bs) + 1), x)
    PROVE  Loop(r, s, Append(bs, x), n1, m1, ls1, 0, 0, 0)
<1> DEFINE z == Append(bs, x)
           st == StartIn(r, s, n1)
<1>1. /\ r.size \in Nat \ {0} /\ IsLogical(r, s) /\ r.flags # "NONE"
      /\ bs \in Seq(0 .. r.size) /\ bs \in Seq(Int) /\ Len(bs) \in Nat
  BY OpsAre, LoopIs DEF Loop
<1>2. /\ z \in Seq(0 .. r.size) /\ Len(z) = Len(bs) + 1
      /\ LineStartIn(z, Len(z) + 1) = x
  <2>1. /\ z \in Seq(0 .. r.size) /\ Len(z) = Len(bs) + 1
        /\ LineStartIn(z, Len(bs) + 2) = x
    BY <1>1, MoreBounds
  <2>2. Len(z) + 1 = Len(bs) + 2
    BY <1>1, <2>1
  <2> QED BY <2>1, <2>2
<1>3. /\ NonDecreasing(z) /\ UpTo(z, x) /\ IsBound(z, x)
      /\ \A p : IsBound(bs, p) => IsBound(z, p)
  <2>1. NonDecreasing(bs) /\ x \in Int
    BY DEF Loop
  <2> QED BY <1>1, <2>1, MoreInOrder
<1>4. st \in 0 .. r.size
  BY <1>1, LogicalIs
<1>5. UpTo(z, st)
  <2>1. \A k \in 1 .. Len(z) : z[k] \in 0 .. r.size
    BY <1>2, ElementOfSeq, LenProperties
  <2> HIDE DEF z, st
  <2> QED BY <1>3, <1>4, <2>1 DEF UpTo, st
<1> HIDE DEF z, st
<1>6. Passed(r, s, z, n1, m1, ls1)
  BY <1>3 DEF Passed
<1>7. Safe(r, s, z, n1, m1, ls1, 0, 0)
  BY DEF Safe
<1>8. ASSUME AtWords(r)
      PROVE  Measured(r, s, z, n1, m1, 0, 0)
  <2>1. Counted(r, s, z) = st
    BY <1>2, <1>8 DEF Counted, st
  <2>2. WidthOf(r, st, st) = 0 /\ st <= st
    BY <1>4, WidthsAre
  <2>3. GreedyLines(r, s, z)
    <3>1. GreedyLines(r, s, bs)
      BY <1>8 DEF Loop, Measured
    <3> QED BY <1>1, <1>8, <3>1, MoreGreedy DEF z
  <2>4. \A k \in 1 .. m1 - 1 : r.ops[k].position <= LineStartIn(z, Len(z) + 1)
    BY <1>2, <1>8
  <2> QED BY <1>4, <2>1, <2>2, <2>3, <2>4 DEF Measured, st
<1>9. 0 \in Nat /\ 0 \in 0 .. Len(s)
  BY <1>1 DEF IsLogical
<1> QED BY <1>1, <1>2, <1>3, <1>5, <1>6, <1>7, <1>8, <1>9 DEF Loop, z, st

(* The opportunities behind the start of a line that are passed.           *)
LEMMA PassedInLine ==
    ASSUME NEW r \in Requests, NEW s, NEW bs, NEW n, NEW m, NEW ls, NEW sb, NEW sc, NEW w,
           Loop(r, s, bs, n, m, ls, sb, sc, w), AtWords(r),
           NEW to \in Int, to <= StartIn(r, s, n),
           \E q \in OpsBehind(r, LineStartIn(bs, Len(bs) + 1)) : q < to
    PROVE  sb # 0 /\ WidthOf(r, Counted(r, s, bs), StartIn(r, s, n)) < r.width
<1>1. Measured(r, s, bs, n, m, sb, w)
  BY DEF Loop
<1>2. PICK j \in 1 .. Len(r.ops) :
          LineStartIn(bs, Len(bs) + 1) < r.ops[j].position /\ r.ops[j].position < to
  BY OpsAre DEF OpsBehind
<1>3. /\ r.ops[j].position \in Int /\ m \in Nat /\ Len(r.ops) \in Nat
      /\ StartIn(r, s, n) \in Int /\ LineStartIn(bs, Len(bs) + 1) \in Int
  <2>1. r.size \in Nat \ {0} /\ r.ops[j].position \in Nat /\ m \in Nat /\ Len(r.ops) \in Nat
        /\ n \in 1 .. Len(s) + 1 /\ LineStartIn(bs, Len(bs) + 1) \in 0 .. r.size
    BY OpsAre, LoopIs
  <2>2. StartIn(r, s, n) \in 0 .. r.size
    BY <2>1, LogicalIs DEF Loop
  <2> QED BY <2>1, <2>2
<1>4. j \in 1 .. m - 1
  <2>1. ASSUME j \in m .. Len(r.ops) PROVE FALSE
    <3>1. StartIn(r, s, n) <= r.ops[j].position
      BY <2>1 DEF Loop, Passed
    <3> QED BY <1>2, <1>3, <3>1
  <2> QED BY <1>3, <2>1
<1>5. sb # 0
  <2>1. ASSUME sb = 0 PROVE FALSE
    <3>1. r.ops[j].position <= LineStartIn(bs, Len(bs) + 1)
      BY <1>1, <1>4, <2>1 DEF Measured
    <3> QED BY <1>2, <1>3, <3>1
  <2> QED BY <2>1
<1> QED BY <1>1, <1>5 DEF Measured

LEMMA HardBreakLoop ==
    ASSUME NEW r \in Requests, NEW s, NEW bs, NEW n, NEW m, NEW ls, NEW sb, NEW sc, NEW w,
           Loop(r, s, bs, n, m, ls, sb, sc, w), n \in 1 .. Len(s),
           Passes(r, s, n, m), r.ops[m].hard
    PROVE  Loop(r, s, Append(bs, s[n].start), n + 1, m + 1, s[n].end, 0, 0, 0)
<1> DEFINE x == s[n].start
           from == LineStartIn(bs, Len(bs) + 1)
<1>1. /\ r.size \in Nat \ {0} /\ Len(r.ops) \in Nat /\ IsLogical(r, s) /\ m \in Nat /\ n \in Nat
      /\ m \in 1 .. Len(r.ops) + 1 /\ Len(bs) \in Nat /\ Len(s) \in Nat
      /\ \A k \in 1 .. Len(bs) : bs[k] \in 0 .. r.size
  <2>1. r.size \in Nat \ {0} /\ Len(r.ops) \in Nat
    BY OpsAre
  <2>2. IsLogical(r, s) /\ Len(s) \in Nat
    BY DEF Loop, IsLogical
  <2>3. /\ m \in Nat /\ n \in Nat /\ m \in 1 .. Len(r.ops) + 1 /\ Len(bs) \in Nat
        /\ \A k \in 1 .. Len(bs) : bs[k] \in 0 .. r.size
    BY LoopIs
  <2> QED BY <2>1, <2>2, <2>3
<1>2. /\ x \in Nat /\ s[n].end \in Nat /\ x <= s[n].end /\ s[n].end < r.size
      /\ StartIn(r, s, n) = x /\ StartIn(r, s, n + 1) = s[n].end + 1
  BY <1>1, LogicalIs
<1>3. /\ m \in 1 .. Len(r.ops) /\ r.ops[m].position = x
      /\ \A k \in m + 1 .. Len(r.ops) :
            StartIn(r, s, n + 1) <= r.ops[k].position /\ s[n].end < r.ops[k].position
  <2>1. \A k \in m .. Len(r.ops) : StartIn(r, s, n) <= r.ops[k].position
    BY DEF Loop, Passed
  <2>2. BehindBreak(r, s, n, m) = m + 1
    BY DEF BehindBreak
  <2>3. /\ Passes(r, s, n, m) => m \in 1 .. Len(r.ops) /\ r.ops[m].position = s[n].start
        /\ \A k \in BehindBreak(r, s, n, m) .. Len(r.ops) :
              StartIn(r, s, n + 1) <= r.ops[k].position /\ s[n].end < r.ops[k].position
    <3>1. m \in 1 .. Len(r.ops) + 1 /\ IsLogical(r, s)
      BY <1>1
    <3> QED BY <2>1, <3>1, OpsAhead
  <2> QED BY <2>2, <2>3
<1>4. x \in 0 .. r.size /\ n + 1 \in 1 .. Len(s) + 1 /\ m + 1 \in 1 .. Len(r.ops) + 1
      /\ s[n].end \in 0 .. r.size - 1 /\ x <= StartIn(r, s, n + 1)
  BY SMTT(30), <1>1, <1>2, <1>3
<1>5. UpTo(bs, x)
  BY <1>2 DEF Loop
<1>6. ASSUME NEW k \in 1 .. m + 1 - 1, r.ops[k].hard
      PROVE  IsBound(bs, r.ops[k].position) \/ r.ops[k].position = x
  <2>1. k = m \/ k \in 1 .. m - 1
    BY <1>1
  <2> QED BY <1>3, <1>6, <2>1 DEF Loop, Passed
<1>7. \A k \in 1 .. m + 1 - 1 : r.ops[k].position <= x
  <2> SUFFICES ASSUME NEW k \in 1 .. m + 1 - 1 PROVE r.ops[k].position <= x
    OBVIOUS
  <2>1. k \in 1 .. Len(r.ops) /\ (k = m \/ k < m)
    BY <1>1, <1>3
  <2>2. r.ops[k].position \in Nat /\ (k < m => r.ops[k].position < r.ops[m].position)
    BY <1>3, <2>1, OpsAre
  <2> QED BY <1>2, <1>3, <2>1, <2>2
<1>8. CountedFrom(r, s, x) = StartIn(r, s, n + 1)
  BY <1>1, <1>3, CountedIs
<1>9. ASSUME AtWords(r)
      PROVE  IsGreedy(r, s, from, x)
  <2>1. (\E q \in OpsBehind(r, from) : q < x) => WidthOf(r, CountedFrom(r, s, from), x) < r.width
    <3> HIDE DEF x
    <3>1. x \in Int /\ x <= StartIn(r, s, n)
      BY <1>2
    <3> QED BY <1>2, <1>9, <3>1, PassedInLine DEF Counted
  <2>2. ASSUME NEW j \in DOMAIN r.ops, ~r.ops[j].hard, r.ops[j].position = x PROVE FALSE
    <3>1. /\ j \in 1 .. Len(r.ops) /\ r.ops[j].position \in Nat
          /\ j < m => r.ops[j].position < r.ops[m].position
          /\ m < j => r.ops[m].position < r.ops[j].position
      BY <1>3, OpsAre
    <3>2. j = m
      BY <1>1, <1>2, <1>3, <2>2, <3>1
    <3> QED BY <2>2, <3>2
  <2> QED BY <2>1, <2>2 DEF IsGreedy
<1> HIDE DEF x
<1>10. Loop(r, s, Append(bs, x), n + 1, m + 1, s[n].end, 0, 0, 0)
  <2>1. PICK n1, m1, ls1 : n1 = n + 1 /\ m1 = m + 1 /\ ls1 = s[n].end
    OBVIOUS
  <2>2. /\ x \in 0 .. r.size /\ n1 \in 1 .. Len(s) + 1 /\ m1 \in 1 .. Len(r.ops) + 1
        /\ ls1 \in 0 .. r.size - 1 /\ UpTo(bs, x) /\ x <= StartIn(r, s, n1)
        /\ CountedFrom(r, s, x) = StartIn(r, s, n1)
    BY <1>4, <1>5, <1>8, <2>1
  <2>3. /\ \A k \in m1 .. Len(r.ops) :
              StartIn(r, s, n1) <= r.ops[k].position /\ ls1 < r.ops[k].position
        /\ \A k \in 1 .. m1 - 1 :
              r.ops[k].hard => IsBound(bs, r.ops[k].position) \/ r.ops[k].position = x
        /\ \A k \in 1 .. m1 - 1 : r.ops[k].position <= x
    BY <1>3, <1>6, <1>7, <2>1
  <2>4. Loop(r, s, Append(bs, x), n1, m1, ls1, 0, 0, 0)
    BY <1>9, <2>2, <2>3, LineEnds
  <2> QED BY <2>1, <2>4
<1> QED BY <1>10 DEF x

(* The last opportunity that is passed, with the cluster n.                *)
LEMMA SafeIs ==
    ASSUME NEW r \in Requests, NEW s, NEW bs, NEW n, NEW m, NEW ls, NEW sb, NEW sc, NEW w,
           Loop(r, s, bs, n, m, ls, sb, sc, w), n \in 1 .. Len(s),
           ~(Passes(r, s, n, m) /\ r.ops[m].hard),
           NEW m1, m1 = BehindBreak(r, s, n, m),
           NEW k0, k0 = IF Passes(r, s, n, m) THEN m ELSE sb,
           NEW c0, c0 = IF Passes(r, s, n, m) THEN n ELSE sc
    PROVE  /\ m1 \in 1 .. Len(r.ops) + 1 /\ m1 \in Nat /\ m <= m1
           /\ k0 \in {0, m1 - 1} /\ c0 \in 0 .. Len(s)
           /\ k0 = 0 => ~Passes(r, s, n, m) /\ sb = 0
           /\ k0 # 0 =>
                 /\ k0 \in 1 .. Len(r.ops) /\ ~r.ops[k0].hard /\ ls < r.ops[k0].position
                 /\ c0 \in 1 .. n /\ c0 \in 1 .. Len(s) /\ r.ops[k0].position = s[c0].start
                 /\ UpTo(bs, r.ops[k0].position) /\ r.ops[k0].position <= StartIn(r, s, n)
           /\ \A k \in m1 .. Len(r.ops) :
                 /\ ls < r.ops[k].position /\ k \in 1 .. Len(r.ops)
                 /\ StartIn(r, s, n + 1) <= r.ops[k].position /\ s[n].end < r.ops[k].position
           /\ \A k \in 1 .. m1 - 1 : r.ops[k].hard => IsBound(bs, r.ops[k].position)
<1>1. /\ r.size \in Nat \ {0} /\ Len(r.ops) \in Nat /\ IsLogical(r, s) /\ m \in Nat /\ n \in Nat
      /\ m \in 1 .. Len(r.ops) + 1 /\ Len(s) \in Nat /\ sc \in 0 .. Len(s)
      /\ Passed(r, s, bs, n, m, ls) /\ Safe(r, s, bs, n, m, ls, sb, sc)
      /\ UpTo(bs, StartIn(r, s, n))
  BY OpsAre, LoopIs DEF Loop, IsLogical
<1>2. StartIn(r, s, n) = s[n].start /\ s[n].start \in Nat
  BY <1>1, LogicalIs
<1>3. /\ Passes(r, s, n, m) => m \in 1 .. Len(r.ops) /\ r.ops[m].position = s[n].start
      /\ m1 \in 1 .. Len(r.ops) + 1 /\ m <= m1
      /\ \A k \in m1 .. Len(r.ops) :
            /\ k \in m .. Len(r.ops)
            /\ StartIn(r, s, n + 1) <= r.ops[k].position /\ s[n].end < r.ops[k].position
  <2>1. \A k \in m .. Len(r.ops) : StartIn(r, s, n) <= r.ops[k].position
    BY <1>1 DEF Passed
  <2> QED BY <1>1, <2>1, OpsAhead
<1>4. \A k \in m1 .. Len(r.ops) :
          /\ ls < r.ops[k].position /\ k \in 1 .. Len(r.ops)
          /\ StartIn(r, s, n + 1) <= r.ops[k].position /\ s[n].end < r.ops[k].position
  BY <1>1, <1>3 DEF Passed
<1>5. CASE Passes(r, s, n, m)
  <2>1. m1 = m + 1 /\ k0 = m /\ c0 = n /\ ~r.ops[m].hard
    BY <1>5 DEF BehindBreak
  <2>2. m \in m .. Len(r.ops)
    BY <1>3, <1>5
  <2>3. ls < r.ops[m].position
    BY <1>1, <2>2 DEF Passed
  <2>4. \A k \in 1 .. m1 - 1 : r.ops[k].hard => IsBound(bs, r.ops[k].position)
    <3>1. \A k \in 1 .. m1 - 1 : k = m \/ k \in 1 .. m - 1
      BY <1>1, <2>1
    <3> QED BY <1>1, <2>1, <3>1 DEF Passed
  <2>5. /\ k0 \in 1 .. Len(r.ops) /\ ~r.ops[k0].hard /\ ls < r.ops[k0].position
        /\ c0 \in 1 .. n /\ c0 \in 1 .. Len(s) /\ r.ops[k0].position = s[c0].start
        /\ UpTo(bs, r.ops[k0].position) /\ r.ops[k0].position <= StartIn(r, s, n)
    <3>1. k0 \in 1 .. Len(r.ops) /\ ~r.ops[k0].hard /\ ls < r.ops[k0].position
      BY <1>3, <1>5, <2>1, <2>3
    <3>2. c0 \in 1 .. n /\ c0 \in 1 .. Len(s) /\ r.ops[k0].position = s[c0].start
      BY <1>1, <1>3, <1>5, <2>1
    <3>3. r.ops[k0].position = StartIn(r, s, n)
      BY <1>2, <1>3, <1>5, <2>1
    <3> QED BY <1>1, <1>2, <3>1, <3>2, <3>3
  <2>6. k0 \in {0, m1 - 1} /\ c0 \in 0 .. Len(s) /\ k0 # 0 /\ m1 \in Nat
    BY <1>1, <2>1
  <2> QED BY <1>3, <1>4, <1>5, <2>4, <2>5, <2>6
<1>6. CASE ~Passes(r, s, n, m)
  <2>1. m1 = m /\ k0 = sb /\ c0 = sc
    BY <1>6 DEF BehindBreak
  <2>2. \A k \in 1 .. m1 - 1 : r.ops[k].hard => IsBound(bs, r.ops[k].position)
    BY <1>1, <2>1 DEF Passed
  <2>3. k0 \in {0, m1 - 1} /\ c0 \in 0 .. Len(s) /\ m1 \in Nat
    BY <1>1, <2>1 DEF Safe
  <2>4. ASSUME k0 # 0
        PROVE  /\ k0 \in 1 .. Len(r.ops) /\ ~r.ops[k0].hard /\ ls < r.ops[k0].position
               /\ c0 \in 1 .. n /\ c0 \in 1 .. Len(s) /\ r.ops[k0].position = s[c0].start
               /\ UpTo(bs, r.ops[k0].position) /\ r.ops[k0].position <= StartIn(r, s, n)
    <3>1. k0 \in 1 .. Len(r.ops)
      BY <1>1, <2>1, <2>3, <2>4
    <3>2. /\ ~r.ops[k0].hard /\ ls < r.ops[k0].position /\ c0 \in 1 .. n - 1
          /\ r.ops[k0].position = s[c0].start /\ UpTo(bs, r.ops[k0].position)
      BY <1>1, <2>1, <2>4 DEF Safe
    <3>3. /\ c0 \in 1 .. n /\ c0 \in 1 .. Len(s) /\ c0 \in 1 .. Len(s) + 1
          /\ n \in 1 .. Len(s) + 1 /\ c0 <= n
      BY <1>1, <3>2
    <3>4. StartIn(r, s, c0) = s[c0].start /\ StartIn(r, s, c0) <= StartIn(r, s, n)
      BY <1>1, <3>3, LogicalIs
    <3> QED BY <3>1, <3>2, <3>3, <3>4
  <2> QED BY <1>3, <1>4, <1>6, <2>1, <2>2, <2>3, <2>4
<1> QED BY <1>5, <1>6

NewWidthOf(r, s, n, w) == w + WidthOf(r, s[n].start, s[n].end + 1)

LEMMA NewWidthIs ==
    ASSUME NEW r \in Requests, NEW s, NEW bs, NEW n, NEW m, NEW ls, NEW sb, NEW sc, NEW w,
           Loop(r, s, bs, n, m, ls, sb, sc, w), n \in 1 .. Len(s)
    PROVE  /\ NewWidthOf(r, s, n, w) \in Nat
           /\ AtWords(r) => NewWidthOf(r, s, n, w) = WidthOf(r, Counted(r, s, bs), StartIn(r, s, n + 1))
<1>1. r.size \in Nat \ {0} /\ IsLogical(r, s) /\ w \in Nat
  BY OpsAre, LoopIs DEF Loop
<1>2. /\ StartIn(r, s, n) = s[n].start /\ StartIn(r, s, n + 1) = s[n].end + 1
      /\ s[n].start \in 0 .. r.size /\ s[n].end + 1 \in 0 .. r.size /\ s[n].start <= s[n].end + 1
  <2>1. /\ StartIn(r, s, n) = s[n].start /\ StartIn(r, s, n + 1) = s[n].end + 1
        /\ s[n].start \in Nat /\ s[n].end \in Nat /\ s[n].start <= s[n].end /\ s[n].end < r.size
    BY <1>1, LogicalIs
  <2> QED BY <1>1, <2>1
<1>3. WidthOf(r, s[n].start, s[n].end + 1) \in Nat
  BY <1>2, WidthsAre
<1>4. ASSUME AtWords(r)
      PROVE  NewWidthOf(r, s, n, w) = WidthOf(r, Counted(r, s, bs), StartIn(r, s, n + 1))
  <2>1. Counted(r, s, bs) \in 0 .. r.size /\ w = WidthOf(r, Counted(r, s, bs), StartIn(r, s, n))
    BY <1>4 DEF Loop, Measured
  <2>2. WidthOf(r, Counted(r, s, bs), s[n].start) + WidthOf(r, s[n].start, s[n].end + 1)
            = WidthOf(r, Counted(r, s, bs), s[n].end + 1)
    BY <1>2, <2>1, WidthsAre
  <2> QED BY <1>2, <2>1, <2>2 DEF NewWidthOf
<1> QED BY <1>1, <1>3, <1>4 DEF NewWidthOf

LEMMA PlaceLoop ==
    ASSUME NEW r \in Requests, NEW s, NEW bs, NEW n, NEW m, NEW ls, NEW sb, NEW sc, NEW w,
           Loop(r, s, bs, n, m, ls, sb, sc, w), n \in 1 .. Len(s),
           ~(Passes(r, s, n, m) /\ r.ops[m].hard),
           NEW m1, m1 = BehindBreak(r, s, n, m),
           NEW k0, k0 = IF Passes(r, s, n, m) THEN m ELSE sb,
           NEW c0, c0 = IF Passes(r, s, n, m) THEN n ELSE sc,
           AtWords(r) /\ k0 # 0 => NewWidthOf(r, s, n, w) < r.width
    PROVE  Loop(r, s, bs, n + 1, m1, ls, k0, c0, NewWidthOf(r, s, n, w))
<1>1. /\ m1 \in 1 .. Len(r.ops) + 1 /\ m1 \in Nat /\ m <= m1
      /\ k0 \in {0, m1 - 1} /\ c0 \in 0 .. Len(s)
      /\ k0 = 0 => ~Passes(r, s, n, m) /\ sb = 0
      /\ k0 # 0 =>
            /\ ~r.ops[k0].hard /\ ls < r.ops[k0].position
            /\ c0 \in 1 .. n /\ r.ops[k0].position = s[c0].start
            /\ UpTo(bs, r.ops[k0].position)
      /\ \A k \in m1 .. Len(r.ops) :
            ls < r.ops[k].position /\ StartIn(r, s, n + 1) <= r.ops[k].position
      /\ \A k \in 1 .. m1 - 1 : r.ops[k].hard => IsBound(bs, r.ops[k].position)
  BY SafeIs
<1>2. /\ r.size \in Nat \ {0} /\ IsLogical(r, s) /\ n \in Nat /\ Len(s) \in Nat
      /\ bs \in Seq(0 .. r.size) /\ Len(bs) \in Nat /\ ls \in 0 .. r.size - 1
      /\ \A k \in 1 .. Len(bs) : bs[k] \in 0 .. r.size
      /\ r.flags # "NONE" /\ NonDecreasing(bs) /\ UpTo(bs, StartIn(r, s, n))
  BY OpsAre, LoopIs DEF Loop, IsLogical
<1>3. /\ n + 1 \in 1 .. Len(s) + 1 /\ n + 1 - 1 = n
      /\ StartIn(r, s, n) \in 0 .. r.size /\ StartIn(r, s, n + 1) \in 0 .. r.size
      /\ StartIn(r, s, n) <= StartIn(r, s, n + 1)
  <2>1. n \in 1 .. Len(s) + 1 /\ n + 1 \in 1 .. Len(s) + 1 /\ n <= n + 1
    BY <1>2
  <2>2. /\ \A k \in 1 .. Len(s) + 1 : StartIn(r, s, k) \in 0 .. r.size
        /\ \A j, k \in 1 .. Len(s) + 1 : j <= k => StartIn(r, s, j) <= StartIn(r, s, k)
    BY <1>2, LogicalIs
  <2> QED BY <1>2, <2>1, <2>2
<1>4. UpTo(bs, StartIn(r, s, n + 1))
  <2> SUFFICES ASSUME NEW k \in 1 .. Len(bs) PROVE bs[k] <= StartIn(r, s, n + 1)
    BY DEF UpTo
  <2>1. bs[k] <= StartIn(r, s, n) /\ bs[k] \in 0 .. r.size
    BY <1>2 DEF UpTo
  <2> QED BY <1>3, <2>1
<1>5. Passed(r, s, bs, n + 1, m1, ls)
  BY <1>1 DEF Passed
<1>6. Safe(r, s, bs, n + 1, m1, ls, k0, c0)
  BY <1>1, <1>3 DEF Safe
<1>7. NewWidthOf(r, s, n, w) \in Nat
  BY NewWidthIs
<1>8. ASSUME AtWords(r)
      PROVE  Measured(r, s, bs, n + 1, m1, k0, NewWidthOf(r, s, n, w))
  <2>1. Measured(r, s, bs, n, m, sb, w)
    BY <1>8 DEF Loop
  <2>2. NewWidthOf(r, s, n, w) = WidthOf(r, Counted(r, s, bs), StartIn(r, s, n + 1))
    BY <1>8, NewWidthIs
  <2>3. Counted(r, s, bs) \in 0 .. r.size /\ Counted(r, s, bs) <= StartIn(r, s, n + 1)
    BY <1>2, <1>3, <2>1 DEF Measured
  <2>4. k0 = 0 => \A k \in 1 .. m1 - 1 : r.ops[k].position <= LineStartIn(bs, Len(bs) + 1)
    <3>1. k0 = 0 => m1 = m /\ sb = 0
      BY <1>1 DEF BehindBreak
    <3> QED BY <2>1, <3>1 DEF Measured
  <2>5. GreedyLines(r, s, bs) /\ (k0 # 0 => NewWidthOf(r, s, n, w) < r.width)
    BY <1>8, <2>1 DEF Measured
  <2> QED BY <2>2, <2>3, <2>4, <2>5 DEF Measured
<1> QED BY <1>1, <1>2, <1>3, <1>4, <1>5, <1>6, <1>7, <1>8 DEF Loop

LEMMA SoftBreakLoop ==
    ASSUME NEW r \in Requests, NEW s, NEW bs, NEW n, NEW m, NEW ls, NEW sb, NEW sc, NEW w,
           Loop(r, s, bs, n, m, ls, sb, sc, w), n \in 1 .. Len(s),
           ~(Passes(r, s, n, m) /\ r.ops[m].hard),
           NEW m1, m1 = BehindBreak(r, s, n, m),
           NEW k0, k0 = IF Passes(r, s, n, m) THEN m ELSE sb,
           NEW c0, c0 = IF Passes(r, s, n, m) THEN n ELSE sc,
           k0 # 0, AtWords(r), NewWidthOf(r, s, n, w) >= r.width
    PROVE  Loop(r, s, Append(bs, r.ops[k0].position), c0, m1, r.ops[k0].position, 0, 0, 0)
<1> DEFINE x == r.ops[k0].position
           from == LineStartIn(bs, Len(bs) + 1)
           counted == CountedFrom(r, s, from)
<1>1. /\ m1 \in 1 .. Len(r.ops) + 1 /\ m1 \in Nat /\ k0 = m1 - 1
      /\ k0 \in 1 .. Len(r.ops) /\ ~r.ops[k0].hard
      /\ c0 \in 1 .. n /\ c0 \in 1 .. Len(s) /\ x = s[c0].start
      /\ UpTo(bs, x) /\ x <= StartIn(r, s, n)
      /\ \A k \in m1 .. Len(r.ops) :
            k \in 1 .. Len(r.ops) /\ StartIn(r, s, n + 1) <= r.ops[k].position
      /\ \A k \in 1 .. m1 - 1 : r.ops[k].hard => IsBound(bs, r.ops[k].position)
  BY SafeIs
<1>2. /\ r.size \in Nat \ {0} /\ Len(r.ops) \in Nat /\ IsLogical(r, s) /\ Len(s) \in Nat
      /\ \A k \in 1 .. Len(r.ops) : r.ops[k].position \in Nat
      /\ \A j, k \in 1 .. Len(r.ops) : j < k => r.ops[j].position < r.ops[k].position
      /\ r.width \in Int /\ n \in Nat
  BY OpsAre, LoopIs DEF Loop, IsLogical
<1>3. /\ x = StartIn(r, s, c0) /\ x \in 0 .. r.size - 1 /\ x \in 0 .. r.size
      /\ c0 \in 1 .. Len(s) + 1
      /\ StartIn(r, s, n) \in 0 .. r.size /\ StartIn(r, s, n + 1) \in 0 .. r.size
  <2>1. /\ StartIn(r, s, c0) = s[c0].start /\ s[c0].start \in Nat /\ s[c0].end \in Nat
        /\ s[c0].start <= s[c0].end /\ s[c0].end < r.size
    BY <1>1, <1>2, LogicalIs
  <2>2. n \in 1 .. Len(s) + 1 /\ n + 1 \in 1 .. Len(s) + 1
    BY <1>2
  <2>3. StartIn(r, s, n) \in 0 .. r.size /\ StartIn(r, s, n + 1) \in 0 .. r.size
    BY <1>2, <2>2, LogicalIs
  <2>4. x = s[c0].start
    BY <1>1
  <2> HIDE DEF x
  <2>5. x = StartIn(r, s, c0) /\ x \in Nat /\ x < r.size
    BY <1>2, <2>1, <2>4
  <2>6. c0 \in 1 .. Len(s) + 1
    BY <1>1, <1>2
  <2> QED BY <1>2, <2>3, <2>5, <2>6
<1>4. ASSUME NEW k \in 1 .. Len(r.ops)
      PROVE  /\ k \in m1 .. Len(r.ops) => x < r.ops[k].position
             /\ k \in 1 .. m1 - 1 => r.ops[k].position <= x
             /\ r.ops[k].position = x => k = k0
             /\ x < r.ops[k].position => k \in m1 .. Len(r.ops)
  <2>1. (k < k0 => r.ops[k].position < x) /\ (k0 < k => x < r.ops[k].position)
    BY <1>1, <1>2
  <2>2. x \in Nat /\ r.ops[k].position \in Nat /\ (k = k0 => r.ops[k].position = x)
    BY <1>1, <1>2
  <2>3. k0 = m1 - 1 /\ m1 \in Nat /\ k0 \in 1 .. Len(r.ops) /\ Len(r.ops) \in Nat
    BY <1>1, <1>2
  <2> HIDE DEF x
  <2>4. k < k0 \/ k = k0 \/ k0 < k
    BY <2>3
  <2>5. k \in m1 .. Len(r.ops) <=> k0 < k
    BY <2>3
  <2>6. k \in 1 .. m1 - 1 => k <= k0
    BY <2>3
  <2>7. k <= k0 => k < k0 \/ k = k0
    BY <2>3
  <2> QED BY <2>1, <2>2, <2>4, <2>5, <2>6, <2>7
<1>5. CountedFrom(r, s, x) = x
  <2>1. \A j \in 1 .. Len(r.ops) : r.ops[j].position = x => ~r.ops[j].hard
    BY <1>1, <1>4
  <2> HIDE DEF x
  <2> QED BY <1>2, <2>1, CountedIs
<1>6. counted \in 0 .. r.size /\ counted = Counted(r, s, bs)
  BY DEF Loop, Measured, Counted
<1>7. ASSUME \E q \in OpsBehind(r, from) : q < x
      PROVE  WidthOf(r, counted, x) < r.width
  <2> HIDE DEF x, from, counted
  <2>1. WidthOf(r, counted, StartIn(r, s, n)) < r.width
    <3>1. x \in Int /\ x <= StartIn(r, s, n)
      BY <1>1, <1>3
    <3>2. \E q \in OpsBehind(r, LineStartIn(bs, Len(bs) + 1)) : q < x
      BY <1>7 DEF from
    <3>3. WidthOf(r, Counted(r, s, bs), StartIn(r, s, n)) < r.width
      BY <3>1, <3>2, PassedInLine
    <3> QED BY <1>6, <3>3
  <2>2. /\ WidthOf(r, counted, x) <= WidthOf(r, counted, StartIn(r, s, n))
        /\ WidthOf(r, counted, x) \in Int /\ WidthOf(r, counted, StartIn(r, s, n)) \in Int
    BY <1>1, <1>3, <1>6, WidthsAre
  <2> QED BY <1>2, <2>1, <2>2
<1>8. ASSUME NEW next \in OpsBehind(r, x) \cup {r.size}
      PROVE  WidthOf(r, counted, next) >= r.width
  <2> HIDE DEF x, from, counted
  <2>1. next \in 0 .. r.size /\ StartIn(r, s, n + 1) <= next
    <3>1. CASE next = r.size
      BY <1>2, <1>3, <3>1
    <3>2. CASE next \in OpsBehind(r, x)
      <4>1. PICK k \in 1 .. Len(r.ops) : r.ops[k].position = next
        BY <3>2, OpsAre DEF OpsBehind
      <4>2. next \in 1 .. r.size /\ x < next
        BY <3>2 DEF OpsBehind
      <4>3. k \in m1 .. Len(r.ops)
        BY <1>4, <4>1, <4>2
      <4>4. StartIn(r, s, n + 1) <= r.ops[k].position
        BY <1>1, <4>3
      <4> QED BY <1>2, <4>1, <4>2, <4>4
    <3> QED BY <3>1, <3>2
  <2>2. /\ WidthOf(r, counted, StartIn(r, s, n + 1)) <= WidthOf(r, counted, next)
        /\ WidthOf(r, counted, StartIn(r, s, n + 1)) \in Int /\ WidthOf(r, counted, next) \in Int
    BY <1>3, <1>6, <2>1, WidthsAre
  <2>3. WidthOf(r, counted, StartIn(r, s, n + 1)) >= r.width
    BY <1>6, NewWidthIs
  <2> QED BY <1>2, <2>2, <2>3
<1>9. IsGreedy(r, s, from, x)
  <2> HIDE DEF x, from
  <2> QED BY <1>7, <1>8 DEF IsGreedy
<1>10. \A k \in m1 .. Len(r.ops) :
          StartIn(r, s, c0) <= r.ops[k].position /\ x < r.ops[k].position
  <2> SUFFICES ASSUME NEW k \in m1 .. Len(r.ops)
               PROVE  StartIn(r, s, c0) <= r.ops[k].position /\ x < r.ops[k].position
    OBVIOUS
  <2>1. k \in 1 .. Len(r.ops) /\ x < r.ops[k].position
    BY <1>1, <1>4
  <2>2. r.ops[k].position \in Nat /\ x \in Nat
    BY <1>2, <1>3, <2>1
  <2> HIDE DEF x
  <2> QED BY <1>3, <2>1, <2>2
<1>11. \A k \in 1 .. m1 - 1 : r.ops[k].position <= x
  <2>1. \A k \in 1 .. m1 - 1 : k \in 1 .. Len(r.ops)
    BY <1>1, <1>2
  <2> QED BY <1>4, <2>1
<1> HIDE DEF x
<1>12. Loop(r, s, Append(bs, x), c0, m1, x, 0, 0, 0)
  <2>1. PICK ls1 : ls1 = x
    OBVIOUS
  <2>2. /\ \A k \in m1 .. Len(r.ops) :
              StartIn(r, s, c0) <= r.ops[k].position /\ ls1 < r.ops[k].position
        /\ \A k \in 1 .. m1 - 1 :
              r.ops[k].hard => IsBound(bs, r.ops[k].position) \/ r.ops[k].position = x
        /\ x <= StartIn(r, s, c0) /\ CountedFrom(r, s, x) = StartIn(r, s, c0)
        /\ ls1 \in 0 .. r.size - 1
    BY <1>1, <1>3, <1>5, <1>10, <2>1
  <2>3. Loop(r, s, Append(bs, x), c0, m1, ls1, 0, 0, 0)
    BY <1>1, <1>3, <1>9, <1>11, <2>2, LineEnds
  <2> QED BY <2>1, <2>3
<1> QED BY <1>12 DEF x

LEMMA AnywhereBreakLoop ==
    ASSUME NEW r \in Requests, NEW s, NEW bs, NEW n, NEW m, NEW ls, NEW sb, NEW sc, NEW w,
           Loop(r, s, bs, n, m, ls, sb, sc, w), n \in 1 .. Len(s),
           ~(Passes(r, s, n, m) /\ r.ops[m].hard),
           NEW m1, m1 = BehindBreak(r, s, n, m), ~AtWords(r)
    PROVE  Loop(r, s, Append(bs, s[n].end), n + 1, m1, s[n].end, 0, 0, 0)
<1>1. PICK x, n1 : x = s[n].end /\ n1 = n + 1
  OBVIOUS
<1>2. /\ m1 \in 1 .. Len(r.ops) + 1
      /\ \A k \in m1 .. Len(r.ops) :
            StartIn(r, s, n1) <= r.ops[k].position /\ x < r.ops[k].position
      /\ \A k \in 1 .. m1 - 1 : r.ops[k].hard => IsBound(bs, r.ops[k].position)
  BY <1>1, SafeIs
<1>3. /\ r.size \in Nat \ {0} /\ IsLogical(r, s) /\ Len(s) \in Nat /\ n \in Nat
      /\ Len(bs) \in Nat /\ \A k \in 1 .. Len(bs) : bs[k] \in 0 .. r.size
      /\ UpTo(bs, StartIn(r, s, n))
  BY OpsAre, LoopIs DEF Loop, IsLogical
<1>4. /\ StartIn(r, s, n) = s[n].start /\ StartIn(r, s, n + 1) = s[n].end + 1
      /\ s[n].start \in Nat /\ s[n].end \in Nat /\ s[n].start <= s[n].end /\ s[n].end < r.size
  BY <1>3, LogicalIs
<1>5. /\ x \in 0 .. r.size /\ x \in 0 .. r.size - 1 /\ n1 \in 1 .. Len(s) + 1
      /\ StartIn(r, s, n1) = x + 1 /\ x <= StartIn(r, s, n1)
  BY <1>1, <1>3, <1>4
<1>6. UpTo(bs, x)
  <2> SUFFICES ASSUME NEW k \in 1 .. Len(bs) PROVE bs[k] <= x
    BY DEF UpTo
  <2>1. bs[k] <= StartIn(r, s, n) /\ bs[k] \in 0 .. r.size
    BY <1>3 DEF UpTo
  <2> QED BY <1>1, <1>4, <2>1
<1>7. Loop(r, s, Append(bs, x), n1, m1, x, 0, 0, 0)
  <2>1. PICK ls1 : ls1 = x
    OBVIOUS
  <2>2. /\ \A k \in m1 .. Len(r.ops) :
              StartIn(r, s, n1) <= r.ops[k].position /\ ls1 < r.ops[k].position
        /\ \A k \in 1 .. m1 - 1 :
              r.ops[k].hard => IsBound(bs, r.ops[k].position) \/ r.ops[k].position = x
        /\ ls1 \in 0 .. r.size - 1
    BY <1>2, <1>5, <2>1
  <2>3. Loop(r, s, Append(bs, x), n1, m1, ls1, 0, 0, 0)
    BY <1>2, <1>5, <1>6, <2>2, LineEnds
  <2> QED BY <2>1, <2>3
<1> QED BY <1>1, <1>7

(* The first pass begins with the clusters in logical order.               *)
LEMMA BeginLoop ==
    ASSUME NEW r \in Requests, NEW s, IsLogical(r, s), r.flags # "NONE"
    PROVE  Loop(r, s, <<>>, 1, 1, 0, 0, 0, 0)
<1>1. /\ r.size \in Nat \ {0} /\ Len(r.ops) \in Nat /\ DOMAIN r.ops = 1 .. Len(r.ops)
      /\ \A k \in 1 .. Len(r.ops) : r.ops[k].position \in Nat /\ r.ops[k].position >= 1
  BY OpsAre
<1>2. StartIn(r, s, 1) = 0 /\ Len(s) \in Nat \ {0}
  BY <1>1, LogicalIs
<1>3. <<>> \in Seq(0 .. r.size) /\ Len(<<>>) = 0
  BY EmptySeq
<1>4. /\ NonDecreasing(<<>>) /\ UpTo(<<>>, StartIn(r, s, 1))
      /\ GreedyLines(r, s, <<>>) /\ LineStartIn(<<>>, Len(<<>>) + 1) = 0
  BY <1>3 DEF NonDecreasing, UpTo, GreedyLines, LineStartIn
<1>5. Passed(r, s, <<>>, 1, 1, 0)
  <2>1. \A k \in 1 .. Len(r.ops) :
            StartIn(r, s, 1) <= r.ops[k].position /\ 0 < r.ops[k].position
    BY <1>1, <1>2
  <2>2. \A k \in 1 .. 1 - 1 : r.ops[k].hard => IsBound(<<>>, r.ops[k].position)
    OBVIOUS
  <2> QED BY <2>1, <2>2 DEF Passed
<1>6. Safe(r, s, <<>>, 1, 1, 0, 0, 0)
  BY DEF Safe
<1>7. Counted(r, s, <<>>) = 0
  <2>1. \A j \in 1 .. Len(r.ops) : r.ops[j].position = 0 => ~r.ops[j].hard
    BY <1>1
  <2>2. CountedFrom(r, s, 0) = 0
    BY <2>1, CountedIs
  <2> QED BY <1>4, <2>2 DEF Counted
<1>8. Measured(r, s, <<>>, 1, 1, 0, 0)
  <2>1. 0 \in 0 .. r.size /\ 0 <= StartIn(r, s, 1) /\ 0 = WidthOf(r, 0, StartIn(r, s, 1))
    <3>1. 0 \in 0 .. r.size
      BY <1>1
    <3>2. WidthOf(r, 0, 0) = 0
      BY <3>1, WidthsAre
    <3> QED BY <1>2, <3>1, <3>2
  <2>2. \A k \in 1 .. 1 - 1 : r.ops[k].position <= LineStartIn(<<>>, Len(<<>>) + 1)
    OBVIOUS
  <2> QED BY <1>4, <1>7, <2>1, <2>2 DEF Measured
<1>9. 1 \in 1 .. Len(s) + 1 /\ 1 \in 1 .. Len(r.ops) + 1 /\ 0 \in 0 .. r.size - 1 /\ 0 \in 0 .. Len(s)
  BY <1>1, <1>2
<1> QED BY <1>3, <1>4, <1>5, <1>6, <1>8, <1>9 DEF Loop

-----------------------------------------------------------------------------
(* What break_lines returns.                                               *)

Done(r, s, bs) ==
    /\ bs \in Seq(0 .. r.size) /\ Len(bs) \in Nat \ {0} /\ bs[Len(bs)] = r.size
    /\ NonDecreasing(bs)
    /\ r.flags # "NONE" =>
           \A k \in 1 .. Len(r.ops) : r.ops[k].hard => IsBound(bs, r.ops[k].position)
    /\ AtWords(r) => GreedyLines(r, s, bs)

(* Behind the last cluster the text ends: once for the last line, and once *)
(* more when a line feed leaves an empty line.                             *)
LEMMA FinishDone ==
    ASSUME NEW r \in Requests, NEW s, NEW bs, NEW n, NEW m, NEW ls, NEW sb, NEW sc, NEW w,
           Loop(r, s, bs, n, m, ls, sb, sc, w), n = Len(s) + 1
    PROVE  /\ Done(r, s, Append(bs, r.size))
           /\ Done(r, s, Append(Append(bs, r.size), r.size))
<1> DEFINE x == r.size
           z == Append(bs, x)
           y == Append(z, x)
           from == LineStartIn(bs, Len(bs) + 1)
<1>1. /\ x \in Nat \ {0} /\ x \in 0 .. x /\ x \in Int /\ Len(r.ops) \in Nat /\ m \in Nat
      /\ bs \in Seq(0 .. x) /\ bs \in Seq(Int) /\ Len(bs) \in Nat
      /\ \A k \in 1 .. Len(r.ops) : r.ops[k].position \in 1 .. x
      /\ IsLogical(r, s) /\ NonDecreasing(bs) /\ StartIn(r, s, n) = x
  <2>1. /\ x \in Nat \ {0} /\ Len(r.ops) \in Nat
        /\ \A k \in 1 .. Len(r.ops) : r.ops[k].position \in 1 .. x
    BY OpsAre
  <2>2. IsLogical(r, s) /\ NonDecreasing(bs)
    BY DEF Loop
  <2>3. m \in Nat /\ bs \in Seq(0 .. x) /\ bs \in Seq(Int) /\ Len(bs) \in Nat
    BY LoopIs
  <2> QED BY <2>1, <2>2, <2>3 DEF StartIn
<1>2. UpTo(bs, x)
  BY <1>1 DEF Loop
<1>3. /\ z \in Seq(0 .. x) /\ Len(z) = Len(bs) + 1 /\ z[Len(z)] = x
      /\ LineStartIn(z, Len(z) + 1) = x
  <2>1. /\ z \in Seq(0 .. x) /\ Len(z) = Len(bs) + 1 /\ z[Len(bs) + 1] = x
        /\ LineStartIn(z, Len(bs) + 2) = x
    BY <1>1, MoreBounds
  <2>2. Len(z) + 1 = Len(bs) + 2
    BY <1>1, <2>1
  <2> QED BY <2>1, <2>2
<1>4. /\ NonDecreasing(z) /\ UpTo(z, x) /\ IsBound(z, x)
      /\ \A p : IsBound(bs, p) => IsBound(z, p)
  BY <1>1, <1>2, MoreInOrder
<1>5. ASSUME NEW k \in 1 .. Len(r.ops), r.ops[k].hard
      PROVE  IsBound(z, r.ops[k].position)
  <2>1. CASE k \in 1 .. m - 1
    BY <1>4, <1>5, <2>1 DEF Loop, Passed
  <2>2. CASE k \in m .. Len(r.ops)
    <3>1. x <= r.ops[k].position /\ r.ops[k].position \in 1 .. x
      BY <1>1, <2>2 DEF Loop, Passed
    <3>2. r.ops[k].position = x
      BY <1>1, <3>1
    <3> QED BY <1>4, <3>2
  <2> QED BY <1>1, <2>1, <2>2
<1>6. ASSUME AtWords(r)
      PROVE  GreedyLines(r, s, z)
  <2>1. (\E q \in OpsBehind(r, from) : q < x) => WidthOf(r, CountedFrom(r, s, from), x) < r.width
    BY <1>1, <1>6, PassedInLine DEF Counted
  <2>2. IsGreedy(r, s, from, x)
    <3>1. ~(x < r.size)
      BY <1>1
    <3> HIDE DEF x, from
    <3> QED BY <2>1, <3>1 DEF IsGreedy
  <2>3. GreedyLines(r, s, bs)
    BY <1>6 DEF Loop, Measured
  <2> QED BY <1>1, <2>2, <2>3, MoreGreedy
<1>7. Done(r, s, z)
  <2>1. Len(z) \in Nat \ {0}
    BY <1>1, <1>3
  <2> HIDE DEF z
  <2> QED BY <1>3, <1>4, <1>5, <1>6, <2>1 DEF Done
<1>8. /\ y \in Seq(0 .. x) /\ Len(y) = Len(z) + 1 /\ y[Len(y)] = x
      /\ NonDecreasing(y) /\ \A p : IsBound(z, p) => IsBound(y, p)
  <2>1. z \in Seq(Int) /\ Len(z) \in Nat
    BY <1>1, <1>3
  <2> HIDE DEF z
  <2> QED BY <1>1, <1>3, <1>4, <2>1, MoreBounds, MoreInOrder
<1>9. ASSUME AtWords(r)
      PROVE  GreedyLines(r, s, y)
  <2>1. OpsBehind(r, x) = {} /\ ~(x < r.size)
    BY <1>1 DEF OpsBehind
  <2>2. IsGreedy(r, s, x, x)
    <3> HIDE DEF x
    <3> QED BY <2>1 DEF IsGreedy
  <2>3. IsGreedy(r, s, LineStartIn(z, Len(z) + 1), x)
    BY <1>3, <2>2
  <2> HIDE DEF z
  <2> QED BY <1>1, <1>3, <1>6, <1>9, <2>3, MoreGreedy
<1>10. Done(r, s, y)
  <2>1. Len(y) \in Nat \ {0}
    BY <1>1, <1>3, <1>8
  <2>2. \A k \in 1 .. Len(r.ops) : r.ops[k].hard => IsBound(y, r.ops[k].position)
    BY <1>5, <1>8
  <2> HIDE DEF y
  <2> QED BY <1>8, <1>9, <2>1, <2>2 DEF Done
<1> QED BY <1>7, <1>10

-----------------------------------------------------------------------------
(* The inductive invariant: the lines are not begun, are being broken, or  *)
(* are returned.                                                           *)

NotBegun ==
    /\ logical = <<>> /\ i = 0 /\ b = 1 /\ width = 0 /\ line_start = 0
    /\ last_safe_brk = 0 /\ last_safe_brk_cluster = 0
    /\ ~returned => bounds = <<>>
    /\ returned => valid /\ req.flags = "NONE" /\ bounds = <<req.size>>

InLoop ==
    /\ ~returned /\ valid
    /\ Loop(req, logical, bounds, i, b, line_start, last_safe_brk, last_safe_brk_cluster, width)

Broken ==
    /\ returned /\ valid /\ IsLogical(req, logical) /\ i = Len(logical) + 1
    /\ b \in 1 .. Len(Ops) + 1 /\ width \in Nat /\ line_start \in 0 .. req.size - 1
    /\ last_safe_brk \in 0 .. b - 1 /\ last_safe_brk_cluster \in 0 .. Len(logical)
    /\ Done(req, logical, bounds)

LineInv ==
    DrawInv /\ valid \in BOOLEAN /\ returned \in BOOLEAN /\ (NotBegun \/ InLoop \/ Broken)

LEMMA RequestOk ==
    ASSUME DrawInv
    PROVE  req \in Requests
BY DEF DrawInv, ShapeInv

LEMMA LineBegins ==
    ASSUME Init, BoxedOnce(req)
    PROVE  LineInv
<1>1. DrawInv
  BY DrawBegins DEF Init
<1>2. returned = FALSE /\ valid = FALSE /\ NotBegun
  BY DEF Init, ShapeInit, LineInit, NotBegun
<1> QED BY <1>1, <1>2 DEF LineInv

(* A step of the loop is a step of one cluster.                            *)
LEMMA PlacingLoops ==
    ASSUME LineInv, Placing
    PROVE  InLoop /\ i \in 1 .. Len(logical) /\ req \in Requests
<1>1. CASE NotBegun
  BY <1>1 DEF NotBegun, Placing
<1>2. CASE InLoop
  <2>1. IsLogical(req, logical) /\ req \in Requests
    BY <1>2, RequestOk DEF InLoop, Loop, LineInv
  <2>2. DOMAIN logical = 1 .. Len(logical)
    BY <2>1, LenProperties DEF IsLogical
  <2> QED BY <1>2, <2>1, <2>2 DEF Placing
<1>3. CASE Broken
  <2>1. DOMAIN logical = 1 .. Len(logical) /\ Len(logical) \in Nat
    BY <1>3, LenProperties DEF Broken, IsLogical
  <2> QED BY <1>3, <2>1 DEF Broken, Placing
<1> QED BY <1>1, <1>2, <1>3 DEF LineInv

LEMMA PlacingIs ==
    /\ PassesBreak <=> Passes(req, logical, i, b)
    /\ MustBreak <=> Passes(req, logical, i, b) /\ req.ops[b].hard
    /\ NewWidth = NewWidthOf(req, logical, i, width)
    /\ SafeBreak = IF Passes(req, logical, i, b) THEN b ELSE last_safe_brk
    /\ SafeCluster = IF Passes(req, logical, i, b) THEN i ELSE last_safe_brk_cluster
    /\ (IF PassesBreak THEN b + 1 ELSE b) = BehindBreak(req, logical, i, b)
BY DEF PassesBreak, Passes, MustBreak, NewWidth, NewWidthOf, SafeBreak, SafeCluster,
       BehindBreak, Ops

LEMMA BeginStep ==
    ASSUME LineInv, Begin
    PROVE  InLoop'
<1>1. valid /\ ~returned /\ req \in Requests /\ req' = req /\ valid' = valid
  BY RequestOk DEF Begin, shapeVars, LineInv
<1>2. NotBegun
  <2>1. ~InLoop
    BY DEF InLoop, Loop, Begin
  <2>2. ~Broken
    BY <1>1 DEF Broken
  <2> QED BY <2>1, <2>2 DEF LineInv
<1>3. IsLogical(req, logical')
  <2>1. visual \in Seq(Clusters) /\ Cuts(req, visual, Positions(req))
    BY <1>1, DrawnAll DEF LineInv
  <2>2. req.size \in Nat \ {0} /\ logical' \in SortedClusters(visual)
    BY <1>1, PiecesAssumption DEF Begin
  <2> QED BY <2>1, <2>2, SortedIs
<1>4. Loop(req, logical', <<>>, 1, 1, 0, 0, 0, 0)
  BY <1>1, <1>3, BeginLoop DEF Begin
<1>5. /\ bounds' = <<>> /\ i' = 1 /\ b' = 1 /\ line_start' = 0 /\ last_safe_brk' = 0
      /\ last_safe_brk_cluster' = 0 /\ width' = 0 /\ returned' = FALSE
  BY <1>1, <1>2 DEF Begin, NotBegun, LineInv
<1> QED BY <1>1, <1>4, <1>5 DEF InLoop

LEMMA HardBreakStep ==
    ASSUME LineInv, HardBreak
    PROVE  InLoop'
<1>1. /\ InLoop /\ i \in 1 .. Len(logical) /\ req \in Requests
      /\ Passes(req, logical, i, b) /\ req.ops[b].hard
  BY PlacingLoops, PlacingIs DEF HardBreak
<1>2. Loop(req, logical, Append(bounds, logical[i].start), i + 1, b + 1, logical[i].end, 0, 0, 0)
  BY <1>1, HardBreakLoop DEF InLoop
<1>3. /\ req' = req /\ valid' = valid /\ logical' = logical /\ returned' = returned
      /\ bounds' = Append(bounds, logical[i].start) /\ i' = i + 1 /\ b' = b + 1 /\ width' = 0
      /\ line_start' = logical[i].end /\ last_safe_brk' = 0 /\ last_safe_brk_cluster' = 0
  BY DEF HardBreak, StartLine, shapeVars
<1> QED BY <1>1, <1>2, <1>3 DEF InLoop

LEMMA SoftBreakStep ==
    ASSUME LineInv, SoftBreak
    PROVE  InLoop'
<1>1. /\ InLoop /\ i \in 1 .. Len(logical) /\ req \in Requests
      /\ ~(Passes(req, logical, i, b) /\ req.ops[b].hard)
      /\ SafeBreak # 0 /\ AtWords(req) /\ NewWidthOf(req, logical, i, width) >= req.width
  BY PlacingLoops, PlacingIs DEF SoftBreak, IsFull, MayBreak, AtWords
<1>2. PICK m1, k0, c0 : /\ m1 = BehindBreak(req, logical, i, b)
                        /\ k0 = SafeBreak /\ c0 = SafeCluster
  OBVIOUS
<1>3. Loop(req, logical, Append(bounds, req.ops[k0].position), c0, m1, req.ops[k0].position, 0, 0, 0)
  <2>1. /\ k0 = IF Passes(req, logical, i, b) THEN b ELSE last_safe_brk
        /\ c0 = IF Passes(req, logical, i, b) THEN i ELSE last_safe_brk_cluster
        /\ k0 # 0
    BY <1>1, <1>2, PlacingIs
  <2> QED BY <1>1, <1>2, <2>1, SoftBreakLoop DEF InLoop
<1>4. /\ req' = req /\ valid' = valid /\ logical' = logical /\ returned' = returned
      /\ bounds' = Append(bounds, req.ops[k0].position) /\ i' = c0 /\ b' = m1 /\ width' = 0
      /\ line_start' = req.ops[k0].position /\ last_safe_brk' = 0 /\ last_safe_brk_cluster' = 0
  <2>1. b' = m1
    BY <1>2, PlacingIs DEF SoftBreak
  <2> QED BY <1>2, <2>1 DEF SoftBreak, StartLine, shapeVars, Ops
<1> QED BY <1>1, <1>3, <1>4 DEF InLoop

LEMMA AnywhereBreakStep ==
    ASSUME LineInv, AnywhereBreak
    PROVE  InLoop'
<1>1. /\ InLoop /\ i \in 1 .. Len(logical) /\ req \in Requests
      /\ ~(Passes(req, logical, i, b) /\ req.ops[b].hard) /\ ~AtWords(req)
  BY PlacingLoops, PlacingIs DEF AnywhereBreak, AtWords
<1>2. PICK m1 : m1 = BehindBreak(req, logical, i, b)
  OBVIOUS
<1>3. Loop(req, logical, Append(bounds, logical[i].end), i + 1, m1, logical[i].end, 0, 0, 0)
  BY <1>1, <1>2, AnywhereBreakLoop DEF InLoop
<1>4. /\ req' = req /\ valid' = valid /\ logical' = logical /\ returned' = returned
      /\ bounds' = Append(bounds, logical[i].end) /\ i' = i + 1 /\ b' = m1 /\ width' = 0
      /\ line_start' = logical[i].end /\ last_safe_brk' = 0 /\ last_safe_brk_cluster' = 0
  <2>1. b' = m1
    BY <1>2, PlacingIs DEF AnywhereBreak
  <2> QED BY <2>1 DEF AnywhereBreak, StartLine, shapeVars
<1> QED BY <1>1, <1>3, <1>4 DEF InLoop

LEMMA PlaceStep ==
    ASSUME LineInv, PlaceCluster
    PROVE  InLoop'
<1>1. /\ InLoop /\ i \in 1 .. Len(logical) /\ req \in Requests
      /\ ~(Passes(req, logical, i, b) /\ req.ops[b].hard)
  BY PlacingLoops, PlacingIs DEF PlaceCluster
<1>2. PICK m1, k0, c0 : /\ m1 = BehindBreak(req, logical, i, b)
                        /\ k0 = SafeBreak /\ c0 = SafeCluster
  OBVIOUS
<1>3. /\ k0 = IF Passes(req, logical, i, b) THEN b ELSE last_safe_brk
      /\ c0 = IF Passes(req, logical, i, b) THEN i ELSE last_safe_brk_cluster
  BY <1>2, PlacingIs
<1>4. ASSUME AtWords(req), k0 # 0
      PROVE  NewWidthOf(req, logical, i, width) < req.width
  <2>1. line_start < req.ops[k0].position /\ k0 \in 1 .. Len(req.ops)
    BY <1>1, <1>2, <1>3, <1>4, SafeIs DEF InLoop
  <2>2. req.ops[k0].position # line_start
    <3>1. line_start \in 0 .. req.size - 1 /\ req.size \in Nat /\ req.ops[k0].position \in Nat
      BY <1>1, <2>1, OpsAre, LoopIs DEF InLoop
    <3> QED BY <2>1, <3>1
  <2>3. MayBreak
    BY <1>2, <1>4, <2>2 DEF MayBreak, AtWords, Ops
  <2>4. ~IsFull
    BY <2>3 DEF PlaceCluster
  <2>5. NewWidth \in Nat /\ req.width \in Int /\ NewWidth = NewWidthOf(req, logical, i, width)
    BY <1>1, NewWidthIs, OpsAre, PlacingIs DEF InLoop
  <2> QED BY <1>4, <2>4, <2>5 DEF IsFull, AtWords
<1>5. Loop(req, logical, bounds, i + 1, m1, line_start, k0, c0, NewWidthOf(req, logical, i, width))
  BY <1>1, <1>2, <1>3, <1>4, PlaceLoop DEF InLoop
<1>6. /\ req' = req /\ valid' = valid /\ logical' = logical /\ returned' = returned
      /\ bounds' = bounds /\ i' = i + 1 /\ b' = m1 /\ line_start' = line_start
      /\ width' = NewWidthOf(req, logical, i, width)
      /\ last_safe_brk' = k0 /\ last_safe_brk_cluster' = c0
  <2>1. b' = m1 /\ width' = NewWidthOf(req, logical, i, width)
    BY <1>2, PlacingIs DEF PlaceCluster
  <2> QED BY <1>2, <2>1 DEF PlaceCluster, shapeVars
<1> QED BY <1>1, <1>5, <1>6 DEF InLoop

LEMMA FinishStep ==
    ASSUME LineInv, Finish
    PROVE  Broken'
<1>1. InLoop
  <2>1. ~NotBegun
    <3>1. Len(<<>>) = 0
      BY EmptySeq
    <3> QED BY <3>1 DEF NotBegun, Finish
  <2>2. ~Broken
    BY DEF Broken, Finish
  <2> QED BY <2>1, <2>2 DEF LineInv
<1>2. /\ req \in Requests /\ i = Len(logical) + 1
      /\ Loop(req, logical, bounds, i, b, line_start, last_safe_brk, last_safe_brk_cluster, width)
  BY <1>1, RequestOk DEF InLoop, Finish, LineInv
<1>3. /\ b \in 1 .. Len(req.ops) + 1 /\ width \in Nat /\ line_start \in 0 .. req.size - 1
      /\ last_safe_brk \in 0 .. b - 1 /\ last_safe_brk_cluster \in 0 .. Len(logical)
      /\ bounds \in Seq(0 .. req.size) /\ req.size \in Nat \ {0} /\ IsLogical(req, logical)
  BY <1>2, LoopIs, OpsAre DEF Loop
<1> DEFINE last == <<req.size>>
           z == Append(bounds, req.size)
<1>4. bounds' = z \/ bounds' = Append(z, req.size)
  <2>1. line_start < req.size /\ req.size \in 0 .. req.size
    BY <1>3
  <2>2. bounds' = bounds \o <<>> \o last \/ bounds' = bounds \o last \o last
    BY <2>1 DEF Finish
  <2>3. bounds \o <<>> = bounds /\ bounds \o last = z
    BY <1>3, <2>1, ConcatEmptySeq, AppendIsConcat
  <2>4. z \in Seq(0 .. req.size)
    BY <1>3, <2>1, MoreBounds
  <2> HIDE DEF z
  <2>5. z \o last = Append(z, req.size)
    BY <2>1, <2>4, AppendIsConcat
  <2> HIDE DEF last
  <2> QED BY <2>2, <2>3, <2>5
<1>5. Done(req, logical, z) /\ Done(req, logical, Append(z, req.size))
  BY <1>2, FinishDone
<1> HIDE DEF z
<1>6. Done(req, logical, bounds')
  BY <1>4, <1>5
<1>7. /\ req' = req /\ valid' = valid /\ logical' = logical /\ returned' = TRUE
      /\ i' = i /\ b' = b /\ line_start' = line_start /\ width' = width
      /\ last_safe_brk' = last_safe_brk /\ last_safe_brk_cluster' = last_safe_brk_cluster
  BY DEF Finish, shapeVars
<1> QED BY <1>1, <1>2, <1>3, <1>6, <1>7 DEF Broken, InLoop, Ops

LEMMA LineSteps ==
    ASSUME LineInv, [Next]_vars
    PROVE  LineInv'
<1>1. [ShapeStep]_shapeVars
  <2>1. LineStep => UNCHANGED shapeVars
    BY DEF LineStep, BreaksNothing, Begin, HardBreak, SoftBreak, AnywhereBreak,
           PlaceCluster, Finish
  <2> QED BY <2>1 DEF Next, vars
<1>2. DrawInv'
  BY <1>1, DrawSteps DEF LineInv
<1>3. ASSUME LineStep PROVE valid' \in BOOLEAN /\ returned' \in BOOLEAN
  BY <1>3 DEF LineInv, LineStep, BreaksNothing, Begin, HardBreak, SoftBreak, AnywhereBreak,
               PlaceCluster, Finish, shapeVars
<1>4. ASSUME lineVars' = lineVars, req' = req, valid' = valid \/ (valid' = TRUE /\ ~valid)
      PROVE  LineInv'
  <2>1. valid' \in BOOLEAN /\ returned' \in BOOLEAN /\ (valid => valid')
    BY <1>4 DEF LineInv, lineVars
  <2>2. NotBegun => NotBegun'
    BY <1>4, <2>1 DEF NotBegun, lineVars
  <2>3. InLoop => InLoop'
    BY <1>4, <2>1 DEF InLoop, lineVars
  <2>4. Broken => Broken'
    BY <1>4, <2>1 DEF Broken, lineVars, Ops
  <2> QED BY <1>2, <2>1, <2>2, <2>3, <2>4 DEF LineInv
<1>5. CASE ShapeStep /\ UNCHANGED lineVars
  <2>1. req' = req
    BY <1>5 DEF ShapeStep, ShapePiece, ShapeBoxes, SkipFace, TakeCluster, FailCluster, Reshape,
                HexChar, Return, Shaped
  <2>2. valid' = valid \/ (valid' = TRUE /\ ~valid)
    BY <1>5 DEF ShapeStep, ShapePiece, ShapeBoxes, SkipFace, TakeCluster, FailCluster, Reshape,
                HexChar, Return, Shaped
  <2> QED BY <1>4, <1>5, <2>1, <2>2
<1>6. CASE BreaksNothing
  <2>1. /\ valid /\ valid' = valid /\ req' = req /\ returned' = TRUE /\ req.flags = "NONE"
        /\ bounds' = <<req.size>> /\ i = 0
    BY <1>6 DEF BreaksNothing, shapeVars
  <2>2. NotBegun
    <3>1. ~InLoop
      BY <2>1 DEF InLoop, Loop
    <3>2. ~Broken
      BY <1>6 DEF Broken, BreaksNothing
    <3> QED BY <3>1, <3>2 DEF LineInv
  <2>3. NotBegun'
    BY <1>6, <2>1, <2>2 DEF NotBegun, BreaksNothing
  <2> QED BY <1>2, <2>1, <2>3 DEF LineInv
<1>7. CASE Begin
  BY <1>2, <1>3, <1>7, BeginStep DEF LineInv, LineStep
<1>8. CASE HardBreak
  BY <1>2, <1>3, <1>8, HardBreakStep DEF LineInv, LineStep
<1>9. CASE SoftBreak
  BY <1>2, <1>3, <1>9, SoftBreakStep DEF LineInv, LineStep
<1>10. CASE AnywhereBreak
  BY <1>2, <1>3, <1>10, AnywhereBreakStep DEF LineInv, LineStep
<1>11. CASE PlaceCluster
  BY <1>2, <1>3, <1>11, PlaceStep DEF LineInv, LineStep
<1>12. CASE Finish
  BY <1>2, <1>3, <1>12, FinishStep DEF LineInv, LineStep
<1>13. CASE UNCHANGED vars
  BY <1>4, <1>13 DEF vars, shapeVars
<1> QED
  BY <1>5, <1>6, <1>7, <1>8, <1>9, <1>10, <1>11, <1>12, <1>13 DEF Next, LineStep

(* What the calls of the fallback hold.                                    *)
LEMMA CallTyped ==
    ASSUME NEW r, NEW p \in Piece, NEW c \in CallRecords, IsGood(r, p, c)
    PROVE  c \in Calls
<1>1. /\ c.it \in Iterators /\ c.from \in Int /\ c.to \in Int /\ c.at \in Int
      /\ c.failed_start \in Int /\ c.failed_end \in Int
      /\ c = [it |-> c.it, from |-> c.from, to |-> c.to, at |-> c.at,
              failed_start |-> c.failed_start, failed_end |-> c.failed_end]
  BY DEF CallRecords
<1>2. p.from \in Nat /\ p.to \in Nat /\ p.from <= c.from /\ c.from < c.to
  BY DEF Piece, IsGood, Stretch
<1>3. c.from \in Nat /\ c.to \in Nat
  BY <1>1, <1>2
<1>4. c.at \in Nat \cup {-1}
  <2>1. c.from - 1 <= c.at
    BY <1>1 DEF IsGood, AtCluster
  <2> QED BY <1>1, <1>3, <2>1
<1>5. c.failed_start \in Nat /\ c.failed_end \in Nat
  <2>1. CASE NothingFailed(c)
    BY <1>3, <2>1 DEF NothingFailed
  <2>2. CASE FailedRun(r, p, c)
    <3>1. c.from <= c.failed_start /\ c.failed_start <= c.failed_end
      BY <2>2 DEF FailedRun
    <3> QED BY <1>1, <1>3, <3>1
  <2> QED BY <2>1, <2>2 DEF IsGood
<1> QED BY <1>1, <1>3, <1>4, <1>5 DEF Calls

LEMMA StackTyped ==
    ASSUME DrawInv
    PROVE  stack \in Seq(Calls)
<1>1. CASE ~Running
  <2>1. stack = <<>>
    BY <1>1 DEF Running
  <2> QED BY <2>1, EmptySeq
<1>2. CASE Running
  <2>1. /\ req \in Requests /\ piece \in 1 .. Len(req.pieces) /\ IsStack(req, Here, stack)
    <3>1. /\ req \in Requests /\ piece \in 0 .. Len(req.pieces) /\ piece # 0
          /\ IsStack(req, Here, stack)
      BY <1>2 DEF DrawInv, ShapeInv
    <3>2. Len(req.pieces) \in Nat
      BY <3>1, RequestIs
    <3> QED BY <3>1, <3>2
  <2>2. Here \in Piece
    BY <2>1, PieceIs DEF Here
  <2>3. /\ stack \in Seq(CallRecords)
        /\ \A k \in 1 .. Len(stack) : IsGood(req, Here, stack[k])
    BY <2>1 DEF IsStack
  <2>4. /\ Len(stack) \in Nat /\ stack = [k \in 1 .. Len(stack) |-> stack[k]]
        /\ \A k \in 1 .. Len(stack) : stack[k] \in CallRecords
    BY <2>3, LenProperties, ElementOfSeq
  <2>5. \A k \in 1 .. Len(stack) : stack[k] \in Calls
    BY <2>2, <2>3, <2>4, CallTyped
  <2> QED BY <2>4, <2>5, IsASeq
<1> QED BY <1>1, <1>2

LEMMA ClustersTyped ==
    ASSUME LineInv
    PROVE  visual \in Seq(Clusters)
BY DEF LineInv, DrawInv, Drawn

-----------------------------------------------------------------------------
(* What follows from the invariant.                                        *)

LEMMA TypesAre ==
    ASSUME LineInv
    PROVE  TypeOK
<1>1. /\ req \in Requests /\ piece \in 0 .. Len(req.pieces) /\ stack \in Seq(Calls)
      /\ visual \in Seq(Clusters) /\ valid \in BOOLEAN /\ returned \in BOOLEAN
  BY StackTyped, ClustersTyped DEF LineInv, DrawInv, ShapeInv
<1>2. req.size \in Nat \ {0} /\ Len(req.ops) \in Nat
  BY <1>1, OpsAre
<1>3. CASE NotBegun
  <2>1. logical \in Seq(Clusters) /\ Len(logical) = 0
    BY <1>3, EmptySeq DEF NotBegun
  <2>2. bounds \in Seq(0 .. req.size)
    <3>1. <<>> \in Seq(0 .. req.size)
      BY EmptySeq
    <3>2. <<req.size>> \in Seq(0 .. req.size)
      BY <1>2
    <3> QED BY <1>1, <1>3, <3>1, <3>2 DEF NotBegun
  <2>3. /\ i = 0 /\ b = 1 /\ width = 0 /\ line_start = 0 /\ last_safe_brk = 0
        /\ last_safe_brk_cluster = 0
    BY <1>3 DEF NotBegun
  <2>4. /\ 0 \in 0 .. Len(logical) + 1 /\ 1 \in 1 .. Len(Ops) + 1 /\ 0 \in Nat
        /\ 0 \in 0 .. req.size /\ 0 \in 0 .. 1 - 1 /\ 0 \in 0 .. Len(logical)
    BY <1>2, <2>1 DEF Ops
  <2> QED BY <1>1, <2>1, <2>2, <2>3, <2>4 DEF TypeOK
<1>4. CASE InLoop
  <2>1. /\ i \in 1 .. Len(logical) + 1 /\ b \in 1 .. Len(Ops) + 1 /\ width \in Nat
        /\ line_start \in 0 .. req.size - 1 /\ last_safe_brk \in 0 .. b - 1
        /\ last_safe_brk_cluster \in 0 .. Len(logical) /\ bounds \in Seq(0 .. req.size)
    BY <1>1, <1>4, LoopIs DEF InLoop, Ops
  <2>2. logical \in Seq(Clusters) /\ Len(logical) \in Nat
    BY <1>4 DEF InLoop, Loop, IsLogical
  <2>3. i \in 0 .. Len(logical) + 1 /\ line_start \in 0 .. req.size
    BY <1>2, <2>1, <2>2
  <2> QED BY <1>1, <2>1, <2>2, <2>3 DEF TypeOK
<1>5. CASE Broken
  <2>1. /\ i = Len(logical) + 1 /\ b \in 1 .. Len(Ops) + 1 /\ width \in Nat
        /\ line_start \in 0 .. req.size - 1 /\ last_safe_brk \in 0 .. b - 1
        /\ last_safe_brk_cluster \in 0 .. Len(logical) /\ bounds \in Seq(0 .. req.size)
    BY <1>5 DEF Broken, Done
  <2>2. logical \in Seq(Clusters) /\ Len(logical) \in Nat
    BY <1>5 DEF Broken, IsLogical
  <2>3. i \in 0 .. Len(logical) + 1 /\ line_start \in 0 .. req.size
    BY <1>2, <2>1, <2>2
  <2> QED BY <1>1, <2>1, <2>2, <2>3 DEF TypeOK
<1> QED BY <1>3, <1>4, <1>5 DEF LineInv

LEMMA BoundsAre ==
    ASSUME LineInv
    PROVE  LineBounds
<1> SUFFICES ASSUME returned
             PROVE  /\ \A k \in 2 .. Len(bounds) : bounds[k - 1] <= bounds[k]
                    /\ bounds # <<>> /\ bounds[Len(bounds)] = req.size
                    /\ req.flags # "NONE" =>
                           \A k \in DOMAIN Ops : Ops[k].hard =>
                               \E l \in DOMAIN bounds : bounds[l] = Ops[k].position
  BY Zenon DEF LineBounds
<1>1. CASE NotBegun
  <2>1. bounds = <<req.size>> /\ req.flags = "NONE"
    BY <1>1 DEF NotBegun
  <2>2. Len(bounds) = 1 /\ bounds[1] = req.size
    BY <2>1
  <2>3. bounds # <<>>
    BY <2>2, EmptySeq
  <2> QED BY <2>1, <2>2, <2>3
<1>2. CASE Broken
  <2>1. req \in Requests /\ Done(req, logical, bounds)
    BY <1>2, RequestOk DEF Broken, LineInv
  <2>2. /\ Len(bounds) \in Nat \ {0} /\ bounds[Len(bounds)] = req.size
        /\ DOMAIN bounds = 1 .. Len(bounds) /\ DOMAIN Ops = 1 .. Len(req.ops)
    BY <2>1, OpsAre, LenProperties DEF Done, Ops
  <2>3. ASSUME NEW k \in 2 .. Len(bounds)
        PROVE  bounds[k - 1] <= bounds[k]
    <3>1. k - 1 \in 1 .. Len(bounds) /\ k \in 1 .. Len(bounds) /\ k - 1 <= k
      BY <2>2
    <3> QED BY <2>1, <3>1 DEF Done, NonDecreasing
  <2>4. bounds # <<>>
    BY <2>2, EmptySeq
  <2>5. req.flags # "NONE" =>
            \A k \in DOMAIN Ops : Ops[k].hard =>
                \E l \in DOMAIN bounds : bounds[l] = Ops[k].position
    BY <2>1, <2>2 DEF Done, IsBound, Ops
  <2> QED BY <2>2, <2>3, <2>4, <2>5
<1> QED BY <1>1, <1>2 DEF LineInv, InLoop

(* An opportunity lies where a cluster begins.                             *)
LEMMA BreaksAtClusters ==
    ASSUME NEW r, r.size \in Nat \ {0}, NEW s, IsLogical(r, s),
           NEW q \in Nat, q \notin r.joined, q < r.size
    PROVE  \E k \in 1 .. Len(s) : s[k].start = q
<1>1. /\ Len(s) \in Nat \ {0} /\ StartIn(r, s, Len(s) + 1) = r.size /\ StartIn(r, s, 1) = 0
      /\ \A k \in 1 .. Len(s) + 1 : StartIn(r, s, k) \in 0 .. r.size
      /\ \A k \in 1 .. Len(s) : StartIn(r, s, k) = s[k].start
  BY LogicalIs
<1> DEFINE T == {k \in 1 .. Len(s) : q < StartIn(r, s, k + 1)}
<1>2. PICK k \in T : \A j \in T : k <= j
  <2>1. Len(s) \in T /\ T \in SUBSET Nat
    BY <1>1
  <2> HIDE DEF T
  <2> QED BY <2>1, LeastNat
<1>3. k \in 1 .. Len(s) /\ q < StartIn(r, s, k + 1)
  BY <1>2
<1>4. s[k].start <= q
  <2>1. CASE k = 1
    BY <1>1, <1>3, <2>1
  <2>2. CASE k # 1
    <3>1. k - 1 \in 1 .. Len(s) /\ k - 1 + 1 = k /\ ~(k <= k - 1)
      BY <1>1, <1>3, <2>2
    <3>2. ~(q < StartIn(r, s, k))
      <4>1. k - 1 \notin T
        <5> HIDE DEF T
        <5> QED BY <1>2, <3>1
      <4> QED BY <3>1, <4>1
    <3>3. StartIn(r, s, k) = s[k].start /\ StartIn(r, s, k) \in 0 .. r.size
      BY <1>1, <1>3
    <3> QED BY <3>2, <3>3
  <2> QED BY <2>1, <2>2
<1>5. ~(s[k].start < q)
  <2>1. s[k].start < q => StartIn(r, s, k + 1) <= q
    BY <1>3, BreaksNoCluster
  <2>2. StartIn(r, s, k + 1) \in 0 .. r.size
    BY <1>1, <1>3
  <2> QED BY <1>3, <2>1, <2>2
<1>6. s[k].start \in Nat
  BY <1>3, LogicalIs
<1> QED BY <1>3, <1>4, <1>5, <1>6

(* What is counted of a line begins in it.                                 *)
LEMMA CountedIsAhead ==
    ASSUME NEW r \in Requests, NEW s, IsLogical(r, s), NEW p \in 0 .. r.size, p < r.size
    PROVE  CountedFrom(r, s, p) \in 0 .. r.size /\ p <= CountedFrom(r, s, p)
<1>1. /\ r.size \in Nat \ {0}
      /\ \A k \in 1 .. Len(r.ops) : r.ops[k].position \notin r.joined
  BY OpsAre
<1>2. CASE \A j \in 1 .. Len(r.ops) : r.ops[j].position = p => ~r.ops[j].hard
  <2>1. CountedFrom(r, s, p) = p
    BY <1>2, CountedIs
  <2> QED BY <1>1, <2>1
<1>3. CASE \E j \in 1 .. Len(r.ops) : r.ops[j].position = p /\ r.ops[j].hard
  <2>1. PICK j \in 1 .. Len(r.ops) : r.ops[j].position = p /\ r.ops[j].hard
    BY <1>3
  <2>2. PICK k \in 1 .. Len(s) : s[k].start = p
    <3>1. p \in Nat /\ p \notin r.joined
      BY <1>1, <2>1
    <3> QED BY <1>1, <3>1, BreaksAtClusters
  <2>3. CountedFrom(r, s, p) = StartIn(r, s, k + 1)
    BY <2>1, <2>2, CountedIs
  <2>4. /\ StartIn(r, s, k + 1) \in 0 .. r.size /\ StartIn(r, s, k + 1) = s[k].end + 1
        /\ s[k].start <= s[k].end /\ s[k].start \in Nat /\ s[k].end \in Nat
    <3>1. k + 1 \in 1 .. Len(s) + 1
      BY <2>2
    <3> QED BY <1>1, <2>2, <3>1, LogicalIs
  <2> QED BY <2>2, <2>3, <2>4
<1> QED BY <1>2, <1>3

LEMMA GreedyAre ==
    ASSUME LineInv
    PROVE  LinesAreGreedy
<1> SUFFICES ASSUME BrokeAtWords, NEW k \in DOMAIN bounds
             PROVE  /\ CouldBreak(k) /\ ~IsHard(LineStart(k)) =>
                           WidthOf(req, LineStart(k), bounds[k]) < req.width
                    /\ \A j \in DOMAIN Ops :
                           ~Ops[j].hard /\ Ops[j].position = bounds[k] /\ bounds[k] < req.size =>
                               \A next \in LaterOps(bounds[k]) \cup {req.size} :
                                   WidthOf(req, LineStart(k), next) >= req.width
  BY Zenon DEF LinesAreGreedy
<1> DEFINE from == LineStart(k)
           counted == CountedFrom(req, logical, from)
<1>1. Broken
  BY DEF LineInv, InLoop, NotBegun, BrokeAtWords
<1>2. /\ req \in Requests /\ IsLogical(req, logical) /\ Done(req, logical, bounds)
      /\ GreedyLines(req, logical, bounds) /\ DOMAIN bounds = 1 .. Len(bounds)
  BY <1>1, RequestOk, LenProperties DEF LineInv, Broken, Done, AtWords, BrokeAtWords
<1>3. /\ req.size \in Nat \ {0} /\ req.width \in Int
      /\ DOMAIN Ops = 1 .. Len(req.ops) /\ Len(req.ops) \in Nat
  BY <1>2, OpsAre DEF Ops
<1>4. from = LineStartIn(bounds, k)
  BY DEF LineStart, LineStartIn
<1>5. IsGreedy(req, logical, from, bounds[k])
  BY <1>2, <1>4 DEF GreedyLines
<1>6. \A p : LaterOps(p) = OpsBehind(req, p)
  BY Zenon DEF LaterOps, OpsBehind, Ops
<1>7. from \in 0 .. req.size /\ bounds[k] \in 0 .. req.size /\ from <= bounds[k]
  <2>1. \A n \in 1 .. Len(bounds) : bounds[n] \in 0 .. req.size
    BY <1>2, LenProperties, ElementOfSeq DEF Done
  <2>2. CASE k = 1
    BY <1>2, <1>3, <1>4, <2>1, <2>2 DEF LineStartIn
  <2>3. CASE k # 1
    <3>1. k - 1 \in 1 .. Len(bounds) /\ k \in 1 .. Len(bounds) /\ k - 1 <= k
      BY <1>2, <2>3 DEF Done
    <3>2. bounds[k - 1] <= bounds[k]
      BY <1>2, <3>1 DEF Done, NonDecreasing
    <3> QED BY <1>4, <2>1, <2>3, <3>1, <3>2 DEF LineStartIn
  <2> QED BY <2>2, <2>3
<1> HIDE DEF from
<1>8. ASSUME CouldBreak(k), ~IsHard(from)
      PROVE  WidthOf(req, from, bounds[k]) < req.width
  <2>1. \A j \in 1 .. Len(req.ops) : req.ops[j].position = from => ~req.ops[j].hard
    BY <1>3, <1>8 DEF IsHard, Ops
  <2>2. counted = from
    BY <1>2, <2>1, CountedIs
  <2>3. \E q \in OpsBehind(req, from) : q < bounds[k]
    BY <1>6, <1>8, Zenon DEF CouldBreak, from
  <2> QED BY <1>5, <2>2, <2>3, Zenon DEF IsGreedy
<1>9. ASSUME NEW j \in DOMAIN Ops, ~Ops[j].hard, Ops[j].position = bounds[k],
             bounds[k] < req.size, NEW next \in LaterOps(bounds[k]) \cup {req.size}
      PROVE  WidthOf(req, from, next) >= req.width
  <2>1. WidthOf(req, counted, next) >= req.width
    BY <1>5, <1>6, <1>9, Zenon DEF IsGreedy, Ops
  <2>2. next \in 0 .. req.size
    BY <1>3 DEF LaterOps
  <2>3. counted \in 0 .. req.size /\ from <= counted
    <3>1. from < req.size
      BY <1>3, <1>7, <1>9
    <3> QED BY <1>2, <1>7, <3>1, CountedIsAhead
  <2> HIDE DEF counted
  <2>4. /\ WidthOf(req, from, counted) + WidthOf(req, counted, next) = WidthOf(req, from, next)
        /\ WidthOf(req, from, counted) \in Nat /\ WidthOf(req, counted, next) \in Int
    BY <1>2, <1>7, <2>2, <2>3, WidthsAre
  <2> QED BY <1>3, <2>1, <2>4
<1> QED BY <1>8, <1>9, Zenon DEF from

-----------------------------------------------------------------------------
(* The theorems.  The text stays the same, so its boxes stay drawn once.   *)

LEMMA InvariantHolds == Spec => [](BoxedOnce(req) => LineInv)
<1>1. Init => (BoxedOnce(req) => LineInv)
  BY LineBegins
<1>2. (BoxedOnce(req) => LineInv) /\ [Next]_vars => (BoxedOnce(req) => LineInv)'
  <2> SUFFICES ASSUME BoxedOnce(req) => LineInv, [Next]_vars, BoxedOnce(req')
               PROVE  LineInv'
    OBVIOUS
  <2>1. req' = req
    BY DEF Next, vars, shapeVars, ShapeStep, ShapePiece, ShapeBoxes, SkipFace, TakeCluster,
           FailCluster, Reshape, HexChar, Return, Shaped, LineStep, BreaksNothing, Begin,
           HardBreak, SoftBreak, AnywhereBreak, PlaceCluster, Finish
  <2>2. BoxedOnce(req)
    BY <2>1
  <2> QED BY <2>2, LineSteps
<1> QED BY <1>1, <1>2, PTL DEF Spec

(* The fields keep their types, and name stretches of the text: calls lie  *)
(* in it, the break opportunity and its cluster are ones that break_lines  *)
(* has passed, lines start and end in the text.  For a text whose boxes    *)
(* are drawn once; the run checks the others.                              *)
THEOREM LinesTypeCorrect == Spec => [](BoxedOnce(req) => TypeOK)
<1>1. (BoxedOnce(req) => LineInv) => (BoxedOnce(req) => TypeOK)
  BY TypesAre
<1> QED BY <1>1, InvariantHolds, PTL

(* break_lines cuts every text whose boxes are drawn once to lines: their  *)
(* ends do not decrease, the last is the end of the text, and every line   *)
(* feed ends a line, wherever the loop steps back to the last opportunity. *)
THEOREM LinesCutTheText == Spec => []LineBounds
<1>1. (BoxedOnce(req) => LineInv) => LineBounds
  BY BoundsAre DEF LineBounds
<1> QED BY <1>1, InvariantHolds, PTL

(* Lines that break_lines breaks at words are as long as they may be: one  *)
(* with an opportunity inside that starts behind no line feed is narrower  *)
(* than the width, and the word behind a soft break would have filled the  *)
(* line, whatever line it is.                                              *)
THEOREM LinesKeepGreedy == Spec => []LinesAreGreedy
<1>1. (BoxedOnce(req) => LineInv) => LinesAreGreedy
  BY GreedyAre DEF LinesAreGreedy, BrokeAtWords
<1> QED BY <1>1, InvariantHolds, PTL

(* A click puts the caret where it is drawn: hit_test answers, for every   *)
(* place on the line, a position one of whose carets is there, and every   *)
(* position has one caret or two, whatever directions meet on the line.    *)
THEOREM CaretsComeBack == Spec => []CaretComesBack
<1>1. (BoxedOnce(req) => LineInv) => CaretComesBack
  BY CaretsAre DEF LineInv, CaretComesBack, HasLine
<1> QED BY <1>1, InvariantHolds, PTL

(* get_highlight_shapes covers the cells of the characters of the range,   *)
(* and no others, when the range cuts no cluster drawn from right to left. *)
THEOREM HighlightsTheRange == Spec => []HighlightIsTheRange
<1>1. (BoxedOnce(req) => LineInv) => HighlightIsTheRange
  BY HighlightsAre DEF LineInv, HighlightIsTheRange, HasLine
<1> QED BY <1>1, InvariantHolds, PTL
=============================================================================
