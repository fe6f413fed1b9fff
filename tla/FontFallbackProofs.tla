-------------------------- MODULE FontFallbackProofs --------------------------
(***************************************************************************)
(* FontFallback, on its own and below LineBreaking, implements             *)
(* FirstCovering for every text whose boxes are drawn once and whose       *)
(* faces are linked one way: with any number of faces, any clusters and    *)
(* calls nested to any depth.                                              *)
(***************************************************************************)
EXTENDS LineBreaking, FoldLemmas, SequenceTheorems, TLAPS

-----------------------------------------------------------------------------
(* Clusters.                                                               *)

LEMMA Greatest ==
    ASSUME NEW T \in SUBSET Int, T # {}, NEW p \in Int, \A x \in T : x <= p
    PROVE  \E x \in T : \A y \in T : y <= x
<1> DEFINE U == {n \in Nat : p - n \in T}
<1>1. \A y \in T : p - y \in U
  OBVIOUS
<1>2. PICK n \in U : \A j \in U : n <= j
  <2>1. U \in SUBSET Nat /\ U # {}
    BY <1>1
  <2> HIDE DEF U
  <2> QED BY <2>1, LeastNat
<1>3. p - n \in T /\ \A y \in T : y <= p - n
  BY <1>1, <1>2
<1> QED BY <1>3

LEMMA Smallest ==
    ASSUME NEW T \in SUBSET Int, T # {}, NEW p \in Int, \A x \in T : p <= x
    PROVE  \E x \in T : \A y \in T : x <= y
<1> DEFINE U == {n \in Nat : p + n \in T}
<1>1. \A y \in T : y - p \in U
  OBVIOUS
<1>2. PICK n \in U : \A j \in U : n <= j
  <2>1. U \in SUBSET Nat /\ U # {}
    BY <1>1
  <2> HIDE DEF U
  <2> QED BY <2>1, LeastNat
<1>3. p + n \in T /\ \A y \in T : p + n <= y
  BY <1>1, <1>2
<1> QED BY <1>3

(* What the cluster at p is, when from .. to - 1 is shaped.                *)
IsClusterStart(r, from, p, s) ==
    s \in from .. p /\ StartsAt(r, from, s) /\ \A q \in s + 1 .. p : ~StartsAt(r, from, q)
IsClusterEnd(r, to, p, e) ==
    /\ e \in p .. to - 1
    /\ e + 1 = to \/ e + 1 \notin r.joined
    /\ \A q \in p + 1 .. e : q \in r.joined

LEMMA ClusterStartIs ==
    ASSUME NEW r, NEW from \in Int, NEW p \in Int, from <= p
    PROVE  IsClusterStart(r, from, p, ClusterStart(r, from, p))
<1> DEFINE T == {s \in from .. p : StartsAt(r, from, s)}
<1>1. PICK s \in T : \A y \in T : y <= s
  <2>1. T \in SUBSET Int /\ T # {} /\ \A x \in T : x <= p
    <3>1. from \in T
      BY DEF StartsAt
    <3> QED BY <3>1
  <2> HIDE DEF T
  <2> QED BY <2>1, Greatest
<1>2. IsClusterStart(r, from, p, s)
  <2>1. s \in Int /\ s >= from /\ s <= p
    BY <1>1
  <2>2. ASSUME NEW q \in s + 1 .. p PROVE ~StartsAt(r, from, q)
    <3>1. q \in from .. p /\ ~(q <= s)
      BY <2>1
    <3> QED BY <1>1, <3>1
  <2> QED BY <1>1, <2>2 DEF IsClusterStart
<1> QED BY <1>2 DEF IsClusterStart, ClusterStart

LEMMA ClusterEndIs ==
    ASSUME NEW r, NEW to \in Int, NEW p \in Int, p < to
    PROVE  IsClusterEnd(r, to, p, ClusterEnd(r, to, p))
<1> DEFINE T == {e \in p .. to - 1 : e + 1 = to \/ e + 1 \notin r.joined}
<1>1. PICK e \in T : \A y \in T : e <= y
  <2>1. T \in SUBSET Int /\ T # {} /\ \A x \in T : p <= x
    <3>1. to - 1 \in T
      OBVIOUS
    <3>2. \A x \in T : x \in Int /\ p <= x
      OBVIOUS
    <3> HIDE DEF T
    <3> QED BY <3>1, <3>2
  <2> HIDE DEF T
  <2> QED BY <2>1, Smallest
<1>2. IsClusterEnd(r, to, p, e)
  <2>1. e \in Int /\ p <= e /\ e <= to - 1
    BY <1>1
  <2>2. ASSUME NEW q \in p + 1 .. e PROVE q \in r.joined
    <3>1. q - 1 \in p .. to - 1 /\ ~(e <= q - 1) /\ (q - 1) + 1 = q /\ q # to
      BY <2>1
    <3> QED BY <1>1, <3>1
  <2> QED BY <1>1, <2>2 DEF IsClusterEnd
<1> QED BY <1>2 DEF IsClusterEnd, ClusterEnd

IsCluster(r, from, to, p, c) ==
    /\ IsClusterStart(r, from, p, c.start)
    /\ IsClusterEnd(r, to, p, c.end)

LEMMA ClusterIs ==
    ASSUME NEW r, NEW from \in Int, NEW to \in Int, NEW p \in from .. to - 1
    PROVE  IsCluster(r, from, to, p, ClusterAt(r, from, to, p))
<1>1. p \in Int /\ from <= p /\ p < to
  OBVIOUS
<1> QED BY <1>1, ClusterStartIs, ClusterEndIs DEF IsCluster, ClusterAt

LEMMA ClusterIsUnique ==
    ASSUME NEW r, NEW from \in Int, NEW to \in Int, NEW p \in from .. to - 1,
           NEW s, NEW e, IsClusterStart(r, from, p, s), IsClusterEnd(r, to, p, e)
    PROVE  ClusterAt(r, from, to, p) = [start |-> s, end |-> e]
<1> DEFINE c == ClusterAt(r, from, to, p)
<1>0. p \in Int /\ s \in Int /\ e \in Int
  BY DEF IsClusterStart, IsClusterEnd
<1>1. IsClusterStart(r, from, p, c.start) /\ IsClusterEnd(r, to, p, c.end)
  BY ClusterIs DEF IsCluster
<1>2. c = [start |-> c.start, end |-> c.end]
  BY DEF ClusterAt
<1> HIDE DEF c
<1>3. c.start = s
  <2>1. c.start \in Int
    BY <1>1 DEF IsClusterStart
  <2>2. ~(c.start < s)
    BY <1>0, <1>1, <2>1 DEF IsClusterStart
  <2>3. ~(s < c.start)
    BY <1>0, <1>1, <2>1 DEF IsClusterStart
  <2> QED BY <1>0, <2>1, <2>2, <2>3
<1>4. c.end = e
  <2>1. c.end \in Int /\ p <= c.end /\ p <= e /\ c.end < to /\ e < to
    BY <1>0, <1>1 DEF IsClusterEnd
  <2>2. ~(c.end < e)
    BY <1>0, <1>1, <2>1 DEF IsClusterEnd
  <2>3. ~(e < c.end)
    BY <1>0, <1>1, <2>1 DEF IsClusterEnd
  <2> QED BY <1>0, <2>1, <2>2, <2>3
<1> QED BY <1>2, <1>3, <1>4 DEF c

(* Every position of a cluster is in the same cluster.                     *)
LEMMA SameCluster ==
    ASSUME NEW r, NEW from \in Int, NEW to \in Int, NEW p \in from .. to - 1,
           NEW c, c = ClusterAt(r, from, to, p), NEW q \in c.start .. c.end
    PROVE  q \in from .. to - 1 /\ ClusterAt(r, from, to, q) = c
<1>1. IsCluster(r, from, to, p, c) /\ c = [start |-> c.start, end |-> c.end]
  <2>1. c = [start |-> c.start, end |-> c.end]
    BY DEF ClusterAt
  <2> QED BY <2>1, ClusterIs
<1>2. /\ c.start \in Int /\ c.end \in Int /\ q \in Int /\ p \in Int
      /\ from <= c.start /\ c.start <= p /\ p <= c.end /\ c.end < to
      /\ c.start <= q /\ q <= c.end
  BY <1>1 DEF IsCluster, IsClusterStart, IsClusterEnd
<1>3. IsClusterStart(r, from, q, c.start)
  <2>1. ASSUME NEW x \in c.start + 1 .. q PROVE ~StartsAt(r, from, x)
    <3>1. CASE x <= p
      BY <1>1, <1>2, <3>1 DEF IsCluster, IsClusterStart
    <3>2. CASE x > p
      <4>1. x \in p + 1 .. c.end /\ x # from
        BY <1>2, <3>2
      <4> QED BY <1>1, <4>1 DEF IsCluster, IsClusterEnd, StartsAt
    <3>3. x <= p \/ x > p
      BY <1>2
    <3> QED BY <3>1, <3>2, <3>3
  <2>2. c.start \in from .. q /\ StartsAt(r, from, c.start)
    BY <1>1, <1>2 DEF IsCluster, IsClusterStart
  <2> QED BY <2>1, <2>2 DEF IsClusterStart
<1>4. IsClusterEnd(r, to, q, c.end)
  <2>1. ASSUME NEW x \in q + 1 .. c.end PROVE x \in r.joined
    <3>1. CASE x <= p
      <4>1. x \in c.start + 1 .. p
        BY <1>2, <3>1
      <4> QED BY <1>1, <4>1 DEF IsCluster, IsClusterStart, StartsAt
    <3>2. CASE x > p
      <4>1. x \in p + 1 .. c.end
        BY <1>2, <3>2
      <4> QED BY <1>1, <4>1 DEF IsCluster, IsClusterEnd
    <3>3. x <= p \/ x > p
      BY <1>2
    <3> QED BY <3>1, <3>2, <3>3
  <2>2. c.end \in q .. to - 1 /\ (c.end + 1 = to \/ c.end + 1 \notin r.joined)
    BY <1>1, <1>2 DEF IsCluster, IsClusterEnd
  <2> QED BY <2>1, <2>2 DEF IsClusterEnd
<1>5. q \in from .. to - 1
  BY <1>2
<1> QED BY <1>1, <1>3, <1>4, <1>5, ClusterIsUnique

(* A stretch that begins and ends where clusters do is cut as the whole.   *)
Boundary(r, p, x) == x = p.from \/ x = p.to \/ x \notin r.joined

LEMMA SubCluster ==
    ASSUME NEW r, NEW p \in Piece, NEW from \in Int, NEW to \in Int,
           p.from <= from, to <= p.to, Boundary(r, p, from), Boundary(r, p, to),
           NEW q \in from .. to - 1
    PROVE  ClusterAt(r, from, to, q) = ClusterAt(r, p.from, p.to, q)
<1> DEFINE c == ClusterAt(r, from, to, q)
<1>1. c = [start |-> c.start, end |-> c.end] /\ IsCluster(r, from, to, q, c)
  <2>1. c = [start |-> c.start, end |-> c.end]
    BY DEF ClusterAt
  <2> QED BY <2>1, ClusterIs
<1> HIDE DEF c
<1>2. /\ c.start \in Int /\ c.end \in Int /\ q \in Int /\ p.from \in Int /\ p.to \in Int
      /\ from <= c.start /\ c.start <= q /\ q <= c.end /\ c.end < to
  BY <1>1 DEF IsCluster, IsClusterStart, IsClusterEnd, Piece
<1>3. IsClusterStart(r, p.from, q, c.start)
  <2>1. StartsAt(r, p.from, c.start)
    <3>1. c.start = from \/ c.start \notin r.joined
      BY <1>1 DEF IsCluster, IsClusterStart, StartsAt
    <3>2. c.start # p.to
      BY <1>2
    <3> QED BY <3>1, <3>2 DEF Boundary, StartsAt
  <2>2. ASSUME NEW x \in c.start + 1 .. q PROVE ~StartsAt(r, p.from, x)
    <3>1. x # p.from
      BY <1>2
    <3> QED BY <1>1, <3>1 DEF IsCluster, IsClusterStart, StartsAt
  <2>3. c.start \in p.from .. q
    BY <1>2
  <2> QED BY <2>1, <2>2, <2>3 DEF IsClusterStart
<1>4. IsClusterEnd(r, p.to, q, c.end)
  <2>1. c.end + 1 = p.to \/ c.end + 1 \notin r.joined
    <3>1. c.end + 1 = to \/ c.end + 1 \notin r.joined
      BY <1>1 DEF IsCluster, IsClusterEnd
    <3>2. c.end + 1 # p.from
      BY <1>2
    <3> QED BY <3>1, <3>2 DEF Boundary
  <2>2. c.end \in q .. p.to - 1
    BY <1>2
  <2> QED BY <1>1, <2>1, <2>2 DEF IsCluster, IsClusterEnd
<1>5. q \in p.from .. p.to - 1
  BY <1>2
<1> QED BY <1>1, <1>2, <1>3, <1>4, <1>5, ClusterIsUnique DEF c

(* Where a cluster begins and where the next one does.                     *)
LEMMA ClusterBounds ==
    ASSUME NEW r, NEW p \in Piece, NEW q \in p.from .. p.to - 1,
           NEW c, c = ClusterAt(r, p.from, p.to, q)
    PROVE  /\ c.start \in Int /\ c.end \in Int
           /\ p.from <= c.start /\ c.start <= q /\ q <= c.end /\ c.end < p.to
           /\ Boundary(r, p, c.start) /\ Boundary(r, p, c.end + 1)
           /\ Boundary(r, p, q) => c.start = q
           /\ Boundary(r, p, q + 1) => c.end = q
<1>1. p.from \in Int /\ p.to \in Int /\ q \in Int
  BY DEF Piece
<1>2. IsCluster(r, p.from, p.to, q, c)
  BY <1>1, ClusterIs
<1>3. /\ c.start \in Int /\ c.end \in Int
      /\ p.from <= c.start /\ c.start <= q /\ q <= c.end /\ c.end < p.to
  BY <1>1, <1>2 DEF IsCluster, IsClusterStart, IsClusterEnd
<1>4. Boundary(r, p, c.start) /\ Boundary(r, p, c.end + 1)
  BY <1>2 DEF IsCluster, IsClusterStart, IsClusterEnd, StartsAt, Boundary
<1>5. ASSUME Boundary(r, p, q), c.start < q PROVE FALSE
  <2>1. q \in c.start + 1 .. q /\ q # p.to
    BY <1>1, <1>3, <1>5
  <2> QED BY <1>2, <1>5, <2>1 DEF IsCluster, IsClusterStart, StartsAt, Boundary
<1>6. ASSUME Boundary(r, p, q + 1), q < c.end PROVE FALSE
  <2>1. q + 1 \in q + 1 .. c.end /\ q + 1 # p.from /\ q + 1 # p.to
    BY <1>1, <1>3, <1>6
  <2> QED BY <1>2, <1>6, <2>1 DEF IsCluster, IsClusterEnd, Boundary
<1>7. (c.start < q \/ c.start = q) /\ (q < c.end \/ c.end = q)
  BY <1>1, <1>3
<1> QED BY <1>3, <1>4, <1>5, <1>6, <1>7

-----------------------------------------------------------------------------
(* The walk along the chains of a style.                                   *)

LEMMA StyleIs ==
    ASSUME NEW data, IsStyle(data), NEW tag
    PROVE  /\ LinkedChain(data, tag) \in Seq(Faces) /\ data[Main] \in Seq(Faces)
           /\ tag \in DOMAIN data => LinkedChain(data, tag) = data[tag]
           /\ Len(LinkedChain(data, tag)) \in Nat /\ Len(data[Main]) \in Nat
           /\ Len(Fallbacks(data, tag)) = Len(LinkedChain(data, tag)) + Len(data[Main])
           /\ \A k \in 1 .. Len(LinkedChain(data, tag)) + Len(data[Main]) :
                Fallbacks(data, tag)[k] =
                    IF k <= Len(LinkedChain(data, tag)) THEN LinkedChain(data, tag)[k]
                    ELSE data[Main][k - Len(LinkedChain(data, tag))]
<1>1. \A c \in DOMAIN data : data[c] \in Seq(Faces)
  BY DEF IsStyle
<1>2. data[Main] \in Seq(Faces)
  BY <1>1 DEF IsStyle
<1>3. LinkedChain(data, tag) \in Seq(Faces)
  BY <1>1, EmptySeq DEF LinkedChain
<1>4. Len(LinkedChain(data, tag)) \in Nat /\ Len(data[Main]) \in Nat
  BY <1>2, <1>3, LenProperties
<1>5. tag \in DOMAIN data => LinkedChain(data, tag) = data[tag]
  BY DEF LinkedChain
<1> QED BY <1>2, <1>3, <1>4, <1>5, ConcatProperties DEF Fallbacks

(* An iterator that stands on a face.                                      *)
StandsOn(data, tag, it) ==
    /\ it \in [linked : BOOLEAN, index : Nat]
    /\ it.linked => tag \in DOMAIN data /\ it.index < Len(data[tag])
    /\ ~it.linked => it.index < Len(data[Main])
Walks(data, tag, it) == it = Ended \/ StandsOn(data, tag, it)

PlaceOf(data, tag, it) ==
    IF IsValid(it) THEN Place(data, tag, it) ELSE Len(Fallbacks(data, tag)) + 1

LEMMA EndedIs == Ended.index = -1 /\ ~IsValid(Ended) /\ Ended \in Iterators
BY DEF Ended, IsValid, Iterators

LEMMA StandsOnFace ==
    ASSUME NEW data, IsStyle(data), NEW tag, NEW it, StandsOn(data, tag, it)
    PROVE  /\ IsValid(it) /\ it \in Iterators
           /\ Place(data, tag, it) \in 1 .. Len(Fallbacks(data, tag))
           /\ Fallbacks(data, tag)[Place(data, tag, it)] = Value(data, tag, it)
<1> DEFINE l == Len(LinkedChain(data, tag))
<1>1. /\ it.linked \in BOOLEAN /\ it.index \in Nat /\ l \in Nat /\ Len(data[Main]) \in Nat
      /\ Len(Fallbacks(data, tag)) = l + Len(data[Main])
  BY StyleIs DEF StandsOn
<1>2. IsValid(it) /\ it \in Iterators
  BY <1>1 DEF IsValid, StandsOn, Iterators
<1>3. CASE it.linked
  <2>1. tag \in DOMAIN data /\ it.index < Len(data[tag]) /\ data[tag] = LinkedChain(data, tag)
    BY <1>3, StyleIs DEF StandsOn
  <2>2. Place(data, tag, it) = it.index + 1
    BY <1>3 DEF Place
  <2>3. it.index + 1 \in 1 .. l + Len(data[Main]) /\ it.index + 1 <= l
    BY <1>1, <2>1
  <2>4. Fallbacks(data, tag)[it.index + 1] = LinkedChain(data, tag)[it.index + 1]
    BY <2>3, StyleIs
  <2> QED BY <1>1, <1>2, <1>3, <2>1, <2>2, <2>3, <2>4 DEF Value
<1>4. CASE ~it.linked
  <2>1. it.index < Len(data[Main])
    BY <1>4 DEF StandsOn
  <2>2. Place(data, tag, it) = l + it.index + 1
    BY <1>4 DEF Place
  <2> DEFINE k == l + it.index + 1
  <2>3. k \in 1 .. l + Len(data[Main]) /\ ~(k <= l) /\ k - l = it.index + 1
    BY <1>1, <2>1
  <2> HIDE DEF k
  <2>4. Fallbacks(data, tag)[k] = IF k <= l THEN LinkedChain(data, tag)[k] ELSE data[Main][k - l]
    BY <2>3, StyleIs
  <2>5. Fallbacks(data, tag)[k] = data[Main][it.index + 1]
    BY <2>3, <2>4
  <2> QED BY <1>1, <1>2, <1>4, <2>2, <2>3, <2>5 DEF Value, k
<1> QED BY <1>3, <1>4

LEMMA MainStartIs ==
    ASSUME NEW data, IsStyle(data), NEW tag
    PROVE  /\ Walks(data, tag, MainStart(data))
           /\ PlaceOf(data, tag, MainStart(data)) = Len(LinkedChain(data, tag)) + 1
<1>0. /\ Len(LinkedChain(data, tag)) \in Nat /\ data[Main] \in Seq(Faces)
      /\ Len(Fallbacks(data, tag)) = Len(LinkedChain(data, tag)) + Len(data[Main])
  BY StyleIs
<1>1. CASE data[Main] = <<>>
  <2>1. MainStart(data) = Ended /\ Len(data[Main]) = 0
    BY <1>1, EmptySeq DEF MainStart
  <2> QED BY <1>0, <2>1, EndedIs DEF Walks, PlaceOf
<1>2. CASE data[Main] # <<>>
  <2> DEFINE it == [linked |-> FALSE, index |-> 0]
  <2>1. MainStart(data) = it
    BY <1>2 DEF MainStart
  <2>2. it.linked = FALSE /\ it.index = 0 /\ it \in [linked : BOOLEAN, index : Nat]
    OBVIOUS
  <2>3. Len(data[Main]) > 0
    BY <1>0, <1>2, EmptySeq, LenProperties
  <2> HIDE DEF it
  <2>4. StandsOn(data, tag, it)
    BY <2>2, <2>3 DEF StandsOn
  <2>5. PlaceOf(data, tag, it) = Len(LinkedChain(data, tag)) + 1
    BY <1>0, <2>2 DEF PlaceOf, IsValid, Place
  <2> QED BY <2>1, <2>4, <2>5 DEF Walks
<1> QED BY <1>1, <1>2

LEMMA FaceForIs ==
    ASSUME NEW data, IsStyle(data), NEW tag
    PROVE  /\ Walks(data, tag, FaceFor(data, tag))
           /\ PlaceOf(data, tag, FaceFor(data, tag)) = 1
<1>0. LinkedChain(data, tag) \in Seq(Faces) /\ Len(LinkedChain(data, tag)) \in Nat
  BY StyleIs
<1>1. CASE LinkedChain(data, tag) = <<>>
  <2>1. FaceFor(data, tag) = MainStart(data) /\ Len(LinkedChain(data, tag)) = 0
    BY <1>1, EmptySeq DEF FaceFor
  <2> QED BY <2>1, MainStartIs
<1>2. CASE LinkedChain(data, tag) # <<>>
  <2> DEFINE it == [linked |-> TRUE, index |-> 0]
  <2>1. FaceFor(data, tag) = it
    BY <1>2 DEF FaceFor
  <2>2. it.linked = TRUE /\ it.index = 0 /\ it \in [linked : BOOLEAN, index : Nat]
    OBVIOUS
  <2>3. Len(LinkedChain(data, tag)) > 0 /\ tag \in DOMAIN data
    BY <1>0, <1>2, EmptySeq, LenProperties DEF LinkedChain
  <2>4. data[tag] = LinkedChain(data, tag)
    BY <2>3, StyleIs
  <2> HIDE DEF it
  <2>5. StandsOn(data, tag, it)
    BY <2>2, <2>3, <2>4 DEF StandsOn
  <2>6. PlaceOf(data, tag, it) = 1
    BY <2>2 DEF PlaceOf, IsValid, Place
  <2> QED BY <2>1, <2>5, <2>6 DEF Walks
<1> QED BY <1>1, <1>2

(* The next face is the next of the chains, and none is left behind.       *)
LEMMA NextFaceIs ==
    ASSUME NEW data, IsStyle(data), NEW tag, NEW it, StandsOn(data, tag, it)
    PROVE  /\ Walks(data, tag, NextFace(data, tag, it))
           /\ PlaceOf(data, tag, NextFace(data, tag, it)) = Place(data, tag, it) + 1
<1> DEFINE chain == IF it.linked THEN data[tag] ELSE data[Main]
           l == Len(LinkedChain(data, tag))
           next == [linked |-> it.linked, index |-> it.index + 1]
<1>0. /\ it.linked \in BOOLEAN /\ it.index \in Nat /\ l \in Nat /\ Len(data[Main]) \in Nat
      /\ it.linked => tag \in DOMAIN data /\ data[tag] = LinkedChain(data, tag)
      /\ Len(Fallbacks(data, tag)) = l + Len(data[Main])
  BY StyleIs DEF StandsOn
<1>1. it.index < Len(chain) /\ Len(chain) \in Nat
  BY <1>0 DEF StandsOn
<1>2. CASE it.index < Len(chain) - 1
  <2>1. NextFace(data, tag, it) = next
    BY <1>2 DEF NextFace
  <2>2. /\ next.linked = it.linked /\ next.index = it.index + 1
        /\ next \in [linked : BOOLEAN, index : Nat]
    BY <1>0
  <2> HIDE DEF next
  <2>3. StandsOn(data, tag, next)
    BY <1>0, <1>1, <1>2, <2>2 DEF StandsOn
  <2>4. PlaceOf(data, tag, next) = Place(data, tag, it) + 1
    BY <1>0, <2>2 DEF PlaceOf, IsValid, Place
  <2> QED BY <2>1, <2>3, <2>4 DEF Walks
<1>3. CASE ~(it.index < Len(chain) - 1) /\ it.linked
  <2>1. NextFace(data, tag, it) = MainStart(data)
    BY <1>3 DEF NextFace
  <2>2. Place(data, tag, it) = l
    BY <1>0, <1>1, <1>3 DEF Place
  <2> QED BY <2>1, <2>2, MainStartIs
<1>4. CASE ~(it.index < Len(chain) - 1) /\ ~it.linked
  <2>1. NextFace(data, tag, it) = Ended
    BY <1>4 DEF NextFace
  <2>2. Place(data, tag, it) = l + Len(data[Main])
    BY <1>0, <1>1, <1>4 DEF Place
  <2> QED BY <1>0, <2>1, <2>2, EndedIs DEF Walks, PlaceOf
<1> QED BY <1>2, <1>3, <1>4


-----------------------------------------------------------------------------
(* The calls.  A face misses a position if it cannot be loaded or lacks    *)
(* the cluster there.                                                      *)

PieceCluster(r, p, q) == ClusterAt(r, p.from, p.to, q)
Misses(r, p, face, q) == ~(face \in r.loads /\ Covers(r, face, PieceCluster(r, p, q)))

(* All faces before a place miss all of a stretch.                         *)
AllMissed(r, p, from, to, place) ==
    \A q \in from .. to - 1 : \A k \in 1 .. place - 1 :
        Misses(r, p, Fallbacks(r.data, TagOf(r, p))[k], q)

IsCall(c) ==
    c \in [it : Iterators, from : Int, to : Int, at : Int,
           failed_start : Int, failed_end : Int]

Stretch(r, p, from, to) ==
    /\ from \in Int /\ to \in Int /\ p.from <= from /\ from < to /\ to <= p.to
    /\ Boundary(r, p, from) /\ Boundary(r, p, to)

FaceOf(r, p, it) == Value(r.data, TagOf(r, p), it)

(* The next cluster is one of the piece; boxes are drawn in between too.   *)
(* A call without its font stays at its first or is behind its last.       *)
AtCluster(r, p, c) ==
    /\ IF p.rtl THEN c.from - 1 <= c.at /\ c.at < c.to ELSE c.from <= c.at /\ c.at <= c.to
    /\ IsValid(c.it) => Boundary(r, p, IF p.rtl THEN c.at + 1 ELSE c.at)
    /\ IsValid(c.it) /\ FaceOf(r, p, c.it) \notin r.loads =>
         c.at = FirstOf(p.rtl, c.from, c.to) \/ IsPast(p.rtl, c.from, c.to, c.at)

NothingFailed(c) == c.failed_start = c.to + 1 /\ c.failed_end = c.from

(* The failed sub-run ends where the call has come to.                     *)
FailedRun(r, p, c) ==
    /\ IsValid(c.it) /\ FaceOf(r, p, c.it) \in r.loads
    /\ c.from <= c.failed_start /\ c.failed_start <= c.failed_end /\ c.failed_end < c.to
    /\ IF p.rtl THEN c.failed_start = c.at + 1 ELSE c.failed_end = c.at - 1
    /\ Boundary(r, p, c.failed_start) /\ Boundary(r, p, c.failed_end + 1)
    /\ \A q \in c.failed_start .. c.failed_end :
          ~Covers(r, FaceOf(r, p, c.it), PieceCluster(r, p, q))

CallIterator(r, p, it) ==
    Walks(r.data, TagOf(r, p), it) /\ (IsValid(it) => r.font)

IsGood(r, p, c) ==
    /\ IsCall(c)
    /\ Stretch(r, p, c.from, c.to)
    /\ CallIterator(r, p, c.it)
    /\ AtCluster(r, p, c)
    /\ NothingFailed(c) \/ FailedRun(r, p, c)
    /\ r.font => AllMissed(r, p, c.from, c.to, PlaceOf(r.data, TagOf(r, p), c.it))

(* Where the text is drawn next while c is the innermost call.             *)
DrawsAt(p, c) ==
    IF c.failed_start # c.to + 1
    THEN IF p.rtl THEN c.failed_end ELSE c.failed_start
    ELSE c.at

LEMMA WalksIs ==
    ASSUME NEW data, IsStyle(data), NEW tag, NEW it, Walks(data, tag, it)
    PROVE  /\ it \in Iterators /\ PlaceOf(data, tag, it) \in Nat \ {0}
           /\ IsValid(it) => StandsOn(data, tag, it) /\ PlaceOf(data, tag, it) = Place(data, tag, it)
           /\ ~IsValid(it) => PlaceOf(data, tag, it) = Len(Fallbacks(data, tag)) + 1
<1>1. Len(Fallbacks(data, tag)) \in Nat
  BY StyleIs
<1>2. CASE it = Ended
  BY <1>1, <1>2, EndedIs DEF PlaceOf
<1>3. CASE StandsOn(data, tag, it)
  BY <1>1, <1>3, StandsOnFace DEF PlaceOf
<1> QED BY <1>2, <1>3 DEF Walks

LEMMA NewCall ==
    ASSUME NEW r, IsStyle(r.data), NEW p \in Piece, NEW it, CallIterator(r, p, it),
           NEW from, NEW to, Stretch(r, p, from, to),
           r.font => AllMissed(r, p, from, to, PlaceOf(r.data, TagOf(r, p), it))
    PROVE  /\ IsGood(r, p, Call(it, p, from, to))
           /\ NothingFailed(Call(it, p, from, to))
           /\ DrawsAt(p, Call(it, p, from, to)) = FirstOf(p.rtl, from, to)
           /\ Call(it, p, from, to).from = from /\ Call(it, p, from, to).to = to
<1> DEFINE c == Call(it, p, from, to)
<1>0. from \in Int /\ to \in Int /\ from < to /\ it \in Iterators /\ p.rtl \in BOOLEAN
  BY WalksIs DEF Stretch, CallIterator, Piece
<1>1. /\ c.it = it /\ c.from = from /\ c.to = to /\ c.at = FirstOf(p.rtl, from, to)
      /\ c.failed_start = to + 1 /\ c.failed_end = from
  BY DEF Call
<1>2. IsCall(c)
  BY <1>0 DEF Call, IsCall, FirstOf
<1> HIDE DEF c
<1>3. AtCluster(r, p, c)
  BY <1>0, <1>1 DEF AtCluster, FirstOf, Stretch
<1>4. NothingFailed(c)
  BY <1>1 DEF NothingFailed
<1>5. DrawsAt(p, c) = FirstOf(p.rtl, from, to)
  BY <1>1 DEF DrawsAt
<1>6. IsGood(r, p, c)
  BY <1>1, <1>2, <1>3, <1>4 DEF IsGood
<1> QED BY <1>1, <1>4, <1>5, <1>6 DEF c

(* The cluster a call has come to is one of the piece, and the call is at  *)
(* the end of it that comes first.                                         *)
LEMMA CallCluster ==
    ASSUME NEW r, NEW p \in Piece, NEW c, IsGood(r, p, c), ~IsPast(p.rtl, c.from, c.to, c.at),
           NEW k, k = ClusterAt(r, c.from, c.to, c.at)
    PROVE  /\ c.at \in p.from .. p.to - 1
           /\ k = PieceCluster(r, p, c.at)
           /\ k.start \in Int /\ k.end \in Int
           /\ c.from <= k.start /\ k.start <= c.at /\ c.at <= k.end /\ k.end < c.to
           /\ Boundary(r, p, k.start) /\ Boundary(r, p, k.end + 1)
           /\ IsValid(c.it) => IF p.rtl THEN k.end = c.at ELSE k.start = c.at
<1>1. /\ c.from \in Int /\ c.to \in Int /\ c.at \in Int /\ p.from \in Int /\ p.to \in Int
      /\ p.from <= c.from /\ c.to <= p.to
  BY DEF IsGood, IsCall, Stretch, Piece
<1>2. c.at \in c.from .. c.to - 1
  BY <1>1 DEF IsGood, AtCluster, IsPast
<1>3. c.at \in p.from .. p.to - 1
  BY <1>1, <1>2
<1>4. k = PieceCluster(r, p, c.at)
  BY <1>1, <1>2, SubCluster DEF IsGood, Stretch, PieceCluster
<1>5. IsCluster(r, c.from, c.to, c.at, k)
  BY <1>1, <1>2, ClusterIs
<1>6. c.from <= k.start /\ k.end < c.to
  BY <1>1, <1>5 DEF IsCluster, IsClusterStart, IsClusterEnd
<1>7. /\ k.start \in Int /\ k.end \in Int
      /\ k.start <= c.at /\ c.at <= k.end
      /\ Boundary(r, p, k.start) /\ Boundary(r, p, k.end + 1)
      /\ Boundary(r, p, c.at) => k.start = c.at
      /\ Boundary(r, p, c.at + 1) => k.end = c.at
  BY <1>3, <1>4, ClusterBounds DEF PieceCluster
<1> QED BY <1>3, <1>4, <1>6, <1>7 DEF IsGood, AtCluster

LEMMA Moved ==
    ASSUME NEW c, IsCall(c), NEW x \in Int, NEW s \in Int, NEW e \in Int
    PROVE  /\ IsCall(MovedTo(c, x, s, e))
           /\ MovedTo(c, x, s, e).it = c.it /\ MovedTo(c, x, s, e).at = x
           /\ MovedTo(c, x, s, e).from = c.from /\ MovedTo(c, x, s, e).to = c.to
           /\ MovedTo(c, x, s, e).failed_start = s /\ MovedTo(c, x, s, e).failed_end = e
BY DEF MovedTo, IsCall

LEMMA CallIs ==
    ASSUME NEW r, NEW p \in Piece, NEW c, IsGood(r, p, c)
    PROVE  /\ IsCall(c) /\ c.it \in Iterators
           /\ c.from \in Int /\ c.to \in Int /\ c.at \in Int
           /\ c.failed_start \in Int /\ c.failed_end \in Int
           /\ p.from \in Int /\ p.to \in Int /\ p.rtl \in BOOLEAN
           /\ p.from <= c.from /\ c.from < c.to /\ c.to <= p.to
           /\ p.rtl => c.from - 1 <= c.at /\ c.at < c.to
           /\ ~p.rtl => c.from <= c.at /\ c.at <= c.to
<1>1. IsCall(c) /\ Stretch(r, p, c.from, c.to) /\ AtCluster(r, p, c)
  BY DEF IsGood
<1>2. p.from \in Int /\ p.to \in Int /\ p.rtl \in BOOLEAN
  BY DEF Piece
<1> QED BY <1>1, <1>2 DEF IsCall, Stretch, AtCluster

(* A call that moves on with nothing failed.                               *)
LEMMA MovesOn ==
    ASSUME NEW r, NEW p \in Piece, NEW c, IsGood(r, p, c), NEW x \in Int,
           IF p.rtl THEN c.from - 1 <= x /\ x < c.to ELSE c.from <= x /\ x <= c.to,
           IsValid(c.it) => Boundary(r, p, IF p.rtl THEN x + 1 ELSE x),
           IsValid(c.it) => FaceOf(r, p, c.it) \in r.loads \/ IsPast(p.rtl, c.from, c.to, x),
           NEW d, d = MovedTo(c, x, c.to + 1, c.from)
    PROVE  /\ IsGood(r, p, d) /\ NothingFailed(d)
           /\ d.from = c.from /\ d.to = c.to /\ d.at = x /\ d.it = c.it
<1>1. IsCall(c) /\ c.to + 1 \in Int /\ c.from \in Int
  BY CallIs
<1>2. /\ IsCall(d) /\ d.it = c.it /\ d.at = x /\ d.from = c.from /\ d.to = c.to
      /\ d.failed_start = c.to + 1 /\ d.failed_end = c.from
  BY <1>1, Moved
<1>3. NothingFailed(d)
  BY <1>2 DEF NothingFailed
<1>4. AtCluster(r, p, d)
  BY <1>2 DEF AtCluster
<1> QED BY <1>2, <1>3, <1>4 DEF IsGood

LEMMA NothingFailedIs ==
    ASSUME NEW c, NothingFailed(c), NEW p
    PROVE  DrawsAt(p, c) = c.at
BY DEF NothingFailed, DrawsAt

LEMMA FailedRunIs ==
    ASSUME NEW r, NEW p \in Piece, NEW c, IsGood(r, p, c), FailedRun(r, p, c)
    PROVE  /\ c.failed_start # c.to + 1
           /\ Stretch(r, p, c.failed_start, c.failed_end + 1)
           /\ DrawsAt(p, c) = FirstOf(p.rtl, c.failed_start, c.failed_end + 1)
<1> USE DEF FailedRun
<1>1. /\ c.from \in Int /\ c.to \in Int /\ c.failed_start \in Int /\ c.failed_end \in Int
      /\ p.from \in Int /\ p.to \in Int /\ p.from <= c.from /\ c.to <= p.to
  BY CallIs
<1>2. c.failed_start # c.to + 1
  BY <1>1
<1>3. Stretch(r, p, c.failed_start, c.failed_end + 1)
  BY <1>1 DEF Stretch
<1>4. (c.failed_end + 1) - 1 = c.failed_end
  BY <1>1
<1> QED BY <1>2, <1>3, <1>4 DEF DrawsAt, FirstOf

LEMMA TakeIs ==
    ASSUME NEW r, NEW p \in Piece, NEW c, IsGood(r, p, c), NothingFailed(c),
           ~IsPast(p.rtl, c.from, c.to, c.at),
           IsValid(c.it), FaceOf(r, p, c.it) \in r.loads,
           NEW k, k = ClusterAt(r, c.from, c.to, c.at),
           NEW d, d = MovedTo(c, Behind(p.rtl, k), c.failed_start, c.failed_end)
    PROVE  /\ IsGood(r, p, d) /\ NothingFailed(d)
           /\ d.from = c.from /\ d.to = c.to /\ d.at = Behind(p.rtl, k)
<1>1. /\ k.start \in Int /\ k.end \in Int
      /\ c.from <= k.start /\ k.start <= c.at /\ c.at <= k.end /\ k.end < c.to
      /\ Boundary(r, p, k.start) /\ Boundary(r, p, k.end + 1)
  BY CallCluster
<1>2. c.from \in Int /\ c.to \in Int /\ c.at \in Int /\ p.rtl \in BOOLEAN
  BY CallIs
<1> DEFINE x == Behind(p.rtl, k)
<1>3. /\ x \in Int
      /\ IF p.rtl THEN c.from - 1 <= x /\ x < c.to ELSE c.from <= x /\ x <= c.to
      /\ p.rtl => x + 1 = k.start
      /\ ~p.rtl => x = k.end + 1
  BY <1>1, <1>2 DEF Behind
<1>4. d = MovedTo(c, x, c.to + 1, c.from)
  BY DEF NothingFailed
<1> HIDE DEF x
<1>5. Boundary(r, p, IF p.rtl THEN x + 1 ELSE x)
  BY <1>1, <1>2, <1>3
<1> QED BY <1>3, <1>4, <1>5, MovesOn DEF x

LEMMA HexIs ==
    ASSUME NEW r, NEW p \in Piece, NEW c, IsGood(r, p, c), ~IsValid(c.it),
           ~IsPast(p.rtl, c.from, c.to, c.at),
           NEW d, d = MovedTo(c, Behind(p.rtl, Cluster(c.at, c.at, Hex)),
                              c.failed_start, c.failed_end)
    PROVE  /\ IsGood(r, p, d) /\ NothingFailed(c) /\ NothingFailed(d)
           /\ d.from = c.from /\ d.to = c.to
           /\ d.at = Behind(p.rtl, Cluster(c.at, c.at, Hex))
<1> DEFINE x == Behind(p.rtl, Cluster(c.at, c.at, Hex))
<1>1. /\ c.from \in Int /\ c.to \in Int /\ c.at \in Int /\ p.rtl \in BOOLEAN
      /\ p.rtl => c.from - 1 <= c.at /\ c.at < c.to
      /\ ~p.rtl => c.from <= c.at /\ c.at <= c.to
  BY CallIs
<1>2. x = IF p.rtl THEN c.at - 1 ELSE c.at + 1
  BY DEF Behind, Cluster
<1>3. NothingFailed(c)
  BY DEF IsGood, FailedRun
<1>4. /\ x \in Int
      /\ IF p.rtl THEN c.from - 1 <= x /\ x < c.to ELSE c.from <= x /\ x <= c.to
  <2> HIDE DEF x
  <2>1. CASE p.rtl
    <3>1. ~(c.at < c.from)
      BY <2>1 DEF IsPast
    <3>2. x = c.at - 1
      BY <1>2, <2>1
    <3> QED BY <1>1, <2>1, <3>1, <3>2
  <2>2. CASE ~p.rtl
    <3>1. ~(c.at >= c.to)
      BY <2>2 DEF IsPast
    <3>2. x = c.at + 1
      BY <1>2, <2>2
    <3> QED BY <1>1, <2>2, <3>1, <3>2
  <2> QED BY <2>1, <2>2
<1>5. d = MovedTo(c, x, c.to + 1, c.from)
  BY <1>3 DEF NothingFailed
<1>6. /\ IsValid(c.it) => Boundary(r, p, IF p.rtl THEN x + 1 ELSE x)
      /\ IsValid(c.it) => FaceOf(r, p, c.it) \in r.loads \/ IsPast(p.rtl, c.from, c.to, x)
  OBVIOUS
<1> HIDE DEF x
<1>7. IsGood(r, p, d) /\ NothingFailed(d) /\ d.from = c.from /\ d.to = c.to /\ d.at = x
  BY <1>4, <1>5, <1>6, MovesOn
<1> QED BY <1>3, <1>7 DEF x

(* A call behind its run: all of it is drawn or left to the calls it made. *)
LEMMA PastIs ==
    ASSUME NEW r, NEW p \in Piece, NEW c, IsGood(r, p, c), IsPast(p.rtl, c.from, c.to, c.at)
    PROVE  c.at = IF p.rtl THEN c.from - 1 ELSE c.to
BY CallIs DEF IsPast

(* The failed sub-run of a call with one more cluster.                     *)
FailsAt(p, c, k, d) ==
    d = MovedTo(c, Behind(p.rtl, k),
            IF c.failed_start >= k.start THEN k.start ELSE c.failed_start,
            IF c.failed_end <= k.end THEN k.end ELSE c.failed_end)

LEMMA FailIs ==
    ASSUME NEW r, NEW p \in Piece, NEW c, IsGood(r, p, c),
           ~IsPast(p.rtl, c.from, c.to, c.at),
           IsValid(c.it), FaceOf(r, p, c.it) \in r.loads,
           NEW k, k = ClusterAt(r, c.from, c.to, c.at),
           ~Covers(r, FaceOf(r, p, c.it), k),
           NEW d, FailsAt(p, c, k, d)
    PROVE  /\ IsGood(r, p, d) /\ FailedRun(r, p, d)
           /\ d.from = c.from /\ d.to = c.to
           /\ DrawsAt(p, d) = DrawsAt(p, c)
<1> DEFINE fs == c.failed_start
           fe == c.failed_end
           x == Behind(p.rtl, k)
           gs == IF fs >= k.start THEN k.start ELSE fs
           ge == IF fe <= k.end THEN k.end ELSE fe
<1>1. /\ k.start \in Int /\ k.end \in Int
      /\ c.from <= k.start /\ k.start <= c.at /\ c.at <= k.end /\ k.end < c.to
      /\ Boundary(r, p, k.start) /\ Boundary(r, p, k.end + 1)
      /\ p.rtl => k.end = c.at
      /\ ~p.rtl => k.start = c.at
      /\ c.at \in p.from .. p.to - 1 /\ k = PieceCluster(r, p, c.at)
  BY CallCluster
<1>2. /\ IsCall(c) /\ c.from \in Int /\ c.to \in Int /\ c.at \in Int /\ p.rtl \in BOOLEAN
      /\ fs \in Int /\ fe \in Int /\ p.from \in Int /\ p.to \in Int
  BY CallIs
<1>3. x = (IF p.rtl THEN k.start - 1 ELSE k.end + 1) /\ x \in Int
  BY <1>1, <1>2 DEF Behind
<1>4. \/ fs = c.to + 1 /\ fe = c.from /\ NothingFailed(c)
      \/ FailedRun(r, p, c)
  BY DEF IsGood, NothingFailed
<1>5. /\ \/ gs = k.start /\ ge = k.end /\ fs = c.to + 1
         \/ /\ FailedRun(r, p, c) /\ fs # c.to + 1
            /\ IF p.rtl THEN gs = k.start /\ ge = fe /\ fs = k.end + 1
               ELSE gs = fs /\ ge = k.end /\ fe = k.start - 1
      /\ gs \in Int /\ ge \in Int /\ c.from <= gs /\ gs <= ge /\ ge < c.to
      /\ IF p.rtl THEN gs = k.start ELSE ge = k.end
  <2>1. CASE fs = c.to + 1 /\ fe = c.from
    <3> HIDE DEF fs, fe
    <3> QED BY <1>1, <1>2, <2>1
  <2>2. CASE FailedRun(r, p, c)
    <3>1. /\ c.from <= fs /\ fs <= fe /\ fe < c.to
          /\ p.rtl => fs = c.at + 1
          /\ ~p.rtl => fe = c.at - 1
      BY SMTT(30), <2>2 DEF FailedRun
    <3> HIDE DEF fs, fe
    <3> QED BY <1>1, <1>2, <2>2, <3>1
  <2> QED BY <1>4, <2>1, <2>2
<1>6. /\ IsCall(d) /\ d.it = c.it /\ d.at = x /\ d.from = c.from /\ d.to = c.to
      /\ d.failed_start = gs /\ d.failed_end = ge
  BY <1>2, <1>3, <1>5, Moved DEF FailsAt
<1>7. Boundary(r, p, gs) /\ Boundary(r, p, ge + 1)
  <2>1. FailedRun(r, p, c) => Boundary(r, p, fs) /\ Boundary(r, p, fe + 1)
    BY DEF FailedRun
  <2> HIDE DEF fs, fe, gs, ge
  <2> QED BY <1>1, <1>5, <2>1
<1>8. ASSUME NEW q \in gs .. ge
      PROVE  ~Covers(r, FaceOf(r, p, c.it), PieceCluster(r, p, q))
  <2>1. CASE q \in k.start .. k.end
    <3>1. PieceCluster(r, p, q) = k
      BY <1>1, <1>2, <2>1, SameCluster DEF PieceCluster
    <3> QED BY <3>1
  <2>2. CASE q \notin k.start .. k.end
    <3>1. FailedRun(r, p, c) /\ q \in fs .. fe
      <4> HIDE DEF fs, fe, gs, ge
      <4> QED BY <1>1, <1>2, <1>5, <1>8, <2>2
    <3> QED BY <3>1 DEF FailedRun
  <2> QED BY <2>1, <2>2
<1>9. FailedRun(r, p, d)
  <2>1. IF p.rtl THEN gs = x + 1 ELSE ge = x - 1
    <3> HIDE DEF fs, fe, gs, ge, x
    <3> QED BY <1>1, <1>2, <1>3, <1>5
  <2> HIDE DEF gs, ge, x
  <2> QED BY <1>5, <1>6, <1>7, <1>8, <2>1 DEF FailedRun
<1>10. AtCluster(r, p, d)
  <2>1. IF p.rtl THEN c.from - 1 <= x /\ x < c.to ELSE c.from <= x /\ x <= c.to
    <3> HIDE DEF fs, fe, gs, ge, x
    <3> QED BY <1>1, <1>2, <1>3
  <2>2. Boundary(r, p, IF p.rtl THEN x + 1 ELSE x)
    <3>1. IF p.rtl THEN x + 1 = k.start ELSE x = k.end + 1
      <4> HIDE DEF fs, fe, gs, ge, x
      <4> QED BY <1>1, <1>2, <1>3
    <3> HIDE DEF x
    <3> QED BY <1>1, <3>1
  <2> HIDE DEF gs, ge, x
  <2> QED BY <1>6, <2>1, <2>2 DEF AtCluster
<1>11. DrawsAt(p, d) = DrawsAt(p, c)
  <2>1. gs # c.to + 1
    <3> HIDE DEF fs, fe, gs, ge, x
    <3> QED BY <1>2, <1>5
  <2>2. DrawsAt(p, d) = IF p.rtl THEN ge ELSE gs
    <3> HIDE DEF fs, fe, gs, ge, x
    <3> QED BY <1>6, <2>1 DEF DrawsAt
  <2>3. CASE gs = k.start /\ ge = k.end /\ fs = c.to + 1
    <3>1. DrawsAt(p, c) = c.at
      BY <2>3 DEF DrawsAt
    <3> HIDE DEF fs, fe, gs, ge, x
    <3> QED BY <1>1, <1>2, <2>2, <2>3, <3>1
  <2>4. CASE /\ fs # c.to + 1
             /\ IF p.rtl THEN ge = fe ELSE gs = fs
    <3>1. DrawsAt(p, c) = IF p.rtl THEN fe ELSE fs
      BY <2>4 DEF DrawsAt
    <3> HIDE DEF fs, fe, gs, ge, x
    <3> QED BY <2>2, <2>4, <3>1
  <2> HIDE DEF fs, fe, gs, ge, x
  <2> QED BY <1>5, <2>3, <2>4
<1>12. IsGood(r, p, d)
  <2> HIDE DEF fs, fe, gs, ge, x
  <2> QED BY <1>6, <1>9, <1>10 DEF IsGood
<1> QED BY <1>6, <1>9, <1>11, <1>12

(* The call that draws what c failed to shape: one face further along the  *)
(* chain, or at its start again.                                           *)
NextOf(r, p, it, overridden) ==
    LET next == NextFace(r.data, TagOf(r, p), it)
    IN  IF r.attributed /\ IsValid(next) /\ ~overridden
        THEN FaceFor(r.data, p.script)
        ELSE next

LEMMA NextCallIs ==
    ASSUME NEW r \in Requests, NEW p \in Piece, NEW c, IsGood(r, p, c), IsValid(c.it),
           NEW from, NEW to, Stretch(r, p, from, to), c.from <= from, to <= c.to,
           \A q \in from .. to - 1 : Misses(r, p, FaceOf(r, p, c.it), q),
           NEW overridden
    PROVE  /\ CallIterator(r, p, NextOf(r, p, c.it, overridden))
           /\ AllMissed(r, p, from, to,
                        PlaceOf(r.data, TagOf(r, p), NextOf(r, p, c.it, overridden)))
<1> DEFINE tag == TagOf(r, p)
           next == NextFace(r.data, tag, c.it)
           it == NextOf(r, p, c.it, overridden)
<1>1. IsStyle(r.data)
  BY RequestsAssumption
<1>2. CallIterator(r, p, c.it) /\ r.font
  BY DEF IsGood, CallIterator
<1>3. StandsOn(r.data, tag, c.it) /\ PlaceOf(r.data, tag, c.it) = Place(r.data, tag, c.it)
  BY <1>1, <1>2, WalksIs DEF CallIterator
<1>4. CASE it = next
  <2>1. Walks(r.data, tag, next) /\ PlaceOf(r.data, tag, next) = Place(r.data, tag, c.it) + 1
    BY <1>1, <1>3, NextFaceIs
  <2>2. CallIterator(r, p, it)
    BY <1>2, <1>4, <2>1 DEF CallIterator
  <2> DEFINE n == Place(r.data, tag, c.it)
  <2>3. n \in Nat \ {0} /\ Fallbacks(r.data, tag)[n] = FaceOf(r, p, c.it)
    <3>1. n \in 1 .. Len(Fallbacks(r.data, tag)) /\ Fallbacks(r.data, tag)[n] = FaceOf(r, p, c.it)
      BY <1>1, <1>3, StandsOnFace DEF FaceOf
    <3>2. n \in Nat \ {0}
      <4>1. n = PlaceOf(r.data, tag, c.it)
        BY <1>3
      <4> QED BY <1>1, <1>2, <4>1, WalksIs DEF CallIterator
    <3> QED BY <3>1, <3>2
  <2>4. AllMissed(r, p, c.from, c.to, n)
    BY <1>2, <1>3 DEF IsGood
  <2>5. /\ from \in Int /\ to \in Int /\ c.from \in Int /\ c.to \in Int
    BY CallIs DEF Stretch
  <2> HIDE DEF n
  <2>6. AllMissed(r, p, from, to, n + 1)
    <3> SUFFICES ASSUME NEW q \in from .. to - 1, NEW k \in 1 .. (n + 1) - 1
                 PROVE  Misses(r, p, Fallbacks(r.data, tag)[k], q)
      BY DEF AllMissed
    <3>1. CASE k = n
      BY <2>3, <3>1
    <3>2. CASE k # n
      <4>1. k \in 1 .. n - 1 /\ q \in c.from .. c.to - 1
        BY <2>3, <2>5, <3>2
      <4> QED BY <2>4, <4>1 DEF AllMissed
    <3> QED BY <3>1, <3>2
  <2> QED BY <1>4, <2>1, <2>2, <2>6 DEF n
<1>5. CASE it # next
  <2>1. r.attributed /\ it = FaceFor(r.data, p.script)
    BY <1>5 DEF NextOf
  <2>2. tag = p.script
    BY <2>1 DEF TagOf
  <2>3. Walks(r.data, tag, it) /\ PlaceOf(r.data, tag, it) = 1
    BY <1>1, <2>1, <2>2, FaceForIs
  <2>4. CallIterator(r, p, it)
    BY <1>2, <2>3 DEF CallIterator
  <2>5. AllMissed(r, p, from, to, 1)
    BY DEF AllMissed
  <2> QED BY <2>3, <2>4, <2>5
<1> QED BY <1>4, <1>5

-----------------------------------------------------------------------------
(* The stack: a call waits behind the stretch that the one above it draws. *)

Waits(p, c, d) == NothingFailed(c) /\ c.at = IF p.rtl THEN d.from - 1 ELSE d.to

CallRecords ==
    [it : Iterators, from : Int, to : Int, at : Int, failed_start : Int, failed_end : Int]

IsStack(r, p, s) ==
    /\ s \in Seq(CallRecords) /\ s # <<>>
    /\ s[1].from = p.from /\ s[1].to = p.to
    /\ \A k \in 1 .. Len(s) : IsGood(r, p, s[k])
    /\ \A k \in 1 .. Len(s) - 1 : Waits(p, s[k], s[k + 1])

TopOf(s) == s[Len(s)]
BelowOf(s) == SubSeq(s, 1, Len(s) - 1)

LEMMA StackTop ==
    ASSUME NEW r, NEW p, NEW s, IsStack(r, p, s)
    PROVE  /\ Len(s) \in Nat /\ Len(s) >= 1 /\ IsGood(r, p, TopOf(s)) /\ TopOf(s) \in CallRecords
           /\ BelowOf(s) \in Seq(CallRecords) /\ Len(BelowOf(s)) = Len(s) - 1
           /\ \A k \in 1 .. Len(s) - 1 : BelowOf(s)[k] = s[k]
<1>1. Len(s) \in Nat /\ Len(s) >= 1
  BY EmptySeq, LenProperties DEF IsStack
<1>2. TopOf(s) \in CallRecords /\ IsGood(r, p, TopOf(s))
  BY <1>1, ElementOfSeq DEF IsStack, TopOf
<1>3. /\ BelowOf(s) \in Seq(CallRecords) /\ Len(BelowOf(s)) = Len(s) - 1
      /\ \A k \in 1 .. Len(s) - 1 : BelowOf(s)[k] = s[k]
  <2>1. s \in Seq(CallRecords)
    BY DEF IsStack
  <2> DEFINE n == Len(s) - 1
  <2>2. n \in Nat /\ 1 \in Int
    BY <1>1
  <2>3. \A j \in 1 .. n : s[j] \in CallRecords
    BY <1>1, <2>1, ElementOfSeq
  <2>4. /\ BelowOf(s) \in Seq(CallRecords) /\ Len(BelowOf(s)) = IF 1 <= n THEN n - 1 + 1 ELSE 0
        /\ \A j \in 1 .. n - 1 + 1 : BelowOf(s)[j] = s[1 + j - 1]
    <3> HIDE DEF n
    <3>1. /\ SubSeq(s, 1, n) \in Seq(CallRecords) /\ Len(SubSeq(s, 1, n)) = IF 1 <= n THEN n - 1 + 1 ELSE 0
          /\ \A j \in 1 .. n - 1 + 1 : SubSeq(s, 1, n)[j] = s[1 + j - 1]
      BY <2>2, <2>3, SubSeqProperties
    <3> QED BY <3>1 DEF BelowOf, n
  <2>5. \A j \in 1 .. n : 1 + j - 1 = j
    BY <2>2
  <2> HIDE DEF n
  <2>6. Len(BelowOf(s)) = n /\ \A j \in 1 .. n : BelowOf(s)[j] = s[j]
    BY <2>2, <2>4, <2>5
  <2> QED BY <2>4, <2>6 DEF n
<1> QED BY <1>1, <1>2, <1>3

LEMMA Single ==
    ASSUME NEW r, NEW p, NEW c, IsGood(r, p, c), c.from = p.from, c.to = p.to
    PROVE  IsStack(r, p, <<c>>) /\ TopOf(<<c>>) = c
<1>1. c \in CallRecords
  BY DEF IsGood, IsCall, CallRecords
<1>2. <<c>> \in Seq(CallRecords) /\ Len(<<c>>) = 1 /\ <<c>>[1] = c /\ <<c>> # <<>>
  BY <1>1
<1> QED BY <1>2 DEF IsStack, TopOf

(* The top call moves on.                                                  *)
LEMMA Replaced ==
    ASSUME NEW r, NEW p, NEW s, IsStack(r, p, s),
           NEW c, IsGood(r, p, c), c.from = TopOf(s).from, c.to = TopOf(s).to
    PROVE  IsStack(r, p, Append(BelowOf(s), c)) /\ TopOf(Append(BelowOf(s), c)) = c
<1> DEFINE w == BelowOf(s)
           n == Len(s)
           t == Append(w, c)
<1>1. /\ n \in Nat /\ n >= 1 /\ w \in Seq(CallRecords) /\ Len(w) = n - 1
      /\ \A k \in 1 .. n - 1 : w[k] = s[k]
  BY StackTop
<1>2. c \in CallRecords
  BY DEF IsGood, IsCall, CallRecords
<1> HIDE DEF w
<1>3. /\ t \in Seq(CallRecords) /\ Len(t) = n /\ t[n] = c
      /\ \A k \in 1 .. n - 1 : t[k] = s[k]
  BY <1>1, <1>2, AppendProperties
<1>4. t # <<>>
  BY <1>1, <1>3, EmptySeq
<1> HIDE DEF t
<1>5. t[1].from = p.from /\ t[1].to = p.to
  <2>1. CASE n = 1
    BY <1>3, <2>1 DEF IsStack, TopOf
  <2>2. CASE n # 1
    <3>1. 1 \in 1 .. n - 1
      BY <1>1, <2>2
    <3> QED BY <1>3, <3>1 DEF IsStack
  <2> QED BY <2>1, <2>2
<1>6. ASSUME NEW k \in 1 .. n PROVE IsGood(r, p, t[k])
  <2>1. k = n \/ k \in 1 .. n - 1
    BY <1>1
  <2> QED BY <1>3, <2>1 DEF IsStack
<1>7. ASSUME NEW k \in 1 .. n - 1 PROVE Waits(p, t[k], t[k + 1])
  <2>1. Waits(p, s[k], s[k + 1]) /\ t[k] = s[k]
    BY <1>3 DEF IsStack
  <2>2. CASE k + 1 = n
    <3>1. s[k + 1] = TopOf(s) /\ t[k + 1] = c
      BY <1>3, <2>2 DEF TopOf
    <3> QED BY <2>1, <3>1 DEF Waits
  <2>3. CASE k + 1 # n
    <3>1. k + 1 \in 1 .. n - 1
      BY <1>1, <2>3
    <3> QED BY <1>3, <2>1, <3>1
  <2> QED BY <2>2, <2>3
<1>8. IsStack(r, p, t)
  BY <1>3, <1>4, <1>5, <1>6, <1>7 DEF IsStack
<1>9. TopOf(t) = c
  BY <1>3 DEF TopOf
<1> QED BY <1>8, <1>9 DEF t, w

LEMMA Pushed ==
    ASSUME NEW r, NEW p, NEW s, IsStack(r, p, s),
           NEW c, IsGood(r, p, c), Waits(p, TopOf(s), c)
    PROVE  IsStack(r, p, Append(s, c)) /\ TopOf(Append(s, c)) = c
<1> DEFINE n == Len(s)
           t == Append(s, c)
<1>1. n \in Nat /\ n >= 1 /\ s \in Seq(CallRecords)
  BY StackTop DEF IsStack
<1>2. c \in CallRecords
  BY DEF IsGood, IsCall, CallRecords
<1>3. /\ t \in Seq(CallRecords) /\ Len(t) = n + 1 /\ t[n + 1] = c
      /\ \A k \in 1 .. n : t[k] = s[k]
  BY <1>1, <1>2, AppendProperties
<1>4. t # <<>>
  BY <1>1, <1>3, EmptySeq
<1> HIDE DEF t
<1>5. t[1].from = p.from /\ t[1].to = p.to
  <2>1. 1 \in 1 .. n
    BY <1>1
  <2> QED BY <1>3, <2>1 DEF IsStack
<1>6. ASSUME NEW k \in 1 .. n + 1 PROVE IsGood(r, p, t[k])
  <2>1. k = n + 1 \/ k \in 1 .. n
    BY <1>1
  <2> QED BY <1>3, <2>1 DEF IsStack
<1>7. ASSUME NEW k \in 1 .. (n + 1) - 1 PROVE Waits(p, t[k], t[k + 1])
  <2>1. k \in 1 .. n /\ t[k] = s[k]
    BY <1>1, <1>3
  <2>2. CASE k = n
    BY <1>3, <2>1, <2>2 DEF TopOf
  <2>3. CASE k # n
    <3>1. k \in 1 .. n - 1 /\ k + 1 \in 1 .. n
      BY <1>1, <2>1, <2>3
    <3> QED BY <1>3, <2>1, <3>1 DEF IsStack
  <2> QED BY <2>2, <2>3
<1>8. IsStack(r, p, t)
  BY <1>3, <1>4, <1>5, <1>6, <1>7 DEF IsStack
<1>9. TopOf(t) = c
  BY <1>3 DEF TopOf
<1> QED BY <1>8, <1>9 DEF t

LEMMA Popped ==
    ASSUME NEW r, NEW p, NEW s, IsStack(r, p, s)
    PROVE  \/ BelowOf(s) = <<>> /\ TopOf(s).from = p.from /\ TopOf(s).to = p.to
           \/ /\ IsStack(r, p, BelowOf(s))
              /\ Waits(p, TopOf(BelowOf(s)), TopOf(s))
<1> DEFINE w == BelowOf(s)
           n == Len(s)
<1>1. /\ n \in Nat /\ n >= 1 /\ w \in Seq(CallRecords) /\ Len(w) = n - 1
      /\ \A k \in 1 .. n - 1 : w[k] = s[k]
  BY StackTop
<1> HIDE DEF w
<1>2. CASE n = 1
  <2>1. w = <<>>
    BY <1>1, <1>2, EmptySeq
  <2> QED BY <1>2, <2>1 DEF IsStack, TopOf, w
<1>3. CASE n # 1
  <2>1. 1 \in 1 .. n - 1 /\ n - 1 \in 1 .. n - 1 /\ (n - 1) + 1 = n
    BY <1>1, <1>3
  <2>2. w[1].from = p.from /\ w[1].to = p.to /\ w # <<>>
    BY <1>1, <2>1, EmptySeq DEF IsStack
  <2>3. ASSUME NEW k \in 1 .. n - 1 PROVE IsGood(r, p, w[k])
    <3>1. k \in 1 .. n
      BY <1>1
    <3> QED BY <1>1, <3>1 DEF IsStack
  <2>4. ASSUME NEW k \in 1 .. (n - 1) - 1 PROVE Waits(p, w[k], w[k + 1])
    <3>1. k \in 1 .. n - 1 /\ k + 1 \in 1 .. n - 1
      BY <1>1
    <3> QED BY <1>1, <3>1 DEF IsStack
  <2>5. IsStack(r, p, w)
    BY <1>1, <2>2, <2>3, <2>4 DEF IsStack
  <2>6. Waits(p, TopOf(w), TopOf(s))
    <3>1. Waits(p, s[n - 1], s[(n - 1) + 1])
      BY <2>1 DEF IsStack
    <3> QED BY <1>1, <2>1, <3>1 DEF TopOf
  <2> QED BY <2>5, <2>6 DEF w
<1> QED BY <1>2, <1>3

-----------------------------------------------------------------------------
(* The inductive invariant of a text whose boxes are drawn once: the calls *)
(* cover what is left of the piece.                                        *)

ShapeInv ==
    /\ req \in Requests /\ BoxedOnce(req)
    /\ piece \in 0 .. Len(req.pieces)
    /\ Running => piece # 0 /\ IsStack(req, Here, stack)

LEMMA PieceIs ==
    ASSUME NEW r \in Requests, NEW k \in 1 .. Len(r.pieces)
    PROVE  /\ r.pieces[k] \in Piece
           /\ Stretch(r, r.pieces[k], r.pieces[k].from, r.pieces[k].to)
           /\ k \in DOMAIN r.pieces
<1>1. r.pieces \in Seq(Piece) /\ k \in DOMAIN r.pieces
  BY RequestsAssumption
<1>2. r.pieces[k] \in Piece /\ r.pieces[k].from < r.pieces[k].to
  BY <1>1, RequestsAssumption
<1> DEFINE p == r.pieces[k]
<1>3. p.from \in Int /\ p.to \in Int
  BY <1>2 DEF Piece
<1> HIDE DEF p
<1>4. p.from < p.to
  BY <1>2 DEF p
<1>5. Stretch(r, p, p.from, p.to)
  BY <1>3, <1>4 DEF Stretch, Boundary
<1> QED BY <1>1, <1>2, <1>5 DEF p

LEMMA RequestIs ==
    ASSUME NEW r \in Requests
    PROVE  /\ IsStyle(r.data) /\ r.font \in BOOLEAN /\ r.attributed \in BOOLEAN
           /\ r.pieces \in Seq(Piece) /\ Len(r.pieces) \in Nat
<1>1. IsStyle(r.data) /\ r.font \in BOOLEAN /\ r.attributed \in BOOLEAN /\ r.pieces \in Seq(Piece)
  BY RequestsAssumption
<1> QED BY <1>1, LenProperties

LEMMA RunningIs ==
    ASSUME ShapeInv, Running
    PROVE  /\ piece \in 1 .. Len(req.pieces) /\ Here \in Piece
           /\ IsStack(req, Here, stack) /\ IsGood(req, Here, Top)
           /\ Top = TopOf(stack) /\ Below = BelowOf(stack)
           /\ DrawnPiece = piece /\ DrawnAt = DrawsAt(Here, Top)
<1>1. piece \in 1 .. Len(req.pieces) /\ IsStack(req, Here, stack)
  <2>1. Len(req.pieces) \in Nat
    BY RequestIs DEF ShapeInv
  <2> QED BY <2>1 DEF ShapeInv
<1>2. Here \in Piece
  BY <1>1, PieceIs DEF ShapeInv, Here
<1>3. Top = TopOf(stack) /\ Below = BelowOf(stack)
  BY DEF Top, Below, TopOf, BelowOf
<1>4. IsGood(req, Here, Top)
  BY <1>1, <1>3, StackTop
<1>5. DrawnPiece = piece /\ DrawnAt = DrawsAt(Here, Top)
  BY DEF DrawnPiece, DrawnAt, DrawsAt, HasFailed
<1> QED BY <1>1, <1>2, <1>3, <1>4, <1>5

LEMMA StartIs ==
    ASSUME NEW r \in Requests, NEW k \in 0 .. Len(r.pieces)
    PROVE  Promise!StartOf(r, k + 1) =
               IF k = Len(r.pieces) THEN 0
               ELSE FirstOf(r.pieces[k + 1].rtl, r.pieces[k + 1].from, r.pieces[k + 1].to)
<1>1. (k = Len(r.pieces)) <=> (k + 1 > Len(r.pieces))
  BY RequestIs
<1> QED BY <1>1 DEF Promise!StartOf, FirstOf, Promise!FirstOf

LEMMA IdleIs ==
    ASSUME ShapeInv, ~Running
    PROVE  DrawnPiece = piece + 1 /\ DrawnAt = Promise!StartOf(req, piece + 1)
<1>1. DrawnPiece = piece + 1
  BY DEF DrawnPiece
<1>2. DrawnAt = Promise!StartOf(req, piece + 1)
  BY StartIs DEF ShapeInv, DrawnAt
<1> QED BY <1>1, <1>2

(* A step of the calls leads to another stack of calls for the piece.      *)
LEMMA StillRunning ==
    ASSUME ShapeInv, piece # 0, UNCHANGED <<req, piece>>, IsStack(req, Here, stack')
    PROVE  /\ ShapeInv'
           /\ DrawnPiece' = piece /\ DrawnAt' = DrawsAt(Here, TopOf(stack'))
<1>1. Here' = Here
  BY DEF Here
<1>2. stack' # <<>>
  BY DEF IsStack
<1>3. ShapeInv'
  BY <1>1, <1>2 DEF ShapeInv
<1>4. DrawnPiece' = piece
  BY <1>2 DEF DrawnPiece, Running
<1>5. DrawnAt' = DrawsAt(Here, TopOf(stack'))
  BY <1>1, <1>2 DEF DrawnAt, Running, HasFailed, Top, DrawsAt, TopOf
<1> QED BY <1>3, <1>4, <1>5

-----------------------------------------------------------------------------
(* Every step that draws nothing is a stutter of the promise.              *)

LEMMA IteratorIs ==
    ASSUME NEW r \in Requests, NEW p \in Piece
    PROVE  /\ CallIterator(r, p, Iterator(r, p))
           /\ r.font => AllMissed(r, p, p.from, p.to, PlaceOf(r.data, TagOf(r, p), Iterator(r, p)))
           /\ ~IsValid(Iterator(r, p)) => Iterator(r, p) = Ended
<1>1. CASE r.font
  <2>1. Iterator(r, p) = FaceFor(r.data, TagOf(r, p))
    BY <1>1 DEF Iterator
  <2>2. /\ Walks(r.data, TagOf(r, p), Iterator(r, p))
        /\ PlaceOf(r.data, TagOf(r, p), Iterator(r, p)) = 1
    BY <2>1, RequestIs, FaceForIs
  <2>3. AllMissed(r, p, p.from, p.to, 1)
    BY DEF AllMissed
  <2>4. ~IsValid(Iterator(r, p)) => Iterator(r, p) = Ended
    BY <2>2, RequestIs, StandsOnFace DEF Walks
  <2> QED BY <1>1, <2>2, <2>3, <2>4 DEF CallIterator
<1>2. CASE ~r.font
  <2>1. Iterator(r, p) = Ended
    BY <1>2 DEF Iterator
  <2> QED BY <1>2, <2>1, EndedIs DEF CallIterator, Walks
<1> QED BY <1>1, <1>2

LEMMA Started ==
    ASSUME ShapeInv, ~Running, piece < Len(req.pieces),
           NEW p, p = req.pieces[piece + 1],
           stack' = <<Call(Iterator(req, p), p, p.from, p.to)>>,
           piece' = piece + 1, UNCHANGED <<req, visual>>
    PROVE  ShapeInv' /\ UNCHANGED <<req, visual, DrawnPiece, DrawnAt>>
<1> DEFINE c == Call(Iterator(req, p), p, p.from, p.to)
<1>1. req \in Requests /\ piece + 1 \in 1 .. Len(req.pieces) /\ piece + 1 # 0
  BY RequestIs DEF ShapeInv
<1>2. p \in Piece /\ Stretch(req, p, p.from, p.to)
  BY <1>1, PieceIs
<1>3. /\ IsGood(req, p, c) /\ DrawsAt(p, c) = FirstOf(p.rtl, p.from, p.to)
      /\ c.from = p.from /\ c.to = p.to
  BY <1>1, <1>2, RequestIs, IteratorIs, NewCall
<1> HIDE DEF c
<1>4. IsStack(req, p, <<c>>) /\ TopOf(<<c>>) = c
  BY <1>3, Single
<1>5. stack' = <<c>> /\ stack' # <<>> /\ Here' = p
  BY DEF c, Here
<1>6. ShapeInv'
  BY <1>1, <1>4, <1>5 DEF ShapeInv
<1>7. DrawnPiece' = piece + 1
  BY <1>5 DEF DrawnPiece, Running
<1>8. DrawnAt' = FirstOf(p.rtl, p.from, p.to)
  <2>1. DrawnAt' = DrawsAt(Here', TopOf(stack'))
    BY <1>5 DEF DrawnAt, Running, HasFailed, Top, DrawsAt, TopOf
  <2> QED BY <1>3, <1>4, <1>5, <2>1
<1>9. DrawnPiece = piece + 1 /\ DrawnAt = FirstOf(p.rtl, p.from, p.to)
  <2>1. ~(piece + 1 > Len(req.pieces))
    BY <1>1, RequestIs
  <2> QED BY <2>1, IdleIs DEF Promise!StartOf, FirstOf, Promise!FirstOf
<1> QED BY <1>6, <1>7, <1>8, <1>9

LEMMA ShapePieceStep ==
    ASSUME ShapeInv, ShapePiece
    PROVE  ShapeInv' /\ UNCHANGED <<req, visual, DrawnPiece, DrawnAt>>
<1> DEFINE p == req.pieces[piece + 1]
<1>1. /\ ~Running /\ piece < Len(req.pieces) /\ piece' = piece + 1 /\ UNCHANGED <<req, visual>>
      /\ stack' = <<Call(Iterator(req, p), p, p.from, p.to)>>
  BY DEF ShapePiece
<1> QED BY <1>1, Started

LEMMA ShapeBoxesStep ==
    ASSUME ShapeInv, ShapeBoxes
    PROVE  ShapeInv' /\ UNCHANGED <<req, visual, DrawnPiece, DrawnAt>>
<1> DEFINE p == req.pieces[piece + 1]
           ofRun == {k \in DOMAIN req.pieces : req.pieces[k].run_from = p.run_from}
<1>1. /\ ~Running /\ piece < Len(req.pieces) /\ UNCHANGED <<req, visual>>
      /\ ~IsValid(Iterator(req, p))
      /\ stack' = <<Call(Ended, p, p.run_from, p.run_to)>>
      /\ piece' = piece + 1 \/ piece' \in ofRun
  BY DEF ShapeBoxes
<1>2. req \in Requests /\ piece + 1 \in 1 .. Len(req.pieces)
  BY <1>1, RequestIs DEF ShapeInv
<1>3. p \in Piece /\ piece + 1 \in DOMAIN req.pieces
  BY <1>2, PieceIs
<1>4. Iterator(req, p) = Ended
  BY <1>1, <1>2, <1>3, IteratorIs
<1>5. /\ p.from = p.run_from /\ p.to = p.run_to
      /\ \A j \in DOMAIN req.pieces : req.pieces[j].run_from = p.run_from => j = piece + 1
  BY <1>1, <1>3 DEF ShapeInv, BoxedOnce
<1>6. piece' = piece + 1
  BY <1>1, <1>5
<1>7. stack' = <<Call(Iterator(req, p), p, p.from, p.to)>>
  BY <1>1, <1>4, <1>5
<1> HIDE DEF p
<1> QED BY <1>1, <1>6, <1>7, Started DEF p

(* A new call on top of one that waits behind it.                          *)
LEMMA Nested ==
    ASSUME ShapeInv, Running, UNCHANGED <<req, piece, visual>>,
           NEW c, IsGood(req, Here, c), c.from = Top.from, c.to = Top.to,
           NEW d, IsGood(req, Here, d), Waits(Here, c, d),
           stack' = Append(Append(Below, c), d),
           DrawsAt(Here, d) = DrawsAt(Here, Top)
    PROVE  ShapeInv' /\ UNCHANGED <<req, visual, DrawnPiece, DrawnAt>>
<1>1. /\ IsStack(req, Here, stack) /\ Top = TopOf(stack) /\ Below = BelowOf(stack)
      /\ DrawnPiece = piece /\ DrawnAt = DrawsAt(Here, Top)
  BY RunningIs
<1>2. IsStack(req, Here, Append(Below, c)) /\ TopOf(Append(Below, c)) = c
  BY <1>1, Replaced
<1>3. IsStack(req, Here, stack') /\ TopOf(stack') = d
  BY <1>2, Pushed
<1>4. piece # 0
  BY DEF ShapeInv
<1>5. ShapeInv' /\ DrawnPiece' = piece /\ DrawnAt' = DrawsAt(Here, d)
  BY <1>3, <1>4, StillRunning
<1> QED BY <1>1, <1>5

LEMMA NextIteratorIs ==
    ASSUME NEW overridden
    PROVE  NextIterator(overridden) = NextOf(req, Here, Top.it, overridden)
BY DEF NextIterator, NextOf

LEMMA SkipFaceStep ==
    ASSUME ShapeInv, SkipFace
    PROVE  ShapeInv' /\ UNCHANGED <<req, visual, DrawnPiece, DrawnAt>>
<1> DEFINE p == Here
           c == Top
           d == Call(NextIterator(FALSE), p, c.from, c.to)
<1>1. /\ Running /\ IsValid(c.it) /\ FaceOf(req, p, c.it) \notin req.loads
      /\ ~IsPast(p.rtl, c.from, c.to, c.at)
      /\ stack' = Append(Append(Below, AllPast(c)), d)
      /\ UNCHANGED <<req, piece, visual>>
  BY DEF SkipFace, IsHexCall, Loaded, Face, FaceOf, TopIsPast
<1>2. p \in Piece /\ IsGood(req, p, c) /\ req \in Requests
  BY <1>1, RunningIs DEF ShapeInv
<1>3. NothingFailed(c) /\ c.at = FirstOf(p.rtl, c.from, c.to)
  BY <1>1, <1>2 DEF IsGood, FailedRun, AtCluster
<1>4. /\ c.from \in Int /\ c.to \in Int /\ p.rtl \in BOOLEAN /\ c.from < c.to
      /\ Stretch(req, p, c.from, c.to)
  BY <1>2, CallIs DEF IsGood
<1>5. /\ CallIterator(req, p, NextOf(req, p, c.it, FALSE))
      /\ AllMissed(req, p, c.from, c.to,
                   PlaceOf(req.data, TagOf(req, p), NextOf(req, p, c.it, FALSE)))
  <2>1. \A q \in c.from .. c.to - 1 : Misses(req, p, FaceOf(req, p, c.it), q)
    BY <1>1 DEF Misses
  <2>2. c.from <= c.from /\ c.to <= c.to
    BY <1>4
  <2> HIDE DEF p, c
  <2> QED BY <1>1, <1>2, <1>4, <2>1, <2>2, NextCallIs
<1>6. /\ IsGood(req, p, d) /\ DrawsAt(p, d) = FirstOf(p.rtl, c.from, c.to)
      /\ d.from = c.from /\ d.to = c.to
  <2> DEFINE it == NextOf(req, p, c.it, FALSE)
  <2>1. d = Call(it, p, c.from, c.to)
    BY NextIteratorIs
  <2> HIDE DEF p, c, d, it
  <2>2. CallIterator(req, p, it) /\ AllMissed(req, p, c.from, c.to, PlaceOf(req.data, TagOf(req, p), it))
    BY <1>5 DEF it
  <2>3. IsStyle(req.data)
    BY <1>2, RequestIs
  <2> QED BY <1>2, <1>4, <2>1, <2>2, <2>3, NewCall
<1> DEFINE x == IF p.rtl THEN c.from - 1 ELSE c.to
           w == AllPast(c)
<1>7. w = MovedTo(c, x, c.to + 1, c.from)
  BY <1>3 DEF AllPast, NothingFailed
<1>8. /\ IsGood(req, p, w) /\ NothingFailed(w) /\ w.from = c.from /\ w.to = c.to /\ w.at = x
  <2> HIDE DEF p, c, w
  <2>1. x \in Int /\ IF p.rtl THEN c.from - 1 <= x /\ x < c.to ELSE c.from <= x /\ x <= c.to
    BY <1>4
  <2>2. IsPast(p.rtl, c.from, c.to, x)
    BY <1>4 DEF IsPast
  <2>3. Boundary(req, p, IF p.rtl THEN x + 1 ELSE x)
    <3>1. (IF p.rtl THEN x + 1 ELSE x) = IF p.rtl THEN c.from ELSE c.to
      BY <1>4
    <3> QED BY <1>4, <3>1 DEF Stretch
  <2> HIDE DEF x
  <2> QED BY <1>2, <1>7, <2>1, <2>2, <2>3, MovesOn
<1>9. Waits(p, w, d)
  BY <1>6, <1>8 DEF Waits
<1>10. DrawsAt(p, d) = DrawsAt(p, c)
  BY <1>3, <1>6, NothingFailedIs
<1> HIDE DEF w, d
<1> QED BY <1>1, <1>6, <1>8, <1>9, <1>10, Nested DEF w, d

LEMMA FailClusterStep ==
    ASSUME ShapeInv, FailCluster
    PROVE  ShapeInv' /\ UNCHANGED <<req, visual, DrawnPiece, DrawnAt>>
<1> DEFINE d == MovedTo(Top, Behind(Here.rtl, TopCluster), FailedStart, FailedEnd)
<1>1. /\ Running /\ IsValid(Top.it) /\ FaceOf(req, Here, Top.it) \in req.loads
      /\ ~IsPast(Here.rtl, Top.from, Top.to, Top.at)
      /\ ~Covers(req, FaceOf(req, Here, Top.it), TopCluster)
      /\ stack' = Append(Below, d)
      /\ UNCHANGED <<req, piece, visual>>
  BY DEF FailCluster, TopShapes, IsHexCall, Loaded, Face, FaceOf, TopIsPast
<1>2. FailsAt(Here, Top, TopCluster, d)
  BY DEF FailsAt, FailedStart, FailedEnd
<1>3. /\ Here \in Piece /\ IsGood(req, Here, Top) /\ IsStack(req, Here, stack)
      /\ Top = TopOf(stack) /\ Below = BelowOf(stack)
      /\ DrawnPiece = piece /\ DrawnAt = DrawsAt(Here, Top)
  BY <1>1, RunningIs
<1>4. TopCluster = ClusterAt(req, Top.from, Top.to, Top.at)
  BY DEF TopCluster
<1> HIDE DEF d
<1>5. /\ IsGood(req, Here, d) /\ d.from = Top.from /\ d.to = Top.to
      /\ DrawsAt(Here, d) = DrawsAt(Here, Top)
  BY <1>1, <1>2, <1>3, <1>4, FailIs
<1>6. IsStack(req, Here, stack') /\ TopOf(stack') = d
  BY <1>1, <1>3, <1>5, Replaced
<1>7. ShapeInv' /\ DrawnPiece' = piece /\ DrawnAt' = DrawsAt(Here, d)
  BY <1>1, <1>6, StillRunning DEF ShapeInv
<1> QED BY <1>1, <1>3, <1>5, <1>7

LEMMA ReshapeStep ==
    ASSUME ShapeInv, Reshape
    PROVE  ShapeInv' /\ UNCHANGED <<req, visual, DrawnPiece, DrawnAt>>
<1> DEFINE p == Here
           c == Top
           from == c.failed_start
           to == c.failed_end + 1
           w == MovedTo(c, c.at, c.to + 1, c.from)
           d == Call(NextIterator(TopIsPast), p, from, to)
<1>1. /\ Running /\ IsValid(c.it) /\ FaceOf(req, p, c.it) \in req.loads /\ HasFailed
      /\ stack' = Append(Append(Below, w), d)
      /\ UNCHANGED <<req, piece, visual>>
  BY DEF Reshape, TopShapes, IsHexCall, Loaded, Face, FaceOf
<1>2. p \in Piece /\ IsGood(req, p, c) /\ req \in Requests
  BY <1>1, RunningIs DEF ShapeInv
<1>3. FailedRun(req, p, c)
  BY <1>1, <1>2 DEF IsGood, NothingFailed, HasFailed
<1>4. Stretch(req, p, from, to) /\ DrawsAt(p, c) = FirstOf(p.rtl, from, to)
  <2> HIDE DEF p, c
  <2> QED BY <1>2, <1>3, FailedRunIs
<1>5. /\ c.from \in Int /\ c.to \in Int /\ c.at \in Int /\ p.rtl \in BOOLEAN
      /\ c.failed_start \in Int /\ c.failed_end \in Int
      /\ c.from <= from /\ to <= c.to
      /\ IF p.rtl THEN c.failed_start = c.at + 1 ELSE c.failed_end = c.at - 1
  <2>1. /\ c.from <= c.failed_start /\ c.failed_end < c.to
        /\ IF p.rtl THEN c.failed_start = c.at + 1 ELSE c.failed_end = c.at - 1
    BY <1>3 DEF FailedRun
  <2> HIDE DEF p, c
  <2> QED BY <1>2, <2>1, CallIs
<1> DEFINE overridden == TopIsPast
           it == NextOf(req, p, c.it, overridden)
<1>7. CallIterator(req, p, it) /\ AllMissed(req, p, from, to, PlaceOf(req.data, TagOf(req, p), it))
  <2>1. \A q \in from .. to - 1 : Misses(req, p, FaceOf(req, p, c.it), q)
    <3>1. \A q \in c.failed_start .. c.failed_end :
             ~Covers(req, FaceOf(req, p, c.it), PieceCluster(req, p, q))
      BY <1>3 DEF FailedRun
    <3>2. to - 1 = c.failed_end
      <4> HIDE DEF c
      <4> QED BY <1>5
    <3> QED BY <3>1, <3>2 DEF Misses
  <2> HIDE DEF p, c, from, to, overridden
  <2> QED BY <1>1, <1>2, <1>4, <1>5, <2>1, NextCallIs
<1>8. d = Call(it, p, from, to)
  BY NextIteratorIs
<1>9. /\ IsGood(req, p, d) /\ DrawsAt(p, d) = FirstOf(p.rtl, from, to)
      /\ d.from = from /\ d.to = to
  <2>1. IsStyle(req.data)
    BY <1>2, RequestIs
  <2> HIDE DEF p, c, from, to, d, it
  <2> QED BY <1>2, <1>4, <1>7, <1>8, <2>1, NewCall
<1>10. /\ IsGood(req, p, w) /\ NothingFailed(w) /\ w.from = c.from /\ w.to = c.to /\ w.at = c.at
  <2>1. IF p.rtl THEN c.from - 1 <= c.at /\ c.at < c.to ELSE c.from <= c.at /\ c.at <= c.to
    BY <1>2 DEF IsGood, AtCluster
  <2>2. Boundary(req, p, IF p.rtl THEN c.at + 1 ELSE c.at)
    BY <1>1, <1>2 DEF IsGood, AtCluster
  <2> HIDE DEF p, c
  <2> QED BY SMTT(30), <1>1, <1>2, <1>5, <2>1, <2>2, MovesOn
<1>11. Waits(p, w, d)
  <2>1. c.at = IF p.rtl THEN from - 1 ELSE to
    <3> HIDE DEF p, c
    <3> QED BY <1>5
  <2> HIDE DEF w, d, from, to, p, c
  <2> QED BY <1>9, <1>10, <2>1 DEF Waits
<1> HIDE DEF w, d, from, to, it, overridden
<1> QED BY <1>1, <1>4, <1>9, <1>10, <1>11, Nested

LEMMA ShapedStep ==
    ASSUME ShapeInv, Shaped
    PROVE  ShapeInv' /\ UNCHANGED <<req, visual, DrawnPiece, DrawnAt>>
<1>1. ~Running /\ UNCHANGED <<req, piece, stack, visual>>
  BY DEF Shaped
<1>2. DrawnPiece' = DrawnPiece /\ DrawnAt' = DrawnAt
  BY <1>1 DEF DrawnPiece, DrawnAt, Running, Here, Top, HasFailed
<1>3. ShapeInv'
  BY <1>1 DEF ShapeInv, Running, Here
<1> QED BY <1>1, <1>2, <1>3

(* A call returns to the one that waits behind it, or the piece is drawn.  *)
LEMMA ReturnStep ==
    ASSUME ShapeInv, Return
    PROVE  /\ ShapeInv'
           /\ \/ UNCHANGED <<req, visual, DrawnPiece, DrawnAt>>
              \/ Promise!NextPiece
<1>1. /\ Running /\ IsPast(Here.rtl, Top.from, Top.to, Top.at)
      /\ HasFailed => ~IsValid(Top.it)
      /\ stack' = Below /\ UNCHANGED <<req, piece, visual>>
  BY DEF Return, TopIsPast, IsHexCall
<1>2. /\ Here \in Piece /\ IsGood(req, Here, Top) /\ IsStack(req, Here, stack)
      /\ Top = TopOf(stack) /\ Below = BelowOf(stack)
      /\ DrawnPiece = piece /\ DrawnAt = DrawsAt(Here, Top)
      /\ piece \in 1 .. Len(req.pieces) /\ req \in Requests
  BY <1>1, RunningIs DEF ShapeInv
<1>3. Top.at = IF Here.rtl THEN Top.from - 1 ELSE Top.to
  BY <1>1, <1>2, PastIs
<1>4. DrawnAt = Top.at
  <2>1. NothingFailed(Top)
    <3>1. FailedRun(req, Here, Top) => IsValid(Top.it) /\ Top.failed_start # Top.to + 1
      BY <1>2, FailedRunIs DEF FailedRun
    <3> QED BY <1>1, <1>2, <3>1 DEF IsGood, HasFailed
  <2> QED BY <1>2, <2>1, NothingFailedIs
<1>5. CASE IsStack(req, Here, Below) /\ Waits(Here, TopOf(Below), Top)
  <2>1. ShapeInv' /\ DrawnPiece' = piece /\ DrawnAt' = DrawsAt(Here, TopOf(Below))
    BY <1>1, <1>5, StillRunning DEF ShapeInv
  <2>2. DrawsAt(Here, TopOf(Below)) = Top.at
    BY <1>3, <1>5, NothingFailedIs DEF Waits
  <2> QED BY <1>1, <1>2, <1>4, <2>1, <2>2
<1>6. CASE Below = <<>> /\ Top.from = Here.from /\ Top.to = Here.to
  <2>1. stack' = <<>> /\ ~Running'
    BY <1>1, <1>6 DEF Running
  <2>2. ShapeInv'
    BY <1>1, <2>1 DEF ShapeInv
  <2>3. DrawnPiece' = piece + 1 /\ DrawnAt' = Promise!StartOf(req, piece + 1)
    <3>1. DrawnPiece' = piece' + 1
      BY <2>1 DEF DrawnPiece
    <3>2. DrawnAt' = IF piece = Len(req.pieces) THEN 0
                     ELSE FirstOf(req.pieces[piece + 1].rtl, req.pieces[piece + 1].from,
                                  req.pieces[piece + 1].to)
      BY <1>1, <2>1 DEF DrawnAt
    <3> QED BY <1>1, <1>2, <3>1, <3>2, StartIs DEF ShapeInv
  <2>4. Promise!Here = Here
    BY <1>2 DEF Promise!Here, Here
  <2>5. ~Promise!IsIn(DrawnAt)
    BY <1>1, <1>4, <1>6, <2>4 DEF Promise!IsIn, Promise!IsPast, IsPast
  <2>6. DrawnPiece <= Len(req.pieces)
    BY <1>2, RequestIs
  <2> QED BY <1>1, <1>2, <2>2, <2>3, <2>5, <2>6 DEF Promise!NextPiece
<1> QED BY <1>2, <1>5, <1>6, Popped

-----------------------------------------------------------------------------
(* A cluster and a box are drawn as promised.                              *)

LEMMA PromisedClusters ==
    ASSUME NEW r, NEW from, NEW to, NEW q
    PROVE  Promise!ClusterAt(r, from, to, q) = ClusterAt(r, from, to, q)
<1>1. Promise!ClusterStart(r, from, q) = ClusterStart(r, from, q)
  BY Zenon DEF Promise!ClusterStart, Promise!StartsAt, ClusterStart, StartsAt
<1>2. Promise!ClusterEnd(r, to, q) = ClusterEnd(r, to, q)
  BY Zenon DEF Promise!ClusterEnd, ClusterEnd
<1> QED BY <1>1, <1>2 DEF Promise!ClusterAt, ClusterAt

(* The faces that the calls try, and those of FirstCovering.              *)
CandidatesOf(r, d) ==
    IF r.font THEN Fallbacks(r.data, TagOf(r, r.pieces[d])) ELSE <<>>

LEMMA PromisedFaces ==
    ASSUME ShapeInv, Running
    PROVE  /\ Promise!Here = Here
           /\ CandidatesOf(req, DrawnPiece) =
                  IF req.font THEN Fallbacks(req.data, TagOf(req, Here)) ELSE <<>>
BY RunningIs DEF Promise!Here, Here, CandidatesOf

LEMMA DocumentedFaces ==
    ASSUME NEW r \in Requests, OneLink(r), NEW k \in 1 .. Len(r.pieces)
    PROVE  LinkedChain(r.data, r.language) \o LinkedChain(r.data, r.pieces[k].script)
               \o r.data[Main]
           = Fallbacks(r.data, TagOf(r, r.pieces[k]))
<1> DEFINE l == LinkedChain(r.data, r.language)
           s == LinkedChain(r.data, r.pieces[k].script)
           m == r.data[Main]
<1>1. k \in DOMAIN r.pieces
  BY PieceIs
<1>2. l \in Seq(Faces) /\ s \in Seq(Faces) /\ m \in Seq(Faces)
  BY RequestIs, StyleIs
<1>3. \A c \in Seq(Faces) : <<>> \o c = c /\ c \o <<>> = c
  BY ConcatEmptySeq
<1>4. CASE l = <<>>
  <2>1. TagOf(r, r.pieces[k]) = r.pieces[k].script
    BY <1>4 DEF TagOf
  <2> QED BY <1>2, <1>3, <1>4, <2>1 DEF Fallbacks
<1>5. CASE l # <<>>
  <2>1. ~r.attributed /\ s = <<>>
    BY <1>1, <1>5 DEF OneLink
  <2>2. TagOf(r, r.pieces[k]) = r.language
    BY <1>5, <2>1 DEF TagOf
  <2> QED BY <1>2, <1>3, <2>1, <2>2 DEF Fallbacks
<1> QED BY <1>4, <1>5

(* What FirstCovering shows at the place where the innermost call is.      *)
LEMMA PromisedShow ==
    ASSUME ShapeInv, Running, ~IsPast(Here.rtl, Top.from, Top.to, Top.at), NothingFailed(Top)
    PROVE  /\ Promise!IsIn(DrawnAt) /\ DrawnAt = Top.at
           /\ Promise!ClusterAt(req, Promise!Here.from, Promise!Here.to, DrawnAt)
                  = PieceCluster(req, Here, Top.at)
           /\ TopCluster = PieceCluster(req, Here, Top.at)
<1>1. /\ Here \in Piece /\ IsGood(req, Here, Top)
      /\ DrawnPiece = piece /\ DrawnAt = DrawsAt(Here, Top)
      /\ piece \in 1 .. Len(req.pieces)
  BY RunningIs
<1>2. DrawnAt = Top.at /\ Promise!Here = Here
  BY <1>1, NothingFailedIs, PromisedFaces
<1>3. /\ Top.at \in Here.from .. Here.to - 1
      /\ TopCluster = PieceCluster(req, Here, Top.at)
  BY <1>1, CallCluster DEF TopCluster
<1>4. Promise!IsIn(DrawnAt)
  <2>1. ~Promise!IsPast(Here.rtl, Here.from, Here.to, Top.at)
    <3>1. Here.from \in Int /\ Here.to \in Int
      BY <1>1 DEF Piece
    <3> QED BY <1>3, <3>1 DEF Promise!IsPast
  <2>2. DrawnPiece <= Len(req.pieces)
    BY <1>1, RequestIs DEF ShapeInv
  <2> QED BY <1>2, <2>1, <2>2 DEF Promise!IsIn
<1>5. Promise!ClusterAt(req, Promise!Here.from, Promise!Here.to, DrawnAt)
          = PieceCluster(req, Here, Top.at)
  BY <1>2, PromisedClusters DEF PieceCluster
<1> QED BY <1>2, <1>3, <1>4, <1>5

LEMMA TakeClusterStep ==
    ASSUME ShapeInv, TakeCluster
    PROVE  ShapeInv' /\ Promise!ShowIn(CandidatesOf(req, DrawnPiece))
<1> DEFINE p == Here
           k == TopCluster
           d == MovedTo(Top, Behind(p.rtl, k), Top.failed_start, Top.failed_end)
           tag == TagOf(req, p)
           faces == Fallbacks(req.data, tag)
           place == Place(req.data, tag, Top.it)
           face == FaceOf(req, p, Top.it)
           fit == {j \in DOMAIN CandidatesOf(req, DrawnPiece) :
                      Promise!Showing(CandidatesOf(req, DrawnPiece)[j], k)}
<1>1. /\ Running /\ IsValid(Top.it) /\ face \in req.loads
      /\ ~IsPast(p.rtl, Top.from, Top.to, Top.at)
      /\ ~HasFailed /\ Covers(req, face, k)
      /\ visual' = Append(visual, Cluster(k.start, k.end, face))
      /\ stack' = Append(Below, d)
      /\ UNCHANGED <<req, piece>>
  BY DEF TakeCluster, TopShapes, IsHexCall, Loaded, Face, FaceOf, TopIsPast
<1>2. /\ p \in Piece /\ IsGood(req, p, Top) /\ IsStack(req, p, stack)
      /\ Top = TopOf(stack) /\ Below = BelowOf(stack) /\ DrawnPiece = piece
      /\ req \in Requests
  BY <1>1, RunningIs DEF ShapeInv
<1>3. NothingFailed(Top)
  BY <1>1, <1>2, FailedRunIs DEF IsGood, HasFailed
<1>4. /\ IsGood(req, p, d) /\ NothingFailed(d) /\ d.from = Top.from /\ d.to = Top.to
      /\ d.at = Behind(p.rtl, k)
  <2>1. k = ClusterAt(req, Top.from, Top.to, Top.at)
    BY DEF TopCluster
  <2> HIDE DEF p, k, face, d
  <2>2. d = MovedTo(Top, Behind(p.rtl, k), Top.failed_start, Top.failed_end)
    BY DEF d
  <2>3. FaceOf(req, p, Top.it) \in req.loads
    BY <1>1 DEF face
  <2> QED BY <1>1, <1>2, <1>3, <2>1, <2>2, <2>3, TakeIs
<1>5. ShapeInv' /\ DrawnPiece' = DrawnPiece /\ DrawnAt' = Behind(p.rtl, k)
  <2> HIDE DEF d
  <2>1. IsStack(req, p, stack') /\ TopOf(stack') = d
    BY <1>1, <1>2, <1>4, Replaced
  <2>2. ShapeInv' /\ DrawnPiece' = piece /\ DrawnAt' = DrawsAt(p, d)
    BY <1>1, <2>1, StillRunning DEF ShapeInv
  <2> QED BY <1>2, <1>4, <2>2, NothingFailedIs
<1>6. /\ Promise!IsIn(DrawnAt) /\ Promise!Here = p
      /\ Promise!ClusterAt(req, Promise!Here.from, Promise!Here.to, DrawnAt) = k
      /\ k = PieceCluster(req, p, Top.at) /\ Top.at \in Int /\ Top.at \in Top.from .. Top.to - 1
  <2>1. Top.at \in Int /\ Top.from \in Int /\ Top.to \in Int /\ p.rtl \in BOOLEAN
    BY <1>2, CallIs
  <2>2. Top.at \in Top.from .. Top.to - 1
    BY <1>1, <1>2, <2>1 DEF IsPast, IsGood, AtCluster
  <2> QED BY <1>1, <1>3, <2>1, <2>2, PromisedShow, PromisedFaces
<1>7. req.font /\ CandidatesOf(req, DrawnPiece) = faces
  BY <1>1, <1>2, PromisedFaces DEF IsGood, CallIterator
<1>8. /\ place \in 1 .. Len(faces) /\ faces[place] = face /\ DOMAIN faces = 1 .. Len(faces)
      /\ PlaceOf(req.data, tag, Top.it) = place /\ place \in Nat
  <2>1. IsStyle(req.data) /\ Walks(req.data, tag, Top.it)
    BY <1>2, RequestIs DEF IsGood, CallIterator
  <2>2. StandsOn(req.data, tag, Top.it) /\ PlaceOf(req.data, tag, Top.it) = place
    BY <1>1, <2>1, WalksIs
  <2>3. place \in 1 .. Len(faces) /\ faces[place] = face
    BY <2>1, <2>2, StandsOnFace DEF FaceOf
  <2>4. faces \in Seq(Faces)
    BY <2>1, StyleIs, ConcatProperties DEF Fallbacks
  <2>5. place \in Nat
    BY <2>1, <2>2, WalksIs
  <2> QED BY <2>2, <2>3, <2>4, <2>5, LenProperties
<1>9. \A c : Promise!Showing(c, k) <=> c \in req.loads /\ Covers(req, c, k)
  BY DEF Promise!Showing, Promise!Covers, Covers
<1>10. place \in fit
  BY <1>1, <1>7, <1>8, <1>9
<1>11. ASSUME NEW j \in fit PROVE place <= j
  <2>1. j \in 1 .. Len(faces) /\ faces[j] \in req.loads /\ Covers(req, faces[j], k)
    BY <1>7, <1>8, <1>9
  <2>2. ~Misses(req, p, faces[j], Top.at)
    BY <1>6, <2>1 DEF Misses
  <2>3. AllMissed(req, p, Top.from, Top.to, place)
    BY <1>2, <1>7, <1>8 DEF IsGood
  <2>4. j \notin 1 .. place - 1
    BY <1>6, <2>2, <2>3 DEF AllMissed
  <2> HIDE DEF place, faces, fit
  <2>5. j \in Nat /\ j >= 1
    BY <2>1
  <2> QED BY <1>8, <2>4, <2>5
<1>12. \E j \in fit :
         /\ \A m \in fit : j <= m
         /\ visual' = Append(visual, Promise!Cluster(k.start, k.end,
                                                     CandidatesOf(req, DrawnPiece)[j]))
         /\ DrawnAt' = Promise!Behind(p.rtl, k)
  <2>1. Promise!Behind(p.rtl, k) = Behind(p.rtl, k)
    BY DEF Promise!Behind, Behind
  <2>2. Promise!Cluster(k.start, k.end, face) = Cluster(k.start, k.end, face)
    BY DEF Promise!Cluster, Cluster
  <2>3. CandidatesOf(req, DrawnPiece)[place] = face
    BY <1>7, <1>8
  <2> HIDE DEF place, fit, k, p, face
  <2> QED BY <1>1, <1>5, <1>10, <1>11, <2>1, <2>2, <2>3
<1> HIDE DEF k, p
<1> QED BY <1>1, <1>5, <1>6, <1>12 DEF Promise!ShowIn

LEMMA HexCharStep ==
    ASSUME ShapeInv, HexChar
    PROVE  ShapeInv' /\ Promise!ShowIn(CandidatesOf(req, DrawnPiece))
<1> DEFINE p == Here
           box == Cluster(Top.at, Top.at, Hex)
           d == MovedTo(Top, Behind(p.rtl, box), Top.failed_start, Top.failed_end)
           k == PieceCluster(req, p, Top.at)
           tag == TagOf(req, p)
           faces == Fallbacks(req.data, tag)
           fit == {j \in DOMAIN CandidatesOf(req, DrawnPiece) :
                      Promise!Showing(CandidatesOf(req, DrawnPiece)[j], k)}
<1>1. /\ Running /\ ~IsValid(Top.it) /\ ~IsPast(p.rtl, Top.from, Top.to, Top.at)
      /\ visual' = Append(visual, box)
      /\ stack' = Append(Below, d)
      /\ UNCHANGED <<req, piece>>
  BY DEF HexChar, IsHexCall, TopIsPast
<1>2. /\ p \in Piece /\ IsGood(req, p, Top) /\ IsStack(req, p, stack)
      /\ Top = TopOf(stack) /\ Below = BelowOf(stack) /\ DrawnPiece = piece
      /\ req \in Requests
  BY <1>1, RunningIs DEF ShapeInv
<1>3. /\ IsGood(req, p, d) /\ NothingFailed(Top) /\ NothingFailed(d)
      /\ d.from = Top.from /\ d.to = Top.to /\ d.at = Behind(p.rtl, box)
  <2> HIDE DEF p
  <2> QED BY <1>1, <1>2, HexIs
<1>4. ShapeInv' /\ DrawnPiece' = DrawnPiece /\ DrawnAt' = Behind(p.rtl, box)
  <2> HIDE DEF d, box
  <2>1. IsStack(req, p, stack') /\ TopOf(stack') = d
    BY <1>1, <1>2, <1>3, Replaced
  <2>2. ShapeInv' /\ DrawnPiece' = piece /\ DrawnAt' = DrawsAt(p, d)
    BY <1>1, <2>1, StillRunning DEF ShapeInv
  <2> QED BY <1>2, <1>3, <2>2, NothingFailedIs
<1>5. /\ Promise!IsIn(DrawnAt) /\ DrawnAt = Top.at /\ Promise!Here = p
      /\ Promise!ClusterAt(req, Promise!Here.from, Promise!Here.to, DrawnAt) = k
      /\ Top.at \in Top.from .. Top.to - 1
  <2>1. Top.at \in Int /\ Top.from \in Int /\ Top.to \in Int /\ p.rtl \in BOOLEAN
    BY <1>2, CallIs
  <2>2. Top.at \in Top.from .. Top.to - 1
    BY <1>1, <1>2, <2>1 DEF IsPast, IsGood, AtCluster
  <2> QED BY <1>1, <1>3, <2>2, PromisedShow, PromisedFaces
<1>6. \A c : Promise!Showing(c, k) <=> c \in req.loads /\ Covers(req, c, k)
  BY DEF Promise!Showing, Promise!Covers, Covers
<1>7. fit = {}
  <2>1. CASE req.font
    <3>1. IsStyle(req.data) /\ Walks(req.data, tag, Top.it)
      BY <1>2, RequestIs DEF IsGood, CallIterator
    <3>2. PlaceOf(req.data, tag, Top.it) = Len(faces) + 1
      BY <1>1, <3>1, WalksIs
    <3>3. faces \in Seq(Faces)
      BY <3>1, StyleIs, ConcatProperties DEF Fallbacks
    <3>4. DOMAIN faces = 1 .. Len(faces) /\ Len(faces) \in Nat
      BY <3>3, LenProperties
    <3>5. AllMissed(req, p, Top.from, Top.to, Len(faces) + 1)
      BY <1>2, <2>1, <3>2 DEF IsGood
    <3>6. ASSUME NEW j \in DOMAIN faces PROVE Misses(req, p, faces[j], Top.at)
      <4>1. j \in 1 .. (Len(faces) + 1) - 1
        <5> HIDE DEF faces
        <5> QED BY <3>4
      <4> QED BY <1>5, <3>5, <4>1 DEF AllMissed
    <3>7. CandidatesOf(req, DrawnPiece) = faces
      BY <1>1, <2>1, PromisedFaces
    <3> HIDE DEF faces
    <3> QED BY <1>6, <3>6, <3>7 DEF Misses
  <2>2. CASE ~req.font
    <3>1. CandidatesOf(req, DrawnPiece) = <<>>
      BY <1>1, <2>2, PromisedFaces
    <3> QED BY <3>1
  <2> QED BY <2>1, <2>2
<1>8. /\ visual' = Append(visual, Promise!Cluster(DrawnAt, DrawnAt, Hex))
      /\ DrawnAt' = Promise!Behind(p.rtl, Promise!Cluster(DrawnAt, DrawnAt, Hex))
  <2>1. Promise!Cluster(DrawnAt, DrawnAt, Hex) = box
    BY <1>5 DEF Promise!Cluster, Cluster
  <2>2. Promise!Behind(p.rtl, box) = Behind(p.rtl, box)
    BY DEF Promise!Behind, Behind
  <2> QED BY <1>1, <1>4, <2>1, <2>2
<1> HIDE DEF k, p
<1> QED BY <1>1, <1>4, <1>5, <1>7, <1>8 DEF Promise!ShowIn

-----------------------------------------------------------------------------
LEMMA PromiseBegins ==
    ASSUME ShapeInit
    PROVE  Promise!Init
<1>1. req \in Requests /\ visual = <<>> /\ piece = 0 /\ ~Running
  BY DEF ShapeInit, Running
<1>2. 0 \in 0 .. Len(req.pieces)
  BY <1>1, RequestIs
<1>3. DrawnPiece = 1 /\ DrawnAt = Promise!StartOf(req, 1)
  BY <1>1, <1>2, StartIs DEF DrawnPiece, DrawnAt
<1> QED BY <1>1, <1>3 DEF Promise!Init

LEMMA Begins ==
    ASSUME ShapeInit, BoxedOnce(req)
    PROVE  ShapeInv
<1>1. req \in Requests /\ piece = 0 /\ ~Running
  BY DEF ShapeInit, Running
<1> QED BY <1>1, RequestIs DEF ShapeInv

(* What a step of the calls is to FirstCovering, whatever its faces are.   *)
DrawStep == Promise!ShowIn(CandidatesOf(req, DrawnPiece)) \/ Promise!NextPiece

LEMMA Steps ==
    ASSUME ShapeInv, [ShapeStep]_shapeVars
    PROVE  ShapeInv' /\ [DrawStep]_(Promise!vars)
<1> USE DEF Promise!vars
<1>1. CASE ShapePiece
  BY <1>1, ShapePieceStep
<1>2. CASE ShapeBoxes
  BY <1>2, ShapeBoxesStep
<1>3. CASE SkipFace
  BY <1>3, SkipFaceStep
<1>4. CASE TakeCluster
  BY <1>4, TakeClusterStep DEF DrawStep
<1>5. CASE FailCluster
  BY <1>5, FailClusterStep
<1>6. CASE Reshape
  BY <1>6, ReshapeStep
<1>7. CASE HexChar
  BY <1>7, HexCharStep DEF DrawStep
<1>8. CASE Return
  BY <1>8, ReturnStep DEF DrawStep
<1>9. CASE Shaped
  BY <1>9, ShapedStep
<1>10. CASE UNCHANGED shapeVars
  <2>1. ShapeInv'
    BY <1>10 DEF shapeVars, ShapeInv, Running, Here
  <2>2. UNCHANGED <<req, visual, DrawnPiece, DrawnAt>>
    BY <1>10 DEF shapeVars, DrawnPiece, DrawnAt, Running, Here, Top, HasFailed
  <2> QED BY <2>1, <2>2
<1> QED BY <1>1, <1>2, <1>3, <1>4, <1>5, <1>6, <1>7, <1>8, <1>9, <1>10 DEF ShapeStep

(* It is a step of FirstCovering where the faces are the documented ones.  *)
LEMMA DocumentedStep ==
    ASSUME ShapeInv, OneLink(req), DrawStep
    PROVE  Promise!Next
<1>1. CASE Promise!NextPiece
  BY <1>1 DEF Promise!Next
<1>2. CASE Promise!ShowIn(CandidatesOf(req, DrawnPiece))
  <2>1. DrawnPiece <= Len(req.pieces)
    BY <1>2 DEF Promise!ShowIn, Promise!IsIn
  <2>2. req \in Requests /\ DrawnPiece \in 1 .. Len(req.pieces)
    BY <2>1, RequestIs DEF ShapeInv, DrawnPiece
  <2>3. Promise!Candidates =
            IF req.font
            THEN LinkedChain(req.data, req.language)
                     \o LinkedChain(req.data, req.pieces[DrawnPiece].script) \o req.data[Main]
            ELSE <<>>
    BY Zenon DEF Promise!Candidates, Promise!Here, Promise!LinkedChain, LinkedChain
  <2>4. Promise!Candidates = CandidatesOf(req, DrawnPiece)
    BY <2>2, <2>3, DocumentedFaces, Zenon DEF CandidatesOf
  <2> QED BY <1>2, <2>4, Zenon DEF Promise!Next, Promise!Show
<1> QED BY <1>1, <1>2 DEF DrawStep

(* A text is drawn as FirstCovering says (_shape_bidi_script_run): each    *)
(* character once, in the order of its piece, each cluster in the first    *)
(* face that has it of the lists of its language, its script and the main  *)
(* list, and as boxes when none does.  It is so for any number of faces,   *)
(* any clusters and any nesting of the calls, of texts whose boxes are     *)
(* drawn once and whose family does not link faces both to their language  *)
(* and to a script of theirs; and of a text with a font attribute, the     *)
(* attribute is on all of it, has a face for each of its scripts and none  *)
(* linked to its language.                                                 *)
THEOREM FallbackDrawsFirstCovering == ShapeSpec => DrawsFirstCovering
<1>1. ShapeInit => Promise!Init /\ (BoxedOnce(req) => ShapeInv)
  BY PromiseBegins, Begins
<1>2. /\ BoxedOnce(req) => ShapeInv
      /\ [ShapeStep]_shapeVars
      => /\ (BoxedOnce(req) => ShapeInv)'
         /\ [BoxedOnce(req) /\ OneLink(req) => Promise!Next]_(Promise!vars)
  <2> SUFFICES ASSUME BoxedOnce(req) => ShapeInv, [ShapeStep]_shapeVars
               PROVE  /\ (BoxedOnce(req) => ShapeInv)'
                      /\ [BoxedOnce(req) /\ OneLink(req) => Promise!Next]_(Promise!vars)
    OBVIOUS
  <2>1. CASE BoxedOnce(req)
    <3>1. ShapeInv' /\ [DrawStep]_(Promise!vars)
      BY <2>1, Steps
    <3>2. OneLink(req) /\ DrawStep => Promise!Next
      BY <2>1, DocumentedStep
    <3> QED BY <3>1, <3>2
  <2>2. CASE ~BoxedOnce(req)
    <3>1. req' = req
      BY DEF ShapeStep, shapeVars, ShapePiece, ShapeBoxes, SkipFace, TakeCluster, FailCluster,
             Reshape, HexChar, Return, Shaped
    <3>2. ~BoxedOnce(req')
      BY <2>2, <3>1
    <3> QED BY <2>2, <3>2
  <2> QED BY <2>1, <2>2
<1> QED BY <1>1, <1>2, PTL DEF ShapeSpec, DrawsFirstCovering

(* break_lines only reads what was shaped, so the text whose lines it      *)
(* breaks is still drawn as FirstCovering says, under the same conditions. *)
THEOREM LinesDrawFirstCovering == Spec => DrawsFirstCovering
<1>1. Init => ShapeInit
  BY DEF Init
<1>2. [Next]_vars => [ShapeStep]_shapeVars
  <2>1. LineStep => UNCHANGED shapeVars
    BY DEF LineStep, BreaksNothing, Begin, HardBreak, SoftBreak, AnywhereBreak,
           PlaceCluster, Finish
  <2> QED BY <2>1 DEF Next, vars
<1>3. Spec => ShapeSpec
  BY <1>1, <1>2, PTL DEF Spec, ShapeSpec
<1> QED BY <1>3, FallbackDrawsFirstCovering, PTL

=============================================================================
