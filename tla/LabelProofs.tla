----------------------------- MODULE LabelProofs -----------------------------
(***************************************************************************)
(* The family of a label and its subscriptions, and the label's caches.    *)
(***************************************************************************)
EXTENDS Label, FoldLemmas, SequenceTheorems, FiniteSetTheorems, TLAPS

-----------------------------------------------------------------------------
(* Registers.                                                              *)

Counts == UNION {[D -> Int] : D \in SUBSET Faces}
RegisterSet ==
    {r \in [ref_count : Counts, connected : SUBSET Faces] :
        r.connected \subseteq DOMAIN r.ref_count}

(* Nothing has changed for g.                                              *)
SameAt(r, q, g) ==
    /\ g \in DOMAIN q.ref_count <=> g \in DOMAIN r.ref_count
    /\ g \in DOMAIN r.ref_count => q.ref_count[g] = r.ref_count[g]
    /\ g \in q.connected <=> g \in r.connected

(* What a face is that has lost a place: it is not listened to, and if it  *)
(* is counted its count is too low.                                        *)
Unheard(q, g) ==
    /\ g \notin q.connected
    /\ g \in DOMAIN q.ref_count => q.ref_count[g] = -1

LEMMA RegisterIs ==
    ASSUME NEW r \in RegisterSet
    PROVE  /\ r = [ref_count |-> r.ref_count, connected |-> r.connected]
           /\ r.ref_count = [g \in DOMAIN r.ref_count |-> r.ref_count[g]]
           /\ \A g \in DOMAIN r.ref_count : r.ref_count[g] \in Int
           /\ DOMAIN r.ref_count \subseteq Faces
           /\ r.connected \subseteq DOMAIN r.ref_count
<1>1. r \in [ref_count : Counts, connected : SUBSET Faces]
  BY DEF RegisterSet
<1>2. PICK D \in SUBSET Faces : r.ref_count \in [D -> Int]
  BY <1>1 DEF Counts
<1> QED BY <1>1, <1>2 DEF RegisterSet

LEMMA IsRegister ==
    ASSUME NEW c, NEW e, c = [g \in DOMAIN c |-> c[g]], \A g \in DOMAIN c : c[g] \in Int,
           DOMAIN c \subseteq Faces, e \subseteq DOMAIN c
    PROVE  [ref_count |-> c, connected |-> e] \in RegisterSet
<1>1. c \in [DOMAIN c -> Int]
  OBVIOUS
<1>2. c \in Counts
  BY <1>1 DEF Counts
<1> QED BY <1>2 DEF RegisterSet

IsCounting(c, r, f, n) ==
    /\ DOMAIN c = DOMAIN r.ref_count \cup {f}
    /\ c[f] = n
    /\ \A g \in DOMAIN r.ref_count : g # f => c[g] = r.ref_count[g]
    /\ c = [g \in DOMAIN c |-> c[g]]
    /\ \A g \in DOMAIN c : c[g] \in Int
    /\ DOMAIN c \subseteq Faces

LEMMA CountingIs ==
    ASSUME NEW r \in RegisterSet, NEW f \in Faces, NEW n \in Int
    PROVE  IsCounting(Counting(r, f, n), r, f, n)
<1> DEFINE c == Counting(r, f, n)
<1>1. DOMAIN c = DOMAIN r.ref_count \cup {f}
  BY DEF Counting
<1>2. c[f] = n
  BY DEF Counting
<1>3. \A g \in DOMAIN r.ref_count : g # f => c[g] = r.ref_count[g]
  BY DEF Counting
<1>4. c = [g \in DOMAIN c |-> c[g]]
  BY DEF Counting
<1> HIDE DEF c
<1>5. IsCounting(c, r, f, n)
  BY <1>1, <1>2, <1>3, <1>4, RegisterIs DEF IsCounting
<1> QED BY <1>5 DEF c

LEMMA DecRefIs ==
    ASSUME NEW r \in RegisterSet, NEW f \in Faces
    PROVE  /\ DecRef(r, f) \in RegisterSet
           /\ Unheard(DecRef(r, f), f)
           /\ \A g : g # f => SameAt(r, DecRef(r, f), g)
<1>1. CASE f \in DOMAIN r.ref_count
  <2> DEFINE c == [g \in DOMAIN r.ref_count \ {f} |-> r.ref_count[g]]
             e == r.connected \ {f}
  <2>1. DecRef(r, f) = [ref_count |-> c, connected |-> e]
    BY <1>1 DEF DecRef
  <2>2. DOMAIN c = DOMAIN r.ref_count \ {f} /\ \A g \in DOMAIN c : c[g] = r.ref_count[g]
    OBVIOUS
  <2>3. c = [g \in DOMAIN c |-> c[g]]
    OBVIOUS
  <2>4. e \subseteq DOMAIN c
    BY RegisterIs
  <2> HIDE DEF c
  <2>5. \A g \in DOMAIN c : c[g] \in Int
    BY <2>2, RegisterIs
  <2>6. DOMAIN c \subseteq Faces
    BY <2>2, RegisterIs
  <2>7. [ref_count |-> c, connected |-> e] \in RegisterSet
    <3> HIDE DEF e
    <3> QED BY <2>3, <2>4, <2>5, <2>6, IsRegister
  <2> QED BY <2>1, <2>2, <2>7 DEF Unheard, SameAt
<1>2. CASE f \notin DOMAIN r.ref_count
  <2> DEFINE c == Counting(r, f, -1)
  <2>1. DecRef(r, f) = [ref_count |-> c, connected |-> r.connected]
    <3>1. r \in [ref_count : Counts, connected : SUBSET Faces]
      BY DEF RegisterSet
    <3> QED BY <1>2, <3>1 DEF DecRef
  <2>2. IsCounting(c, r, f, -1)
    <3>1. -1 \in Int
      OBVIOUS
    <3> QED BY <3>1, CountingIs
  <2> HIDE DEF c
  <2> USE DEF IsCounting
  <2>3. r.connected \subseteq DOMAIN c /\ f \notin r.connected
    BY <1>2, <2>2, RegisterIs
  <2>4. [ref_count |-> c, connected |-> r.connected] \in RegisterSet
    BY <2>2, <2>3, IsRegister
  <2> QED BY <2>1, <2>2, <2>3, <2>4 DEF Unheard, SameAt
<1> QED BY <1>1, <1>2

LEMMA IncRefIs ==
    ASSUME NEW r \in RegisterSet, NEW f \in Faces, NEW n \in Nat, n # 0
    PROVE  /\ IncRef(r, f, n) \in RegisterSet
           /\ f \in DOMAIN IncRef(r, f, n).ref_count
           /\ f \notin IncRef(r, f, n).connected =>
                 /\ f \in DOMAIN r.ref_count
                 /\ f \notin r.connected
                 /\ IncRef(r, f, n).ref_count[f] = r.ref_count[f] + n
           /\ \A g : g # f => SameAt(r, IncRef(r, f, n), g)
<1> DEFINE k == Count(r, f) + n
           c == Counting(r, f, k)
           e == IF f \in DOMAIN r.ref_count THEN r.connected ELSE r.connected \cup {f}
<1>1. IncRef(r, f, n) = [ref_count |-> c, connected |-> e]
  BY DEF IncRef
<1>2. k \in Int /\ (f \in DOMAIN r.ref_count => k = r.ref_count[f] + n)
  <2>1. CASE f \in DOMAIN r.ref_count
    <3>1. r.ref_count[f] \in Int
      BY <2>1, RegisterIs
    <3> QED BY <2>1, <3>1 DEF Count
  <2>2. CASE f \notin DOMAIN r.ref_count
    BY <2>2 DEF Count
  <2> QED BY <2>1, <2>2
<1>3. IsCounting(c, r, f, k)
  <2> HIDE DEF k
  <2> QED BY <1>2, CountingIs
<1> HIDE DEF c, k
<1> USE DEF IsCounting
<1>4. e \subseteq DOMAIN c /\ \A g : g # f => (g \in e <=> g \in r.connected)
  BY <1>3, RegisterIs
<1>5. f \notin e => f \in DOMAIN r.ref_count /\ f \notin r.connected
  OBVIOUS
<1> HIDE DEF e
<1>6. [ref_count |-> c, connected |-> e] \in RegisterSet
  BY <1>3, <1>4, IsRegister
<1> QED BY <1>1, <1>2, <1>3, <1>4, <1>5, <1>6 DEF SameAt

LEMMA DecChainIs ==
    ASSUME NEW r \in RegisterSet, NEW chain \in Seq(Faces)
    PROVE  \E a \in [0 .. Len(chain) -> RegisterSet] :
              /\ a[0] = r
              /\ \A n \in 1 .. Len(chain) : a[n] = DecRef(a[n - 1], chain[n])
              /\ DecChain(r, chain) = a[Len(chain)]
<1> DEFINE N == Len(chain)
           step == [p \in RegisterSet \X (1 .. N) |-> DecRef(p[1], chain[p[2]])]
           Trace(a) == a = [n \in 0 .. N |-> IF n = 0 THEN r ELSE DecRef(a[n - 1], chain[n])]
<1>1. N \in Nat
  BY LenProperties
<1>2. step \in [RegisterSet \X (1 .. N) -> RegisterSet]
  BY DecRefIs, <1>1, ElementOfSeq
<1>3. PICK a \in [0 .. N -> RegisterSet] : IsFold(a, step, r, N)
  <2> HIDE DEF step, N
  <2> QED BY <1>1, <1>2, FoldExists
<1>4. \A n \in 1 .. N : n \in 0 .. N /\ n - 1 \in 0 .. N /\ n # 0
  BY <1>1
<1>5. a[0] = r /\ \A n \in 1 .. N : a[n] = DecRef(a[n - 1], chain[n])
  <2>1. \A n \in 0 .. N : a[n] = IF n = 0 THEN r ELSE step[a[n - 1], n]
    <3> HIDE DEF step, N
    <3> QED BY <1>3, Zenon DEF IsFold
  <2>2. 0 \in 0 .. N
    BY <1>1
  <2>3. ASSUME NEW n \in 1 .. N PROVE step[a[n - 1], n] = DecRef(a[n - 1], chain[n])
    <3>1. <<a[n - 1], n>> \in RegisterSet \X (1 .. N)
      <4> HIDE DEF N, step
      <4> QED BY <1>4
    <3> HIDE DEF N
    <3> QED BY <3>1
  <2> HIDE DEF N, step
  <2> QED BY <2>1, <2>2, <2>3, <1>4
<1>6. Trace(a)
  <2>1. a = [n \in 0 .. N |-> a[n]]
    OBVIOUS
  <2>2. \A n \in 0 .. N : a[n] = IF n = 0 THEN r ELSE DecRef(a[n - 1], chain[n])
    <3>1. \A n \in 0 .. N : n = 0 \/ n \in 1 .. N
      BY <1>1
    <3> HIDE DEF N
    <3> QED BY <1>4, <1>5, <3>1
  <2> HIDE DEF N
  <2> QED BY <2>1, <2>2, Zenon
<1> DEFINE after == CHOOSE b : Trace(b)
<1>7. Trace(after)
  BY <1>6
<1>8. DecChain(r, chain) = after[N]
  BY DEF DecChain
<1> HIDE DEF after
<1>9. after = a
  <2>1. \A n \in 0 .. N : after[n] = IF n = 0 THEN r ELSE DecRef(after[n - 1], chain[n])
    <3> HIDE DEF N
    <3> QED BY <1>7, Zenon
  <2>2. after = [n \in 0 .. N |-> after[n]]
    <3> HIDE DEF N
    <3> QED BY <1>7, <2>1, Zenon
  <2>3. 0 \in 0 .. N
    BY <1>1
  <2>4. a = [n \in 0 .. N |-> a[n]]
    OBVIOUS
  <2>5. after[0] = a[0]
    <3> HIDE DEF N
    <3> QED BY <1>5, <2>1, <2>3
  <2>6. \A n \in 1 .. N : after[n - 1] = a[n - 1] => after[n] = a[n]
    <3> HIDE DEF N
    <3> QED BY <1>4, <1>5, <2>1
  <2> HIDE DEF N
  <2>7. SameSteps(after, a, N)
    BY <2>2, <2>4, <2>5, <2>6 DEF SameSteps
  <2> QED BY <1>1, <2>7, SameFold
<1> QED BY <1>5, <1>8, <1>9

(* Dropped: the faces of F have lost places, and no other ones.            *)
Dropped(r, q, F) ==
    \A g : IF g \in F THEN Unheard(q, g) ELSE SameAt(r, q, g)

LEMMA DropOne ==
    ASSUME NEW r \in RegisterSet, NEW q \in RegisterSet, NEW F, Dropped(r, q, F),
           NEW f \in Faces
    PROVE  Dropped(r, DecRef(q, f), F \cup {f})
<1> DEFINE p == DecRef(q, f)
<1>1. Unheard(p, f) /\ \A g : g # f => SameAt(q, p, g)
  BY DecRefIs
<1> HIDE DEF p
<1>2. ASSUME NEW g, g # f, g \in F PROVE Unheard(p, g)
  <2>1. Unheard(q, g)
    BY <1>2 DEF Dropped
  <2> QED BY <1>1, <1>2, <2>1 DEF Unheard, SameAt
<1>3. ASSUME NEW g, g # f, g \notin F PROVE SameAt(r, p, g)
  <2>1. SameAt(r, q, g)
    BY <1>3 DEF Dropped
  <2> QED BY <1>1, <1>3, <2>1 DEF SameAt
<1>4. Dropped(r, p, F \cup {f})
  BY <1>1, <1>2, <1>3 DEF Dropped
<1> QED BY <1>4 DEF p

(* A whole chain is removed.                                               *)
LEMMA DecChainDrops ==
    ASSUME NEW r \in RegisterSet, NEW chain \in Seq(Faces)
    PROVE  /\ DecChain(r, chain) \in RegisterSet
           /\ Dropped(r, DecChain(r, chain), {chain[n] : n \in 1 .. Len(chain)})
<1>1. PICK a \in [0 .. Len(chain) -> RegisterSet] :
          /\ a[0] = r
          /\ \A n \in 1 .. Len(chain) : a[n] = DecRef(a[n - 1], chain[n])
          /\ DecChain(r, chain) = a[Len(chain)]
  BY DecChainIs
<1>2. Len(chain) \in Nat
  BY LenProperties
<1> DEFINE F(n) == {chain[m] : m \in 1 .. n}
           G == {n \in 0 .. Len(chain) : Dropped(r, a[n], F(n))}
<1>3. 0 \in G
  <2>1. Dropped(r, r, F(0))
    BY DEF Dropped, SameAt
  <2> QED BY <1>1, <1>2, <2>1
<1>4. ASSUME NEW n \in 1 .. Len(chain), n - 1 \in G PROVE n \in G
  <2>1. chain[n] \in Faces /\ n - 1 \in 0 .. Len(chain) /\ n \in 0 .. Len(chain)
    BY <1>2, ElementOfSeq
  <2>2. F(n) = F(n - 1) \cup {chain[n]}
    <3>1. \A m \in 1 .. n : m \in 1 .. n - 1 \/ m = n
      BY <1>2
    <3>2. \A m \in 1 .. n - 1 : m \in 1 .. n
      BY <1>2
    <3>3. n \in 1 .. n
      BY <1>2
    <3> QED BY <3>1, <3>2, <3>3
  <2>3. Dropped(r, a[n - 1], F(n - 1)) /\ a[n - 1] \in RegisterSet
    BY <1>4, <2>1
  <2> HIDE DEF F
  <2>4. Dropped(r, DecRef(a[n - 1], chain[n]), F(n - 1) \cup {chain[n]})
    BY <2>1, <2>3, DropOne
  <2> QED BY <1>1, <2>1, <2>2, <2>4
<1>5. \A n \in 0 .. Len(chain) : n \in G
  <2> HIDE DEF G
  <2> QED BY <1>2, <1>3, <1>4, InductionUpTo
<1>6. Len(chain) \in 0 .. Len(chain)
  BY <1>2
<1> QED BY <1>1, <1>5, <1>6

FacesOf(chain) == {chain[n] : n \in 1 .. Len(chain)}

LEMMA DropMore ==
    ASSUME NEW r, NEW q, NEW p, NEW F, NEW E, Dropped(r, q, F), Dropped(q, p, E)
    PROVE  Dropped(r, p, F \cup E)
<1>1. ASSUME NEW g, g \in F, g \notin E PROVE Unheard(p, g)
  <2>1. Unheard(q, g) /\ SameAt(q, p, g)
    BY <1>1 DEF Dropped
  <2> QED BY <2>1 DEF Unheard, SameAt
<1>2. ASSUME NEW g, g \notin F, g \notin E PROVE SameAt(r, p, g)
  <2>1. SameAt(r, q, g) /\ SameAt(q, p, g)
    BY <1>2 DEF Dropped
  <2> QED BY <2>1 DEF SameAt
<1>3. \A g \in E : Unheard(p, g)
  BY DEF Dropped
<1> QED BY <1>1, <1>2, <1>3 DEF Dropped

(* The tags of a style, in some order.                                     *)
LEMMA SetToSeqIs ==
    ASSUME NEW S, IsFiniteSet(S)
    PROVE  /\ Len(SetToSeq(S)) \in Nat
           /\ \A n \in 1 .. Len(SetToSeq(S)) : SetToSeq(S)[n] \in S
           /\ \A x \in S : \E n \in 1 .. Len(SetToSeq(S)) : SetToSeq(S)[n] = x
<1> DEFINE k == Cardinality(S)
<1>1. k \in Nat /\ ExistsBijection(1 .. k, S)
  BY FS_CardinalityType
<1> HIDE DEF k
<1>2. PICK h \in Bijection(1 .. k, S) : TRUE
  BY <1>1 DEF ExistsBijection
<1>3. h \in [1 .. k -> S] /\ IsInjective(h)
  BY <1>2 DEF Bijection, Injection, IsInjective
<1>4. SetToSeq(S) \in [1 .. k -> S] /\ IsInjective(SetToSeq(S))
  BY <1>3 DEF SetToSeq, k
<1> DEFINE q == SetToSeq(S)
<1> HIDE DEF q
<1>5. q \in [1 .. k -> S] /\ IsInjective(q)
  BY <1>4 DEF q
<1>6. Len(q) = k
  BY <1>1, <1>5
<1>7. q \in Injection(1 .. k, S)
  BY <1>5 DEF Injection, IsInjective
<1>8. IsFiniteSet(1 .. k) /\ Cardinality(1 .. k) = k
  BY <1>1, FS_Interval
<1>9. q \in Surjection(1 .. k, S)
  BY <1>7, <1>8, FS_Injection DEF k
<1> QED BY <1>1, <1>5, <1>6, <1>9 DEF q, Surjection

GoodStyle(d) ==
    /\ IsStyle(d)
    /\ IsFiniteSet(DOMAIN d)
    /\ \A c \in DOMAIN d : Len(d[c]) <= MaxFaces

LEMMA DecStyleIs ==
    ASSUME NEW r \in RegisterSet, NEW data, GoodStyle(data),
           NEW tags, tags = SetToSeq(DOMAIN data)
    PROVE  \E a \in [0 .. Len(tags) -> RegisterSet] :
              /\ a[0] = r
              /\ \A n \in 1 .. Len(tags) : a[n] = DecChain(a[n - 1], data[tags[n]])
              /\ DecStyle(r, data) = a[Len(tags)]
<1> DEFINE N == Len(tags)
           step == [p \in RegisterSet \X (1 .. N) |-> DecChain(p[1], data[tags[p[2]]])]
           Trace(a) == a = [n \in 0 .. N |->
                                IF n = 0 THEN r ELSE DecChain(a[n - 1], data[tags[n]])]
<1>1. N \in Nat /\ \A n \in 1 .. N : data[tags[n]] \in Seq(Faces)
  BY SetToSeqIs DEF GoodStyle, IsStyle
<1>2. step \in [RegisterSet \X (1 .. N) -> RegisterSet]
  BY DecChainDrops, <1>1
<1>3. PICK a \in [0 .. N -> RegisterSet] : IsFold(a, step, r, N)
  <2> HIDE DEF step, N
  <2> QED BY <1>1, <1>2, FoldExists
<1>4. \A n \in 1 .. N : n \in 0 .. N /\ n - 1 \in 0 .. N /\ n # 0
  BY <1>1
<1>5. a[0] = r /\ \A n \in 1 .. N : a[n] = DecChain(a[n - 1], data[tags[n]])
  <2>1. \A n \in 0 .. N : a[n] = IF n = 0 THEN r ELSE step[a[n - 1], n]
    <3> HIDE DEF step, N
    <3> QED BY <1>3, Zenon DEF IsFold
  <2>2. 0 \in 0 .. N
    BY <1>1
  <2>3. ASSUME NEW n \in 1 .. N
        PROVE  step[a[n - 1], n] = DecChain(a[n - 1], data[tags[n]])
    <3>1. <<a[n - 1], n>> \in RegisterSet \X (1 .. N)
      <4> HIDE DEF N, step
      <4> QED BY <1>4
    <3> HIDE DEF N
    <3> QED BY <3>1
  <2> HIDE DEF N, step
  <2> QED BY <2>1, <2>2, <2>3, <1>4
<1>6. Trace(a)
  <2>1. a = [n \in 0 .. N |-> a[n]]
    OBVIOUS
  <2>2. \A n \in 0 .. N : a[n] = IF n = 0 THEN r ELSE DecChain(a[n - 1], data[tags[n]])
    <3>1. \A n \in 0 .. N : n = 0 \/ n \in 1 .. N
      BY <1>1
    <3> HIDE DEF N
    <3> QED BY <1>4, <1>5, <3>1
  <2> HIDE DEF N
  <2> QED BY <2>1, <2>2, Zenon
<1> DEFINE after == CHOOSE b : Trace(b)
<1>7. Trace(after)
  BY <1>6
<1>8. DecStyle(r, data) = after[N]
  BY DEF DecStyle
<1> HIDE DEF after
<1>9. after = a
  <2>1. \A n \in 0 .. N :
            after[n] = IF n = 0 THEN r ELSE DecChain(after[n - 1], data[tags[n]])
    <3> HIDE DEF N
    <3> QED BY <1>7, Zenon
  <2>2. after = [n \in 0 .. N |-> after[n]]
    <3> HIDE DEF N
    <3> QED BY <1>7, <2>1, Zenon
  <2>3. 0 \in 0 .. N
    BY <1>1
  <2>4. a = [n \in 0 .. N |-> a[n]]
    OBVIOUS
  <2>5. after[0] = a[0]
    <3> HIDE DEF N
    <3> QED BY <1>5, <2>1, <2>3
  <2>6. \A n \in 1 .. N : after[n - 1] = a[n - 1] => after[n] = a[n]
    <3> HIDE DEF N
    <3> QED BY <1>4, <1>5, <2>1
  <2> HIDE DEF N
  <2>7. SameSteps(after, a, N)
    BY <2>2, <2>4, <2>5, <2>6 DEF SameSteps
  <2> QED BY <1>1, <2>7, SameFold
<1> QED BY <1>5, <1>8, <1>9

LEMMA DecStyleDrops ==
    ASSUME NEW r \in RegisterSet, NEW data, GoodStyle(data)
    PROVE  /\ DecStyle(r, data) \in RegisterSet
           /\ Dropped(r, DecStyle(r, data), UNION {FacesOf(data[c]) : c \in DOMAIN data})
<1> DEFINE tags == SetToSeq(DOMAIN data)
           N == Len(tags)
           F(n) == UNION {FacesOf(data[tags[m]]) : m \in 1 .. n}
<1>1. PICK a \in [0 .. Len(tags) -> RegisterSet] :
          /\ a[0] = r
          /\ \A n \in 1 .. Len(tags) : a[n] = DecChain(a[n - 1], data[tags[n]])
          /\ DecStyle(r, data) = a[Len(tags)]
  <2> HIDE DEF tags
  <2> QED BY DecStyleIs DEF tags
<1>2. /\ N \in Nat
      /\ \A n \in 1 .. N : tags[n] \in DOMAIN data
      /\ \A c \in DOMAIN data : \E n \in 1 .. N : tags[n] = c
  BY SetToSeqIs DEF GoodStyle
<1> HIDE DEF tags
<1> DEFINE G == {n \in 0 .. N : Dropped(r, a[n], F(n))}
<1>3. 0 \in G
  <2>1. Dropped(r, r, F(0))
    BY DEF Dropped, SameAt
  <2> QED BY <1>1, <1>2, <2>1
<1>4. ASSUME NEW n \in 1 .. N, n - 1 \in G PROVE n \in G
  <2>1. n - 1 \in 0 .. N /\ n \in 0 .. N
    BY <1>2
  <2>2. data[tags[n]] \in Seq(Faces)
    BY <1>2 DEF GoodStyle, IsStyle
  <2>3. F(n) = F(n - 1) \cup FacesOf(data[tags[n]])
    <3>1. \A m \in 1 .. n : m \in 1 .. n - 1 \/ m = n
      BY <1>2
    <3>2. \A m \in 1 .. n - 1 : m \in 1 .. n
      BY <1>2
    <3>3. n \in 1 .. n
      BY <1>2
    <3> HIDE DEF N
    <3> QED BY <3>1, <3>2, <3>3
  <2>4. Dropped(r, a[n - 1], F(n - 1)) /\ a[n - 1] \in RegisterSet
    BY <1>4, <2>1
  <2>5. Dropped(a[n - 1], DecChain(a[n - 1], data[tags[n]]), FacesOf(data[tags[n]]))
    BY <2>2, <2>4, DecChainDrops DEF FacesOf
  <2> HIDE DEF F
  <2>6. Dropped(r, a[n], F(n))
    BY <1>1, <2>3, <2>4, <2>5, DropMore
  <2> QED BY <2>1, <2>6
<1>5. \A n \in 0 .. N : n \in G
  <2> HIDE DEF G, N
  <2> QED BY <1>2, <1>3, <1>4, InductionUpTo
<1>6. N \in 0 .. N
  BY <1>2
<1>7. F(N) = UNION {FacesOf(data[c]) : c \in DOMAIN data}
  <2> HIDE DEF N
  <2> QED BY <1>2
<1> HIDE DEF F
<1> QED BY <1>1, <1>5, <1>6, <1>7

-----------------------------------------------------------------------------
(* The chains of the styles, and the places of a face in them.             *)

ChainAt(st, s, c) == IF s \in DOMAIN st THEN LinkedChain(st[s], c) ELSE <<>>

GoodStyles(st) ==
    /\ DOMAIN st \subseteq Styles
    /\ IsFiniteSet(DOMAIN st)
    /\ \A s \in DOMAIN st : GoodStyle(st[s])

PlacesIn(st, f) ==
    {p \in (DOMAIN st) \X Chains \X (1 .. MaxFaces) :
        /\ p[3] \in DOMAIN LinkedChain(st[p[1]], p[2])
        /\ st[p[1]][p[2]][p[3]] = f}

LEMMA LinkedIs ==
    ASSUME NEW d, GoodStyle(d), NEW c
    PROVE  /\ LinkedChain(d, c) \in Seq(Faces)
           /\ Len(LinkedChain(d, c)) \in Nat
           /\ Len(LinkedChain(d, c)) <= MaxFaces
           /\ LinkedChain(d, c) # <<>> => c \in Chains /\ LinkedChain(d, c) = d[c]
<1>1. CASE c \in DOMAIN d
  <2>1. LinkedChain(d, c) = d[c] /\ d[c] \in Seq(Faces) /\ c \in Chains
    BY <1>1 DEF LinkedChain, GoodStyle, IsStyle
  <2>2. Len(d[c]) <= MaxFaces
    BY <1>1 DEF GoodStyle
  <2> QED BY <2>1, <2>2, LenProperties
<1>2. CASE c \notin DOMAIN d
  <2>1. LinkedChain(d, c) = <<>>
    BY <1>2 DEF LinkedChain
  <2> QED BY <2>1, MaxFacesAssumption
<1> QED BY <1>1, <1>2

LEMMA ChainIs ==
    ASSUME NEW st, GoodStyles(st), NEW s, NEW c
    PROVE  /\ ChainAt(st, s, c) \in Seq(Faces)
           /\ Len(ChainAt(st, s, c)) \in Nat
           /\ Len(ChainAt(st, s, c)) <= MaxFaces
<1>1. CASE s \in DOMAIN st
  BY <1>1, LinkedIs DEF ChainAt, GoodStyles
<1>2. CASE s \notin DOMAIN st
  <2>1. ChainAt(st, s, c) = <<>>
    BY <1>2 DEF ChainAt
  <2> QED BY <2>1, MaxFacesAssumption
<1> QED BY <1>1, <1>2

LEMMA PlaceIs ==
    ASSUME NEW st, GoodStyles(st), NEW f, NEW s, NEW c, NEW k
    PROVE  <<s, c, k>> \in PlacesIn(st, f) <=>
             k \in 1 .. Len(ChainAt(st, s, c)) /\ ChainAt(st, s, c)[k] = f
<1>1. ASSUME <<s, c, k>> \in PlacesIn(st, f)
      PROVE  k \in 1 .. Len(ChainAt(st, s, c)) /\ ChainAt(st, s, c)[k] = f
  <2>1. /\ s \in DOMAIN st /\ k \in 1 .. MaxFaces
        /\ k \in DOMAIN LinkedChain(st[s], c) /\ st[s][c][k] = f
    BY <1>1 DEF PlacesIn
  <2>2. GoodStyle(st[s]) /\ ChainAt(st, s, c) = LinkedChain(st[s], c)
    BY <2>1 DEF GoodStyles, ChainAt
  <2>3. LinkedChain(st[s], c) # <<>> /\ k \in 1 .. Len(LinkedChain(st[s], c))
    BY <2>1, <2>2, LinkedIs, LenProperties
  <2>4. LinkedChain(st[s], c) = st[s][c]
    BY <2>2, <2>3, LinkedIs
  <2> QED BY <2>1, <2>2, <2>3, <2>4
<1>2. ASSUME k \in 1 .. Len(ChainAt(st, s, c)), ChainAt(st, s, c)[k] = f
      PROVE  <<s, c, k>> \in PlacesIn(st, f)
  <2>1. s \in DOMAIN st
    <3>1. CASE s \notin DOMAIN st
      <4>1. ChainAt(st, s, c) = <<>>
        BY <3>1 DEF ChainAt
      <4> QED BY <1>2, <4>1
    <3> QED BY <3>1
  <2>2. GoodStyle(st[s]) /\ ChainAt(st, s, c) = LinkedChain(st[s], c)
    BY <2>1 DEF GoodStyles, ChainAt
  <2> DEFINE l == LinkedChain(st[s], c)
  <2>3. l \in Seq(Faces) /\ Len(l) \in Nat /\ Len(l) <= MaxFaces
    BY <2>2, LinkedIs
  <2>4. k \in 1 .. Len(l) /\ l[k] = f
    BY <1>2, <2>2
  <2>5. l # <<>>
    <3> HIDE DEF l
    <3> QED BY <2>3, <2>4
  <2>6. c \in Chains /\ l = st[s][c]
    BY <2>2, <2>5, LinkedIs
  <2> HIDE DEF l
  <2>7. k \in DOMAIN l /\ k \in 1 .. MaxFaces
    BY <2>3, <2>4, MaxFacesAssumption
  <2> QED BY <2>1, <2>4, <2>6, <2>7 DEF PlacesIn, l
<1> QED BY <1>1, <1>2

(* su is st with the style d for s.                                        *)
IsPut(su, st, s, d) ==
    \A t, c : ChainAt(su, t, c) = IF t = s THEN LinkedChain(d, c) ELSE ChainAt(st, t, c)

LEMMA PutStyle ==
    ASSUME NEW st, GoodStyles(st), NEW s \in Styles, NEW d, GoodStyle(d), NEW su,
           DOMAIN su = DOMAIN st \cup {s}, su[s] = d,
           \A t \in DOMAIN st : t # s => su[t] = st[t]
    PROVE  GoodStyles(su) /\ IsPut(su, st, s, d)
<1>1. IsFiniteSet(DOMAIN su)
  BY FS_AddElement DEF GoodStyles
<1>2. GoodStyles(su)
  BY <1>1 DEF GoodStyles
<1> QED BY <1>2 DEF ChainAt, IsPut

LEMMA PlacesAreTriples ==
    ASSUME NEW st, NEW f, NEW p \in PlacesIn(st, f)
    PROVE  p = <<p[1], p[2], p[3]>>
BY DEF PlacesIn

LEMMA PlacesAreFinite ==
    ASSUME NEW st, GoodStyles(st), NEW f
    PROVE  IsFiniteSet(PlacesIn(st, f)) /\ Cardinality(PlacesIn(st, f)) \in Nat
<1> DEFINE tagged == [s \in DOMAIN st |-> DOMAIN st[s]]
           T == {tagged[s] : s \in DOMAIN st}
           U == UNION T
           W == U \X (1 .. MaxFaces)
           box == (DOMAIN st) \X W
           flat == [p \in PlacesIn(st, f) |-> <<p[1], <<p[2], p[3]>>>>]
<1>1. IsFiniteSet(T)
  <2>1. tagged \in Surjection(DOMAIN st, T)
    BY DEF Surjection
  <2> QED BY <2>1, FS_Surjection DEF GoodStyles
<1>2. IsFiniteSet(U)
  <2>1. \A X \in T : IsFiniteSet(X)
    BY DEF GoodStyles, GoodStyle
  <2> HIDE DEF T
  <2> QED BY <1>1, <2>1, FS_UNION
<1>3. IsFiniteSet(box)
  <2>1. IsFiniteSet(1 .. MaxFaces)
    BY FS_Interval, MaxFacesAssumption
  <2>2. IsFiniteSet(DOMAIN st)
    BY DEF GoodStyles
  <2> HIDE DEF U
  <2>4. IsFiniteSet(W)
    BY <1>2, <2>1, FS_Product
  <2> HIDE DEF W
  <2> QED BY <2>2, <2>4, FS_Product
<1>4. flat \in Injection(PlacesIn(st, f), box)
  <2>1. ASSUME NEW p \in PlacesIn(st, f) PROVE flat[p] \in box
    <3>1. p[1] \in DOMAIN st /\ p[3] \in 1 .. MaxFaces
          /\ p[3] \in DOMAIN LinkedChain(st[p[1]], p[2])
      BY DEF PlacesIn
    <3>2. p[2] \in DOMAIN st[p[1]]
      <4>1. CASE p[2] \notin DOMAIN st[p[1]]
        <5>1. LinkedChain(st[p[1]], p[2]) = <<>>
          BY <4>1 DEF LinkedChain
        <5> QED BY <3>1, <5>1
      <4> QED BY <4>1
    <3>3. p[2] \in U
      BY <3>1, <3>2
    <3>4. flat[p] = <<p[1], <<p[2], p[3]>>>>
      OBVIOUS
    <3> HIDE DEF U
    <3>5. <<p[2], p[3]>> \in W
      BY <3>1, <3>3
    <3> HIDE DEF W
    <3>6. <<p[1], <<p[2], p[3]>>>> \in box
      BY <3>1, <3>5
    <3> HIDE DEF flat, box
    <3> QED BY <3>4, <3>6
  <2>2. ASSUME NEW p \in PlacesIn(st, f), NEW q \in PlacesIn(st, f), flat[p] = flat[q]
        PROVE  p = q
    BY <2>2, PlacesAreTriples
  <2> HIDE DEF box
  <2> QED BY <2>1, <2>2 DEF Injection, IsInjective
<1> HIDE DEF box, flat
<1> QED BY <1>3, <1>4, FS_Injection, FS_CardinalityType

-----------------------------------------------------------------------------
(* What holds of a face: it has a place if it is listened to, and its      *)
(* count is too low if it is counted and not listened to.                  *)
FaceOK(st, r, f) ==
    /\ f \in r.connected => PlacesIn(st, f) # {}
    /\ f \notin r.connected /\ f \in DOMAIN r.ref_count =>
          r.ref_count[f] < Cardinality(PlacesIn(st, f))

LEMMA UnheardIsOK ==
    ASSUME NEW st, GoodStyles(st), NEW r, NEW f, Unheard(r, f)
    PROVE  FaceOK(st, r, f)
BY PlacesAreFinite DEF Unheard, FaceOK

LEMMA KeptIsOK ==
    ASSUME NEW st, NEW su, GoodStyles(su), NEW r \in RegisterSet, NEW q, NEW f,
           SameAt(r, q, f), FaceOK(st, r, f), GoodStyles(st),
           NEW h \in Injection(PlacesIn(st, f), PlacesIn(su, f))
    PROVE  FaceOK(su, q, f)
<1>1. h \in [PlacesIn(st, f) -> PlacesIn(su, f)]
  BY DEF Injection
<1>2. Cardinality(PlacesIn(st, f)) <= Cardinality(PlacesIn(su, f))
  BY PlacesAreFinite, FS_Injection
<1>3. Cardinality(PlacesIn(st, f)) \in Nat /\ Cardinality(PlacesIn(su, f)) \in Nat
  BY PlacesAreFinite
<1>4. f \in DOMAIN r.ref_count => r.ref_count[f] \in Int
  BY RegisterIs
<1> QED BY <1>1, <1>2, <1>3, <1>4 DEF SameAt, FaceOK

LEMMA StaysOK ==
    ASSUME NEW st, NEW su, GoodStyles(su), NEW r \in RegisterSet, NEW q, NEW f,
           SameAt(r, q, f), FaceOK(st, r, f), GoodStyles(st),
           PlacesIn(st, f) \subseteq PlacesIn(su, f)
    PROVE  FaceOK(su, q, f)
<1> DEFINE h == [p \in PlacesIn(st, f) |-> p]
<1>1. h \in Injection(PlacesIn(st, f), PlacesIn(su, f))
  BY DEF Injection, IsInjective
<1> HIDE DEF h
<1> QED BY <1>1, KeptIsOK

(* As long as the chains of a face only grow, it keeps its places.         *)
LEMMA GrownPlaces ==
    ASSUME NEW st, NEW su, GoodStyles(st), GoodStyles(su), NEW f,
           \A s, c : \A k \in 1 .. Len(ChainAt(st, s, c)) :
              ChainAt(st, s, c)[k] = f =>
                  k \in 1 .. Len(ChainAt(su, s, c)) /\ ChainAt(su, s, c)[k] = f
    PROVE  PlacesIn(st, f) \subseteq PlacesIn(su, f)
<1> SUFFICES ASSUME NEW p \in PlacesIn(st, f) PROVE p \in PlacesIn(su, f)
  OBVIOUS
<1> DEFINE s == p[1]
           c == p[2]
           k == p[3]
<1>1. p = <<s, c, k>>
  BY PlacesAreTriples
<1> HIDE DEF s, c, k
<1>2. k \in 1 .. Len(ChainAt(st, s, c)) /\ ChainAt(st, s, c)[k] = f
  BY <1>1, PlaceIs
<1>3. <<s, c, k>> \in PlacesIn(su, f)
  BY <1>2, PlaceIs
<1> QED BY <1>1, <1>3

FamilyOK(st, r) ==
    /\ GoodStyles(st)
    /\ r \in RegisterSet
    /\ \A f \in Faces : FaceOK(st, r, f)

(* Faces lose places, and the other ones keep theirs.                      *)
LEMMA DroppedIsOK ==
    ASSUME NEW st, NEW r, FamilyOK(st, r), NEW su, GoodStyles(su), NEW q \in RegisterSet,
           NEW F, Dropped(r, q, F),
           \A f \in Faces : f \notin F => PlacesIn(st, f) \subseteq PlacesIn(su, f)
    PROVE  FamilyOK(su, q)
<1>1. ASSUME NEW f \in Faces, f \in F PROVE FaceOK(su, q, f)
  BY <1>1, UnheardIsOK DEF Dropped
<1>2. ASSUME NEW f \in Faces, f \notin F PROVE FaceOK(su, q, f)
  <2>1. SameAt(r, q, f) /\ PlacesIn(st, f) \subseteq PlacesIn(su, f)
    BY <1>2 DEF Dropped
  <2>2. FaceOK(st, r, f) /\ GoodStyles(st) /\ r \in RegisterSet
    BY DEF FamilyOK
  <2> QED BY <2>1, <2>2, StaysOK
<1> QED BY <1>1, <1>2 DEF FamilyOK

(* Nothing but the tags of the styles changes.                             *)
LEMMA SameChainsAreOK ==
    ASSUME NEW st, NEW r, FamilyOK(st, r), NEW su, GoodStyles(su),
           \A s, c : ChainAt(su, s, c) = ChainAt(st, s, c)
    PROVE  FamilyOK(su, r)
<1>1. Dropped(r, r, {})
  BY DEF Dropped, SameAt
<1>2. \A f \in Faces : PlacesIn(st, f) \subseteq PlacesIn(su, f)
  BY GrownPlaces DEF FamilyOK
<1> QED BY <1>1, <1>2, DroppedIsOK DEF FamilyOK

-----------------------------------------------------------------------------
(* The operations of the family.                                           *)

LEMMA DataIs ==
    ASSUME GoodStyles(styles), NEW s
    PROVE  /\ GoodStyle(Data(s))
           /\ \A c : LinkedChain(Data(s), c) = ChainAt(styles, s, c)
<1>1. CASE s \in DOMAIN styles
  BY <1>1 DEF Data, ChainAt, GoodStyles
<1>2. CASE s \notin DOMAIN styles
  <2>1. Data(s) = NoFaces
    BY <1>2 DEF Data
  <2>2. DOMAIN NoFaces = {Main} /\ NoFaces[Main] = <<>>
    BY DEF NoFaces
  <2>3. NoFaces \in [{Main} -> Seq(Faces)]
    BY EmptySeq DEF NoFaces
  <2>4. IsStyle(NoFaces)
    BY <2>2, <2>3 DEF IsStyle, Chains
  <2>5. IsFiniteSet(DOMAIN NoFaces)
    BY <2>2, FS_Singleton
  <2>6. \A c \in DOMAIN NoFaces : Len(NoFaces[c]) <= MaxFaces
    BY <2>2, MaxFacesAssumption
  <2>7. \A c : LinkedChain(NoFaces, c) = <<>>
    BY <2>2 DEF LinkedChain
  <2>8. \A c : ChainAt(styles, s, c) = <<>>
    BY <1>2 DEF ChainAt
  <2> QED BY <2>1, <2>4, <2>5, <2>6, <2>7, <2>8 DEF GoodStyle
<1> QED BY <1>1, <1>2

(* e is d with the chain for c; su is st with the chain for c of s.        *)
IsChained(e, d, c, chain) ==
    \A x : LinkedChain(e, x) = IF x = c THEN chain ELSE LinkedChain(d, x)
IsPutAt(su, st, s, c, chain) ==
    \A t, x : ChainAt(su, t, x) = IF t = s /\ x = c THEN chain ELSE ChainAt(st, t, x)

IsWith(e, d, c, chain) == e = [x \in DOMAIN d \cup {c} |-> IF x = c THEN chain ELSE d[x]]

LEMMA PutChain ==
    ASSUME NEW d, GoodStyle(d), NEW c \in Chains, NEW chain \in Seq(Faces),
           Len(chain) <= MaxFaces, NEW e, IsWith(e, d, c, chain)
    PROVE  GoodStyle(e) /\ IsChained(e, d, c, chain)
<1>1. DOMAIN e = DOMAIN d \cup {c} /\ e[c] = chain /\ \A x \in DOMAIN d : x # c => e[x] = d[x]
  BY DEF IsWith
<1>2. \A x \in DOMAIN e : e[x] \in Seq(Faces) /\ Len(e[x]) <= MaxFaces
  BY <1>1 DEF GoodStyle, IsStyle
<1>3. e \in [DOMAIN e -> Seq(Faces)]
  BY <1>2 DEF IsWith
<1>4. IsStyle(e)
  BY <1>1, <1>3 DEF GoodStyle, IsStyle
<1>5. IsFiniteSet(DOMAIN e)
  BY <1>1, FS_AddElement DEF GoodStyle
<1>6. GoodStyle(e)
  BY <1>2, <1>4, <1>5 DEF GoodStyle
<1>7. IsChained(e, d, c, chain)
  BY <1>1 DEF LinkedChain, IsChained
<1> QED BY <1>6, <1>7

LEMMA WithChainIs ==
    ASSUME GoodStyles(styles), NEW s \in Styles, NEW c \in Chains, NEW chain \in Seq(Faces),
           Len(chain) <= MaxFaces, NEW su, su = WithChain(s, c, chain)
    PROVE  GoodStyles(su) /\ IsPutAt(su, styles, s, c, chain)
<1> DEFINE e == [x \in DOMAIN Data(s) \cup {c} |-> IF x = c THEN chain ELSE Data(s)[x]]
<1>1. GoodStyle(e) /\ IsChained(e, Data(s), c, chain)
  <2>1. GoodStyle(Data(s))
    BY DataIs
  <2>2. IsWith(e, Data(s), c, chain)
    BY DEF IsWith
  <2> HIDE DEF e
  <2> QED BY <2>1, <2>2, PutChain
<1>2. /\ DOMAIN su = DOMAIN styles \cup {s} /\ su[s] = e
      /\ \A t \in DOMAIN styles : t # s => su[t] = styles[t]
  BY DEF WithChain
<1> HIDE DEF e
<1>3. GoodStyles(su) /\ IsPut(su, styles, s, e)
  BY <1>1, <1>2, PutStyle
<1> QED BY <1>1, <1>3, DataIs DEF IsChained, IsPut, IsPutAt

LEMMA NewRegister ==
    ASSUME NEW r \in RegisterSet, Registers(r)
    PROVE  Register' = r
BY RegisterIs DEF Registers, Register

LEMMA OldRegister ==
    ASSUME UNCHANGED <<ref_count, connected>>
    PROVE  Register' = Register
BY DEF Register

LEMMA AddStyleStep ==
    ASSUME FamilyOK(styles, Register), NEW s \in Styles, AddStyle(s)
    PROVE  FamilyOK(styles', Register')
<1>1. /\ DOMAIN styles' = DOMAIN styles \cup {s} /\ styles'[s] = Data(s)
      /\ \A t \in DOMAIN styles : t # s => styles'[t] = styles[t]
  BY DEF AddStyle, Data
<1>2. GoodStyles(styles) /\ GoodStyle(Data(s))
  BY DataIs DEF FamilyOK
<1>3. GoodStyles(styles') /\ IsPut(styles', styles, s, Data(s))
  BY <1>1, <1>2, PutStyle
<1>4. \A t, c : ChainAt(styles', t, c) = ChainAt(styles, t, c)
  BY <1>2, <1>3, DataIs DEF IsPut
<1>5. Register' = Register
  BY OldRegister DEF AddStyle
<1> QED BY <1>3, <1>4, <1>5, SameChainsAreOK

LEMMA AddTagStep ==
    ASSUME FamilyOK(styles, Register), NEW s \in Styles, NEW c \in Tags, AddTag(s, c)
    PROVE  FamilyOK(styles', Register')
<1>1. GoodStyles(styles) /\ styles' = WithChain(s, c, <<>>)
  BY DEF FamilyOK, AddTag
<1>2. <<>> \in Seq(Faces) /\ Len(<<>>) <= MaxFaces /\ c \in Chains
  BY MaxFacesAssumption, EmptySeq DEF Chains
<1>3. GoodStyles(styles') /\ IsPutAt(styles', styles, s, c, <<>>)
  BY <1>1, <1>2, WithChainIs
<1>4. ChainAt(styles, s, c) = <<>>
  BY DEF AddTag, ChainAt, LinkedChain
<1>5. \A t, x : ChainAt(styles', t, x) = ChainAt(styles, t, x)
  BY <1>3, <1>4 DEF IsPutAt
<1>6. Register' = Register
  BY OldRegister DEF AddTag
<1> QED BY <1>3, <1>5, <1>6, SameChainsAreOK

LEMMA SetNowhereIs ==
    ASSUME FamilyOK(styles, Register), NEW s \in Styles, NEW c \in Chains, SetNowhere(s, c)
    PROVE  /\ FamilyOK(styles', Register')
           /\ \A t, x : ChainAt(styles', t, x) = ChainAt(styles, t, x)
<1> DEFINE chain == LinkedChain(Data(s), c)
<1>1. GoodStyles(styles) /\ styles' = WithChain(s, c, chain)
  BY DEF FamilyOK, SetNowhere
<1>2. chain \in Seq(Faces) /\ Len(chain) <= MaxFaces /\ chain = ChainAt(styles, s, c)
  BY <1>1, DataIs, LinkedIs
<1> HIDE DEF chain
<1>3. GoodStyles(styles') /\ IsPutAt(styles', styles, s, c, chain)
  BY <1>1, <1>2, WithChainIs
<1>4. \A t, x : ChainAt(styles', t, x) = ChainAt(styles, t, x)
  BY <1>2, <1>3 DEF IsPutAt
<1>5. Register' = Register
  BY OldRegister DEF SetNowhere
<1>6. FamilyOK(styles', Register')
  BY <1>3, <1>4, <1>5, SameChainsAreOK
<1> QED BY <1>4, <1>6

LEMMA RemoveTagStep ==
    ASSUME FamilyOK(styles, Register), NEW s \in Styles, NEW c \in Tags, RemoveTag(s, c)
    PROVE  FamilyOK(styles', Register')
<1> DEFINE chain == styles[s][c]
           e == [d \in DOMAIN styles[s] \ {c} |-> styles[s][d]]
           q == DecChain(Register, chain)
<1>1. GoodStyles(styles) /\ Register \in RegisterSet
  BY DEF FamilyOK
<1>2. /\ s \in DOMAIN styles /\ c \in DOMAIN styles[s] /\ c # Main
      /\ styles' = [styles EXCEPT ![s] = e] /\ Registers(q)
  BY DEF RemoveTag
<1>3. GoodStyle(styles[s])
  BY <1>1, <1>2 DEF GoodStyles
<1>4. chain \in Seq(Faces) /\ ChainAt(styles, s, c) = chain
  BY <1>2, <1>3 DEF GoodStyle, IsStyle, ChainAt, LinkedChain
<1>5. q \in RegisterSet /\ Dropped(Register, q, FacesOf(chain))
  <2> HIDE DEF chain
  <2> QED BY <1>1, <1>4, DecChainDrops DEF FacesOf
<1>6. GoodStyle(e) /\ \A x : x # c => LinkedChain(e, x) = LinkedChain(styles[s], x)
  <2>1. DOMAIN e = DOMAIN styles[s] \ {c} /\ \A x \in DOMAIN e : e[x] = styles[s][x]
    OBVIOUS
  <2>2. e \in [DOMAIN e -> Seq(Faces)]
    BY <1>3 DEF GoodStyle, IsStyle
  <2> HIDE DEF e
  <2>3. IsStyle(e) /\ \A x \in DOMAIN e : Len(e[x]) <= MaxFaces
    BY <1>2, <1>3, <2>1, <2>2 DEF GoodStyle, IsStyle
  <2>4. IsFiniteSet(DOMAIN e)
    BY <1>3, <2>1, FS_RemoveElement DEF GoodStyle
  <2> QED BY <2>1, <2>3, <2>4 DEF GoodStyle, LinkedChain
<1>7. /\ DOMAIN styles' = DOMAIN styles \cup {s} /\ styles'[s] = e
      /\ \A t \in DOMAIN styles : t # s => styles'[t] = styles[t]
  <2> HIDE DEF e
  <2> QED BY <1>2
<1> HIDE DEF e, q
<1>8. GoodStyles(styles') /\ IsPut(styles', styles, s, e)
  <2>1. s \in Styles
    OBVIOUS
  <2> QED BY <1>1, <1>6, <1>7, <2>1, PutStyle
<1>9. \A t, x : ~(t = s /\ x = c) => ChainAt(styles', t, x) = ChainAt(styles, t, x)
  <2>1. \A x : ChainAt(styles, s, x) = LinkedChain(styles[s], x)
    BY <1>2 DEF ChainAt
  <2> QED BY <1>6, <1>8, <2>1 DEF IsPut
<1>10. ASSUME NEW f \in Faces, f \notin FacesOf(chain)
       PROVE  PlacesIn(styles, f) \subseteq PlacesIn(styles', f)
  <2>1. ASSUME NEW t, NEW x, NEW k \in 1 .. Len(ChainAt(styles, t, x)),
               ChainAt(styles, t, x)[k] = f
        PROVE  k \in 1 .. Len(ChainAt(styles', t, x)) /\ ChainAt(styles', t, x)[k] = f
    <3>1. ~(t = s /\ x = c)
      BY <1>4, <1>10, <2>1 DEF FacesOf
    <3> QED BY <1>9, <2>1, <3>1
  <2> QED BY <1>1, <1>8, <2>1, GrownPlaces
<1>11. Register' = q
  BY <1>2, <1>5, NewRegister
<1> HIDE DEF chain
<1> QED BY <1>5, <1>8, <1>10, <1>11, DroppedIsOK

LEMMA RemoveStyleStep ==
    ASSUME FamilyOK(styles, Register), NEW s \in Styles, RemoveStyle(s)
    PROVE  FamilyOK(styles', Register')
<1> DEFINE q == DecStyle(Register, Data(s))
           F == UNION {FacesOf(Data(s)[c]) : c \in DOMAIN Data(s)}
<1>1. GoodStyles(styles) /\ Register \in RegisterSet /\ GoodStyle(Data(s))
  BY DataIs DEF FamilyOK
<1>2. q \in RegisterSet /\ Dropped(Register, q, F)
  BY <1>1, DecStyleDrops
<1>3. styles' = [t \in DOMAIN styles \ {s} |-> styles[t]] /\ Registers(q)
  BY DEF RemoveStyle
<1>4. Register' = q
  BY <1>2, <1>3, NewRegister
<1>5. DOMAIN styles' = DOMAIN styles \ {s} /\ \A t \in DOMAIN styles' : styles'[t] = styles[t]
  BY <1>3
<1>6. GoodStyles(styles')
  <2>1. IsFiniteSet(DOMAIN styles')
    BY <1>1, <1>5, FS_RemoveElement DEF GoodStyles
  <2> QED BY <1>1, <1>5, <2>1 DEF GoodStyles
<1>7. \A t, c : t # s => ChainAt(styles', t, c) = ChainAt(styles, t, c)
  BY <1>5 DEF ChainAt
<1>8. ASSUME NEW f \in Faces, f \notin F
      PROVE  PlacesIn(styles, f) \subseteq PlacesIn(styles', f)
  <2>1. ASSUME NEW t, NEW c, NEW k \in 1 .. Len(ChainAt(styles, t, c)),
               ChainAt(styles, t, c)[k] = f
        PROVE  k \in 1 .. Len(ChainAt(styles', t, c)) /\ ChainAt(styles', t, c)[k] = f
    <3>1. CASE t = s
      <4>1. LinkedChain(Data(s), c) = ChainAt(styles, s, c)
        BY <1>1, DataIs
      <4>2. LinkedChain(Data(s), c) # <<>>
        BY <2>1, <3>1, <4>1
      <4>3. c \in DOMAIN Data(s) /\ Data(s)[c] = ChainAt(styles, s, c)
        BY <4>1, <4>2 DEF LinkedChain
      <4>4. f \in FacesOf(Data(s)[c])
        BY <2>1, <3>1, <4>3 DEF FacesOf
      <4> QED BY <1>8, <4>3, <4>4
    <3>2. CASE t # s
      BY <1>7, <2>1, <3>2
    <3> QED BY <3>1, <3>2
  <2> QED BY <1>1, <1>6, <2>1, GrownPlaces
<1> HIDE DEF F, q
<1> QED BY <1>2, <1>4, <1>6, <1>8, DroppedIsOK

(* A face has the more places the more it gets.                            *)
LEMMA GainedPlaces ==
    ASSUME NEW st, NEW su, GoodStyles(st), GoodStyles(su), NEW f,
           PlacesIn(st, f) \subseteq PlacesIn(su, f), NEW T,
           NEW h \in Injection(T, PlacesIn(su, f) \ PlacesIn(st, f))
    PROVE  /\ Cardinality(T) \in Nat
           /\ Cardinality(PlacesIn(st, f)) + Cardinality(T) <= Cardinality(PlacesIn(su, f))
<1> DEFINE A == PlacesIn(st, f)
           B == PlacesIn(su, f)
<1>1. IsFiniteSet(A) /\ IsFiniteSet(B) /\ Cardinality(A) \in Nat /\ Cardinality(B) \in Nat
  BY PlacesAreFinite
<1>2. A \subseteq B /\ h \in Injection(T, B \ A)
  OBVIOUS
<1> HIDE DEF A, B
<1>3. IsFiniteSet(B \ A) /\ Cardinality(B \ A) = Cardinality(B) - Cardinality(B \cap A)
  BY <1>1, FS_Difference
<1>4. B \cap A = A
  BY <1>2
<1>5. IsFiniteSet(T) /\ Cardinality(T) <= Cardinality(B \ A)
  BY <1>2, <1>3, FS_Injection
<1>6. Cardinality(T) \in Nat
  BY <1>5, FS_CardinalityType
<1>7. Cardinality(A) + Cardinality(T) <= Cardinality(B)
  <2>1. Cardinality(B \ A) = Cardinality(B) - Cardinality(A)
    BY <1>3, <1>4
  <2> QED BY <1>1, <1>5, <1>6, <2>1
<1> QED BY <1>6, <1>7 DEF A, B

LEMMA CountedIsOK ==
    ASSUME NEW su, GoodStyles(su), NEW q \in RegisterSet, NEW f \in Faces,
           NEW n \in Nat, n # 0, PlacesIn(su, f) # {},
           f \notin q.connected /\ f \in DOMAIN q.ref_count =>
               q.ref_count[f] + n < Cardinality(PlacesIn(su, f))
    PROVE  FaceOK(su, IncRef(q, f, n), f)
BY IncRefIs DEF FaceOK

IsAppended(su, st, s, chains, f) ==
    \A t, x : ChainAt(su, t, x) =
        IF t = s /\ x \in chains THEN Append(ChainAt(st, t, x), f) ELSE ChainAt(st, t, x)

LEMMA AddToIs ==
    ASSUME GoodStyles(styles), NEW s \in Styles, NEW chains \in SUBSET Chains,
           IsFiniteSet(chains), NEW f \in Faces, AddTo(s, chains, f), chains # {}
    PROVE  GoodStyles(styles') /\ IsAppended(styles', styles, s, chains, f)
<1> DEFINE e == [d \in DOMAIN Data(s) \cup chains |->
                     IF d \in chains THEN Append(LinkedChain(Data(s), d), f)
                     ELSE Data(s)[d]]
<1>1. GoodStyle(Data(s)) /\ \A c : LinkedChain(Data(s), c) = ChainAt(styles, s, c)
  BY DataIs
<1>2. /\ DOMAIN styles' = DOMAIN styles \cup {s} /\ styles'[s] = e
      /\ \A t \in DOMAIN styles : t # s => styles'[t] = styles[t]
  BY DEF AddTo
<1>3. /\ DOMAIN e = DOMAIN Data(s) \cup chains
      /\ \A d \in chains : e[d] = Append(LinkedChain(Data(s), d), f)
      /\ \A d \in DOMAIN Data(s) : d \notin chains => e[d] = Data(s)[d]
      /\ e = [d \in DOMAIN e |-> e[d]]
  OBVIOUS
<1> HIDE DEF e
<1>4. ASSUME NEW d \in DOMAIN e PROVE e[d] \in Seq(Faces) /\ Len(e[d]) <= MaxFaces
  <2>1. CASE d \in chains
    <3> DEFINE l == LinkedChain(Data(s), d)
    <3>1. l \in Seq(Faces) /\ Len(l) \in Nat
      BY <1>1, LinkedIs
    <3>2. Len(l) < MaxFaces
      BY <2>1 DEF AddTo
    <3> HIDE DEF l
    <3>3. Append(l, f) \in Seq(Faces) /\ Len(Append(l, f)) = Len(l) + 1
      BY <3>1, AppendProperties
    <3>4. Len(l) + 1 <= MaxFaces
      BY <3>1, <3>2, MaxFacesAssumption
    <3> QED BY <1>3, <2>1, <3>3, <3>4 DEF l
  <2>2. CASE d \notin chains
    BY <1>1, <1>3, <2>2 DEF GoodStyle, IsStyle
  <2> QED BY <2>1, <2>2
<1>5. e \in [DOMAIN e -> Seq(Faces)]
  BY <1>3, <1>4
<1>6. IsStyle(e)
  BY <1>1, <1>3, <1>5 DEF GoodStyle, IsStyle
<1>7. IsFiniteSet(DOMAIN e)
  BY <1>1, <1>3, FS_Union DEF GoodStyle
<1>8. GoodStyle(e)
  BY <1>4, <1>6, <1>7 DEF GoodStyle
<1>9. GoodStyles(styles') /\ IsPut(styles', styles, s, e)
  BY <1>2, <1>8, PutStyle
<1>10. \A x : LinkedChain(e, x) =
           IF x \in chains THEN Append(ChainAt(styles, s, x), f) ELSE ChainAt(styles, s, x)
  <2>1. \A x \in chains : LinkedChain(e, x) = Append(ChainAt(styles, s, x), f)
    BY <1>1, <1>3 DEF LinkedChain
  <2>2. \A x : x \notin chains => LinkedChain(e, x) = LinkedChain(Data(s), x)
    BY <1>3 DEF LinkedChain
  <2> QED BY <1>1, <2>1, <2>2
<1> QED BY <1>9, <1>10 DEF IsPut, IsAppended

LEMMA AddToStep ==
    ASSUME FamilyOK(styles, Register), NEW s \in Styles, NEW chains \in SUBSET Chains,
           IsFiniteSet(chains), NEW f \in Faces, AddTo(s, chains, f)
    PROVE  FamilyOK(styles', Register')
<1> DEFINE n == Cardinality(chains)
           q == IncRef(Register, f, n)
<1>1. GoodStyles(styles) /\ Register \in RegisterSet /\ Registers(q) /\ n \in Nat
  BY FS_CardinalityType DEF FamilyOK, AddTo
<1>2. CASE chains = {}
  <2>1. n = 0 /\ q = Register
    BY <1>2, FS_EmptySet DEF IncRef
  <2>2. Register' = Register
    <3> HIDE DEF q
    <3> QED BY <1>1, <2>1, NewRegister
  <2>3. styles' = styles
    BY <1>2 DEF AddTo
  <2> QED BY <2>2, <2>3
<1>3. CASE chains # {}
  <2>1. GoodStyles(styles') /\ IsAppended(styles', styles, s, chains, f)
    BY <1>1, <1>3, AddToIs
  <2>2. ASSUME NEW t, NEW x, NEW k \in 1 .. Len(ChainAt(styles, t, x))
        PROVE  /\ k \in 1 .. Len(ChainAt(styles', t, x))
               /\ ChainAt(styles', t, x)[k] = ChainAt(styles, t, x)[k]
    <3>1. CASE t = s /\ x \in chains
      <4> DEFINE l == ChainAt(styles, t, x)
      <4>1. l \in Seq(Faces) /\ Len(l) \in Nat
        BY <1>1, ChainIs
      <4>2. ChainAt(styles', t, x) = Append(l, f)
        BY <2>1, <3>1 DEF IsAppended
      <4> HIDE DEF l
      <4>3. Len(Append(l, f)) = Len(l) + 1
            /\ \A j \in 1 .. Len(l) : Append(l, f)[j] = l[j]
        BY <4>1, AppendProperties
      <4>4. k \in 1 .. Len(l) /\ k \in 1 .. Len(l) + 1
        BY <4>1 DEF l
      <4> QED BY <4>2, <4>3, <4>4 DEF l
    <3>2. CASE ~(t = s /\ x \in chains)
      BY <2>1, <3>2 DEF IsAppended
    <3> QED BY <3>1, <3>2
  <2>3. \A g : PlacesIn(styles, g) \subseteq PlacesIn(styles', g)
    BY <1>1, <2>1, <2>2, GrownPlaces
  <2>4. n # 0
    BY <1>3, FS_EmptySet
  <2> HIDE DEF n
  <2>5. q \in RegisterSet /\ \A g : g # f => SameAt(Register, q, g)
    BY <1>1, <2>4, IncRefIs
  <2>6. ASSUME NEW g \in Faces, g # f PROVE FaceOK(styles', q, g)
    <3> HIDE DEF q
    <3>1. FaceOK(styles, Register, g)
      BY DEF FamilyOK
    <3> QED BY <1>1, <2>1, <2>3, <2>5, <2>6, <3>1, StaysOK
  <2> DEFINE h == [c \in chains |-> <<s, c, Len(ChainAt(styles, s, c)) + 1>>]
  <2>7. h \in Injection(chains, PlacesIn(styles', f) \ PlacesIn(styles, f))
    <3>1. ASSUME NEW c \in chains PROVE h[c] \in PlacesIn(styles', f) \ PlacesIn(styles, f)
      <4> DEFINE l == ChainAt(styles, s, c)
                 k == Len(l) + 1
      <4>1. l \in Seq(Faces) /\ Len(l) \in Nat
        BY <1>1, ChainIs
      <4>2. ChainAt(styles', s, c) = Append(l, f)
        BY <2>1 DEF IsAppended
      <4>3. h[c] = <<s, c, k>>
        OBVIOUS
      <4> HIDE DEF h, l
      <4>4. Len(Append(l, f)) = Len(l) + 1 /\ Append(l, f)[Len(l) + 1] = f
        BY <4>1, AppendProperties
      <4>5. k \in 1 .. Len(Append(l, f)) /\ k \notin 1 .. Len(l)
        BY <4>1, <4>4
      <4> HIDE DEF k
      <4>6. <<s, c, k>> \in PlacesIn(styles', f)
        BY <2>1, <4>2, <4>4, <4>5, PlaceIs DEF k
      <4>7. <<s, c, k>> \notin PlacesIn(styles, f)
        BY <1>1, <4>5, PlaceIs DEF l
      <4> QED BY <4>3, <4>6, <4>7
    <3>2. \A c, d \in chains : h[c] = h[d] => c = d
      OBVIOUS
    <3>3. DOMAIN h = chains /\ h = [c \in chains |-> h[c]]
      OBVIOUS
    <3> HIDE DEF h
    <3> QED BY <3>1, <3>2, <3>3 DEF Injection, IsInjective
  <2>8. /\ Cardinality(PlacesIn(styles, f)) + n <= Cardinality(PlacesIn(styles', f))
        /\ Cardinality(PlacesIn(styles, f)) \in Nat /\ Cardinality(PlacesIn(styles', f)) \in Nat
    <3> HIDE DEF h
    <3> QED BY <1>1, <2>1, <2>3, <2>7, GainedPlaces, PlacesAreFinite DEF n
  <2>9. PlacesIn(styles', f) # {}
    <3> HIDE DEF h
    <3> QED BY <1>3, <2>7 DEF Injection
  <2>10. FaceOK(styles', q, f)
    <3>1. FaceOK(styles, Register, f)
      BY DEF FamilyOK
    <3>2. ASSUME f \notin Register.connected, f \in DOMAIN Register.ref_count
          PROVE  Register.ref_count[f] + n < Cardinality(PlacesIn(styles', f))
      <4>1. Register.ref_count[f] < Cardinality(PlacesIn(styles, f))
        BY <3>1, <3>2 DEF FaceOK
      <4>2. Register.ref_count[f] \in Int
        BY <1>1, <3>2, RegisterIs
      <4> QED BY <1>1, <2>8, <4>1, <4>2
    <3> QED BY <1>1, <2>1, <2>4, <2>9, <3>2, CountedIsOK
  <2>11. Register' = q
    <3> HIDE DEF q
    <3> QED BY <1>1, <2>5, NewRegister
  <2> HIDE DEF q
  <2> QED BY <2>1, <2>5, <2>6, <2>10, <2>11 DEF FamilyOK
<1> QED BY <1>2, <1>3

LEMMA SetFaceStep ==
    ASSUME FamilyOK(styles, Register), NEW s \in Styles, NEW c \in Chains,
           NEW k \in 1 .. MaxFaces, NEW f \in Faces, SetFace(s, c, k, f)
    PROVE  FamilyOK(styles', Register')
<1> DEFINE chain == ChainAt(styles, s, c)
           old == chain[k]
           new == [chain EXCEPT ![k] = f]
           d == DecRef(Register, old)
           q == IncRef(d, f, 1)
<1>1. GoodStyles(styles) /\ Register \in RegisterSet
  BY DEF FamilyOK
<1>2. /\ chain \in Seq(Faces) /\ Len(chain) \in Nat /\ Len(chain) <= MaxFaces
      /\ chain = LinkedChain(Data(s), c)
  BY <1>1, DataIs, ChainIs
<1>3. k \in 1 .. Len(chain) /\ chain = Data(s)[c]
  <2> HIDE DEF chain
  <2>1. k \in DOMAIN chain
    BY <1>2 DEF SetFace
  <2>2. k \in 1 .. Len(chain)
    BY <1>2, <2>1, LenProperties
  <2>3. chain # <<>>
    BY <1>2, <2>2
  <2>4. GoodStyle(Data(s))
    BY <1>1, DataIs
  <2> QED BY <1>2, <2>2, <2>3, <2>4, LinkedIs
<1>4. styles' = WithChain(s, c, new) /\ Registers(q) /\ old \in Faces
  <2>1. styles' = WithChain(s, c, [Data(s)[c] EXCEPT ![k] = f])
        /\ Registers(IncRef(DecRef(Register, Data(s)[c][k]), f, 1))
    BY DEF SetFace
  <2> HIDE DEF chain
  <2> QED BY <1>2, <1>3, <2>1, ElementOfSeq
<1> HIDE DEF chain
<1>5. /\ new \in Seq(Faces) /\ Len(new) = Len(chain) /\ new[k] = f
      /\ \A j \in 1 .. Len(chain) : j # k => new[j] = chain[j]
  BY <1>2, <1>3, ExceptSeq
<1> HIDE DEF new
<1>6. GoodStyles(styles') /\ IsPutAt(styles', styles, s, c, new)
  BY <1>1, <1>2, <1>4, <1>5, WithChainIs
<1>7. d \in RegisterSet /\ Unheard(d, old) /\ \A g : g # old => SameAt(Register, d, g)
  <2> HIDE DEF old
  <2> QED BY <1>1, <1>4, DecRefIs
<1> HIDE DEF d
<1>8. q \in RegisterSet /\ \A g : g # f => SameAt(d, q, g)
  BY <1>7, IncRefIs
<1>9. Register' = q
  <2> HIDE DEF q
  <2> QED BY <1>4, <1>8, NewRegister
<1>10. ASSUME NEW g \in Faces, g # old
       PROVE  PlacesIn(styles, g) \subseteq PlacesIn(styles', g)
  <2>1. ASSUME NEW t, NEW x, NEW j \in 1 .. Len(ChainAt(styles, t, x)),
               ChainAt(styles, t, x)[j] = g
        PROVE  j \in 1 .. Len(ChainAt(styles', t, x)) /\ ChainAt(styles', t, x)[j] = g
    <3>1. CASE t = s /\ x = c
      <4>1. ChainAt(styles', t, x) = new /\ ChainAt(styles, t, x) = chain
        BY <1>6, <3>1 DEF IsPutAt, chain
      <4>2. j # k
        BY <1>10, <2>1, <4>1
      <4> QED BY <1>5, <2>1, <4>1, <4>2
    <3>2. CASE ~(t = s /\ x = c)
      BY <1>6, <2>1, <3>2 DEF IsPutAt
    <3> QED BY <3>1, <3>2
  <2> QED BY <1>1, <1>6, <2>1, GrownPlaces
<1>11. <<s, c, k>> \in PlacesIn(styles', f)
  <2>1. ChainAt(styles', s, c) = new
    BY <1>6 DEF IsPutAt
  <2> QED BY <1>3, <1>5, <1>6, <2>1, PlaceIs
<1>12. ASSUME NEW g \in Faces, g # f PROVE FaceOK(styles', q, g)
  <2>1. CASE g = old
    <3>1. SameAt(d, q, g) /\ Unheard(d, g)
      BY <1>7, <1>8, <1>12, <2>1
    <3>2. Unheard(q, g)
      BY <3>1 DEF SameAt, Unheard
    <3> HIDE DEF q
    <3> QED BY <1>6, <3>2, UnheardIsOK
  <2>2. CASE g # old
    <3>1. SameAt(Register, d, g) /\ SameAt(d, q, g)
      BY <1>7, <1>8, <1>12, <2>2
    <3>2. SameAt(Register, q, g)
      BY <3>1 DEF SameAt
    <3>3. FaceOK(styles, Register, g) /\ PlacesIn(styles, g) \subseteq PlacesIn(styles', g)
      BY <1>10, <2>2 DEF FamilyOK
    <3> HIDE DEF q
    <3> QED BY <1>1, <1>6, <3>2, <3>3, StaysOK
  <2> QED BY <2>1, <2>2
<1>13. FaceOK(styles', q, f)
  <2>1. ASSUME f \notin d.connected, f \in DOMAIN d.ref_count
        PROVE  d.ref_count[f] + 1 < Cardinality(PlacesIn(styles', f))
    <3>1. Cardinality(PlacesIn(styles', f)) \in Nat /\ Cardinality(PlacesIn(styles', f)) # 0
      BY <1>6, <1>11, PlacesAreFinite, FS_EmptySet
    <3>2. CASE f = old
      <4>1. d.ref_count[f] = -1
        BY <1>7, <2>1, <3>2 DEF Unheard
      <4> QED BY <3>1, <4>1
    <3>3. CASE f # old
      <4>1. /\ f \notin Register.connected /\ f \in DOMAIN Register.ref_count
            /\ d.ref_count[f] = Register.ref_count[f]
        BY <1>7, <2>1, <3>3 DEF SameAt
      <4>2. Register.ref_count[f] \in Int
        BY <1>1, <4>1, RegisterIs
      <4>3. FaceOK(styles, Register, f)
        BY DEF FamilyOK
      <4>4. Register.ref_count[f] < Cardinality(PlacesIn(styles, f))
        BY <4>1, <4>3 DEF FaceOK
      <4> DEFINE h == [x \in {s} |-> <<s, c, k>>]
      <4>5. <<s, c, k>> \notin PlacesIn(styles, f)
        BY <1>1, <3>3, PlaceIs DEF chain
      <4>6. h \in Injection({s}, PlacesIn(styles', f) \ PlacesIn(styles, f))
        BY <1>11, <4>5 DEF Injection, IsInjective
      <4> HIDE DEF h
      <4>7. PlacesIn(styles, f) \subseteq PlacesIn(styles', f)
        BY <1>10, <3>3
      <4>8. Cardinality({s}) = 1
        BY FS_Singleton
      <4>9. Cardinality(PlacesIn(styles, f)) + Cardinality({s})
                <= Cardinality(PlacesIn(styles', f))
        BY <1>1, <1>6, <4>6, <4>7, GainedPlaces
      <4>10. Cardinality(PlacesIn(styles, f)) \in Nat
        BY <1>1, PlacesAreFinite
      <4> QED BY <3>1, <4>1, <4>2, <4>4, <4>8, <4>9, <4>10
    <3> QED BY <3>2, <3>3
  <2>2. PlacesIn(styles', f) # {}
    BY <1>11
  <2> QED BY <1>6, <1>7, <2>1, <2>2, CountedIsOK
<1> HIDE DEF q
<1> QED BY <1>6, <1>8, <1>9, <1>12, <1>13 DEF FamilyOK

LEMMA RemoveAtIs ==
    ASSUME NEW chain \in Seq(Faces), NEW k \in 1 .. Len(chain)
    PROVE  /\ RemoveAt(chain, k) \in Seq(Faces)
           /\ Len(RemoveAt(chain, k)) = Len(chain) - 1
           /\ \A j \in 1 .. k - 1 : RemoveAt(chain, k)[j] = chain[j]
           /\ \A j \in k + 1 .. Len(chain) : RemoveAt(chain, k)[j - 1] = chain[j]
<1> DEFINE n == Len(chain)
           l == SubSeq(chain, 1, k - 1)
           r == SubSeq(chain, k + 1, n)
<1>1. n \in Nat /\ k \in Int /\ 1 <= k /\ k <= n
  BY LenProperties
<1>2. \A j \in 1 .. n : chain[j] \in Faces
  BY ElementOfSeq
<1> HIDE DEF n
<1>3. /\ l \in Seq(Faces) /\ Len(l) = k - 1
      /\ \A j \in 1 .. k - 1 : l[j] = chain[j]
  <2>1. \A j \in 1 .. k - 1 : chain[j] \in Faces
    BY <1>1, <1>2
  <2>2. /\ l \in Seq(Faces) /\ Len(l) = IF 1 <= k - 1 THEN k - 1 - 1 + 1 ELSE 0
        /\ \A j \in 1 .. k - 1 - 1 + 1 : l[j] = chain[1 + j - 1]
    BY <1>1, <2>1, SubSeqProperties
  <2> HIDE DEF l
  <2>3. Len(l) = k - 1
    BY <1>1, <2>2
  <2>4. \A j \in 1 .. k - 1 : j \in 1 .. k - 1 - 1 + 1 /\ 1 + j - 1 = j
    BY <1>1
  <2> QED BY <2>2, <2>3, <2>4
<1>4. /\ r \in Seq(Faces) /\ Len(r) = n - k
      /\ \A j \in 1 .. n - k : r[j] = chain[k + j]
  <2>1. \A j \in k + 1 .. n : chain[j] \in Faces
    BY <1>1, <1>2
  <2>2. /\ r \in Seq(Faces) /\ Len(r) = IF k + 1 <= n THEN n - (k + 1) + 1 ELSE 0
        /\ \A j \in 1 .. n - (k + 1) + 1 : r[j] = chain[(k + 1) + j - 1]
    BY <1>1, <2>1, SubSeqProperties
  <2> HIDE DEF r
  <2>3. Len(r) = n - k
    BY <1>1, <2>2
  <2>4. \A j \in 1 .. n - k : j \in 1 .. n - (k + 1) + 1 /\ (k + 1) + j - 1 = k + j
    BY <1>1
  <2> QED BY <2>2, <2>3, <2>4
<1>5. RemoveAt(chain, k) = l \o r
  BY DEF RemoveAt, n
<1> HIDE DEF l, r
<1>6. /\ l \o r \in Seq(Faces) /\ Len(l \o r) = n - 1
      /\ \A j \in 1 .. n - 1 : (l \o r)[j] = IF j <= k - 1 THEN l[j] ELSE r[j - (k - 1)]
  <2>1. /\ l \o r \in Seq(Faces) /\ Len(l \o r) = Len(l) + Len(r)
        /\ \A j \in 1 .. Len(l) + Len(r) :
              (l \o r)[j] = IF j <= Len(l) THEN l[j] ELSE r[j - Len(l)]
    BY <1>3, <1>4, ConcatProperties
  <2>2. Len(l) + Len(r) = n - 1
    BY <1>1, <1>3, <1>4
  <2> QED BY <1>3, <2>1, <2>2
<1> DEFINE z == l \o r
<1> HIDE DEF z
<1>7. \A j \in 1 .. k - 1 : z[j] = chain[j]
  <2> SUFFICES ASSUME NEW j \in 1 .. k - 1 PROVE z[j] = chain[j]
    OBVIOUS
  <2>1. j \in 1 .. n - 1 /\ j <= k - 1
    BY <1>1
  <2> QED BY <1>3, <1>6, <2>1 DEF z
<1>8. \A j \in k + 1 .. n : z[j - 1] = chain[j]
  <2> SUFFICES ASSUME NEW j \in k + 1 .. n PROVE z[j - 1] = chain[j]
    OBVIOUS
  <2>1. j - 1 \in 1 .. n - 1 /\ ~(j - 1 <= k - 1)
    BY <1>1
  <2>2. j - k \in 1 .. n - k /\ (j - 1) - (k - 1) = j - k /\ k + (j - k) = j
    BY <1>1
  <2> QED BY <1>4, <1>6, <2>1, <2>2 DEF z
<1> QED BY <1>5, <1>6, <1>7, <1>8 DEF z, n

LEMMA SetFaceToNullStep ==
    ASSUME FamilyOK(styles, Register), NEW s \in Styles, NEW c \in Chains,
           NEW k \in 1 .. MaxFaces, SetFaceToNull(s, c, k)
    PROVE  FamilyOK(styles', Register')
<1> DEFINE chain == ChainAt(styles, s, c)
           old == chain[k]
           new == RemoveAt(chain, k)
           q == DecRef(Register, old)
<1>1. GoodStyles(styles) /\ Register \in RegisterSet
  BY DEF FamilyOK
<1>2. /\ chain \in Seq(Faces) /\ Len(chain) \in Nat /\ Len(chain) <= MaxFaces
      /\ chain = LinkedChain(Data(s), c)
  BY <1>1, DataIs, ChainIs
<1>3. k \in 1 .. Len(chain) /\ chain = Data(s)[c]
  <2> HIDE DEF chain
  <2>1. k \in DOMAIN chain
    BY <1>2 DEF SetFaceToNull
  <2>2. k \in 1 .. Len(chain)
    BY <1>2, <2>1, LenProperties
  <2>3. chain # <<>>
    BY <1>2, <2>2
  <2>4. GoodStyle(Data(s))
    BY <1>1, DataIs
  <2> QED BY <1>2, <2>2, <2>3, <2>4, LinkedIs
<1>4. styles' = WithChain(s, c, new) /\ Registers(q) /\ old \in Faces
  <2>1. /\ styles' = WithChain(s, c, RemoveAt(Data(s)[c], k))
        /\ Registers(DecRef(Register, Data(s)[c][k]))
    BY DEF SetFaceToNull
  <2> HIDE DEF chain
  <2> QED BY <1>2, <1>3, <2>1, ElementOfSeq
<1> HIDE DEF chain
<1>5. /\ new \in Seq(Faces) /\ Len(new) = Len(chain) - 1
      /\ \A j \in 1 .. k - 1 : new[j] = chain[j]
      /\ \A j \in k + 1 .. Len(chain) : new[j - 1] = chain[j]
  BY <1>2, <1>3, RemoveAtIs
<1> HIDE DEF new
<1>6. GoodStyles(styles') /\ IsPutAt(styles', styles, s, c, new)
  <2>1. Len(new) <= MaxFaces
    BY <1>2, <1>5, MaxFacesAssumption
  <2> QED BY <1>1, <1>4, <1>5, <2>1, WithChainIs
<1>7. q \in RegisterSet /\ Unheard(q, old) /\ \A g : g # old => SameAt(Register, q, g)
  <2> HIDE DEF old
  <2> QED BY <1>1, <1>4, DecRefIs
<1> HIDE DEF q
<1>8. Register' = q
  BY <1>4, <1>7, NewRegister
<1>9. ASSUME NEW g \in Faces, g # old PROVE FaceOK(styles', q, g)
  <2> DEFINE A == PlacesIn(styles, g)
             B == PlacesIn(styles', g)
             Behind(p) == p[1] = s /\ p[2] = c /\ p[3] > k
             h == [p \in A |-> IF Behind(p) THEN <<s, c, p[3] - 1>> ELSE p]
  <2>1. ASSUME NEW t, NEW x, NEW j, <<t, x, j>> \in A
        PROVE  /\ j \in 1 .. Len(ChainAt(styles, t, x)) /\ ChainAt(styles, t, x)[j] = g
               /\ t = s /\ x = c => j \in 1 .. Len(chain) /\ chain[j] = g /\ j # k
    <3>1. j \in 1 .. Len(ChainAt(styles, t, x)) /\ ChainAt(styles, t, x)[j] = g
      BY <1>1, <2>1, PlaceIs
    <3> QED BY <1>9, <3>1 DEF chain
  <2>2. ASSUME NEW p \in A
        PROVE  p = <<p[1], p[2], p[3]>> /\ (Behind(p) => p[3] - 1 >= k) /\ p[3] \in Int
               /\ (p[1] = s /\ p[2] = c /\ ~Behind(p) => p[3] < k)
    <3>1. p = <<p[1], p[2], p[3]>> /\ p[3] \in 1 .. Len(ChainAt(styles, p[1], p[2]))
      BY <2>1, PlacesAreTriples
    <3>2. p[3] \in Int
      BY <3>1
    <3>3. p[1] = s /\ p[2] = c => p[3] # k
      BY <2>1, <3>1
    <3>4. k \in Int
      OBVIOUS
    <3> QED BY <3>1, <3>2, <3>3, <3>4
  <2>3. ASSUME NEW p \in A PROVE h[p] \in B
    <3> DEFINE j == p[3]
    <3>1. CASE Behind(p)
      <4>1. h[p] = <<s, c, j - 1>> /\ <<s, c, j>> \in A /\ j > k
        BY <2>2, <3>1
      <4> HIDE DEF j, A, h
      <4>2. j \in 1 .. Len(chain) /\ chain[j] = g
        BY <2>1, <4>1
      <4>3. j \in k + 1 .. Len(chain) /\ j - 1 \in 1 .. Len(new)
        BY <1>2, <1>3, <1>5, <4>1, <4>2
      <4>4. new[j - 1] = g
        BY <1>5, <4>2, <4>3
      <4>5. ChainAt(styles', s, c) = new
        BY <1>6 DEF IsPutAt
      <4> QED BY <1>6, <4>1, <4>3, <4>4, <4>5, PlaceIs
    <3>2. CASE ~Behind(p) /\ p[1] = s /\ p[2] = c
      <4>1. h[p] = <<s, c, j>> /\ <<s, c, j>> \in A /\ j < k
        BY <2>2, <3>2
      <4> HIDE DEF j, A, h
      <4>2. j \in 1 .. Len(chain) /\ chain[j] = g
        BY <2>1, <4>1
      <4>3. j \in 1 .. k - 1 /\ j \in 1 .. Len(new)
        BY <1>2, <1>3, <1>5, <4>1, <4>2
      <4>4. new[j] = g
        BY <1>5, <4>2, <4>3
      <4>5. ChainAt(styles', s, c) = new
        BY <1>6 DEF IsPutAt
      <4> QED BY <1>6, <4>1, <4>3, <4>4, <4>5, PlaceIs
    <3>3. CASE ~(p[1] = s /\ p[2] = c)
      <4> DEFINE t == p[1]
                 x == p[2]
      <4>1. h[p] = <<t, x, j>> /\ <<t, x, j>> \in A /\ ~(t = s /\ x = c)
        BY <2>2, <3>3
      <4> HIDE DEF t, x, j, A, h
      <4>2. j \in 1 .. Len(ChainAt(styles, t, x)) /\ ChainAt(styles, t, x)[j] = g
        BY <2>1, <4>1
      <4>3. ChainAt(styles', t, x) = ChainAt(styles, t, x)
        BY <1>6, <4>1 DEF IsPutAt
      <4> QED BY <1>6, <4>1, <4>2, <4>3, PlaceIs
    <3> QED BY <3>1, <3>2, <3>3
  <2>4. ASSUME NEW p \in A, NEW r \in A, h[p] = h[r] PROVE p = r
    <3> DEFINE j == p[3]
               i == r[3]
    <3>1. /\ p = <<p[1], p[2], j>> /\ r = <<r[1], r[2], i>> /\ j \in Int /\ i \in Int
          /\ Behind(p) => h[p] = <<s, c, j - 1>> /\ j - 1 >= k
          /\ ~Behind(p) => h[p] = <<p[1], p[2], j>>
          /\ Behind(r) => h[r] = <<s, c, i - 1>> /\ i - 1 >= k
          /\ ~Behind(r) => h[r] = <<r[1], r[2], i>>
      BY <2>2
    <3>2. p[1] = s /\ p[2] = c /\ ~Behind(p) => j < k
      BY <2>2
    <3>3. r[1] = s /\ r[2] = c /\ ~Behind(r) => i < k
      BY <2>2
    <3>4. k \in Int
      OBVIOUS
    <3> HIDE DEF h, j, i
    <3>5. CASE Behind(p) /\ Behind(r)
      <4>1. p[1] = r[1] /\ p[2] = r[2] /\ j - 1 = i - 1
        BY <2>4, <3>1, <3>5
      <4>2. j = i
        BY <3>1, <4>1
      <4> QED BY <3>1, <4>1, <4>2
    <3>6. CASE Behind(p) /\ ~Behind(r)
      <4>1. r[1] = s /\ r[2] = c /\ i = j - 1
        BY <2>4, <3>1, <3>6
      <4> QED BY <3>1, <3>3, <3>4, <3>6, <4>1
    <3>7. CASE ~Behind(p) /\ Behind(r)
      <4>1. p[1] = s /\ p[2] = c /\ j = i - 1
        BY <2>4, <3>1, <3>7
      <4> QED BY <3>1, <3>2, <3>4, <3>7, <4>1
    <3>8. CASE ~Behind(p) /\ ~Behind(r)
      BY <2>4, <3>1, <3>8
    <3> QED BY <3>5, <3>6, <3>7, <3>8
  <2>5. h = [p \in A |-> h[p]]
    OBVIOUS
  <2> HIDE DEF A, B, h
  <2>6. h \in [A -> B]
    BY <2>3, <2>5
  <2>7. h \in Injection(A, B)
    <3>1. DOMAIN h = A
      BY <2>6
    <3> QED BY <2>4, <2>6, <3>1 DEF Injection, IsInjective
  <2>8. SameAt(Register, q, g) /\ FaceOK(styles, Register, g)
    BY <1>7, <1>9 DEF FamilyOK
  <2> QED BY <1>1, <1>6, <2>7, <2>8, KeptIsOK DEF A, B
<1>10. FaceOK(styles', q, old)
  BY <1>6, <1>7, UnheardIsOK
<1> QED BY <1>6, <1>7, <1>8, <1>9, <1>10 DEF FamilyOK

-----------------------------------------------------------------------------
(* The family's invariant.                                                 *)

FamilyInv == FamilyOK(styles, Register)

LEMMA FamilyInitOK ==
    ASSUME FamilyInit
    PROVE  FamilyInv
<1>1. styles = <<>> /\ ref_count = <<>> /\ connected = {}
  BY DEF FamilyInit
<1>2. DOMAIN styles = {} /\ DOMAIN ref_count = {}
  BY <1>1
<1>3. GoodStyles(styles)
  BY <1>2, FS_EmptySet DEF GoodStyles
<1>4. ref_count = [g \in DOMAIN ref_count |-> ref_count[g]]
  BY <1>1
<1>5. Register \in RegisterSet
  BY <1>1, <1>2, <1>4, IsRegister DEF Register
<1>6. \A f \in Faces : FaceOK(styles, Register, f)
  BY <1>1, <1>2 DEF FaceOK, Register
<1> QED BY <1>3, <1>5, <1>6 DEF FamilyInv, FamilyOK

LEMMA FamilyEmitsOK ==
    ASSUME FamilyInv, FamilyEmits
    PROVE  FamilyInv'
<1> USE DEF FamilyInv
<1>1. ASSUME NEW s \in Styles, AddStyle(s) PROVE FamilyInv'
  BY <1>1, AddStyleStep
<1>2. ASSUME NEW s \in Styles, RemoveStyle(s) PROVE FamilyInv'
  BY <1>2, RemoveStyleStep
<1>3. ASSUME NEW s \in Styles, NEW c \in Tags, AddTag(s, c) PROVE FamilyInv'
  BY <1>3, AddTagStep
<1>4. ASSUME NEW s \in Styles, NEW c \in Tags, RemoveTag(s, c) PROVE FamilyInv'
  BY <1>4, RemoveTagStep
<1>5. ASSUME NEW s \in Styles, NEW f \in Faces, AddFace(s, f) PROVE FamilyInv'
  <2>1. Supports[f] \in SUBSET Chains /\ IsFiniteSet(Supports[f])
    BY SupportsAssumption
  <2> QED BY <1>5, <2>1, AddToStep DEF AddFace
<1>6. ASSUME NEW s \in Styles, NEW f \in Faces, AddFaceUnlinked(s, f) PROVE FamilyInv'
  <2>1. {Main} \in SUBSET Chains /\ IsFiniteSet({Main})
    BY FS_Singleton DEF Chains
  <2> QED BY <1>6, <2>1, AddToStep DEF AddFaceUnlinked
<1>7. ASSUME NEW s \in Styles, NEW f \in Faces, NEW c \in Tags, AddFaceFor(s, c, f)
      PROVE  FamilyInv'
  <2>1. {c} \in SUBSET Chains /\ IsFiniteSet({c})
    BY FS_Singleton DEF Chains
  <2> QED BY <1>7, <2>1, AddToStep DEF AddFaceFor
<1>8. ASSUME NEW s \in Styles, NEW c \in Chains, NEW k \in 1 .. MaxFaces,
             SetFaceToNull(s, c, k)
      PROVE  FamilyInv'
  BY <1>8, SetFaceToNullStep
<1>9. ASSUME NEW s \in Styles, NEW c \in Chains, NEW k \in 1 .. MaxFaces, NEW f \in Faces,
             SetFace(s, c, k, f)
      PROVE  FamilyInv'
  BY <1>9, SetFaceStep
<1>10. ASSUME NEW f \in Faces, FaceChanged(f) PROVE FamilyInv'
  BY <1>10 DEF FaceChanged, familyVars, Register
<1> QED BY <1>1, <1>2, <1>3, <1>4, <1>5, <1>6, <1>7, <1>8, <1>9, <1>10 DEF FamilyEmits

LEMMA FamilyStays ==
    ASSUME FamilyInv, UNCHANGED familyVars
    PROVE  FamilyInv'
BY DEF FamilyInv, familyVars, Register

LEMMA FamilyIsTyped ==
    ASSUME FamilyInv
    PROVE  FamilyTypeOK
<1>1. GoodStyles(styles) /\ Register \in RegisterSet
  BY DEF FamilyInv, FamilyOK
<1>2. Register.ref_count = ref_count /\ Register.connected = connected
  BY DEF Register
<1>3. /\ \A f \in DOMAIN ref_count : ref_count[f] \in Int
      /\ DOMAIN ref_count \subseteq Faces /\ connected \subseteq DOMAIN ref_count
  BY <1>1, <1>2, RegisterIs
<1> QED BY <1>1, <1>3 DEF FamilyTypeOK, GoodStyles, GoodStyle

LEMMA SubscriptionsHold ==
    ASSUME FamilyInv
    PROVE  SubscriptionsAreExact
<1> SUFFICES ASSUME NEW f \in Faces
             PROVE  /\ f \in connected => Places(f) # {}
                    /\ IsCounted(f) /\ Places(f) # {} => f \in connected
  BY DEF SubscriptionsAreExact
<1>1. Places(f) = PlacesIn(styles, f)
  BY DEF Places, PlacesIn
<1>2. GoodStyles(styles) /\ FaceOK(styles, Register, f)
  BY DEF FamilyInv, FamilyOK
<1>3. Register.ref_count = ref_count /\ Register.connected = connected
  BY DEF Register
<1>4. IsFiniteSet(PlacesIn(styles, f)) /\ Cardinality(PlacesIn(styles, f)) \in Nat
  BY <1>2, PlacesAreFinite
<1>5. ASSUME IsCounted(f), Places(f) # {}, f \notin connected PROVE FALSE
  <2>1. Cardinality(PlacesIn(styles, f)) # 0
    BY <1>1, <1>4, <1>5, FS_EmptySet
  <2>2. Cardinality(PlacesIn(styles, f)) = IF f \in DOMAIN ref_count THEN ref_count[f] ELSE 0
    BY <1>1, <1>3, <1>5 DEF IsCounted, Count
  <2>3. f \in DOMAIN ref_count /\ ref_count[f] = Cardinality(PlacesIn(styles, f))
    BY <2>1, <2>2
  <2> QED BY <1>2, <1>3, <1>4, <1>5, <2>3 DEF FaceOK
<1> QED BY <1>1, <1>2, <1>3, <1>5 DEF FaceOK

-----------------------------------------------------------------------------
(* The label's caches.  With a base font that is not the family nothing    *)
(* escapes the label, with the family only a face it does not listen to.   *)
(* The string is made anew by everything that changes its case.            *)

LabelTypeOK ==
    /\ base_font \in {"family", "other", "none"}
    /\ is_empty \in BOOLEAN /\ valid \in BOOLEAN
    /\ uppercase \in BOOLEAN /\ raised \in BOOLEAN
    /\ lines_dirty \in BOOLEAN /\ queued \in BOOLEAN
    /\ current \subseteq Views
    /\ is_empty => ~valid

ShowsWhatItHas(v, l, c) ==
    /\ v => "string" \in c
    /\ ~l => "lines" \in c

CachesInv ==
    (base_font # "family" \/ AllHeard) /\ InCase =>
        ShowsWhatItHas(valid, lines_dirty, current)

LabelInv == FamilyInv /\ LabelTypeOK /\ CachesInv

LEMMA LabelInitOK ==
    ASSUME Init
    PROVE  LabelInv
<1>1. FamilyInv
  BY FamilyInitOK DEF Init
<1>2. LabelTypeOK /\ CachesInv
  BY DEF Init, LabelInit, LabelTypeOK, CachesInv, ShowsWhatItHas
<1> QED BY <1>1, <1>2 DEF LabelInv

(* Whatever makes the string new, or the lines.                            *)
LEMMA StringChangesOK ==
    ASSUME StringChanges, base_font' \in {"family", "other", "none"}, is_empty' \in BOOLEAN,
           uppercase' \in BOOLEAN, raised' \in BOOLEAN
    PROVE  LabelTypeOK' /\ CachesInv'
<1>1. LabelTypeOK'
  BY DEF StringChanges, MarkLines, LabelTypeOK, Views
<1>2. ShowsWhatItHas(valid', lines_dirty', current')
  BY DEF StringChanges, MarkLines, ShowsWhatItHas
<1> QED BY <1>1, <1>2 DEF CachesInv

LEMMA SameSubscriptions ==
    ASSUME UNCHANGED familyVars
    PROVE  AllHeard' = AllHeard
BY DEF familyVars, AllHeard, Places

(* The string stays, and the rest is marked or laid out.                   *)
LEMMA RelaidOK ==
    ASSUME LabelInv, LabelTypeOK', UNCHANGED familyVars, base_font' = base_font,
           (InCase => ShowsWhatItHas(valid, lines_dirty, current)) =>
               (InCase' => ShowsWhatItHas(valid', lines_dirty', current'))
    PROVE  LabelInv'
<1>1. FamilyInv'
  BY FamilyStays DEF LabelInv
<1>2. CachesInv'
  BY SameSubscriptions DEF LabelInv, CachesInv
<1> QED BY <1>1, <1>2 DEF LabelInv

LEMMA ReshapeIfDirtyOK ==
    ASSUME LabelTypeOK, ReshapeIfDirty, is_empty' = is_empty
    PROVE  /\ valid' \in BOOLEAN /\ lines_dirty' \in BOOLEAN /\ (is_empty' => ~valid')
           /\ LaidOut \subseteq Views
           /\ InCase /\ ShowsWhatItHas(valid, lines_dirty, current) =>
                  ShowsWhatItHas(valid', lines_dirty', LaidOut)
<1>1. CASE lines_dirty
  <2>1. valid' = (valid \/ ~is_empty) /\ lines_dirty' = is_empty
    BY <1>1 DEF ReshapeIfDirty
  <2>2. LaidOut = Reshape(valid, is_empty, InCase, current)
    BY <1>1 DEF LaidOut
  <2>3. LaidOut \subseteq Views
    BY <2>2 DEF LabelTypeOK, Reshape, Views
  <2>4. CASE is_empty
    BY <2>1, <2>2, <2>3, <2>4 DEF LabelTypeOK, Reshape, ShowsWhatItHas
  <2>5. CASE ~is_empty
    BY <2>1, <2>2, <2>3, <2>5 DEF LabelTypeOK, Reshape, ShowsWhatItHas
  <2> QED BY <2>4, <2>5
<1>2. CASE ~lines_dirty
  BY <1>2 DEF LabelTypeOK, ReshapeIfDirty, LaidOut
<1> QED BY <1>1, <1>2

LEMMA LabelNextOK ==
    ASSUME LabelInv, [Next]_vars
    PROVE  LabelInv'
<1> USE DEF LabelInv, caseVars
<1>1. ASSUME FamilyChanges PROVE LabelInv'
  <2>1. FamilyInv'
    BY <1>1, FamilyEmitsOK DEF FamilyChanges
  <2>2. base_font' = base_font /\ is_empty' = is_empty /\ UNCHANGED caseVars
    BY <1>1 DEF FamilyChanges
  <2>3. CASE base_font = "family"
    <3>1. StringChanges
      BY <1>1, <2>3 DEF FamilyChanges
    <3> QED BY <2>1, <2>2, <3>1, StringChangesOK DEF LabelTypeOK
  <2>4. CASE base_font # "family"
    <3>1. UNCHANGED labelVars
      BY <1>1, <2>2, <2>4 DEF FamilyChanges, labelVars
    <3> QED BY <2>1, <2>4, <3>1 DEF LabelTypeOK, CachesInv, labelVars, InCase
  <2> QED BY <2>3, <2>4
<1>2. ASSUME FamilyChangesSilently PROVE LabelInv'
  <2>1. PICK s \in Styles, c \in Chains : SetNowhere(s, c)
    BY <1>2 DEF FamilyChangesSilently
  <2>2. FamilyInv'
    BY <2>1, SetNowhereIs DEF FamilyInv
  <2>3. UNCHANGED labelVars
    BY <1>2 DEF FamilyChangesSilently
  <2>4. AllHeard' <=> AllHeard
    <3>1. GoodStyles(styles) /\ GoodStyles(styles')
      BY <2>2 DEF FamilyInv, FamilyOK
    <3>2. \A t, x : ChainAt(styles', t, x) = ChainAt(styles, t, x)
      BY <2>1, SetNowhereIs DEF FamilyInv
    <3>3. \A f : PlacesIn(styles', f) = PlacesIn(styles, f)
      <4>1. \A f : PlacesIn(styles, f) \subseteq PlacesIn(styles', f)
        BY <3>1, <3>2, GrownPlaces
      <4>2. \A f : PlacesIn(styles', f) \subseteq PlacesIn(styles, f)
        BY <3>1, <3>2, GrownPlaces
      <4> QED BY <4>1, <4>2
    <3>4. \A f : Places(f)' = Places(f)
      BY <3>3 DEF Places, PlacesIn
    <3>5. UNCHANGED <<ref_count, connected>>
      BY <2>1 DEF SetNowhere
    <3> QED BY <3>4, <3>5 DEF AllHeard
  <2> QED BY <2>2, <2>3, <2>4 DEF LabelTypeOK, CachesInv, labelVars, InCase
<1>3. ASSUME FaceChangesUnheard PROVE LabelInv'
  <2>1. PICK f \in Faces :
            /\ FaceChangedUnheard(f)
            /\ current' = IF base_font = "family" /\ Places(f) # {} THEN {} ELSE current
    BY <1>3 DEF FaceChangesUnheard
  <2>2. UNCHANGED <<familyVars, base_font, is_empty, caseVars, valid, lines_dirty, queued>>
    BY <1>3, <2>1 DEF FaceChangesUnheard, FaceChangedUnheard
  <2>3. FamilyInv' /\ AllHeard' = AllHeard
    BY <2>2, FamilyStays, SameSubscriptions
  <2>4. LabelTypeOK'
    BY <2>1, <2>2 DEF LabelTypeOK
  <2>5. CASE base_font = "family" /\ Places(f) # {}
    <3>1. f \notin connected
      BY <2>1 DEF FaceChangedUnheard
    <3>2. ~AllHeard
      BY <2>5, <3>1 DEF AllHeard
    <3> QED BY <2>2, <2>3, <2>4, <2>5, <3>2 DEF CachesInv
  <2>6. CASE ~(base_font = "family" /\ Places(f) # {})
    <3>1. current' = current
      BY <2>1, <2>6
    <3> QED BY <2>2, <2>3, <2>4, <3>1 DEF CachesInv, InCase
  <2> QED BY <2>5, <2>6
<1>4. ASSUME SetText \/ SetUppercase \/ SetStringProperty \/ SetBaseFont PROVE LabelInv'
  <2>1. StringChanges /\ UNCHANGED familyVars
    BY <1>4 DEF SetText, SetUppercase, SetStringProperty, SetBaseFont
  <2>2. /\ base_font' \in {"family", "other", "none"} /\ is_empty' \in BOOLEAN
        /\ uppercase' \in BOOLEAN /\ raised' \in BOOLEAN
    BY <1>4 DEF SetText, NewText, SetUppercase, SetStringProperty, SetBaseFont, LabelTypeOK,
       caseVars
  <2> QED BY <2>1, <2>2, StringChangesOK, FamilyStays
<1>5. ASSUME SetNothing PROVE LabelInv'
  <2>1. LabelTypeOK'
    BY <1>5 DEF SetNothing, MarkLines, LabelTypeOK
  <2> QED BY <1>5, <2>1, RelaidOK DEF SetNothing, MarkLines, ShowsWhatItHas, InCase
<1>6. ASSUME SetLinesProperty PROVE LabelInv'
  <2>1. LabelTypeOK'
    BY <1>6 DEF SetLinesProperty, LinesChange, MarkLines, LabelTypeOK
  <2>2. ShowsWhatItHas(valid, lines_dirty, current) =>
            ShowsWhatItHas(valid', lines_dirty', current')
    BY <1>6 DEF SetLinesProperty, LinesChange, MarkLines, ShowsWhatItHas
  <2> QED BY <1>6, <2>1, <2>2, RelaidOK DEF SetLinesProperty, InCase
<1>7. ASSUME SetDrawingProperty PROVE LabelInv'
  <2>1. LabelTypeOK'
    BY <1>7 DEF SetDrawingProperty, DrawingChanges, LabelTypeOK
  <2>2. ShowsWhatItHas(valid, lines_dirty, current) =>
            ShowsWhatItHas(valid', lines_dirty', current')
    BY <1>7 DEF SetDrawingProperty, DrawingChanges, ShowsWhatItHas
  <2> QED BY <1>7, <2>1, <2>2, RelaidOK DEF SetDrawingProperty, InCase
<1>8. ASSUME TranslationChanged PROVE LabelInv'
  <2>1. /\ is_empty' \in BOOLEAN /\ valid' = ~is_empty' /\ queued' = TRUE
        /\ raised' \in BOOLEAN /\ uppercase' = uppercase
        /\ lines_dirty' = (is_empty' /\ lines_dirty)
        /\ current' = Reshape(FALSE, is_empty', InCase', {})
        /\ UNCHANGED <<familyVars, base_font>>
    BY <1>8 DEF TranslationChanged, NewText
  <2>2. LabelTypeOK'
    BY <2>1 DEF LabelTypeOK, Reshape, Views
  <2>3. InCase' => ShowsWhatItHas(valid', lines_dirty', current')
    BY <2>1 DEF LabelTypeOK, Reshape, ShowsWhatItHas
  <2> QED BY <2>1, <2>2, <2>3, RelaidOK
<1>9. ASSUME Query PROVE LabelInv'
  <2>1. ReshapeIfDirty /\ current' = LaidOut
        /\ UNCHANGED <<familyVars, base_font, is_empty, caseVars, queued>>
    BY <1>9 DEF Query
  <2>2. LabelTypeOK'
    BY <2>1, ReshapeIfDirtyOK DEF LabelTypeOK
  <2> QED BY <2>1, <2>2, ReshapeIfDirtyOK, RelaidOK DEF InCase
<1>10. ASSUME Draw PROVE LabelInv'
  <2>1. /\ ReshapeIfDirty /\ queued' = FALSE
        /\ current' = IF "lines" \in LaidOut THEN LaidOut \cup {"drawing"} ELSE LaidOut
        /\ UNCHANGED <<familyVars, base_font, is_empty, caseVars>>
    BY <1>10 DEF Draw
  <2>2. LabelTypeOK'
    BY <2>1, ReshapeIfDirtyOK DEF LabelTypeOK, Views
  <2>3. ShowsWhatItHas(valid', lines_dirty', LaidOut) =>
            ShowsWhatItHas(valid', lines_dirty', current')
    BY <2>1 DEF ShowsWhatItHas
  <2> QED BY <2>1, <2>2, <2>3, ReshapeIfDirtyOK, RelaidOK DEF InCase
<1>11. ASSUME UNCHANGED vars PROVE LabelInv'
  <2>1. UNCHANGED familyVars /\ UNCHANGED labelVars
    BY <1>11 DEF vars
  <2>2. LabelTypeOK'
    BY <2>1 DEF LabelTypeOK, labelVars
  <2> QED BY <2>1, <2>2, RelaidOK DEF labelVars, InCase
<1> QED BY <1>1, <1>2, <1>3, <1>4, <1>5, <1>6, <1>7, <1>8, <1>9, <1>10, <1>11 DEF Next

LEMMA LabelInvHolds == Spec => []LabelInv
<1>1. Init => LabelInv
  BY LabelInitOK
<1>2. LabelInv /\ [Next]_vars => LabelInv'
  BY LabelNextOK
<1> QED BY <1>1, <1>2, PTL DEF Spec

(* The label and its family keep their types, and a string has clusters    *)
(* for a text only, however many styles, tags and faces there are.         *)
THEOREM TypeCorrect == Spec => []TypeOK
<1>1. LabelInv => TypeOK
  BY FamilyIsTyped DEF LabelInv, LabelTypeOK, TypeOK
<1> QED BY <1>1, LabelInvHolds, PTL

(* Whatever is added, removed or replaced, with counts that are too low    *)
(* and with counts of -1: the family never listens to a face it does not   *)
(* have (_dec_ref disconnects), and a face it has without listening to it  *)
(* is one whose count is wrong.                                            *)
THEOREM SubscriptionsStayExact == Spec => []SubscriptionsAreExact
<1>1. LabelInv => SubscriptionsAreExact
  BY SubscriptionsHold DEF LabelInv
<1> QED BY <1>1, LabelInvHolds, PTL

(* As long as the family listens to its faces and the text is in the case  *)
(* the label is set to, the clusters and the lines a label has (valid,     *)
(* _lines_dirty) are those of what it is to show now.                      *)
THEOREM CachesStayCurrent == Spec => []CachesAreCurrent
<1>1. LabelInv => CachesAreCurrent
  BY DEF LabelInv, CachesInv, ShowsWhatItHas, CachesAreCurrent
<1> QED BY <1>1, LabelInvHolds, PTL
=============================================================================
