----------------------- MODULE AttributedStringProofs -----------------------
(***************************************************************************)
(* Theorems about AttributedString, and Paragraph above it, for every set  *)
(* of attributes, values and inserted strings and for texts of every       *)
(* length.  Those about the string rest on TypeOK; VisualShowsTheRuns and  *)
(* the lines of a paragraph need an induction of their own.  The lemmas    *)
(* before them are about At: the code's maps may hold redundant or split   *)
(* runs, and what a caller can observe is the value at each position.      *)
(***************************************************************************)
EXTENDS Paragraph, TLAPS, WellFoundedInduction, FiniteSetTheorems

-----------------------------------------------------------------------------
(* Least and greatest elements of sets of naturals.  The library states    *)
(* well-foundedness of the strict subset ordering; initial segments of the *)
(* naturals carry it over to their order.                                  *)

(* A set of naturals that is not empty has a least element.                *)
LEMMA NatMin ==
    ASSUME NEW T, T \subseteq Nat, T # {}
    PROVE  \E x \in T : \A y \in T : x <= y
<1> DEFINE U == {0 .. x : x \in T}
           R == StrictSubsetOrdering(Nat)
<1>1. U \subseteq FiniteSubsetsOf(Nat) /\ U # {}
  <2>1. \A x \in T : IsFiniteSet(0 .. x)
    BY FS_Interval
  <2>2. \A x \in T : 0 .. x \in SUBSET Nat
    OBVIOUS
  <2> QED BY <2>1, <2>2 DEF FiniteSubsetsOf
<1>2. \E X \in U : \A Y \in U : ~ (<<Y, X>> \in R)
  <2> HIDE DEF U
  <2> QED BY <1>1, WFMin, FS_StrictSubsetOrderingWellFounded
<1>3. PICK x \in T : \A y \in T : ~ (<<0 .. y, 0 .. x>> \in R)
  BY <1>2
<1>4. ASSUME NEW y \in T, y < x PROVE FALSE
  <2>1. x \in 0 .. x /\ x \notin 0 .. y
    BY <1>4
  <2>2. <<0 .. y, 0 .. x>> \in R
    BY <2>1, <1>4 DEF StrictSubsetOrdering
  <2> QED BY <2>2, <1>3
<1> QED BY <1>4

(* A set of naturals that is bounded and not empty has a greatest element. *)
LEMMA NatMax ==
    ASSUME NEW T, T \subseteq Nat, T # {}, NEW p \in Int, \A x \in T : x <= p
    PROVE  \E x \in T : \A y \in T : y <= x
<1> DEFINE U == {n \in Nat : p - n \in T}
<1>1. \A y \in T : p - y \in U
  OBVIOUS
<1>2. PICK n \in U : \A i \in U : n <= i
  <2>1. U \subseteq Nat /\ U # {}
    BY <1>1
  <2> HIDE DEF U
  <2> QED BY <2>1, NatMin
<1>3. p - n \in T /\ \A y \in T : y <= p - n
  BY <1>1, <1>2
<1> QED BY <1>3

-----------------------------------------------------------------------------
(* Reading a run map.                                                      *)

(* find_closest finds the greatest key at or below the position.           *)
LEMMA ClosestIsGreatest ==
    ASSUME NEW m, IsRunMap(m), NEW p \in Int, HasRun(m, p)
    PROVE  /\ Closest(m, p) \in DOMAIN m
           /\ Closest(m, p) \in Nat
           /\ Closest(m, p) <= p
           /\ \A j \in DOMAIN m : j <= p => j <= Closest(m, p)
<1>1. KeysUpTo(m, p) \subseteq Nat
  BY DEF IsRunMap, KeysUpTo
<1>2. \E k \in KeysUpTo(m, p) : \A j \in KeysUpTo(m, p) : j <= k
  <2>1. \A k \in KeysUpTo(m, p) : k <= p
    BY DEF KeysUpTo
  <2> QED BY <1>1, <2>1, NatMax DEF HasRun
<1>3. /\ Closest(m, p) \in KeysUpTo(m, p)
      /\ \A j \in KeysUpTo(m, p) : j <= Closest(m, p)
  BY <1>2 DEF Closest
<1> QED BY <1>1, <1>3 DEF KeysUpTo

(* A key with no other key between it and the position is the one in force. *)
LEMMA AtKey ==
    ASSUME NEW m, IsRunMap(m), NEW p \in Int, NEW k \in DOMAIN m, k <= p,
           \A j \in DOMAIN m : j <= p => j <= k
    PROVE  HasRun(m, p) /\ Closest(m, p) = k /\ At(m, p) = m[k]
<1>1. HasRun(m, p)
  BY DEF HasRun, KeysUpTo
<1>2. Closest(m, p) = k
  BY <1>1, ClosestIsGreatest DEF IsRunMap
<1> QED BY <1>1, <1>2 DEF At

(* Positions with the same keys below them have the same attributes.       *)
LEMMA AtSameKeys ==
    ASSUME NEW m, NEW p, NEW q, KeysUpTo(m, p) = KeysUpTo(m, q)
    PROVE  At(m, p) = At(m, q)
BY DEF At, HasRun, Closest

(* What is read at a position is a run.                                    *)
LEMMA AtType ==
    ASSUME NEW m, IsRunMap(m), NEW p \in Int
    PROVE  At(m, p) \in Run
<1>1. NoAttrs \in Run
  BY DEF NoAttrs, Run
<1>2. CASE HasRun(m, p)
  BY <1>2, ClosestIsGreatest DEF At, IsRunMap
<1>3. CASE ~HasRun(m, p)
  BY <1>1, <1>3 DEF At
<1> QED BY <1>2, <1>3

-----------------------------------------------------------------------------
(* _ensure_break changes no attribute.                                     *)
LEMMA EnsureBreakKeeps ==
    ASSUME NEW m, IsRunMap(m), NEW q \in Nat
    PROVE  /\ IsRunMap(EnsureBreak(m, q))
           /\ DOMAIN EnsureBreak(m, q) = DOMAIN m \cup {q}
           /\ \A p \in Int : At(EnsureBreak(m, q), p) = At(m, p)
<1> DEFINE b == EnsureBreak(m, q)
<1>1. DOMAIN b = DOMAIN m \cup {q}
  BY DEF EnsureBreak
<1>2. IsRunMap(b)
  BY AtType DEF EnsureBreak, IsRunMap
<1>3. \A k \in DOMAIN b : b[k] = IF k = q THEN At(m, q) ELSE m[k]
  BY DEF EnsureBreak
<1> HIDE DEF b
<1>4. ASSUME NEW p \in Int PROVE At(b, p) = At(m, p)
  <2>1. CASE HasRun(b, p)
    <3> DEFINE k == Closest(b, p)
    <3>1. /\ k \in DOMAIN b /\ k \in Nat /\ k <= p
          /\ \A j \in DOMAIN b : j <= p => j <= k
      BY <1>2, <2>1, ClosestIsGreatest
    <3>2. At(b, p) = b[k]
      BY <2>1 DEF At
    <3> HIDE DEF k
    <3>3. CASE k = q
      <4>1. KeysUpTo(m, p) = KeysUpTo(m, q)
        BY <1>1, <3>1, <3>3 DEF KeysUpTo, IsRunMap
      <4>2. At(m, p) = At(m, q)
        BY <4>1, AtSameKeys
      <4> QED BY <1>3, <3>1, <3>2, <3>3, <4>2
    <3>4. CASE k # q
      <4>1. k \in DOMAIN m /\ \A j \in DOMAIN m : j <= p => j <= k
        BY <1>1, <3>1, <3>4
      <4>2. At(m, p) = m[k]
        BY <4>1, <3>1, AtKey
      <4> QED BY <1>3, <3>1, <3>2, <3>4, <4>2
    <3> QED BY <3>3, <3>4
  <2>2. CASE ~HasRun(b, p)
    <3>1. ~HasRun(m, p)
      BY <1>1, <2>2 DEF HasRun, KeysUpTo
    <3> QED BY <2>2, <3>1 DEF At
  <2> QED BY <2>1, <2>2
<1> QED BY <1>1, <1>2, <1>4 DEF b

(* The same for the two breaks an edit of s..e-1 asks for: both ends are   *)
(* keys, except an end at or behind the end of the text.                   *)
LEMMA EnsureBreaksKeep ==
    ASSUME NEW m, IsRunMap(m), NEW s \in Nat, NEW e \in Nat, NEW size \in Nat
    PROVE  LET b == EnsureBreaks(m, s, e, size) IN
           /\ IsRunMap(b)
           /\ s \in DOMAIN b
           /\ e < size => e \in DOMAIN b
           /\ \A p \in Int : At(b, p) = At(m, p)
<1> DEFINE c == EnsureBreak(m, s)
<1>1. IsRunMap(c) /\ DOMAIN c = DOMAIN m \cup {s} /\ \A p \in Int : At(c, p) = At(m, p)
  BY EnsureBreakKeeps
<1> HIDE DEF c
<1>2. /\ IsRunMap(EnsureBreak(c, e))
      /\ DOMAIN EnsureBreak(c, e) = DOMAIN c \cup {e}
      /\ \A p \in Int : At(EnsureBreak(c, e), p) = At(c, p)
  BY <1>1, EnsureBreakKeeps
<1> QED BY <1>1, <1>2 DEF EnsureBreaks, c

(* _optimize_attributes changes no attribute.  Take the first position     *)
(* that reads differently: its run was erased, so it equals the run in     *)
(* force just before it, and that position still reads the same.           *)
LEMMA OptimizeKeeps ==
    ASSUME NEW m, IsRunMap(m)
    PROVE  IsRunMap(Optimize(m)) /\ \A p \in Nat : At(Optimize(m), p) = At(m, p)
<1> DEFINE o == Optimize(m)
           Differs == {p \in Nat : At(o, p) # At(m, p)}
<1>1. DOMAIN o = {j \in DOMAIN m : ~Redundant(m, j)} /\ \A k \in DOMAIN o : o[k] = m[k]
  BY DEF Optimize
<1>2. IsRunMap(o)
  BY DEF Optimize, IsRunMap
<1> HIDE DEF o
<1>3. ASSUME Differs # {} PROVE FALSE
  <2>1. PICK p \in Differs : \A q \in Differs : p <= q
    BY <1>3, NatMin
  <2>2. p \in Nat /\ At(o, p) # At(m, p)
    OBVIOUS
  <2>3. \A q \in Nat : q < p => At(o, q) = At(m, q)
    BY <2>1
  <2> HIDE DEF Differs
  <2>4. CASE HasRun(m, p)
    <3> DEFINE k == Closest(m, p)
    <3>1. /\ k \in DOMAIN m /\ k \in Nat /\ k <= p
          /\ \A j \in DOMAIN m : j <= p => j <= k
      BY <2>2, <2>4, ClosestIsGreatest
    <3>2. At(m, p) = m[k]
      BY <2>4 DEF At
    <3> HIDE DEF k
    <3>3. CASE ~Redundant(m, k)
      <4>1. k \in DOMAIN o /\ \A j \in DOMAIN o : j <= p => j <= k
        BY <1>1, <3>1, <3>3
      <4>2. At(o, p) = o[k]
        BY <1>2, <2>2, <3>1, <4>1, AtKey
      <4> QED BY <1>1, <2>2, <3>2, <4>1, <4>2
    <3>4. CASE Redundant(m, k)
      <4>1. HasRun(m, k - 1) /\ At(m, k - 1) = m[k]
        BY <3>4 DEF Redundant
      <4>2. k - 1 \in Nat
        BY <3>1, <4>1 DEF HasRun, KeysUpTo, IsRunMap
      <4>3. KeysUpTo(o, p) = KeysUpTo(o, k - 1)
        BY <1>1, <1>2, <2>2, <3>1, <3>4 DEF KeysUpTo, IsRunMap
      <4>4. At(o, p) = At(o, k - 1)
        BY <4>3, AtSameKeys
      <4>5. At(o, k - 1) = At(m, k - 1)
        BY <2>2, <2>3, <3>1, <4>2
      <4> QED BY <2>2, <3>2, <4>1, <4>4, <4>5
    <3> QED BY <3>3, <3>4
  <2>5. CASE ~HasRun(m, p)
    <3>1. ~HasRun(o, p)
      BY <1>1, <2>5 DEF HasRun, KeysUpTo
    <3> QED BY <2>2, <2>5, <3>1 DEF At
  <2> QED BY <2>4, <2>5
<1> QED BY <1>2, <1>3 DEF o

(* Overwriting attributes of covered runs shows at the positions whose run *)
(* is covered.                                                             *)
LEMMA OverwriteAt ==
    ASSUME NEW m, IsRunMap(m), NEW covered, NEW names, NEW v,
           v \in Values \/ v = Unset
    PROVE  /\ IsRunMap(Overwrite(m, covered, names, v))
           /\ \A p \in Int :
                 At(Overwrite(m, covered, names, v), p) =
                    IF HasRun(m, p) /\ Closest(m, p) \in covered
                    THEN Overwritten(At(m, p), names, v)
                    ELSE At(m, p)
<1> DEFINE w == Overwrite(m, covered, names, v)
<1>1. DOMAIN w = DOMAIN m
  BY DEF Overwrite
<1>2. \A k \in DOMAIN m :
         w[k] = IF k \in covered THEN Overwritten(m[k], names, v) ELSE m[k]
  BY DEF Overwrite
<1>3. IsRunMap(w)
  <2>1. \A k \in DOMAIN m : m[k] \in Run
    BY DEF IsRunMap
  <2>2. \A k \in DOMAIN m : Overwritten(m[k], names, v) \in Run
    BY <2>1 DEF Run, Overwritten
  <2>3. \A k \in DOMAIN m : w[k] \in Run
    BY <1>2, <2>1, <2>2
  <2>4. w \in [DOMAIN m -> Run]
    <3>1. w = [k \in DOMAIN m |-> w[k]]
      BY DEF Overwrite
    <3> HIDE DEF w
    <3> QED BY <2>3, <3>1
  <2> HIDE DEF w
  <2> QED BY <1>1, <2>4 DEF IsRunMap
<1> HIDE DEF w
<1>4. ASSUME NEW p \in Int, HasRun(m, p)
      PROVE  At(w, p) = w[Closest(m, p)]
  BY <1>1, <1>3, <1>4, AtKey, ClosestIsGreatest
<1>5. ASSUME NEW p \in Int, ~HasRun(m, p)
      PROVE  At(w, p) = At(m, p)
  BY <1>1, <1>5 DEF At, HasRun, KeysUpTo
<1>6. \A p \in Int : HasRun(m, p) => Closest(m, p) \in DOMAIN m /\ At(m, p) = m[Closest(m, p)]
  BY ClosestIsGreatest DEF At
<1> QED BY <1>2, <1>3, <1>4, <1>5, <1>6 DEF w

-----------------------------------------------------------------------------
(* Edits of the text.                                                      *)

(* Two maps that agree on the keys below two positions read the same there. *)
LEMMA AtSameRuns ==
    ASSUME NEW m, IsRunMap(m), NEW q \in Int, NEW n, NEW p,
           KeysUpTo(n, p) = KeysUpTo(m, q),
           \A k \in KeysUpTo(m, q) : n[k] = m[k]
    PROVE  At(n, p) = At(m, q)
<1>1. HasRun(n, p) = HasRun(m, q) /\ Closest(n, p) = Closest(m, q)
  BY DEF HasRun, Closest
<1>2. HasRun(m, q) => Closest(m, q) \in KeysUpTo(m, q)
  BY ClosestIsGreatest DEF KeysUpTo
<1> QED BY <1>1, <1>2 DEF At

(* Splicing yields a run map as long as no key moves below zero.           *)
LEMMA SpliceType ==
    ASSUME NEW m, IsRunMap(m), NEW s \in Int, NEW e \in Int, NEW d \in Int,
           \A k \in KeysBehind(m, e) : k + d >= 0
    PROVE  IsRunMap(Splice(m, s, e, d))
<1>1. DOMAIN Splice(m, s, e, d) = KeysUpTo(m, s) \cup {j + d : j \in KeysBehind(m, e)}
  BY DEF Splice
<1>2. DOMAIN Splice(m, s, e, d) \subseteq Nat
  BY <1>1 DEF IsRunMap, KeysUpTo, KeysBehind
<1>3. ASSUME NEW k \in DOMAIN Splice(m, s, e, d)
      PROVE  (IF k - d \in KeysBehind(m, e) THEN m[k - d] ELSE m[k]) \in Run
  <2>1. CASE k - d \in KeysBehind(m, e)
    BY <2>1 DEF IsRunMap, KeysBehind
  <2>2. CASE k - d \notin KeysBehind(m, e)
    <3>1. \A j \in KeysBehind(m, e) : j \in Int /\ (j + d) - d = j
      BY DEF KeysBehind, IsRunMap
    <3>2. k \in KeysUpTo(m, s)
      BY <1>1, <1>3, <2>2, <3>1
    <3> QED BY <2>2, <3>2 DEF IsRunMap, KeysUpTo
  <2> QED BY <2>1, <2>2
<1>4. Splice(m, s, e, d) \in [DOMAIN Splice(m, s, e, d) -> Run]
  BY <1>1, <1>3 DEF Splice
<1> QED BY <1>2, <1>4 DEF IsRunMap

(* What replacing s..e-1 does to the attributes, the text behind it moving *)
(* by d: those in front stay, the new text takes those at s, and a unit    *)
(* behind keeps its own or takes those at s; it keeps its own when nothing *)
(* was replaced.                                                           *)
LEMMA SpliceAt ==
    ASSUME NEW m, IsRunMap(m), NEW s \in Nat, NEW e \in Nat, s <= e,
           NEW d \in Int, s <= e + d
    PROVE  /\ IsRunMap(Splice(m, s, e, d))
           /\ \A p \in Int : p < s => At(Splice(m, s, e, d), p) = At(m, p)
           /\ \A p \in s .. e + d - 1 : At(Splice(m, s, e, d), p) = At(m, s)
           /\ \A p \in Int : p >= e => At(Splice(m, s, e, d), p + d) \in {At(m, p), At(m, s)}
           /\ \A p \in Int : p >= e /\ s = e => At(Splice(m, s, e, d), p + d) = At(m, p)
<1> DEFINE new == Splice(m, s, e, d)
<1>1. IsRunMap(new)
  <2>1. \A k \in KeysBehind(m, e) : k + d >= 0
    BY DEF KeysBehind, IsRunMap
  <2> QED BY <2>1, SpliceType
<1>2. DOMAIN new = KeysUpTo(m, s) \cup {j + d : j \in KeysBehind(m, e)}
  BY DEF Splice
<1>3. \A k \in DOMAIN new : new[k] = IF k - d \in KeysBehind(m, e) THEN m[k - d] ELSE m[k]
  BY DEF Splice
<1>4. \A k \in DOMAIN m : k \in Nat
  BY DEF IsRunMap
<1> HIDE DEF new
<1>5. ASSUME NEW k \in DOMAIN new, k < e + d
      PROVE  k \in KeysUpTo(m, s) /\ new[k] = m[k]
  <2>1. \A j \in KeysBehind(m, e) : j + d >= e + d
    BY <1>4 DEF KeysBehind
  <2>2. k \in KeysUpTo(m, s)
    BY <1>2, <1>4, <1>5, <2>1 DEF KeysBehind
  <2>3. k \in Nat
    BY <1>4, <2>2 DEF KeysUpTo
  <2>4. k - d \notin KeysBehind(m, e)
    BY <1>5, <2>3 DEF KeysBehind
  <2> QED BY <1>3, <2>2, <2>4
<1>6. ASSUME NEW p \in Int, p < s PROVE At(new, p) = At(m, p)
  <2>1. KeysUpTo(new, p) = KeysUpTo(m, p)
    BY <1>1, <1>2, <1>4, <1>5, <1>6 DEF KeysUpTo, IsRunMap
  <2>2. \A k \in KeysUpTo(m, p) : new[k] = m[k]
    BY <1>4, <1>5, <1>6, <2>1 DEF KeysUpTo
  <2> QED BY <2>1, <2>2, AtSameRuns
<1>7. ASSUME NEW p \in s .. e + d - 1 PROVE At(new, p) = At(m, s)
  <2>1. KeysUpTo(new, p) = KeysUpTo(m, s)
    BY <1>1, <1>2, <1>4, <1>5, <1>7 DEF KeysUpTo, IsRunMap
  <2>2. \A k \in KeysUpTo(m, s) : new[k] = m[k]
    BY <1>4, <1>5, <1>7, <2>1 DEF KeysUpTo
  <2> QED BY <2>1, <2>2, AtSameRuns
<1>8. ASSUME NEW p \in Int, p >= e, NEW j \in DOMAIN m, e <= j, j <= p
      PROVE  At(new, p + d) = At(m, p)
  <2> DEFINE k == Closest(m, p)
  <2>1. HasRun(m, p)
    BY <1>8 DEF HasRun, KeysUpTo
  <2>2. /\ k \in DOMAIN m /\ k \in Nat /\ k <= p
        /\ \A i \in DOMAIN m : i <= p => i <= k
    BY <2>1, ClosestIsGreatest
  <2>3. At(m, p) = m[k]
    BY <2>1 DEF At
  <2> HIDE DEF k
  <2>4. k \in KeysBehind(m, e)
    BY <1>4, <1>8, <2>2 DEF KeysBehind
  <2>5. k + d \in DOMAIN new /\ k + d <= p + d /\ (k + d) - d = k
    BY <1>2, <2>2, <2>4
  <2>6. new[k + d] = m[k]
    BY <1>3, <2>4, <2>5
  <2>7. ASSUME NEW i \in DOMAIN new, i <= p + d PROVE i <= k + d
    <3>1. CASE i \in KeysUpTo(m, s)
      BY <1>4, <2>2, <2>4, <3>1 DEF KeysUpTo, KeysBehind
    <3>2. CASE i \in {h + d : h \in KeysBehind(m, e)}
      <4>1. PICK h \in DOMAIN m : i = h + d
        BY <3>2 DEF KeysBehind
      <4>2. h \in Nat /\ h <= p
        BY <1>4, <2>7, <4>1
      <4> QED BY <2>2, <4>1, <4>2
    <3> QED BY <1>2, <3>1, <3>2
  <2>8. At(new, p + d) = new[k + d]
    BY <1>1, <2>2, <2>5, <2>7, AtKey
  <2> QED BY <2>3, <2>6, <2>8
<1>9. ASSUME NEW p \in Int, p >= e, \A j \in DOMAIN m : ~(e <= j /\ j <= p)
      PROVE  At(new, p + d) = At(m, s) /\ (s = e => At(m, s) = At(m, p))
  <2>1. \A k \in KeysUpTo(m, s) : k \in DOMAIN new /\ k <= p + d /\ new[k] = m[k]
    <3>1. \A k \in KeysUpTo(m, s) : k \in Nat /\ k <= s /\ k \in DOMAIN new
      BY <1>2, <1>4 DEF KeysUpTo
    <3>2. \A k \in Nat : k <= s => k <= p + d /\ k - d <= p
      BY <1>9
    <3>3. \A k \in Nat : k <= s => k - d \notin KeysBehind(m, e)
      BY <1>9, <3>2 DEF KeysBehind
    <3> QED BY <1>3, <3>1, <3>2, <3>3
  <2>2. ASSUME NEW k \in DOMAIN new, k <= p + d PROVE k \in KeysUpTo(m, s)
    <3>1. ASSUME NEW h \in KeysBehind(m, e), k = h + d PROVE FALSE
      BY <1>4, <1>9, <2>2, <3>1 DEF KeysBehind
    <3> QED BY <1>2, <3>1
  <2>3. KeysUpTo(new, p + d) = KeysUpTo(m, s)
    BY <2>1, <2>2 DEF KeysUpTo
  <2>4. At(new, p + d) = At(m, s)
    BY <2>1, <2>3, AtSameRuns
  <2>5. ASSUME s = e PROVE KeysUpTo(m, s) = KeysUpTo(m, p)
    BY <1>4, <1>9, <2>5 DEF KeysUpTo
  <2> QED BY <2>4, <2>5, AtSameKeys
<1> QED BY <1>1, <1>6, <1>7, <1>8, <1>9 DEF new

(* The facts about Splice one at a time.                                   *)
LEMMA SpliceBefore ==
    ASSUME NEW m, IsRunMap(m), NEW s \in Nat, NEW e \in Nat, s <= e,
           NEW d \in Int, s <= e + d, NEW p \in Int, p < s
    PROVE  At(Splice(m, s, e, d), p) = At(m, p)
BY SpliceAt

LEMMA SpliceInside ==
    ASSUME NEW m, IsRunMap(m), NEW s \in Nat, NEW e \in Nat, s <= e,
           NEW d \in Int, s <= e + d, NEW p \in s .. e + d - 1
    PROVE  At(Splice(m, s, e, d), p) = At(m, s)
BY SpliceAt

LEMMA SpliceBehind ==
    ASSUME NEW m, IsRunMap(m), NEW s \in Nat, NEW e \in Nat, s <= e,
           NEW d \in Int, s <= e + d, NEW p \in Int, p >= e
    PROVE  /\ At(Splice(m, s, e, d), p + d) \in {At(m, p), At(m, s)}
           /\ s = e => At(Splice(m, s, e, d), p + d) = At(m, p)
<1>1. \A q \in Int : q >= e => At(Splice(m, s, e, d), q + d) \in {At(m, q), At(m, s)}
  BY SpliceAt
<1>2. \A q \in Int : q >= e /\ s = e => At(Splice(m, s, e, d), q + d) = At(m, q)
  BY SpliceAt
<1> QED BY <1>1, <1>2

(* Overlaying the runs of another string at a position of the text yields  *)
(* a run map.                                                              *)
LEMMA OverlayType ==
    ASSUME NEW m, IsRunMap(m), NEW n, IsRunMap(n), NEW d \in Nat
    PROVE  IsRunMap(Overlay(m, n, d))
<1>1. DOMAIN Overlay(m, n, d) = DOMAIN m \cup {j + d : j \in DOMAIN n}
  BY DEF Overlay
<1>2. DOMAIN Overlay(m, n, d) \subseteq Nat
  BY <1>1 DEF IsRunMap
<1>3. ASSUME NEW k \in DOMAIN Overlay(m, n, d)
      PROVE  (IF k - d \in DOMAIN n THEN n[k - d] ELSE m[k]) \in Run
  <2>1. \A j \in DOMAIN n : j \in Nat /\ (j + d) - d = j
    BY DEF IsRunMap
  <2>2. k - d \in DOMAIN n \/ k \in DOMAIN m
    BY <1>1, <1>3, <2>1
  <2> QED BY <2>2 DEF IsRunMap
<1>4. Overlay(m, n, d) \in [DOMAIN Overlay(m, n, d) -> Run]
  BY <1>1, <1>3 DEF Overlay
<1> QED BY <1>2, <1>4 DEF IsRunMap

(* A substring whose start is covered by a run reads like the whole.       *)
LEMMA ExtractAt ==
    ASSUME NEW m, IsRunMap(m), NEW s \in Nat, NEW e \in Nat, HasRun(m, s),
           NEW p \in 0 .. e - s - 1
    PROVE  At(Extract(m, s, e), p) = At(m, p + s)
<1> DEFINE x == Extract(m, s, e)
           c == Closest(m, s)
           k == Closest(m, p + s)
           keys == {j \in DOMAIN m : j >= c /\ j < e}
<1>1. /\ c \in DOMAIN m /\ c \in Nat /\ c <= s
      /\ \A j \in DOMAIN m : j <= s => j <= c
  BY ClosestIsGreatest
<1>2. At(m, s) = m[c]
  BY DEF At
<1>3. HasRun(m, p + s)
  BY <1>1 DEF HasRun, KeysUpTo
<1>4. /\ k \in DOMAIN m /\ k \in Nat /\ k <= p + s
      /\ \A j \in DOMAIN m : j <= p + s => j <= k
  BY <1>3, ClosestIsGreatest
<1>5. At(m, p + s) = m[k]
  BY <1>3 DEF At
<1>6. DOMAIN x = {IF j > s THEN j - s ELSE 0 : j \in keys}
  BY DEF Extract
<1>7. \A i \in DOMAIN x : x[i] = At(m, i + s)
  BY DEF Extract
<1>8. \A j \in DOMAIN m : j \in Nat
  BY DEF IsRunMap
<1>9. IsRunMap(x)
  <2>1. DOMAIN x \subseteq Nat
    BY <1>6, <1>8
  <2>2. \A i \in DOMAIN x : At(m, i + s) \in Run
    BY <2>1, AtType
  <2>3. x = [i \in DOMAIN x |-> At(m, i + s)]
    BY DEF Extract
  <2> HIDE DEF x
  <2> QED BY <2>1, <2>2, <2>3 DEF IsRunMap
<1> HIDE DEF x, c, k
<1>10. CASE k > s
  <2>1. k \in keys
    BY <1>1, <1>4, <1>10
  <2>2. k - s \in DOMAIN x
    BY <1>6, <1>10, <2>1
  <2>3. \A i \in DOMAIN x : i <= p => i <= k - s
    BY <1>4, <1>6, <1>8, <1>10
  <2>4. At(x, p) = x[k - s]
    BY <1>4, <1>9, <2>2, <2>3, AtKey
  <2>5. At(m, k) = m[k]
    BY <1>4, AtKey
  <2>6. x[k - s] = At(m, k)
    <3>1. (k - s) + s = k
      BY <1>4
    <3> QED BY <1>7, <2>2, <3>1
  <2> QED BY <1>5, <2>4, <2>5, <2>6 DEF x
<1>11. CASE k <= s
  <2>1. k = c
    BY <1>1, <1>4, <1>11
  <2>2. c \in keys
    BY <1>1
  <2>3. 0 \in DOMAIN x
    BY <1>1, <1>6, <2>2
  <2>4. \A i \in DOMAIN x : i <= p => i <= 0
    BY <1>4, <1>6, <1>8, <1>11
  <2>5. At(x, p) = x[0]
    BY <1>9, <2>3, <2>4, AtKey
  <2>6. x[0] = At(m, s)
    BY <1>7, <2>3
  <2> QED BY <1>2, <1>5, <2>1, <2>5, <2>6 DEF x
<1> QED BY <1>4, <1>10, <1>11 DEF x

-----------------------------------------------------------------------------
(* The operations of AttributedString.                                     *)

(* add_attribute: break, overwrite, optimize.                              *)
LEMMA WithAttributeAt ==
    ASSUME data_size \in Nat, NEW m, IsRunMap(m), NEW a \in Attrs, NEW v \in Values,
           NEW s \in Nat, NEW e \in Nat, s <= e, e <= data_size
    PROVE  /\ IsRunMap(WithAttribute(m, a, v, s, e))
           /\ \A p \in Positions :
                At(WithAttribute(m, a, v, s, e), p) =
                    IF s <= p /\ p < e THEN [At(m, p) EXCEPT ![a] = v] ELSE At(m, p)
<1> DEFINE z == EnsureBreak(m, 0)
           b == EnsureBreaks(z, s, e, data_size)
           c == Covered(b, a, s, e)
           w == Overwrite(b, c, {a}, v)
<1>1. WithAttribute(m, a, v, s, e) = Optimize(w)
  BY DEF WithAttribute
<1>2. IsRunMap(z) /\ \A p \in Int : At(z, p) = At(m, p)
  BY EnsureBreakKeeps
<1> HIDE DEF z
<1>3. /\ IsRunMap(b)
      /\ s \in DOMAIN b
      /\ e < data_size => e \in DOMAIN b
      /\ \A p \in Int : At(b, p) = At(m, p)
  BY <1>2, EnsureBreaksKeep
<1> HIDE DEF b
<1>4. /\ IsRunMap(w)
      /\ \A p \in Int : At(w, p) = IF HasRun(b, p) /\ Closest(b, p) \in c
                                   THEN Overwritten(At(b, p), {a}, v)
                                   ELSE At(b, p)
  <2> HIDE DEF c
  <2> QED BY <1>3, OverwriteAt
<1> HIDE DEF w
<1>5. IsRunMap(Optimize(w)) /\ \A p \in Nat : At(Optimize(w), p) = At(w, p)
  BY <1>4, OptimizeKeeps
<1>6. ASSUME NEW p \in Positions
      PROVE  (HasRun(b, p) /\ Closest(b, p) \in c) <=> (s <= p /\ p < e)
  <2>1. p \in Nat /\ p < data_size
    BY DEF Positions
  <2>2. ASSUME s <= p PROVE HasRun(b, p)
    BY <1>3, <2>2 DEF HasRun, KeysUpTo
  <2>3. ASSUME HasRun(b, p)
        PROVE  /\ Closest(b, p) \in DOMAIN b
               /\ Closest(b, p) \in Nat
               /\ Closest(b, p) <= p
               /\ \A j \in DOMAIN b : j <= p => j <= Closest(b, p)
    BY <1>3, <2>1, <2>3, ClosestIsGreatest
  <2>4. CASE s <= p /\ p < e
    BY <1>3, <2>1, <2>2, <2>3, <2>4 DEF Covered
  <2>5. CASE p < s
    BY <2>1, <2>3, <2>5 DEF Covered
  <2>6. CASE s <= p /\ e <= p
    BY <1>3, <2>1, <2>2, <2>3, <2>6 DEF Covered
  <2> QED BY <2>1, <2>4, <2>5, <2>6
<1>7. \A p \in Positions : p \in Nat /\ p \in Int
  BY DEF Positions
<1>8. \A p \in Positions :
         Overwritten(At(m, p), {a}, v) = [At(m, p) EXCEPT ![a] = v]
  <2>1. \A p \in Positions : At(m, p) \in [Attrs -> Values \cup {Unset}]
    BY <1>7, AtType DEF Run
  <2> QED BY <2>1 DEF Overwritten
<1> QED BY <1>1, <1>3, <1>4, <1>5, <1>6, <1>7, <1>8

(* remove_attribute and remove_attributes: break, overwrite, optimize.     *)
LEMMA WithoutAttributesAt ==
    ASSUME data_size \in Nat, NEW m, IsRunMap(m), NEW names,
           NEW s \in Nat, NEW e \in Nat, s <= e, e <= data_size
    PROVE  /\ IsRunMap(WithoutAttributes(m, names, s, e))
           /\ \A p \in Positions : \A a \in Attrs :
                At(WithoutAttributes(m, names, s, e), p)[a] =
                    IF s <= p /\ p < e /\ a \in names THEN Unset ELSE At(m, p)[a]
<1> DEFINE b == EnsureBreaks(m, s, e, data_size)
           c == {k \in DOMAIN b : s <= k /\ k < e}
           w == Overwrite(b, c, names, Unset)
<1>1. WithoutAttributes(m, names, s, e) = Optimize(w)
  BY DEF WithoutAttributes
<1>2. /\ IsRunMap(b)
      /\ s \in DOMAIN b
      /\ e < data_size => e \in DOMAIN b
      /\ \A p \in Int : At(b, p) = At(m, p)
  BY EnsureBreaksKeep
<1> HIDE DEF b
<1>3. /\ IsRunMap(w)
      /\ \A p \in Int : At(w, p) = IF HasRun(b, p) /\ Closest(b, p) \in c
                                   THEN Overwritten(At(b, p), names, Unset)
                                   ELSE At(b, p)
  <2> HIDE DEF c
  <2>1. IsRunMap(w)
    BY <1>2, OverwriteAt
  <2>2. ASSUME NEW p \in Int
        PROVE  At(w, p) = IF HasRun(b, p) /\ Closest(b, p) \in c
                          THEN Overwritten(At(b, p), names, Unset)
                          ELSE At(b, p)
    <3>1. IsRunMap(b)
      BY <1>2
    <3> QED BY <3>1, OverwriteAt
  <2> QED BY <2>1, <2>2
<1> HIDE DEF w
<1>4. IsRunMap(Optimize(w)) /\ \A p \in Nat : At(Optimize(w), p) = At(w, p)
  BY <1>3, OptimizeKeeps
<1>5. ASSUME NEW p \in Positions
      PROVE  (HasRun(b, p) /\ Closest(b, p) \in c) <=> (s <= p /\ p < e)
  <2>1. p \in Nat /\ p < data_size
    BY DEF Positions
  <2>2. ASSUME s <= p PROVE HasRun(b, p)
    BY <1>2, <2>2 DEF HasRun, KeysUpTo
  <2>3. ASSUME HasRun(b, p)
        PROVE  /\ Closest(b, p) \in DOMAIN b
               /\ Closest(b, p) \in Nat
               /\ Closest(b, p) <= p
               /\ \A j \in DOMAIN b : j <= p => j <= Closest(b, p)
    BY <1>2, <2>1, <2>3, ClosestIsGreatest
  <2>4. CASE s <= p /\ p < e
    BY <1>2, <2>1, <2>2, <2>3, <2>4
  <2>5. CASE p < s
    BY <2>1, <2>3, <2>5
  <2>6. CASE s <= p /\ e <= p
    BY <1>2, <2>1, <2>2, <2>3, <2>6
  <2> QED BY <2>1, <2>4, <2>5, <2>6
<1>6. \A p \in Positions : p \in Nat /\ p \in Int
  BY DEF Positions
<1>7. ASSUME NEW p \in Positions
      PROVE  At(Optimize(w), p) = IF s <= p /\ p < e
                                  THEN Overwritten(At(m, p), names, Unset)
                                  ELSE At(m, p)
  BY <1>2, <1>3, <1>4, <1>5, <1>6
<1> QED BY <1>1, <1>4, <1>7 DEF Overwritten

-----------------------------------------------------------------------------
(* Shaping reads, at every position, some run of the map.                  *)
LEMMA ShapeScriptRunAt ==
    ASSUME NEW m, IsRunMap(m), NEW start \in Nat, NEW end \in Nat, NEW rtl \in BOOLEAN,
           NEW p \in start .. end - 1
    PROVE  /\ ShapeScriptRun(m, start, end, rtl)[p] \in Run
           /\ HasRun(m, 0) => ShapeScriptRun(m, start, end, rtl)[p] = At(m, p)
<1>1. ShapeScriptRun(m, start, end, rtl)[p] =
         IF rtl
         THEN IF HasRun(m, p) THEN At(m, p)
              ELSE IF HasRun(m, end - 1) THEN m[FirstKey(m)] ELSE NoAttrs
         ELSE IF HasRun(m, start) THEN At(m, p) ELSE NoAttrs
  BY DEF ShapeScriptRun
<1>2. At(m, p) \in Run /\ NoAttrs \in Run
  BY AtType DEF NoAttrs, Run
<1>3. HasRun(m, end - 1) => m[FirstKey(m)] \in Run
  <2>1. SUFFICES ASSUME HasRun(m, end - 1) PROVE m[FirstKey(m)] \in Run
    OBVIOUS
  <2>2. DOMAIN m \subseteq Nat /\ DOMAIN m # {}
    BY <2>1 DEF IsRunMap, HasRun, KeysUpTo
  <2>3. \E k \in DOMAIN m : \A j \in DOMAIN m : k <= j
    BY <2>2, NatMin
  <2>4. FirstKey(m) \in DOMAIN m
    BY <2>3 DEF FirstKey
  <2> QED BY <2>4 DEF IsRunMap
<1>4. HasRun(m, 0) => HasRun(m, p) /\ HasRun(m, start)
  BY DEF HasRun, KeysUpTo, IsRunMap
<1> QED BY <1>1, <1>2, <1>3, <1>4

(* A shaped text has a run for every character, and it is the declared one *)
(* when a run covers the first character.                                  *)
LEMMA ShapedWithAt ==
    ASSUME data_size \in Nat, NEW m, IsRunMap(m),
           NEW cuts \in SUBSET (1 .. data_size - 1), NEW rtl
    PROVE  /\ ShapedWith(m, cuts, rtl) \in [Positions -> Run]
           /\ HasRun(m, 0) => ShapedWith(m, cuts, rtl) = [p \in Positions |-> At(m, p)]
<1> DEFINE starts == cuts \cup {0}
           Start(p) == CHOOSE s \in starts : s <= p /\ \A t \in starts : t <= p => t <= s
           End(p) == CHOOSE e \in starts \cup {data_size} :
                       e > p /\ \A f \in starts \cup {data_size} : f > p => e <= f
           Piece(p) == ShapeScriptRun(m, Start(p), End(p), Start(p) \in rtl)[p]
<1>1. ShapedWith(m, cuts, rtl) = [p \in Positions |-> Piece(p)]
  BY DEF ShapedWith
<1> HIDE DEF Start, End, Piece
<1>2. ASSUME NEW p \in Positions
      PROVE  Start(p) \in Nat /\ End(p) \in Nat /\ p \in Start(p) .. End(p) - 1
  <2>0. p \in Nat /\ p < data_size /\ starts \subseteq Nat /\ 0 \in starts
    BY DEF Positions
  <2> HIDE DEF starts
  <2>1. \E s \in starts : s <= p /\ \A t \in starts : t <= p => t <= s
    <3> DEFINE T == {t \in starts : t <= p}
    <3>a. 0 \in T
      BY <2>0
    <3>1. T \subseteq Nat /\ T # {}
      BY <2>0, <3>a
    <3>b. \A t \in T : t <= p
      OBVIOUS
    <3>2. \E s \in T : \A t \in T : t <= s
      <4> HIDE DEF T
      <4>1. p \in Int
        BY <2>0
      <4> QED BY <3>1, <3>b, <4>1, NatMax, Zenon
    <3> QED BY <3>2
  <2>2. \E e \in starts \cup {data_size} :
           e > p /\ \A f \in starts \cup {data_size} : f > p => e <= f
    <3> DEFINE T == {f \in starts \cup {data_size} : f > p}
    <3>1. T \subseteq Nat /\ T # {}
      BY <2>0
    <3>2. \E e \in T : \A f \in T : e <= f
      <4> HIDE DEF T
      <4> QED BY <3>1, NatMin
    <3> QED BY <3>2
  <2>3. Start(p) \in starts /\ Start(p) <= p
    BY <2>1 DEF Start
  <2>4. End(p) \in starts \cup {data_size} /\ End(p) > p
    BY <2>2 DEF End
  <2>5. Start(p) \in Nat /\ End(p) \in Nat
    BY <2>0, <2>3, <2>4
  <2> QED BY <2>0, <2>3, <2>4, <2>5
<1>3. ASSUME NEW p \in Positions
      PROVE  Piece(p) \in Run /\ (HasRun(m, 0) => Piece(p) = At(m, p))
  <2>1. (Start(p) \in rtl) \in BOOLEAN
    OBVIOUS
  <2> QED BY ZenonT(30), <1>2, <2>1, ShapeScriptRunAt DEF Piece
<1> QED BY <1>1, <1>3

-----------------------------------------------------------------------------
(* Types.                                                                  *)

LEMMA NoRunsType == IsRunMap(NoRuns)
BY DEF NoRuns, IsRunMap

LEMMA RangeEndType ==
    ASSUME data_size \in Nat, NEW s \in Int, NEW e \in Int, ValidRange(s, RangeEnd(e))
    PROVE  s \in Nat /\ RangeEnd(e) \in Nat /\ s <= RangeEnd(e) /\ RangeEnd(e) <= data_size
BY DEF ValidRange, RangeEnd

(* An inserted string's runs fit behind the spliced ones.                  *)
LEMMA ReplaceSStringType ==
    ASSUME TypeOK, NEW s \in Int, NEW e \in Int, NEW src \in Sources,
           ReplaceSString(s, e, src)
    PROVE  TypeOK'
<1>1. s \in Nat /\ e \in Nat /\ s <= e /\ e <= data_size
  BY DEF ReplaceSString, ValidRange, TypeOK
<1>2. src.size \in Nat /\ IsRunMap(src.format) /\ IsRunMap(src.style)
  BY SourcesAssumption
<1> DEFINE f == Splice(format_attributes, s, e, src.size - (e - s))
           g == Splice(style_attributes, s, e, src.size - (e - s))
<1>3. IsRunMap(f) /\ IsRunMap(g)
  <2>0. src.size - (e - s) \in Int /\ s <= e + (src.size - (e - s))
    BY <1>1, <1>2
  <2>1. IsRunMap(format_attributes) /\ IsRunMap(style_attributes)
    BY DEF TypeOK
  <2>2. IsRunMap(f)
    BY <2>0, <1>1, <2>1, SpliceAt
  <2>3. IsRunMap(g)
    BY <2>0, <1>1, <2>1, SpliceAt
  <2> QED BY <2>2, <2>3
<1> HIDE DEF f, g
<1>4. IsRunMap(Overlay(f, src.format, s)) /\ IsRunMap(Overlay(g, src.style, s))
  BY <1>1, <1>2, <1>3, OverlayType
<1>5. /\ data_size' = data_size - (e - s) + src.size
      /\ format_attributes' = Overlay(f, src.format, s)
      /\ style_attributes' = Overlay(g, src.style, s)
      /\ visual' = NoVisual
  BY DEF ReplaceSString, f, g
<1>6. data_size' \in Nat
  BY <1>1, <1>2, <1>5 DEF TypeOK
<1> QED BY <1>4, <1>5, <1>6 DEF TypeOK

(* Every edit keeps the types and, unless it edits the style runs alone,   *)
(* drops the visual; then the text and the format runs are as before.      *)
LEMMA EditStep ==
    ASSUME TypeOK, Edit
    PROVE  /\ TypeOK'
           /\ visual' = NoVisual \/ UNCHANGED <<data_size, format_attributes, visual>>
<1> USE DEF TypeOK
<1>1. ASSUME NEW a \in Attrs, NEW s \in 0 .. MaxLen, NEW e \in Ends, NEW v \in Values,
             AddAttribute(a, v, s, e)
      PROVE  TypeOK' /\ (visual' = NoVisual \/ UNCHANGED <<data_size, format_attributes, visual>>)
  <2>1. s \in Nat /\ RangeEnd(e) \in Nat /\ s <= RangeEnd(e) /\ RangeEnd(e) <= data_size
    BY <1>1, RangeEndType, BoundsAssumption DEF AddAttribute, Ends
  <2>2. /\ IsRunMap(WithAttribute(format_attributes, a, v, s, RangeEnd(e)))
        /\ IsRunMap(WithAttribute(style_attributes, a, v, s, RangeEnd(e)))
    BY <2>1, WithAttributeAt
  <2> QED BY <1>1, <2>2 DEF AddAttribute, Positions
<1>2. ASSUME NEW a \in Attrs, NEW s \in 0 .. MaxLen, NEW e \in Ends, RemoveAttribute(a, s, e)
      PROVE  TypeOK' /\ visual' = NoVisual
  <2>1. s \in Nat /\ RangeEnd(e) \in Nat /\ s <= RangeEnd(e) /\ RangeEnd(e) <= data_size
    BY <1>2, RangeEndType, BoundsAssumption DEF RemoveAttribute, Ends
  <2>2. /\ IsRunMap(WithoutAttributes(format_attributes, {a}, s, RangeEnd(e)))
        /\ IsRunMap(WithoutAttributes(style_attributes, {a}, s, RangeEnd(e)))
    BY ZenonT(30), <2>1, WithoutAttributesAt
  <2> QED BY <1>2, <2>2 DEF RemoveAttribute
<1>3. ASSUME NEW s \in 0 .. MaxLen, NEW e \in Ends, RemoveAttributes(s, e)
      PROVE  TypeOK' /\ visual' = NoVisual
  <2>1. s \in Nat /\ RangeEnd(e) \in Nat /\ s <= RangeEnd(e) /\ RangeEnd(e) <= data_size
    BY <1>3, RangeEndType, BoundsAssumption DEF RemoveAttributes, Ends
  <2>2. /\ IsRunMap(WithoutAttributes(format_attributes, Attrs, s, RangeEnd(e)))
        /\ IsRunMap(WithoutAttributes(style_attributes, Attrs, s, RangeEnd(e)))
    BY ZenonT(30), <2>1, WithoutAttributesAt
  <2> QED BY <1>3, <2>2 DEF RemoveAttributes
<1>4. ASSUME ClearAttributes PROVE TypeOK' /\ visual' = NoVisual
  BY <1>4, NoRunsType DEF ClearAttributes
<1>5. ASSUME NEW src \in Sources, LoadAttributes(src) PROVE TypeOK' /\ visual' = NoVisual
  BY <1>5, SourcesAssumption DEF LoadAttributes
<1>6. ASSUME NEW n \in 0 .. MaxLen, SetText(n) PROVE TypeOK' /\ visual' = NoVisual
  BY <1>6 DEF SetText
<1>7. ASSUME NEW s \in 0 .. MaxLen, NEW e \in 0 .. MaxLen, NEW n \in 0 .. MaxLen,
             ReplaceText(s, e, n)
      PROVE  TypeOK' /\ visual' = NoVisual
  <2>1. s \in Nat /\ e \in Nat /\ n \in Nat /\ s <= e /\ e <= data_size
    BY <1>7 DEF ReplaceText, ValidRange
  <2>0. n - (e - s) \in Int /\ s <= e + (n - (e - s))
    BY <2>1
  <2>2. /\ IsRunMap(Splice(format_attributes, s, e, n - (e - s)))
        /\ IsRunMap(Splice(style_attributes, s, e, n - (e - s)))
    BY <2>0, <2>1, SpliceAt
  <2>3. data_size' \in Nat
    BY <1>7, <2>1 DEF ReplaceText
  <2> QED BY <1>7, <2>2, <2>3 DEF ReplaceText, SpliceRuns
<1>8. ASSUME NEW s \in -1 .. MaxLen + 1, NEW e \in -1 .. MaxLen + 1, RejectedReplaceText(s, e)
      PROVE  TypeOK' /\ visual' = NoVisual
  <2>1. /\ \A k \in KeysBehind(format_attributes, e) : k + 0 >= 0
        /\ \A k \in KeysBehind(style_attributes, e) : k + 0 >= 0
    BY DEF KeysBehind, IsRunMap
  <2>2. /\ IsRunMap(Splice(format_attributes, s, e, 0))
        /\ IsRunMap(Splice(style_attributes, s, e, 0))
    BY <2>1, SpliceType
  <2> QED BY <1>8, <2>2 DEF RejectedReplaceText, SpliceRuns
<1>9. ASSUME NEW s \in 0 .. MaxLen, NEW e \in 0 .. MaxLen, NEW src \in Sources,
             ReplaceSString(s, e, src)
      PROVE  TypeOK' /\ visual' = NoVisual
  BY <1>9, ReplaceSStringType DEF ReplaceSString
<1>10. ASSUME NEW src \in Sources, AddSString(src) PROVE TypeOK' /\ visual' = NoVisual
  <2>1. CASE src.attributed
    <3>1. /\ IsRunMap(Overlay(format_attributes, src.format, data_size))
          /\ IsRunMap(Overlay(style_attributes, src.style, data_size))
      BY SourcesAssumption, OverlayType
    <3>2. data_size' \in Nat
      BY <1>10, <2>1, SourcesAssumption DEF AddSString
    <3> QED BY <1>10, <2>1, <3>1, <3>2 DEF AddSString
  <2>2. CASE ~src.attributed
    <3>1. ReplaceSString(data_size, data_size, src) /\ data_size \in Int
      BY <1>10, <2>2 DEF AddSString
    <3> QED BY <3>1, ReplaceSStringType DEF ReplaceSString
  <2> QED BY <2>1, <2>2
<1>11. ASSUME Restyle PROVE TypeOK' /\ visual' = NoVisual
  BY <1>11 DEF Restyle
<1> QED
  <2>1. CASE EmittingEdit
    <3>1. 1 .. MaxLen \subseteq 0 .. MaxLen
      BY BoundsAssumption
    <3> QED
      BY <2>1, <3>1, <1>1, <1>2, <1>3, <1>4, <1>5, <1>6, <1>7, <1>8, <1>9, <1>10, <1>11
      DEF EmittingEdit
  <2>2. CASE SetText(0)
    BY <2>2, <1>6, BoundsAssumption
  <2> QED BY <2>1, <2>2 DEF Edit

LEMMA TypeStep == TypeOK /\ [Next]_vars => TypeOK'
<1> SUFFICES ASSUME TypeOK, [Next]_vars PROVE TypeOK'
  OBVIOUS
<1>1. CASE Shape
  <2>1. \A cuts \in SUBSET (1 .. data_size - 1) : \A rtl \in SUBSET (cuts \cup {0}) :
           ShapedWith(format_attributes, cuts, rtl) \in [Positions -> Run]
    BY ShapedWithAt DEF TypeOK
  <2> QED BY <1>1, <2>1 DEF Shape, TypeOK, Positions
<1>2. CASE Edit
  BY <1>2, EditStep
<1>3. CASE UNCHANGED vars
  BY <1>3 DEF vars, TypeOK, Positions
<1> QED BY <1>1, <1>2, <1>3 DEF Next

(* The runs stay maps from positions to runs, and a visual always has one  *)
(* entry per character of the current text.                                *)
THEOREM TypeCorrect == Spec => []TypeOK
<1>1. Init => TypeOK
  BY NoRunsType DEF Init, TypeOK
<1> QED BY <1>1, TypeStep, PTL DEF Spec

-----------------------------------------------------------------------------
(* Attribute edits.                                                        *)

(* add_attribute sets one attribute of the characters in the range and     *)
(* changes nothing else.                                                   *)
THEOREM AddIsPointwise == Spec => []AddSetsExactlyTheRange
<1>1. TypeOK => AddSetsExactlyTheRange
  <2> SUFFICES ASSUME TypeOK,
                      NEW m \in RunMaps, NEW a \in Attrs, NEW v \in Values,
                      NEW s \in 0 .. data_size, NEW e \in 0 .. data_size, s <= e,
                      NEW p \in Positions
               PROVE  At(WithAttribute(m, a, v, s, e), p) =
                         IF s <= p /\ p < e THEN [At(m, p) EXCEPT ![a] = v] ELSE At(m, p)
    BY DEF AddSetsExactlyTheRange
  <2>1. data_size \in Nat /\ IsRunMap(m) /\ s \in Nat /\ e \in Nat /\ e <= data_size
    BY DEF TypeOK, RunMaps
  <2> QED BY <2>1, WithAttributeAt
<1> QED BY <1>1, TypeCorrect, PTL

(* remove_attribute and remove_attributes take attributes from the         *)
(* characters in the range and from no other.                              *)
THEOREM RemoveIsPointwise == Spec => []RemoveClearsExactlyTheRange
<1>1. TypeOK => RemoveClearsExactlyTheRange
  <2> SUFFICES ASSUME TypeOK,
                      NEW m \in RunMaps, NEW names,
                      NEW s \in 0 .. data_size, NEW e \in 0 .. data_size, s <= e,
                      NEW p \in Positions, NEW a \in Attrs
               PROVE  At(WithoutAttributes(m, names, s, e), p)[a] =
                         IF s <= p /\ p < e /\ a \in names THEN Unset ELSE At(m, p)[a]
    BY DEF RemoveClearsExactlyTheRange
  <2>1. data_size \in Nat /\ IsRunMap(m) /\ s \in Nat /\ e \in Nat /\ e <= data_size
    BY DEF TypeOK, RunMaps
  <2> QED BY <2>1, WithoutAttributesAt
<1> QED BY <1>1, TypeCorrect, PTL

-----------------------------------------------------------------------------
(* Text edits.                                                             *)

(* Inserted text pushes the attributes away with their characters, and     *)
(* takes those of the character it stands before.                          *)
THEOREM InsertionMoves == Spec => []InsertionMovesAttributes
<1>1. TypeOK => InsertionMovesAttributes
  <2> SUFFICES ASSUME TypeOK, NEW m \in RunMaps, NEW s \in 0 .. data_size,
                      NEW n \in 1 .. MaxLen
               PROVE  LET new == Splice(m, s, s, n) IN
                      /\ \A p \in Positions : At(new, IF p < s THEN p ELSE p + n) = At(m, p)
                      /\ \A i \in s .. s + n - 1 : At(new, i) = At(m, s)
    BY DEF InsertionMovesAttributes
  <2>1. IsRunMap(m) /\ s \in Nat /\ n \in Nat /\ n \in Int /\ s <= s /\ s <= s + n
    BY DEF TypeOK, RunMaps
  <2>2. ASSUME NEW i \in s .. s + n - 1 PROVE At(Splice(m, s, s, n), i) = At(m, s)
    BY <2>1, SpliceInside
  <2>3. ASSUME NEW p \in Positions
        PROVE  At(Splice(m, s, s, n), IF p < s THEN p ELSE p + n) = At(m, p)
    <3>1. p \in Int
      BY DEF Positions
    <3>2. CASE p < s
      BY <2>1, <3>1, <3>2, SpliceBefore
    <3>3. CASE p >= s
      <4>1. At(Splice(m, s, s, n), p + n) = At(m, p)
        BY <2>1, <3>1, <3>3, SpliceBehind
      <4> QED BY <2>1, <3>1, <3>3, <4>1
    <3> QED BY <2>1, <3>1, <3>2, <3>3
  <2> QED BY <2>2, <2>3
<1> QED BY <1>1, TypeCorrect, PTL

(* Replaced text leaves the attributes in front of it alone, and can give  *)
(* a character behind it no other attributes than its own or those at      *)
(* p_start.                                                                *)
THEOREM ReplaceBleedsFromStart == Spec => []ReplaceBleedsOnlyFromStart
<1>1. TypeOK => ReplaceBleedsOnlyFromStart
  <2> SUFFICES ASSUME TypeOK, NEW m \in RunMaps, NEW s \in 0 .. data_size,
                      NEW e \in 0 .. data_size, NEW n \in 0 .. MaxLen, s <= e
               PROVE  LET new == Splice(m, s, e, n - (e - s)) IN
                      /\ \A p \in 0 .. s - 1 : At(new, p) = At(m, p)
                      /\ \A p \in e .. data_size - 1 :
                             At(new, p + n - (e - s)) \in {At(m, p), At(m, s)}
    BY DEF ReplaceBleedsOnlyFromStart
  <2>1. IsRunMap(m) /\ s \in Nat /\ e \in Nat /\ n \in Nat
    BY DEF TypeOK, RunMaps
  <2>2. PICK d \in Int : d = n - (e - s) /\ s <= e + d
    BY <2>1
  <2>3. ASSUME NEW p \in 0 .. s - 1 PROVE At(Splice(m, s, e, d), p) = At(m, p)
    BY <2>1, <2>2, SpliceBefore
  <2>4. ASSUME NEW p \in e .. data_size - 1
        PROVE  At(Splice(m, s, e, d), p + n - (e - s)) \in {At(m, p), At(m, s)}
    <3>1. p \in Int /\ p >= e /\ p + d = p + n - (e - s)
      BY <2>1, <2>2 DEF TypeOK
    <3>2. At(Splice(m, s, e, d), p + d) \in {At(m, p), At(m, s)}
      BY <2>1, <2>2, <3>1, SpliceBehind
    <3> QED BY <3>1, <3>2
  <2> QED BY <2>2, <2>3, <2>4
<1> QED BY <1>1, TypeCorrect, PTL

(* A substring whose start is covered by a run keeps its attributes.       *)
THEOREM SubstrKeeps == Spec => []SubstrKeepsAttributes
<1>1. TypeOK => SubstrKeepsAttributes
  <2> SUFFICES ASSUME TypeOK, NEW m \in RunMaps, NEW s \in 0 .. data_size,
                      NEW e \in 0 .. data_size, HasRun(m, s), NEW p \in 0 .. e - s - 1
               PROVE  At(Extract(m, s, e), p) = At(m, p + s)
    BY DEF SubstrKeepsAttributes
  <2>1. IsRunMap(m) /\ s \in Nat /\ e \in Nat
    BY DEF TypeOK, RunMaps
  <2> QED BY <2>1, ExtractAt
<1> QED BY <1>1, TypeCorrect, PTL

-----------------------------------------------------------------------------
(* The cached visual.                                                      *)

(* A visual that is in use was shaped from the runs and the text as they   *)
(* are now.  The induction goes over EditStep: an edit drops the visual or *)
(* leaves everything the visual was made from unchanged.                   *)
THEOREM VisualIsFresh == Spec => []VisualShowsTheRuns
<1>1. Init => VisualShowsTheRuns
  BY DEF Init, VisualShowsTheRuns
<1>2. TypeOK /\ VisualShowsTheRuns /\ [Next]_vars => VisualShowsTheRuns'
  <2> SUFFICES ASSUME TypeOK, VisualShowsTheRuns, [Next]_vars
               PROVE  VisualShowsTheRuns'
    OBVIOUS
  <2>1. CASE Shape
    <3>1. PICK cuts \in SUBSET (1 .. data_size - 1) : \E rtl \in SUBSET (cuts \cup {0}) :
             visual' = ShapedWith(format_attributes, cuts, rtl)
      BY <2>1 DEF Shape
    <3>2. PICK rtl \in SUBSET (cuts \cup {0}) : visual' = ShapedWith(format_attributes, cuts, rtl)
      BY <3>1
    <3>3. HasRun(format_attributes, 0) =>
             visual' = [p \in Positions |-> At(format_attributes, p)]
      BY <3>2, ShapedWithAt DEF TypeOK
    <3>4. data_size' = data_size /\ format_attributes' = format_attributes
      BY <2>1 DEF Shape
    <3> QED BY <3>3, <3>4 DEF VisualShowsTheRuns, Positions
  <2>2. CASE Edit
    <3>1. CASE visual' = NoVisual
      BY <3>1 DEF VisualShowsTheRuns
    <3>2. CASE UNCHANGED <<data_size, format_attributes, visual>>
      BY <3>2 DEF VisualShowsTheRuns, Positions
    <3> QED BY <2>2, <3>1, <3>2, EditStep
  <2>3. CASE UNCHANGED vars
    BY <2>3 DEF vars, VisualShowsTheRuns, Positions
  <2> QED BY <2>1, <2>2, <2>3 DEF Next
<1> QED BY <1>1, <1>2, TypeCorrect, PTL DEF Spec

-----------------------------------------------------------------------------
(* Paragraph: the lines show the string it holds, for every set of        *)
(* attributes, values and inserted strings and for texts of every length.  *)

(* A paragraph cannot hold the string and not be connected to it: only     *)
(* set_string(null) leaves a connection behind, and set_string makes one.  *)
HeldIsConnected == holds => connected

ParagraphInv == TypeOK /\ HeldIsConnected /\ LinesShowTheString

(* Wherever a text is cut, its lines have no characters but its own and    *)
(* lack none but line breaks; what they have reads like the text.          *)
LEMMA ShownIsTheText ==
    ASSUME NEW m, IsRunMap(m), NEW size \in Nat, NEW cuts, NEW feeds
    PROVE  /\ DOMAIN ShownIn(m, size, cuts, feeds) \subseteq 0 .. size - 1
           /\ (0 .. size - 1) \ feeds \subseteq DOMAIN ShownIn(m, size, cuts, feeds)
           /\ HasRun(m, 0) => \A p \in DOMAIN ShownIn(m, size, cuts, feeds) :
                                  ShownIn(m, size, cuts, feeds)[p] = At(m, p)
<1> DEFINE Line(p) == {q \in 0 .. size - 1 : \A c \in cuts : c <= p <=> c <= q}
           Text(p) == Line(p) \ feeds
           First(p) == CHOOSE a \in Text(p) : \A b \in Text(p) : a <= b
           Last(p) == CHOOSE b \in Text(p) : \A a \in Text(p) : a <= b
           Kept == {p \in 0 .. size - 1 : \E a, b \in Text(p) : a <= p /\ p <= b}
           Char(p) == At(Extract(m, First(p), Last(p) + 1), p - First(p))
<1>1. ShownIn(m, size, cuts, feeds) = [p \in Kept |-> Char(p)]
  BY DEF ShownIn
<1>2. ASSUME NEW p \in (0 .. size - 1) \ feeds
      PROVE  p \in Kept
  <2>1. p \in Text(p) /\ p <= p
    OBVIOUS
  <2> QED BY <2>1
<1>3. ASSUME NEW p, Text(p) \subseteq 0 .. size - 1, p \in Kept
      PROVE  /\ First(p) \in Nat /\ Last(p) \in Nat /\ p \in Nat
             /\ First(p) <= p /\ p <= Last(p)
  <2>1. PICK a, b \in Text(p) : a <= p /\ p <= b
    BY <1>3
  <2>2. p \in 0 .. size - 1
    BY <1>3
  <2> HIDE DEF Text
  <2>3. Text(p) \subseteq Nat /\ Text(p) # {} /\ \A q \in Text(p) : q <= size
    BY <1>3, <2>1
  <2>4. \E c \in Text(p) : \A d \in Text(p) : c <= d
    BY <2>3, NatMin
  <2>5. \E d \in Text(p) : \A c \in Text(p) : c <= d
    BY <2>3, NatMax
  <2>6. First(p) \in Text(p) /\ \A d \in Text(p) : First(p) <= d
    BY <2>4
  <2>7. Last(p) \in Text(p) /\ \A c \in Text(p) : c <= Last(p)
    BY <2>5
  <2> HIDE DEF First, Last
  <2> QED BY <2>1, <2>2, <2>3, <2>6, <2>7
<1>4. ASSUME HasRun(m, 0), NEW p \in Kept
      PROVE  Char(p) = At(m, p)
  <2>1. /\ First(p) \in Nat /\ Last(p) \in Nat /\ p \in Nat
        /\ First(p) <= p /\ p <= Last(p)
    BY <1>3
  <2> HIDE DEF First, Last, Kept
  <2>2. HasRun(m, First(p))
    BY <1>4, <2>1 DEF HasRun, KeysUpTo, IsRunMap
  <2>3. /\ Last(p) + 1 \in Nat /\ p - First(p) \in 0 .. (Last(p) + 1) - First(p) - 1
        /\ (p - First(p)) + First(p) = p
    BY <2>1
  <2>4. At(Extract(m, First(p), Last(p) + 1), p - First(p)) = At(m, (p - First(p)) + First(p))
    BY <2>1, <2>2, <2>3, ExtractAt
  <2> QED BY <2>3, <2>4
<1>5. Kept \subseteq 0 .. size - 1
  OBVIOUS
<1> HIDE DEF Kept, Char
<1> QED BY <1>1, <1>2, <1>4, <1>5

(* The lines l show the string as it is.                                   *)
Reads(l) ==
    /\ DOMAIN l.format \subseteq Positions
    /\ Positions \ l.feeds \subseteq DOMAIN l.format
    /\ HasRun(format_attributes, 0) =>
          \A p \in DOMAIN l.format : l.format[p] = At(format_attributes, p)
    /\ DOMAIN l.style \subseteq Positions
    /\ Positions \ l.feeds \subseteq DOMAIN l.style
    /\ HasRun(style_attributes, 0) =>
          \A p \in DOMAIN l.style : l.style[p] = At(style_attributes, p)

(* The lines that are made of a string show it, wherever it is cut.        *)
LEMMA LinesOfTheText ==
    ASSUME TypeOK, NEW cuts, NEW feeds
    PROVE  Reads(LinesOf(data_size, format_attributes, style_attributes, cuts, feeds))
<1> DEFINE l == LinesOf(data_size, format_attributes, style_attributes, cuts, feeds)
<1>1. data_size \in Nat /\ IsRunMap(format_attributes) /\ IsRunMap(style_attributes)
  BY DEF TypeOK
<1>2. /\ l.format = ShownIn(format_attributes, data_size, cuts, feeds)
      /\ l.style = ShownIn(style_attributes, data_size, cuts, feeds)
      /\ l.feeds = feeds
  BY DEF LinesOf
<1> HIDE DEF l
<1> QED BY <1>1, <1>2, ShownIsTheText DEF Reads, Positions, l

(* Shaping changes neither the text nor its runs.                          *)
LEMMA ShapeKeepsTheRuns ==
    ASSUME TypeOK, Shape
    PROVE  TypeOK' /\ UNCHANGED <<data_size, format_attributes, style_attributes>>
<1>1. TypeOK'
  BY TypeStep DEF Next
<1> QED BY <1>1 DEF Shape

LEMMA EditStringStep ==
    ASSUME ParagraphInv, EditString
    PROVE  ParagraphInv'
<1> USE DEF ParagraphInv
<1>1. HeldIsConnected'
  BY DEF EditString, HeldIsConnected
<1>2. CASE EmittingEdit /\ Tell
  <2>1. TypeOK'
    BY <1>2, EditStep DEF Edit
  <2>2. holds' => lines' = NoLines
    BY <1>2, <1>1 DEF Tell, HeldIsConnected, EditString
  <2>3. LinesShowTheString'
    BY <2>2 DEF LinesShowTheString, Updating
  <2> QED BY <1>1, <2>1, <2>3
<1>3. CASE SetText(0) /\ untold' = TRUE
  <2>1. TypeOK'
    BY <1>3, EditStep DEF Edit
  <2>2. LinesShowTheString'
    BY <1>3 DEF LinesShowTheString
  <2> QED BY <1>1, <2>1, <2>2
<1> QED BY <1>2, <1>3 DEF EditString

LEMMA UpdateParagraphStep ==
    ASSUME ParagraphInv, UpdateParagraph
    PROVE  ParagraphInv'
<1> USE DEF ParagraphInv
<1>1. HeldIsConnected'
  BY DEF UpdateParagraph, HeldIsConnected
<1>2. TypeOK' /\ UNCHANGED <<data_size, format_attributes, style_attributes>>
  <2>1. CASE Shape
    BY <2>1, ShapeKeepsTheRuns
  <2>2. CASE UNCHANGED vars
    BY <2>2, TypeStep DEF vars
  <2> QED BY <2>1, <2>2 DEF UpdateParagraph
<1>3. LinesShowTheString'
  <2>1. CASE holds
    <3>1. PICK cuts \in SUBSET (1 .. data_size - 1), feeds \in FeedSets :
             lines' = LinesOf(data_size, format_attributes, style_attributes, cuts, feeds)
      BY <2>1 DEF UpdateParagraph
    <3>2. Reads(lines')
      BY <3>1, LinesOfTheText
    <3> QED BY <1>2, <3>2 DEF LinesShowTheString, Reads, Positions
  <2>2. CASE ~holds
    BY <2>2 DEF UpdateParagraph, LinesShowTheString
  <2> QED BY <2>1, <2>2
<1> QED BY <1>1, <1>2, <1>3

LEMMA ParagraphStep == ParagraphInv /\ [ParagraphNext]_allVars => ParagraphInv'
<1> SUFFICES ASSUME ParagraphInv, [ParagraphNext]_allVars PROVE ParagraphInv'
  OBVIOUS
<1>1. CASE EditString
  BY <1>1, EditStringStep
<1>2. CASE ShapeString
  <2>1. TypeOK' /\ UNCHANGED <<data_size, format_attributes, style_attributes>>
    BY <1>2, ShapeKeepsTheRuns DEF ShapeString, ParagraphInv
  <2>2. UNCHANGED <<holds, connected, lines, untold>>
    BY <1>2 DEF ShapeString, paragraphVars
  <2>3. HeldIsConnected'
    BY <2>2 DEF HeldIsConnected, ParagraphInv
  <2>4. LinesShowTheString'
    BY <2>1, <2>2 DEF LinesShowTheString, Updating, Positions, ParagraphInv
  <2> QED BY <2>1, <2>3, <2>4 DEF ParagraphInv
<1>3. CASE UpdateParagraph
  BY <1>3, UpdateParagraphStep
<1>4. CASE Rebuild \/ DropString \/ SetString
  <2>1. UNCHANGED vars /\ lines' = NoLines /\ (holds' => connected')
    BY <1>4 DEF Rebuild, DropString, SetString, HeldIsConnected, ParagraphInv
  <2>2. TypeOK'
    BY <2>1, TypeStep DEF ParagraphInv
  <2>3. LinesShowTheString'
    BY <2>1 DEF LinesShowTheString, Updating
  <2> QED BY <2>1, <2>2, <2>3 DEF ParagraphInv, HeldIsConnected
<1>5. CASE UNCHANGED allVars
  <2>1. UNCHANGED vars /\ UNCHANGED <<holds, connected, lines, untold>>
    BY <1>5 DEF allVars, paragraphVars
  <2>2. TypeOK'
    BY <2>1, TypeStep DEF ParagraphInv
  <2>3. LinesShowTheString'
    BY <2>1 DEF LinesShowTheString, Updating, Positions, ParagraphInv, vars
  <2> QED BY <2>1, <2>2, <2>3 DEF ParagraphInv, HeldIsConnected
<1> QED BY <1>1, <1>2, <1>3, <1>4, <1>5 DEF ParagraphNext

(* Whatever edits, readers and exchanges of the string come in whatever    *)
(* order, the lines of a paragraph that was told of its text show the      *)
(* characters of that text, but for line breaks at the ends of lines, with *)
(* their present attributes.                                               *)
THEOREM ParagraphIsCurrent == ParagraphSpec => []LinesShowTheString
<1>1. ParagraphInit => ParagraphInv
  <2> SUFFICES ASSUME ParagraphInit PROVE ParagraphInv
    OBVIOUS
  <2>1. TypeOK /\ HeldIsConnected
    BY NoRunsType DEF ParagraphInit, Init, TypeOK, HeldIsConnected
  <2>2. lines = LinesOf(data_size, format_attributes, style_attributes, {}, {})
    BY DEF ParagraphInit, NoText, Init
  <2>3. Reads(lines)
    BY <2>1, <2>2, LinesOfTheText
  <2>4. LinesShowTheString
    BY <2>3 DEF LinesShowTheString, Reads
  <2> QED BY <2>1, <2>4 DEF ParagraphInv
<1>2. ParagraphInv => LinesShowTheString
  BY DEF ParagraphInv
<1> QED BY <1>1, <1>2, ParagraphStep, PTL DEF ParagraphSpec
=============================================================================
