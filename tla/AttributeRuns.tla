--------------------------- MODULE AttributeRuns ---------------------------
(***************************************************************************)
(* The run maps of TLShapedAttributedString and the helpers that edit      *)
(* them.  The code keeps, for the format attributes and for the style      *)
(* attributes, a Map<int, Map<TextAttribute, Variant>>: the key is the     *)
(* position at which a run starts, the value the attributes in force from  *)
(* there to the next key.  A map is modelled as a function from a set of   *)
(* positions to runs, a run as a total function that sends an attribute    *)
(* the inner map does not hold to Unset.                                   *)
(***************************************************************************)
EXTENDS Integers

CONSTANTS
    Attrs,   \* text attributes
    Values,  \* attribute values
    Unset    \* "the inner map has no such attribute"

ASSUME UnsetAssumption == Unset \notin Values

Run == [Attrs -> Values \cup {Unset}]
IsRunMap(m) == DOMAIN m \subseteq Nat /\ m \in [DOMAIN m -> Run]

NoAttrs == [a \in Attrs |-> Unset]
NoRuns == [k \in {} |-> NoAttrs]

-----------------------------------------------------------------------------
(* Map::find_closest: the greatest key that is not above p, if any.        *)

KeysUpTo(m, p) == {k \in DOMAIN m : k <= p}
HasRun(m, p) == KeysUpTo(m, p) # {}
Closest(m, p) == CHOOSE k \in KeysUpTo(m, p) : \A j \in KeysUpTo(m, p) : j <= k

(* The attributes in force at position p, as get_attribute reads them.     *)
At(m, p) == IF HasRun(m, p) THEN m[Closest(m, p)] ELSE NoAttrs

-----------------------------------------------------------------------------
(* _ensure_break: a run starts at p, with the attributes in force there.   *)
EnsureBreak(m, p) ==
    [k \in DOMAIN m \cup {p} |-> IF k = p THEN At(m, p) ELSE m[k]]

(* A second break, wanted only inside the text.                            *)
EnsureBreaks(m, s, e, size) ==
    IF e < size THEN EnsureBreak(EnsureBreak(m, s), e) ELSE EnsureBreak(m, s)

(* _optimize_attributes: a run equal to the run before it is erased.  The  *)
(* code collects the keys first, so every run is compared with the run     *)
(* that preceded it before anything was erased.                            *)
Redundant(m, k) == HasRun(m, k - 1) /\ At(m, k - 1) = m[k]
Optimize(m) == [k \in {j \in DOMAIN m : ~Redundant(m, j)} |-> m[k]]

(* The loops of add_attribute and remove_attribute(s): in the runs whose   *)
(* keys are covered, the attributes names take the value v (Unset to erase).  *)
Overwritten(run, names, v) == [a \in Attrs |-> IF a \in names THEN v ELSE run[a]]
Overwrite(m, covered, names, v) ==
    [k \in DOMAIN m |-> IF k \in covered THEN Overwritten(m[k], names, v) ELSE m[k]]

(* The runs that replace_text keeps around the hole s..e-1 once the text   *)
(* behind it moved by d: keys up to s stay, keys from e on move, and where *)
(* both land on one key the later run wins.                                *)
KeysBehind(m, e) == {k \in DOMAIN m : k >= e}

(* Two slips the properties have to notice: the run that starts at s goes  *)
(* with the hole, or the runs behind the hole are not moved.               *)
SpliceDroppingStart(m, s, e, d) ==
    [k \in KeysUpTo(m, s - 1) \cup {j + d : j \in KeysBehind(m, e)} |->
        IF k - d \in KeysBehind(m, e) THEN m[k - d] ELSE m[k]]
SpliceUnmoved(m, s, e, d) == [k \in KeysUpTo(m, s) \cup KeysBehind(m, e) |-> m[k]]

Splice(m, s, e, d) ==
    [k \in KeysUpTo(m, s) \cup {j + d : j \in KeysBehind(m, e)} |->
        IF k - d \in KeysBehind(m, e) THEN m[k - d] ELSE m[k]]

(* The runs of another string written over m, its positions moved by d.    *)
Overlay(m, n, d) ==
    [k \in DOMAIN m \cup {j + d : j \in DOMAIN n} |->
        IF k - d \in DOMAIN n THEN n[k - d] ELSE m[k]]

(* A slip: only the runs that start inside of s..e-1.                      *)
ExtractStarting(m, s, e) ==
    [k \in {j - s : j \in {i \in DOMAIN m : i >= s /\ i < e}} |-> At(m, k + s)]

(* _shape_substring: the runs that cover s..e-1, moved to the start; none  *)
(* when no run covers s.                                                   *)
Extract(m, s, e) ==
    LET keys == IF HasRun(m, s)
                THEN {k \in DOMAIN m : k >= Closest(m, s) /\ k < e} ELSE {}
    IN  [k \in {IF j > s THEN j - s ELSE 0 : j \in keys} |-> At(m, k + s)]
=============================================================================
