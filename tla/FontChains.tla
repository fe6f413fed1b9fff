----------------------------- MODULE FontChains -----------------------------
(***************************************************************************)
(* The chains of faces of one style of a TLFontFamily, and the iterator    *)
(* that walks them.  A style has a main chain and chains linked to scripts *)
(* and to languages; the two kinds of links work alike, so both are tags.  *)
(* A style is a function from its tags, Main among them, to sequences of   *)
(* faces; a style the family does not have is one without faces.           *)
(***************************************************************************)
EXTENDS Integers, Sequences

CONSTANTS
    Faces,   \* TLFontFace objects
    Tags,    \* scripts and languages
    Main     \* names the main chain

ASSUME TagsAssumption == Main \notin Tags

Chains == Tags \cup {Main}
IsStyle(d) ==
    Main \in DOMAIN d /\ DOMAIN d \subseteq Chains /\ d \in [DOMAIN d -> Seq(Faces)]

NoFaces == [c \in {Main} |-> <<>>]
LinkedChain(data, tag) == IF tag \in DOMAIN data THEN data[tag] ELSE <<>>

-----------------------------------------------------------------------------
(* TLFontFallbackIterator.  index counts from zero; chain_id is MAIN_CHAIN *)
(* when the iterator is not linked, and INVALID_CHAIN in Ended.            *)

Ended == [linked |-> FALSE, index |-> -1]
IsValid(it) == it.index >= 0
Iterators == [linked : BOOLEAN, index : Nat] \cup {Ended}

MainStart(data) == IF data[Main] = <<>> THEN Ended ELSE [linked |-> FALSE, index |-> 0]

(* get_face_for_script, get_face_for_language, get_face and the            *)
(* constructors they call.                                                 *)
FaceFor(data, tag) ==
    IF LinkedChain(data, tag) = <<>> THEN MainStart(data) ELSE [linked |-> TRUE, index |-> 0]

Value(data, tag, it) == IF it.linked THEN data[tag][it.index + 1] ELSE data[Main][it.index + 1]

(* Slip: the main chain is not entered behind a linked chain.              *)
NextInChain(data, tag, it) ==
    LET chain == IF it.linked THEN data[tag] ELSE data[Main]
    IN  IF it.index < Len(chain) - 1 THEN [linked |-> it.linked, index |-> it.index + 1] ELSE Ended

NextFace(data, tag, it) ==
    LET chain == IF it.linked THEN data[tag] ELSE data[Main]
    IN  IF it.index < Len(chain) - 1 THEN [linked |-> it.linked, index |-> it.index + 1]
        ELSE IF it.linked THEN MainStart(data) ELSE Ended

-----------------------------------------------------------------------------
(* What the iterator is to walk: the linked chain, then the main chain.    *)
Fallbacks(data, tag) == LinkedChain(data, tag) \o data[Main]
Place(data, tag, it) ==
    IF it.linked THEN it.index + 1 ELSE Len(LinkedChain(data, tag)) + it.index + 1
=============================================================================
