------------------------- MODULE MCAttributedString -------------------------
(* TLC instance of AttributedString: what the model values cannot give.    *)
EXTENDS AttributedString, TLC

CONSTANTS image, color, v

R(as) == [a \in Attrs |-> IF a \in as THEN v ELSE Unset]

(* Strings to insert: an empty one, a plain one, one with runs from its    *)
(* first character on, and one whose only run starts further back.         *)
MCSources ==
    {[size |-> 0, attributed |-> TRUE, format |-> NoRuns, style |-> NoRuns],
     [size |-> 1, attributed |-> FALSE, format |-> NoRuns, style |-> NoRuns],
     [size |-> 2, attributed |-> TRUE,
      format |-> 0 :> R({}) @@ 1 :> R({image}), style |-> 0 :> R({color})],
     [size |-> 2, attributed |-> TRUE,
      format |-> 1 :> R({image}), style |-> NoRuns]}
=============================================================================
