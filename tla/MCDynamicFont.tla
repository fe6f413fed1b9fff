--------------------------- MODULE MCDynamicFont ---------------------------
(* TLC instance of DynamicFont: textures of four and eight pixels.         *)
EXTENDS DynamicFont, TLC

CONSTANTS font1, font2, c1, c2

MCBitmaps ==
    {[width |-> 1, rows |-> 1, mode |-> "gray"],
     [width |-> 2, rows |-> 3, mode |-> "gray"],
     [width |-> 0, rows |-> 0, mode |-> "bgra"],
     [width |-> 1, rows |-> 1, mode |-> "other"],
     [width |-> 1, rows |-> 7, mode |-> "gray"]}

Symmetry == Permutations({c1, c2})
=============================================================================
