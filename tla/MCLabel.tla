------------------------------ MODULE MCLabel -------------------------------
(* TLC instance of Label: two faces, one of which a family also links to a *)
(* script by itself.                                                       *)
EXTENDS Label, TLC

CONSTANTS f1, f2, latn, regular

MCSupports == f1 :> {Main, latn} @@ f2 :> {Main}
=============================================================================
