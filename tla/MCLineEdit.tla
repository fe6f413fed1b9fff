----------------------------- MODULE MCLineEdit -----------------------------
(* TLC instance of LineEdit.                                               *)
EXTENDS LineEdit

CONSTANT x

MCInputs == {<<x>>, <<x, x>>}
MCLengths == {0, 1}
=============================================================================
