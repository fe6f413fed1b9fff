--------------------------- MODULE MCRichTextEdit ---------------------------
(* TLC instance of RichTextEdit.                                           *)
EXTENDS RichTextEdit

CONSTANT x

MCTyped == {x}
MCPasted == {<<x>>}
MCComposed == {<<x>>}
Near == Cursor(0, 1)
Far == Cursor(2, 0)
MCSelections ==
    {[start |-> Near, end |-> Far, caret |-> Far],
     [start |-> Far, end |-> Near, caret |-> Near]}
=============================================================================
