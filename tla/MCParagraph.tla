---------------------------- MODULE MCParagraph ----------------------------
(* TLC instance of Paragraph: the strings of MCAttributedString; texts     *)
(* without line breaks, and texts with one at either end.                  *)
EXTENDS Paragraph, MCAttributedString

MCFeedSets == {{}, {0, 2}}
=============================================================================
