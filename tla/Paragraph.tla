------------------------------ MODULE Paragraph ------------------------------
(***************************************************************************)
(* TLShapedParagraph on a TLShapedAttributedString.  The string tells the  *)
(* paragraph of every edit ("string_changed"), the paragraph throws its    *)
(* lines away and cuts the text to new ones, each a string of its own.     *)
(* The string followed here is the one the paragraph is made with; scripts *)
(* edit it, and give the paragraph another string or this one again.       *)
(***************************************************************************)
EXTENDS AttributedString

CONSTANT FeedSets  \* where a text may have line-break characters

ASSUME FeedsAssumption == FeedSets \subseteq SUBSET Nat

VARIABLES
    holds,      \* ctx is the string
    connected,  \* the string's string_changed reaches the paragraph
    lines,      \* what the lines show, NoLines inside of _update_paragraph
    untold      \* the last the paragraph heard of was not the empty set_text

paragraphVars == <<holds, connected, lines, untold>>
allVars == <<vars, paragraphVars>>

(* The lines of a text that is cut at the positions of cuts: per position  *)
(* the attributes it has in its line.  A line is a substring of the text   *)
(* without the line breaks at its ends (TEXT_TRIM_BREAK); the line of      *)
(* nothing else is empty.                                                  *)
ShownIn(m, size, cuts, feeds) ==
    LET Line(p) == {q \in 0 .. size - 1 : \A c \in cuts : c <= p <=> c <= q}
        Text(p) == Line(p) \ feeds
        First(p) == CHOOSE a \in Text(p) : \A b \in Text(p) : a <= b
        Last(p) == CHOOSE b \in Text(p) : \A a \in Text(p) : a <= b
        Kept == {p \in 0 .. size - 1 : \E a, b \in Text(p) : a <= p /\ p <= b}
    IN  [p \in Kept |-> At(Extract(m, First(p), Last(p) + 1), p - First(p))]
LinesOf(size, format, style, cuts, feeds) ==
    [format |-> ShownIn(format, size, cuts, feeds),
     style  |-> ShownIn(style, size, cuts, feeds),
     feeds  |-> feeds]

NoText == LinesOf(0, NoRuns, NoRuns, {}, {})
NoLines == <<>>
Updating == lines = NoLines

-----------------------------------------------------------------------------
(* _init: the paragraph makes its string.                                  *)
ParagraphInit ==
    /\ Init
    /\ holds = TRUE
    /\ connected = TRUE
    /\ lines = NoText
    /\ untold = FALSE

(* Slip: the signal is emitted, and the lines are made, before the runs    *)
(* are what they are to be.                                                *)
TellBefore ==
    IF connected /\ holds
    THEN lines' \in {LinesOf(data_size', format_attributes, style_attributes, cuts, feeds) :
                        cuts \in SUBSET (1 .. data_size' - 1), feeds \in FeedSets}
    ELSE UNCHANGED lines

(* emit_signal("string_changed") at the end of an edit: _update_paragraph  *)
(* runs before the call returns.  replace_* of the base class emits as     *)
(* well, before the override has moved the runs; the lines of that call    *)
(* are thrown away by the second.                                          *)
Tell == lines' = IF connected THEN NoLines ELSE lines

(* An edit of the string.  An empty set_text returns before the signal.    *)
EditString ==
    /\ ~Updating
    /\ \/ EmittingEdit /\ InBounds /\ Tell /\ UNCHANGED untold
       \/ SetText(0) /\ UNCHANGED lines /\ untold' = TRUE
    /\ UNCHANGED <<holds, connected>>

(* Another reader of the string shapes it.                                 *)
ShapeString ==
    /\ ~Updating
    /\ Shape
    /\ UNCHANGED paragraphVars

(* The rest of _update_paragraph.  break_lines shapes the text; a text     *)
(* that is empty has no lines.                                             *)
UpdateParagraph ==
    /\ Updating
    /\ IF holds
       THEN /\ IF visual = NoVisual /\ data_size > 0
               THEN Shape
               ELSE UNCHANGED vars
            /\ \E cuts \in SUBSET (1 .. data_size - 1), feeds \in FeedSets :
                   lines' = LinesOf(data_size, format_attributes, style_attributes, cuts, feeds)
       ELSE lines' = NoText /\ UNCHANGED vars
    /\ untold' = FALSE
    /\ UNCHANGED <<holds, connected>>

(* A setter of the paragraph with another value, copy_properties, and the  *)
(* edit of a line, which _line_change_warning undoes.                      *)
Rebuild ==
    /\ ~Updating
    /\ lines' = NoLines
    /\ UNCHANGED <<vars, holds, connected, untold>>

(* set_string(null): a string nobody else has; the old one is not          *)
(* disconnected.                                                           *)
DropString ==
    /\ ~Updating
    /\ holds' = FALSE
    /\ lines' = NoLines
    /\ UNCHANGED <<vars, connected, untold>>

(* set_string with another string than it has.                             *)
SetString ==
    /\ ~Updating
    /\ holds' = ~holds
    /\ connected' = ~holds
    /\ lines' = NoLines
    /\ UNCHANGED <<vars, untold>>

ParagraphNext ==
    EditString \/ ShapeString \/ UpdateParagraph \/ Rebuild \/ DropString \/ SetString

ParagraphSpec == ParagraphInit /\ [][ParagraphNext]_allVars

-----------------------------------------------------------------------------
(* What the lines of a text show is the text: its characters and no other, *)
(* each with the attributes it has in the string now, and none left out    *)
(* but line breaks.  Every edit must be told after its last change,        *)
(* whichever strings the paragraph had before; an edit that empties the    *)
(* text is one.  Two guards name where the code is otherwise: set_text     *)
(* with the empty text is not told, and a line that no run covers from its *)
(* start on loses its runs.                                                *)
LinesShowTheString ==
    holds /\ ~Updating /\ ~untold =>
        \A shown \in {<<lines.format, format_attributes>>, <<lines.style, style_attributes>>} :
            /\ DOMAIN shown[1] \subseteq Positions
            /\ Positions \ lines.feeds \subseteq DOMAIN shown[1]
            /\ HasRun(shown[2], 0) =>
                   \A p \in DOMAIN shown[1] : shown[1][p] = At(shown[2], p)
=============================================================================
