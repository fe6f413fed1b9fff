---------------------------- MODULE RichTextEdit ----------------------------
(***************************************************************************)
(* TLRichTextEdit: the paragraphs, the selection, the paragraph that       *)
(* previews an input method composition, and the lines a paragraph keeps   *)
(* of a text it no longer has.  One action per input handler, notification *)
(* and method.                                                             *)
(*                                                                         *)
(* A paragraph is a sequence of opaque characters, NL the one that breaks  *)
(* a line inside a paragraph.  Where the code picks a position by glyph    *)
(* geometry (mouse, vertical moves) or by ICU (word moves) the model picks *)
(* any position that code can return.  Attributes, paragraph properties,   *)
(* the size of the control and drawing are left out.                       *)
(***************************************************************************)
EXTENDS Integers, SequencesExt

CONSTANTS
    NL,              \* the line break
    Typed,           \* characters that are typed
    Pasted,          \* texts that are pasted, or passed by scripts
    Composed,        \* texts of the input method
    ScriptSelections,    \* selections scripts pass
    ReadonlyValues, SelectableValues,    \* values for the settings
    MaxText,         \* bound on the characters of all paragraphs, and of those shown
    MaxParagraphs,   \* bound on their number
    MaxStale         \* bound on how many lag, with the one that is shown while composing

Selections(cursors) == [start : cursors, end : cursors, caret : cursors]
Chars == {NL} \cup Typed \cup UNION {ToSet(t) : t \in Pasted \cup Composed}

ASSUME TextsAssumption == Pasted \cup Composed \subseteq Seq(Chars) /\ <<>> \notin Composed
ASSUME ScriptsAssumption == ScriptSelections \subseteq Selections([p : Int, o : Int])
ASSUME SettingsAssumption == ReadonlyValues \cup SelectableValues \subseteq BOOLEAN
ASSUME BoundsAssumption == {MaxText, MaxParagraphs, MaxStale} \subseteq Nat

VARIABLES
    paragraphs,
    selection,       \* start, end, caret: paragraph p from 0, offset o
    ime,             \* ime_temp_para, <<>> or the one text it shows
    lagging,         \* the paragraphs with the line and word bounds of a text before
    in_focus, readonly, selectable,
    defined          \* no paragraph was read outside the vector

settings == <<readonly, selectable>>
vars == <<paragraphs, selection, ime, lagging, in_focus, settings, defined>>

Cursor(p, o) == [p |-> p, o |-> o]
At(c) == [start |-> c, end |-> c, caret |-> c]
Before(c, d) == c.p < d.p \/ (c.p = d.p /\ c.o < d.o)
Less(m, n) == IF m < n THEN m ELSE n

LastPara == Len(paragraphs) - 1
Para(p) == paragraphs[p + 1]
ParaEnd(p) == Cursor(p, Len(Para(p)))
InText(c) == c.p \in 0 .. LastPara /\ c.o \in 0 .. Len(Para(c.p))

Places == 0 .. LastPara
Cursors == [p : Places, o : Nat]

TypeOK ==
    /\ {paragraphs, ime} \subseteq Seq(Seq(Chars))
    /\ selection \in Selections(Cursors)
    /\ Len(ime) <= 1
    /\ lagging \subseteq Int
    /\ {in_focus, readonly, selectable, defined} \subseteq BOOLEAN

Init ==
    /\ paragraphs = <<<<>>>> /\ selection = At(Cursor(0, 0)) /\ ime = <<>>
    /\ lagging = {} /\ in_focus = FALSE
    /\ readonly = FALSE /\ selectable = TRUE /\ defined = TRUE

-----------------------------------------------------------------------------
(* What is shown: the composition stands for the selected paragraphs.      *)

LastOf(sel) == IF sel.end.p > sel.start.p THEN sel.end.p ELSE sel.start.p

ShownOf(paras, comp, sel) ==
    IF comp = <<>> THEN paras
    ELSE LET from == sel.start.p
         IN  SubSeq(paras, 1, Less(from, Len(paras)))
             \o (IF from < Len(paras) THEN comp ELSE <<>>)
             \o SubSeq(paras, LastOf(sel) + 2, Len(paras))
Shown == ShownOf(paragraphs, ime, selection)


-----------------------------------------------------------------------------
(* Strings: replace_text with its range check, substr with TRIM_BREAK.     *)

Spliced(t, from, to, new) ==
    IF from < 0 \/ from > to \/ to > Len(t) THEN t
    ELSE SubSeq(t, 1, from) \o new \o SubSeq(t, to + 1, Len(t))

(* The positions of t that a trimmed substring of from .. to keeps.        *)
Kept(t, from, to) ==
    LET solid == {i \in from + 1 .. to : t[i] # NL}
    IN  {i \in from + 1 .. to : \E j, k \in solid : j <= i /\ i <= k}
TrimmedSubstr(t, from, to) ==
    IF from < 0 \/ to > Len(t) \/ from > to THEN <<>>
    ELSE LET kept == Kept(t, from, to)
         IN  IF kept = {} THEN <<>> ELSE SubSeq(t, Min(kept), Max(kept))

(* Lines of a paragraph without a width, each named by where it starts: at *)
(* 0 and behind every NL.                                                  *)
Breaks(t) == {i \in DOMAIN t : t[i] = NL}
Lines(t) == IF t = <<>> THEN {} ELSE {0} \cup Breaks(t)
IsLast(t, line) == line = Max(Lines(t))
LineEnd(t, line) == IF IsLast(t, line) THEN Len(t) ELSE Min({i \in Breaks(t) : i > line})
LineLength(t, line) == Len(TrimmedSubstr(t, line, LineEnd(t, line)))

(* count paragraphs with lines of their own come in for from .. to.        *)
LaggingWith(from, to, count) ==
    {p \in lagging : p < from}
    \cup {p + count - (to - from + 1) : p \in {q \in lagging : q > to}}

NoLine == -1

(* A slip: a caret behind a line break is on the line before it.           *)
LineBehind(t, o) ==
    IF t = <<>> \/ o > Len(t) THEN NoLine ELSE Max({line \in Lines(t) : line < o \/ line = 0})

(* The line a caret is on, none for an offset beyond the text.             *)
LineOf(t, o) ==
    IF t = <<>> \/ o > Len(t) THEN NoLine ELSE Max({line \in Lines(t) : line <= o})

-----------------------------------------------------------------------------
(* The mouse: _hit_test and the positions it can find.  A blank line gives *)
(* -1, the position before it.                                             *)

HitsOn(p, line) ==
    LET length == LineLength(Para(p), line)
    IN  IF length = 0 THEN {Cursor(p, IF line = 0 THEN 0 ELSE line - 1)}
        ELSE {Cursor(p, line + k) : k \in 0 .. length}
Hits ==
    UNION {IF Para(p) = <<>> THEN {Cursor(p, 0)}
           ELSE UNION {HitsOn(p, line) : line \in Lines(Para(p))} :
           p \in Places}

(* A slip: the ends are not exchanged when the caret passes the other one. *)
ExtendedUnordered(shift, c) ==
    IF ~shift THEN At(c)
    ELSE IF selection.caret = selection.start
         THEN [selection EXCEPT !.start = c, !.caret = c]
         ELSE [selection EXCEPT !.end = c, !.caret = c]

(* The end of _change_selection and of _hit_test: the caret moves to c.    *)
CaretMoved(shift, c) ==
    LET moved ==
        IF ~shift THEN At(c)
        ELSE IF selection.caret = selection.start
             THEN [selection EXCEPT !.start = c, !.caret = c]
             ELSE [selection EXCEPT !.end = c, !.caret = c]
    IN  IF Before(moved.end, moved.start)
        THEN [moved EXCEPT !.start = moved.end, !.end = moved.start]
        ELSE moved

Click(shift, c) ==
    /\ selectable
    /\ selection' = CaretMoved(shift, c)
    /\ UNCHANGED <<paragraphs, ime, lagging, in_focus, settings>>

-----------------------------------------------------------------------------
(* The keyboard moves: _change_selection.                                  *)

Forwards == {"FWD_CHAR", "FWD_WORD", "FWD_LINE", "PARA_END", "LINE_END", "TEXT_END"}
Backwards == {"REV_CHAR", "REV_WORD", "REV_LINE", "PARA_START", "LINE_START", "TEXT_START"}

NextPara(c) == IF c.p < LastPara THEN Cursor(c.p + 1, 0) ELSE c
PrevPara(c) == IF c.p > 0 THEN ParaEnd(c.p - 1) ELSE c

(* Any position on a line, or none when the caret has no place on its own. *)
OnLine(c, p, line) ==
    {c} \cup {Cursor(p, line + k) : k \in 0 .. LineLength(Para(p), line)}

LineBelow(c) ==
    LET line == LineOf(Para(c.p), c.o) IN
    IF Para(c.p) = <<>> THEN {NextPara(c)}
    ELSE IF c.p < LastPara /\ Para(c.p + 1) = <<>> THEN {Cursor(c.p + 1, 0)}
    ELSE IF line = NoLine THEN {c}
    ELSE IF ~IsLast(Para(c.p), line) THEN OnLine(c, c.p, LineEnd(Para(c.p), line))
    ELSE IF c.p = LastPara THEN {c}
    ELSE OnLine(c, c.p + 1, 0)

LineAbove(c) ==
    LET line == LineOf(Para(c.p), c.o) IN
    IF Para(c.p) = <<>> THEN {IF c.p > 0 THEN Cursor(c.p - 1, 0) ELSE c}
    ELSE IF c.p > 0 /\ Para(c.p - 1) = <<>> THEN {Cursor(c.p - 1, 0)}
    ELSE IF line = NoLine THEN {c}
    ELSE IF line > 0 THEN OnLine(c, c.p, Max({above \in Lines(Para(c.p)) : above < line}))
    ELSE IF c.p = 0 THEN {c}
    ELSE OnLine(c, c.p - 1, Max(Lines(Para(c.p - 1))))

LineEnds(c) ==
    LET t == Para(c.p)
        line == LineOf(t, c.o)
    IN  IF line = NoLine THEN [start |-> c, end |-> c]
        ELSE [start |-> Cursor(c.p, line),
              end |-> Cursor(c.p, LineEnd(t, line) - (IF IsLast(t, line) THEN 0 ELSE 1))]

CharAfter(c) ==
    IF c.o < Len(Para(c.p)) THEN Cursor(c.p, c.o + 1) ELSE NextPara(c)
(* A slip: the start of a paragraph has a position before it.              *)
CharBeforeStart(c) == Cursor(c.p, c.o - 1)

CharBefore(c) ==
    IF c.o > 0 THEN Cursor(c.p, Less(c.o - 1, Len(Para(c.p)))) ELSE PrevPara(c)

(* An empty paragraph that lags still has lines and words: a move can go   *)
(* to the offsets of a text it had.                                        *)
OldOffsets(c, offsets) ==
    IF c.p \in lagging /\ Para(c.p) = <<>> THEN {Cursor(c.p, o) : o \in offsets} ELSE {}
OldTargets(dir, c) ==
    CASE dir = "LINE_START" -> OldOffsets(c, 0 .. c.o)
      [] dir = "LINE_END" -> OldOffsets(c, c.o .. MaxText)
      [] dir = "FWD_WORD" /\ c.o # 0 -> OldOffsets(c, c.o + 1 .. MaxText)
      [] dir = "REV_WORD" /\ c.o # 0 -> OldOffsets(c, 0 .. c.o - 1)
      [] OTHER -> {}

Targets(dir, c) ==
    LET len == Len(Para(c.p)) IN
    CASE dir = "FWD_CHAR" -> {CharAfter(c)}
      [] dir = "REV_CHAR" -> {CharBefore(c)}
      [] dir = "FWD_WORD" -> IF c.o = len THEN {NextPara(c)}
                             ELSE {Cursor(c.p, o) : o \in {len} \cup (c.o + 1 .. len)}
      [] dir = "REV_WORD" -> IF c.o = 0 THEN {PrevPara(c)}
                             ELSE {Cursor(c.p, o) : o \in 0 .. Less(c.o - 1, len)}
      [] dir = "FWD_LINE" -> LineBelow(c)
      [] dir = "REV_LINE" -> LineAbove(c)
      [] dir = "PARA_START" -> {IF c.o = 0 THEN PrevPara(c) ELSE Cursor(c.p, 0)}
      [] dir = "PARA_END" -> {IF c.o = len THEN NextPara(c) ELSE ParaEnd(c.p)}
      [] dir = "LINE_START" -> {LineEnds(c).start}
      [] dir = "LINE_END" -> {LineEnds(c).end}
      [] dir = "TEXT_START" -> {Cursor(0, 0)}
      [] dir = "TEXT_END" -> {ParaEnd(LastPara)}

(* Without shift a selection collapses to the end the move goes to.        *)
ChangeSelection(shift, dir) ==
    /\ selectable
    /\ IF ~shift /\ selection.start # selection.end
       THEN selection' = At(IF dir \in Backwards THEN selection.start ELSE selection.end)
       ELSE \E c \in Targets(dir, selection.caret) \cup OldTargets(dir, selection.caret) :
               selection' = CaretMoved(shift, c)
    /\ UNCHANGED <<paragraphs, ime, lagging, in_focus, settings>>

-----------------------------------------------------------------------------
(* replace_text and its variants.  The selected paragraphs are merged into *)
(* the first; the offset of the end in the merged text is that of the      *)
(* paragraphs before the last.                                             *)

Merged(sel) ==
    LET from == sel.start.p
        to == sel.end.p
    IN  IF from >= to THEN Para(from) ELSE FlattenSeq(SubSeq(paragraphs, from + 1, to + 1))
(* A slip: a paragraph in the middle does not count.                       *)
FirstLength(sel) == IF sel.start.p = sel.end.p THEN 0 ELSE Len(Para(sel.start.p))

MergeOffset(sel) ==
    LET from == sel.start.p
        to == sel.end.p
    IN  IF from = to THEN 0
        ELSE IF from > to THEN Len(Para(from))
        ELSE Len(FlattenSeq(SubSeq(paragraphs, from + 1, to)))

(* The text that replaces the merged paragraphs.                           *)
ReplacedText(sel, new) ==
    Spliced(Merged(sel), sel.start.o, sel.end.o + MergeOffset(sel), new)
ParagraphsWith(sel, new) ==
    ShownOf(paragraphs, <<ReplacedText(sel, new)>>, sel)
CaretBehind(sel, new) ==
    At(Cursor(sel.start.p,
              sel.end.o + MergeOffset(sel) + Len(ReplacedText(sel, new)) - Len(Merged(sel))))

Replace(sel, new) ==
    /\ paragraphs' = ParagraphsWith(sel, new)
    /\ selection' = CaretBehind(sel, new)
    /\ lagging' = LaggingWith(sel.start.p, LastOf(sel), 1)
    /\ UNCHANGED <<ime, in_focus, settings>>

-----------------------------------------------------------------------------
(* The keys that edit.                                                     *)

CanEdit == selectable /\ ~readonly

(* A typed character; with shift, Enter.                                   *)
Type(ch) == CanEdit /\ Replace(selection, <<ch>>)
Paste(t) == CanEdit /\ Replace(selection, t)
Cut == CanEdit /\ Replace(selection, <<>>)

(* A slip: nothing is selected when the selection is empty.                *)
NotExtended(c) == selection

(* The selection that Backspace and Delete remove.                         *)
Extended(c) == IF selection.start = selection.end THEN CaretMoved(TRUE, c) ELSE selection

Backspace == CanEdit /\ Replace(Extended(CharBefore(selection.caret)), <<>>)
Delete == CanEdit /\ Replace(Extended(CharAfter(selection.caret)), <<>>)

(* A slip: the second paragraph starts where the selection does.           *)
HalvesFromStart ==
    <<TrimmedSubstr(Para(selection.start.p), 0, selection.start.o),
      TrimmedSubstr(Para(selection.start.p), selection.start.o, Len(Para(selection.start.p)))>>

(* Enter: what is before and behind the selection, as two paragraphs.      *)
Halves ==
    <<TrimmedSubstr(Para(selection.start.p), 0, selection.start.o),
      TrimmedSubstr(Para(selection.end.p), selection.end.o, Len(Para(selection.end.p)))>>

Enter ==
    LET from == selection.start.p
        to == selection.end.p
    IN  /\ CanEdit
        /\ paragraphs' = SubSeq(paragraphs, 1, from) \o Halves
                         \o SubSeq(paragraphs, (IF to < from THEN from ELSE to + 1) + 1,
                                   Len(paragraphs))
        /\ selection' = At(Cursor(from + 1, 0))
        /\ lagging' = IF to < from THEN LaggingWith(from, from - 1, 2)
                      ELSE LaggingWith(from, to, 2)
        /\ UNCHANGED <<ime, in_focus, settings>>

-----------------------------------------------------------------------------
(* The input method and the focus.                                         *)

FocusEnter ==
    /\ in_focus' = TRUE
    /\ UNCHANGED <<paragraphs, selection, ime, lagging, settings>>

FocusExit ==
    /\ in_focus' = FALSE /\ ime' = <<>>
    /\ UNCHANGED <<paragraphs, selection, lagging, settings>>

(* A slip: the end counts in its own paragraph, not in the merged text.    *)
PreviewUnmerged(t) == Spliced(Merged(selection), selection.start.o, selection.end.o, t)

(* The composed text in place of the selection, in a paragraph of its own. *)
Preview(t) ==
    Spliced(Merged(selection), selection.start.o, selection.end.o + MergeOffset(selection), t)

ImeUpdate(t) ==
    /\ in_focus /\ CanEdit
    /\ ime' = IF t = <<>> THEN <<>> ELSE <<Preview(t)>>
    /\ UNCHANGED <<paragraphs, selection, lagging, in_focus, settings>>

-----------------------------------------------------------------------------
(* The methods.                                                            *)

Clamp(x, low, high) == IF x < low THEN low ELSE IF x > high THEN high ELSE x
FixedCursor(paras, c) ==
    LET p == Clamp(c.p, 0, Len(paras) - 1)
    IN  Cursor(p, Clamp(c.o, 0, Len(paras[p + 1])))

(* _fix_selection: every cursor comes into the text, in no order.          *)
Fixed(paras, sel) ==
    [start |-> FixedCursor(paras, sel.start), end |-> FixedCursor(paras, sel.end),
     caret |-> FixedCursor(paras, sel.caret)]

Clear ==
    /\ paragraphs' = <<<<>>>> /\ selection' = At(Cursor(0, 0)) /\ ime' = <<>>
    /\ lagging' = {}
    /\ UNCHANGED <<in_focus, settings>>

(* set_paragraph, or an edit of the string of the paragraph by a script    *)
(* that the paragraph is told of ("string_changed"): new lines are made.   *)
SetParagraph(p, t) ==
    /\ paragraphs' = [paragraphs EXCEPT ![p + 1] = t]
    /\ lagging' = lagging \ {p}
    /\ UNCHANGED <<selection, ime, in_focus, settings>>

(* The edit it is not told of: set_text of its string with the empty text. *)
EmptyParagraph(p) ==
    /\ Para(p) # <<>>
    /\ paragraphs' = [paragraphs EXCEPT ![p + 1] = <<>>]
    /\ lagging' = lagging \cup {p}
    /\ UNCHANGED <<selection, ime, in_focus, settings>>

(* A property of the paragraph or an attribute of its string changes.      *)
RebuildParagraph(p) ==
    /\ lagging' = lagging \ {p}
    /\ UNCHANGED <<paragraphs, selection, ime, in_focus, settings>>

(* The selection is fixed before the insertion.                            *)
InsertParagraph(p, t) ==
    /\ selection' = Fixed(paragraphs, selection)
    /\ paragraphs' = InsertAt(paragraphs, p + 1, t)
    /\ lagging' = LaggingWith(p, p - 1, 1)
    /\ UNCHANGED <<ime, in_focus, settings>>

RemoveParagraph(p) ==
    /\ Len(paragraphs) > 1
    /\ paragraphs' = RemoveAt(paragraphs, p + 1)
    /\ selection' = Fixed(paragraphs', selection)
    /\ lagging' = LaggingWith(p, p, 0)
    /\ UNCHANGED <<ime, in_focus, settings>>

(* _fix_selection reads a paragraph of the empty vector.                   *)
RemoveOnlyParagraph ==
    /\ Len(paragraphs) = 1
    /\ defined' = FALSE
    /\ UNCHANGED <<paragraphs, selection, ime, lagging, in_focus, settings>>

SetSelection(sel) ==
    /\ selection' = Fixed(paragraphs, sel)
    /\ UNCHANGED <<paragraphs, ime, lagging, in_focus, settings>>

(* The setters of the selection the control holds.                         *)
SetCursor(field, coordinate, value) ==
    /\ selection[field][coordinate] # value
    /\ selection' = [selection EXCEPT ![field][coordinate] = value]
    /\ UNCHANGED <<paragraphs, ime, lagging, in_focus, settings>>

(* replace_text with a selection of the caller's.                          *)
ReplaceText(sel, t) == Replace(sel, t)

SetReadonly(b) ==
    /\ readonly' = b
    /\ UNCHANGED <<paragraphs, selection, ime, lagging, in_focus, selectable>>
SetSelectable(b) ==
    /\ selectable' = b
    /\ UNCHANGED <<paragraphs, selection, ime, lagging, in_focus, readonly>>

-----------------------------------------------------------------------------
AllInText == \A c \in {selection.start, selection.end, selection.caret} : InText(c)
Ordered ==
    /\ InText(selection.start) /\ InText(selection.end)
    /\ ~Before(selection.end, selection.start)
    /\ selection.caret \in {selection.start, selection.end}

ScriptTexts == Pasted \cup {<<>>}
Reachable(sel) == sel \in Selections(Cursors)

Keyboard ==
    \/ \E shift \in BOOLEAN, dir \in Forwards \cup Backwards : ChangeSelection(shift, dir)
    \/ \E ch \in Typed \cup {NL} : Type(ch)
    \/ \E t \in Pasted : Paste(t)
    \/ Cut \/ Enter \/ Backspace \/ Delete

Mouse == \E shift \in BOOLEAN, c \in Hits : Click(shift, c)

InputMethod == FocusEnter \/ FocusExit \/ \E t \in Composed \cup {<<>>} : ImeUpdate(t)

(* Bounds: what a script passes without set_selection lies in a paragraph  *)
(* and is not negative; it sets one coordinate at a time, to that of a     *)
(* selection in order while the control's is.                              *)
Methods ==
    \/ Clear
    \/ \E p \in Places, t \in ScriptTexts : SetParagraph(p, t)
    \/ \E p \in Places : EmptyParagraph(p) \/ RebuildParagraph(p)
    \/ \E p \in Places \cup {Len(paragraphs)}, t \in ScriptTexts : InsertParagraph(p, t)
    \/ \E p \in Places : RemoveParagraph(p)
    \/ \E sel \in ScriptSelections :
        \/ SetSelection(sel)
        \/ \E t \in ScriptTexts : Reachable(sel) /\ ReplaceText(sel, t)
        \/ /\ Ordered /\ ~Before(sel.end, sel.start)
           /\ \E field \in {"start", "end", "caret"}, coordinate \in {"p", "o"} :
              Reachable(sel) /\ SetCursor(field, coordinate, sel[field][coordinate])
    \/ \E b \in ReadonlyValues : SetReadonly(b)
    \/ \E b \in SelectableValues : SetSelectable(b)

InBounds ==
    /\ Len(paragraphs') <= MaxParagraphs
    /\ Len(FlattenSeq(paragraphs')) <= MaxText /\ Len(FlattenSeq(Shown')) <= MaxText
    /\ \A c \in {selection'.start, selection'.end, selection'.caret} : c.o <= MaxText
    /\ Cardinality(lagging') + Len(ime') <= MaxStale

UserInput == Keyboard \/ Mouse
Input == defined /\ (UserInput \/ InputMethod \/ Methods) /\ InBounds /\ UNCHANGED defined

Next ==
    \/ Input
    \/ defined /\ RemoveOnlyParagraph
    \/ ~defined /\ UNCHANGED vars

Spec == Init /\ [][Next]_vars

-----------------------------------------------------------------------------
(* Properties.                                                             *)

(* The whole text as one sequence, and the place of a cursor in it.        *)
ParagraphBreak == "paragraph break"
Broken(paras) == FlattenSeq([i \in DOMAIN paras |-> <<ParagraphBreak>> \o paras[i]])
Flat(paras) == Tail(Broken(paras))
Place(c) == c.p + Len(FlattenSeq(SubSeq(paragraphs, 1, c.p))) + c.o
FlatWith(new) ==
    Spliced(Flat(paragraphs), Place(selection.start), Place(selection.end), new)
WithoutBreaks(t) == FlattenSeq([i \in DOMAIN t |-> IF t[i] = NL THEN <<>> ELSE <<t[i]>>])

(* Keys and mouse leave the selection in the text, its ends in order and   *)
(* the caret at one of them (the exchange in _change_selection and         *)
(* _hit_test); removing a paragraph leaves it in the text (_fix_selection).*)
(* One key does not: in a paragraph that set_text has emptied, End goes to *)
(* the end of a line that is no longer there.                              *)
SelectionStaysInText ==
    [][/\ Ordered /\ ~Ordered' /\ UserInput =>
             selection.caret.p \in lagging /\ \E shift \in BOOLEAN : ChangeSelection(shift, "LINE_END")
       /\ ~AllInText' => \A p \in Places : ~RemoveParagraph(p)]_vars

(* An edit replaces what is selected and nothing else, however many        *)
(* paragraphs it merges (replace_text); with nothing selected Backspace    *)
(* and Delete remove the one character or paragraph break next to the      *)
(* caret.                                                                  *)
EditsReplaceTheSelection ==
    [][Ordered =>
        /\ \A t \in Pasted : Paste(t) => Flat(paragraphs') = FlatWith(t)
        /\ Cut => Flat(paragraphs') = FlatWith(<<>>)
        /\ \A sel \in ScriptSelections, t \in Pasted :
             InText(sel.start) /\ InText(sel.end) /\ ~Before(sel.end, sel.start)
                /\ ReplaceText(sel, t) =>
             Flat(paragraphs') = Spliced(Flat(paragraphs), Place(sel.start), Place(sel.end), t)
        /\ LET text == Flat(paragraphs)
               from == Place(selection.start)
               empty == selection.start = selection.end
           IN  /\ Backspace => Flat(paragraphs') =
                    IF empty THEN Spliced(text, from - 1, from, <<>>) ELSE FlatWith(<<>>)
               /\ Delete => Flat(paragraphs') =
                    IF empty THEN Spliced(text, from, from + 1, <<>>) ELSE FlatWith(<<>>)]_vars

(* Enter puts a paragraph break in place of the selection and loses no     *)
(* character but line breaks (the trimmed substr).                         *)
EnterSplitsTheText ==
    [][Ordered /\ Enter =>
          WithoutBreaks(Flat(paragraphs')) = WithoutBreaks(FlatWith(<<ParagraphBreak>>))]_vars

(* While text is composed the control shows what it would after the        *)
(* composed text has been entered (NOTIFICATION_OS_IME_UPDATE merges the   *)
(* paragraphs a second time, in code of its own).                          *)
CompositionShowsTheEdit ==
    [][\A t \in Composed : Ordered /\ ImeUpdate(t) => Flat(Shown') = FlatWith(t)]_vars


(* A forward key never takes the caret back, a backward key never          *)
(* forward, over lines and paragraphs (the arms of _change_selection).     *)
MovesKeepTheirDirection ==
    [][\A shift \in BOOLEAN :
          Ordered /\ (shift \/ selection.start = selection.end) =>
          /\ Before(selection'.caret, selection.caret) =>
                \A dir \in Forwards : ~ChangeSelection(shift, dir)
          /\ Before(selection.caret, selection'.caret) =>
                \A dir \in Backwards : ~ChangeSelection(shift, dir)]_vars
=============================================================================
