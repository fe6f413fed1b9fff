--------------------------- MODULE LineEditProofs ---------------------------
(***************************************************************************)
(* Theorems about LineEdit, for texts and histories of every length and    *)
(* for every bound.                                                        *)
(***************************************************************************)
EXTENDS LineEdit, SequenceTheorems, TLAPS

-----------------------------------------------------------------------------
(* What the cuts of a text contain, character by character.                *)

CutLength(size, from, n) ==
    IF from < 0 \/ from >= size \/ n <= 0 THEN 0
    ELSE IF from + n > size THEN size - from ELSE n
IsCut(cut, t, from, n) ==
    /\ Len(cut) = CutLength(Len(t), from, n)
    /\ \A i \in 1 .. Len(cut) : cut[i] = t[from + i]

LEMMA SubstrIs ==
    ASSUME NEW S, NEW t \in Seq(S), NEW from \in Int, NEW n \in Int
    PROVE  Substr(t, from, n) \in Seq(S) /\ IsCut(Substr(t, from, n), t, from, n)
<1> USE DEF IsCut, CutLength
<1>1. Len(t) \in Nat /\ \A i \in 1 .. Len(t) : t[i] \in S
  BY ElementOfSeq
<1>2. CASE from < 0 \/ from >= Len(t) \/ n <= 0
  <2>1. Substr(t, from, n) = <<>>
    BY <1>2 DEF Substr
  <2> QED BY <1>2, <2>1, EmptySeq
<1>3. CASE ~(from < 0 \/ from >= Len(t) \/ n <= 0)
  <2> DEFINE to == IF from + n > Len(t) THEN Len(t) ELSE from + n
  <2>1. Substr(t, from, n) = SubSeq(t, from + 1, to)
    BY <1>1, <1>3 DEF Substr, Clamp
  <2>2. to \in Int /\ from + 1 <= to /\ to <= Len(t)
    BY <1>1, <1>3
  <2>3. to - from = IF from + n > Len(t) THEN Len(t) - from ELSE n
    BY <1>1, <1>3
  <2> HIDE DEF to
  <2>4. \A i \in from + 1 .. to : t[i] \in S
    BY <1>1, <1>3, <2>2
  <2>5. /\ SubSeq(t, from + 1, to) \in Seq(S)
        /\ Len(SubSeq(t, from + 1, to)) = to - from
        /\ \A i \in 1 .. to - from : SubSeq(t, from + 1, to)[i] = t[from + i]
    <3>1. from + 1 \in Int
      OBVIOUS
    <3>2. /\ SubSeq(t, from + 1, to) \in Seq(S)
          /\ Len(SubSeq(t, from + 1, to)) =
                IF from + 1 <= to THEN to - (from + 1) + 1 ELSE 0
          /\ \A i \in 1 .. to - (from + 1) + 1 :
                SubSeq(t, from + 1, to)[i] = t[(from + 1) + i - 1]
      BY <2>2, <2>4, <3>1, SubSeqProperties
    <3>3. \A i \in 1 .. to - from : (from + 1) + i - 1 = from + i
      BY <2>2
    <3> QED BY <2>2, <3>2, <3>3
  <2> QED BY <1>1, <1>3, <2>1, <2>3, <2>5
<1> QED BY <1>2, <1>3

(* What erasing n characters leaves: k characters of the text.             *)
IsRest(rest, t, from, n, k) ==
    /\ Len(rest) = k
    /\ \A i \in 1 .. k : rest[i] = IF i <= from THEN t[i] ELSE t[i + n]

LEMMA EraseIs ==
    ASSUME NEW S, NEW t \in Seq(S), NEW from \in Nat, NEW n \in Nat, from + n <= Len(t)
    PROVE  /\ Erase(t, from, n) \in Seq(S)
           /\ IsRest(Erase(t, from, n), t, from, n, Len(t) - n)
<1> DEFINE a == Substr(t, 0, from)
           b == Substr(t, from + n, Len(t) - (from + n))
<1>0. Len(t) \in Nat
  BY LenProperties
<1>1. /\ a \in Seq(S) /\ Len(a) = from
      /\ \A i \in 1 .. from : a[i] = t[i]
  <2>1. a \in Seq(S) /\ IsCut(a, t, 0, from)
    BY SubstrIs
  <2> HIDE DEF a
  <2> QED BY <1>0, <2>1 DEF IsCut, CutLength
<1>2. /\ b \in Seq(S) /\ Len(b) = Len(t) - (from + n)
      /\ \A i \in 1 .. Len(t) - (from + n) : b[i] = t[from + n + i]
  <2>1. from + n \in Int /\ Len(t) - (from + n) \in Int
    BY <1>0
  <2>2. b \in Seq(S) /\ IsCut(b, t, from + n, Len(t) - (from + n))
    BY <2>1, SubstrIs
  <2> HIDE DEF b
  <2>3. Len(b) = Len(t) - (from + n)
    BY <1>0, <2>2 DEF IsCut, CutLength
  <2> QED BY <2>2, <2>3 DEF IsCut
<1>3. Erase(t, from, n) = a \o b
  BY DEF Erase
<1> HIDE DEF a, b
<1>4. /\ a \o b \in Seq(S)
      /\ Len(a \o b) = Len(a) + Len(b)
      /\ \A i \in 1 .. Len(a) + Len(b) :
            (a \o b)[i] = IF i <= Len(a) THEN a[i] ELSE b[i - Len(a)]
  BY <1>1, <1>2, ConcatProperties
<1>5. Len(a) + Len(b) = Len(t) - n
  BY <1>0, <1>1, <1>2
<1>6. ASSUME NEW i \in 1 .. Len(t) - n
      PROVE  (a \o b)[i] = IF i <= from THEN t[i] ELSE t[i + n]
  <2>0. i \in Int /\ i >= 1
    BY <1>0
  <2>1. (a \o b)[i] = IF i <= from THEN a[i] ELSE b[i - from]
    BY <1>1, <1>4, <1>5
  <2>2. CASE i <= from
    BY <1>1, <2>0, <2>1, <2>2
  <2>3. CASE i > from
    <3>1. i - from \in 1 .. Len(t) - (from + n) /\ from + n + (i - from) = i + n
      BY <1>0, <2>3
    <3> QED BY <1>2, <2>0, <2>1, <2>3, <3>1
  <2>4. i <= from \/ i > from
    BY <2>0
  <2> QED BY <2>2, <2>3, <2>4, Zenon
<1>7. Erase(t, from, n) \in Seq(S) /\ Len(Erase(t, from, n)) = Len(t) - n
  BY <1>3, <1>4, <1>5
<1> QED BY <1>3, <1>6, <1>7 DEF IsRest

(* Whatever the range is, what remains is a text.                          *)
LEMMA EraseType ==
    ASSUME NEW S, NEW t \in Seq(S), NEW from \in Int, NEW n \in Int
    PROVE  Erase(t, from, n) \in Seq(S) /\ Len(Erase(t, from, n)) \in Nat
<1>1. Len(t) \in Nat /\ from + n \in Int /\ Len(t) - (from + n) \in Int
  BY LenProperties
<1>2. Substr(t, 0, from) \in Seq(S)
  BY SubstrIs
<1>3. Substr(t, from + n, Len(t) - (from + n)) \in Seq(S)
  BY <1>1, SubstrIs
<1>4. Erase(t, from, n) \in Seq(S)
  BY <1>2, <1>3, ConcatProperties DEF Erase
<1> QED BY <1>4, LenProperties

-----------------------------------------------------------------------------
(* Edits keep texts texts, and a cursor that starts in the text stays in   *)
(* it.                                                                     *)

InText(op) == 0 <= op.cursor_pos /\ op.cursor_pos <= Len(op.text)

LEMMA TextsHaveLengths == \A t \in Texts : Len(t) \in Nat
BY LenProperties DEF Texts

LEMMA HereIs ==
    ASSUME text \in Texts, cursor_pos \in Int
    PROVE  Here \in TextOperation /\ Here.text = text /\ Here.cursor_pos = cursor_pos
BY DEF Here, TextOperation

LEMMA SetCursorPositionType ==
    ASSUME NEW op \in TextOperation, NEW p \in Int
    PROVE  /\ SetCursorPosition(op, p) \in TextOperation
           /\ InText(SetCursorPosition(op, p))
           /\ SetCursorPosition(op, p).text = op.text
<1> DEFINE c == Clamp(p, 0, Len(op.text))
<1>1. op.text \in Texts /\ Len(op.text) \in Nat
  BY TextsHaveLengths DEF TextOperation
<1>2. c \in Int /\ 0 <= c /\ c <= Len(op.text)
  BY <1>1 DEF Clamp
<1>3. SetCursorPosition(op, p) = [op EXCEPT !.cursor_pos = c]
  BY DEF SetCursorPosition
<1> HIDE DEF c
<1>4. SetCursorPosition(op, p) = [text |-> op.text, cursor_pos |-> c]
  BY <1>3 DEF TextOperation
<1> QED BY <1>1, <1>2, <1>4 DEF TextOperation, InText

LEMMA WithTextType ==
    ASSUME NEW op \in TextOperation, NEW t \in Texts
    PROVE  /\ [op EXCEPT !.text = t] \in TextOperation
           /\ [op EXCEPT !.text = t].text = t
           /\ [op EXCEPT !.text = t].cursor_pos = op.cursor_pos
BY DEF TextOperation

LEMMA AppendAtCursorType ==
    ASSUME NEW op \in TextOperation, NEW t \in Texts
    PROVE  /\ AppendAtCursor(op, t) \in TextOperation
           /\ InText(op) => InText(AppendAtCursor(op, t))
<1> DEFINE pre == Substr(op.text, 0, op.cursor_pos)
           post == Substr(op.text, op.cursor_pos, Len(op.text) - op.cursor_pos)
           new == pre \o t \o post
<1>1. op.text \in Texts /\ op.cursor_pos \in Int /\ Len(op.text) \in Nat /\ Len(t) \in Nat
  BY TextsHaveLengths DEF TextOperation
<1>2. pre \in Texts
  BY <1>1, SubstrIs DEF Texts
<1>3. post \in Texts
  <2>1. Len(op.text) - op.cursor_pos \in Int
    BY <1>1
  <2> QED BY <1>1, <2>1, SubstrIs DEF Texts
<1> HIDE DEF pre, post
<1>4. new \in Texts
  <2>1. pre \o t \in Texts
    BY <1>2, ConcatProperties DEF Texts
  <2> QED BY <1>3, <2>1, ConcatProperties DEF Texts
<1> HIDE DEF new
<1>5. CASE max_length <= 0 \/ Len(op.text) + Len(t) <= max_length
  <2>1. AppendAtCursor(op, t) =
            SetCursorPosition([op EXCEPT !.text = new], op.cursor_pos + Len(t))
    BY <1>5 DEF AppendAtCursor, pre, post, new
  <2>2. op.cursor_pos + Len(t) \in Int
    BY <1>1
  <2>3. [op EXCEPT !.text = new] \in TextOperation
    BY <1>4, WithTextType
  <2> QED BY <2>1, <2>2, <2>3, SetCursorPositionType
<1>6. CASE ~(max_length <= 0 \/ Len(op.text) + Len(t) <= max_length)
  BY <1>6 DEF AppendAtCursor
<1> QED BY <1>5, <1>6

LEMMA DeleteTextType ==
    ASSUME NEW op \in TextOperation, NEW from \in Int, NEW to \in Int
    PROVE  /\ DeleteText(op, from, to) \in TextOperation
           /\ from >= 0 /\ InText(op) => InText(DeleteText(op, from, to))
<1> DEFINE rest == Erase(op.text, from, to - from)
           shift == Clamp(op.cursor_pos - from, 0, to - from)
           cursor == op.cursor_pos - shift
<1>1. op.text \in Texts /\ op.cursor_pos \in Int /\ Len(op.text) \in Nat
  BY TextsHaveLengths DEF TextOperation
<1>2. rest \in Texts /\ Len(rest) \in Nat
  <2>1. to - from \in Int
    OBVIOUS
  <2> QED BY <1>1, <2>1, EraseType DEF Texts
<1>3. shift \in Int /\ (from >= 0 /\ op.cursor_pos >= 0 => shift <= op.cursor_pos)
  BY <1>1 DEF Clamp
<1>4. DeleteText(op, from, to) =
        [text |-> rest, cursor_pos |-> IF cursor >= Len(rest) THEN Len(rest) ELSE cursor]
  BY DEF DeleteText
<1> HIDE DEF rest, shift
<1>5. (IF cursor >= Len(rest) THEN Len(rest) ELSE cursor) \in Int
  BY <1>1, <1>2, <1>3
<1> QED BY <1>1, <1>2, <1>3, <1>4, <1>5 DEF TextOperation, InText

LEMMA DeleteCharType ==
    ASSUME NEW op \in TextOperation
    PROVE  DeleteChar(op) \in TextOperation /\ InText(DeleteChar(op))
<1>1. op.text \in Texts /\ op.cursor_pos \in Int /\ op.cursor_pos - 1 \in Int
  BY DEF TextOperation
<1>2. Erase(op.text, op.cursor_pos - 1, 1) \in Texts
  BY <1>1, EraseType DEF Texts
<1>3. [op EXCEPT !.text = Erase(op.text, op.cursor_pos - 1, 1)] \in TextOperation
  BY <1>2, WithTextType
<1> QED BY <1>1, <1>3, SetCursorPositionType DEF DeleteChar

-----------------------------------------------------------------------------
(* The text and the cursor after a step.                                   *)

StaysInText ==
    /\ text' \in Texts /\ cursor_pos' \in Int
    /\ CursorInText /\ selection.begin >= 0 => CursorInText'

LEMMA BecomesStays ==
    ASSUME NEW op \in TextOperation, Becomes(op),
           CursorInText /\ selection.begin >= 0 => InText(op)
    PROVE  StaysInText
BY DEF Becomes, TextOperation, InText, StaysInText, CursorInText

LEMMA UnchangedStays ==
    ASSUME TypeOK, UNCHANGED texts
    PROVE  StaysInText
BY DEF TypeOK, texts, StaysInText, CursorInText

LEMMA HereStays ==
    ASSUME TypeOK
    PROVE  /\ Here \in TextOperation /\ Here.text = text /\ Here.cursor_pos = cursor_pos
           /\ CursorInText => InText(Here)
BY HereIs DEF TypeOK, InText, CursorInText

LEMMA WithoutSelectionStays ==
    ASSUME TypeOK
    PROVE  /\ WithoutSelection(Here) \in TextOperation
           /\ CursorInText /\ selection.begin >= 0 => InText(WithoutSelection(Here))
<1>1. selection.begin \in Int /\ selection.end \in Int
  BY DEF TypeOK, Selection
<1> QED BY <1>1, HereStays, DeleteTextType DEF WithoutSelection

(* Two forms most actions have.                                            *)
LEMMA SetCursorStays ==
    ASSUME NEW op \in TextOperation, NEW p \in Int, Becomes(SetCursorPosition(op, p))
    PROVE  StaysInText
BY SetCursorPositionType, BecomesStays

LEMMA DeleteSelectionStays ==
    ASSUME TypeOK, DeleteSelection
    PROVE  StaysInText
BY WithoutSelectionStays, BecomesStays DEF DeleteSelection

LEMMA RemoveCharStays ==
    ASSUME TypeOK, NEW op \in TextOperation, RemoveChar(op), CursorInText => InText(op)
    PROVE  StaysInText
<1>1. CASE HasCharBefore(op)
  BY <1>1, DeleteCharType, BecomesStays DEF RemoveChar
<1>2. CASE ~HasCharBefore(op)
  BY <1>2, BecomesStays DEF RemoveChar
<1> QED BY <1>1, <1>2

LEMMA RestoreStays ==
    ASSUME TypeOK, NEW i \in 1 .. Len(undo_stack), Restore(i)
    PROVE  StaysInText
<1>1. undo_stack[i] \in TextOperation
  BY ElementOfSeq DEF TypeOK
<1>2. undo_stack[i].cursor_pos \in Int
  BY <1>1 DEF TextOperation
<1> QED BY <1>1, <1>2, SetCursorStays DEF Restore

LEMMA UndoRedoRange ==
    ASSUME TypeOK
    PROVE  /\ Undo => \E i \in 1 .. Len(undo_stack) : Restore(i)
           /\ Redo => \E i \in 1 .. Len(undo_stack) : Restore(i)
<1>1. Len(undo_stack) \in Nat /\ undo_stack_pos \in {End} \cup 1 .. Len(undo_stack)
  BY LenProperties DEF TypeOK
<1>2. ASSUME Undo PROVE \E i \in 1 .. Len(undo_stack) : Restore(i)
  <2>1. CASE undo_stack_pos = End
    <3>1. Len(undo_stack) \in 1 .. Len(undo_stack) /\ Restore(Len(undo_stack))
      BY <1>1, <1>2, <2>1 DEF Undo
    <3> QED BY <3>1
  <2>2. CASE undo_stack_pos # End
    <3>1. undo_stack_pos - 1 \in 1 .. Len(undo_stack) /\ Restore(undo_stack_pos - 1)
      BY <1>1, <1>2, <2>2 DEF Undo
    <3> QED BY <3>1
  <2> QED BY <2>1, <2>2
<1>3. ASSUME Redo PROVE \E i \in 1 .. Len(undo_stack) : Restore(i)
  <2>1. undo_stack_pos + 1 \in 1 .. Len(undo_stack) /\ Restore(undo_stack_pos + 1)
    BY <1>1, <1>3 DEF Redo
  <2> QED BY <2>1
<1> QED BY <1>2, <1>3

LEMMA KeyboardStays ==
    ASSUME TypeOK, Keyboard
    PROVE  StaysInText
<1>0. /\ text \in Texts /\ Len(text) \in Nat /\ cursor_pos \in Int
      /\ Places \subseteq Int
  BY TextsHaveLengths DEF TypeOK, Places
<1>1. ASSUME NEW shift \in BOOLEAN,
             NEW p \in {0, Len(text), cursor_pos - 1, cursor_pos + 1} \cup (Places \ {cursor_pos}),
             MoveCursor(shift, p)
      PROVE  StaysInText
  <2>1. p \in Int
    BY <1>0
  <2> QED BY <1>1, <2>1, HereStays, SetCursorStays DEF MoveCursor
<1>2. ASSUME NEW shift \in BOOLEAN, AltRight(shift) PROVE StaysInText
  BY <1>2, UnchangedStays DEF AltRight
<1>3. ASSUME NEW c \in Chars, Type(c) PROVE StaysInText
  <2>1. PICK u \in Inputs : Len(u) = 1 /\ c = u[1]
    BY DEF Chars
  <2>2. c \in Characters
    BY <2>1 DEF Characters
  <2>3. <<c>> \in Texts
    BY <2>2 DEF Texts
  <2> QED BY <1>3, <2>3, WithoutSelectionStays, AppendAtCursorType, BecomesStays DEF Type
<1>4. CASE Cut
  BY <1>4, DeleteSelectionStays DEF Cut
<1>5. CASE Backspace
  BY <1>5, DeleteSelectionStays, HereStays, RemoveCharStays DEF Backspace
<1>6. CASE Delete
  <2>1. cursor_pos + 1 \in Int
    BY <1>0
  <2>2. /\ SetCursorPosition(Here, cursor_pos + 1) \in TextOperation
        /\ InText(SetCursorPosition(Here, cursor_pos + 1))
    BY <2>1, HereStays, SetCursorPositionType
  <2> QED BY <1>6, <2>2, DeleteSelectionStays, RemoveCharStays DEF Delete
<1>7. CASE DeleteToStart
  <2> DEFINE new == Substr(text, cursor_pos, Len(text) - cursor_pos)
  <2>1. new \in Texts
    <3>1. Len(text) - cursor_pos \in Int
      BY <1>0
    <3> QED BY <1>0, <3>1, SubstrIs DEF Texts
  <2>2. Becomes([text |-> new, cursor_pos |-> 0])
    BY <1>7 DEF DeleteToStart
  <2> HIDE DEF new
  <2> QED BY <2>1, <2>2, TextsHaveLengths DEF Becomes, StaysInText, CursorInText
<1>8. CASE DeleteToEnd
  <2> DEFINE new == Substr(text, 0, cursor_pos)
  <2>1. new \in Texts /\ (CursorInText => Len(new) = cursor_pos)
    <3>1. new \in Texts /\ IsCut(new, text, 0, cursor_pos)
      BY <1>0, SubstrIs DEF Texts
    <3> HIDE DEF new
    <3> QED BY <1>0, <3>1 DEF CursorInText, IsCut, CutLength
  <2>2. Becomes([Here EXCEPT !.text = new])
    BY <1>8 DEF DeleteToEnd
  <2> HIDE DEF new
  <2>3. /\ [Here EXCEPT !.text = new].text = new
        /\ [Here EXCEPT !.text = new].cursor_pos = cursor_pos
    BY <2>1, HereStays, WithTextType
  <2> QED BY <1>0, <2>1, <2>2, <2>3 DEF Becomes, StaysInText, CursorInText
<1>9. ASSUME NEW cc \in Places \cup {cursor_pos}, BackspaceWord(cc) PROVE StaysInText
  <2>1. cc \in Int
    BY <1>0
  <2>2. DeleteText(Here, cc, cursor_pos) \in TextOperation
    BY <1>0, <2>1, HereStays, DeleteTextType
  <2> QED BY <1>9, <2>1, <2>2, SetCursorStays DEF BackspaceWord
<1>10. ASSUME NEW cc \in Places \cup {cursor_pos}, DeleteWord(cc) PROVE StaysInText
  <2>1. cc \in Int
    BY <1>0
  <2>2. /\ DeleteText(Here, cursor_pos, cc) \in TextOperation
        /\ CursorInText => InText(DeleteText(Here, cursor_pos, cc))
    BY <1>0, <2>1, HereStays, DeleteTextType DEF CursorInText
  <2> QED BY <1>10, <2>2, BecomesStays DEF DeleteWord
<1>11. ASSUME NEW t \in Inputs, Paste(t) PROVE StaysInText
  BY <1>11, InputsAssumption, WithoutSelectionStays, AppendAtCursorType, BecomesStays DEF Paste
<1>12. CASE Undo
  BY <1>12, UndoRedoRange, RestoreStays
<1>13. CASE Redo
  BY <1>13, UndoRedoRange, RestoreStays
<1>14. CASE Clear
  BY <1>14, EmptySeq DEF Clear, StaysInText, CursorInText, Texts
<1> QED
  BY <1>1, <1>2, <1>3, <1>4, <1>5, <1>6, <1>7, <1>8, <1>9, <1>10, <1>11, <1>12, <1>13, <1>14
  DEF Keyboard

(* drop_data is the one that may take the cursor out of the text.          *)
LEMMA MouseStays ==
    ASSUME TypeOK, Mouse
    PROVE  /\ text' \in Texts /\ cursor_pos' \in Int
           /\ StaysInText \/ Dropped
<1>0. Places \subseteq Int
  BY DEF Places
<1>1. ASSUME NEW p \in Places, NEW shift \in BOOLEAN, NEW doubleclick \in BOOLEAN,
             MousePress(shift, doubleclick, p)
      PROVE  StaysInText
  BY <1>0, <1>1, HereStays, SetCursorStays DEF MousePress
<1>2. ASSUME NEW p \in Places, MouseDrag(p) PROVE StaysInText
  BY <1>0, <1>2, HereStays, SetCursorStays DEF MouseDrag
<1>3. ASSUME NEW p \in Places, NEW t \in Inputs, DropData(t, p)
      PROVE  text' \in Texts /\ cursor_pos' \in Int /\ Dropped
  <2> DEFINE cut == Erase(text, selection.begin, selection.end - selection.begin)
             erased == [SetCursorPosition(Here, p) EXCEPT !.text = cut]
  <2>1. cut \in Texts
    <3>1. /\ text \in Texts /\ selection.begin \in Int
          /\ selection.end - selection.begin \in Int
      BY DEF TypeOK, Selection
    <3> QED BY <3>1, EraseType DEF Texts
  <2>2. erased \in TextOperation
    <3> HIDE DEF cut
    <3> QED BY <1>0, <2>1, HereStays, SetCursorPositionType, WithTextType
  <2>3. Becomes(AppendAtCursor(erased, t))
    BY <1>3 DEF DropData
  <2> HIDE DEF cut, erased
  <2>4. AppendAtCursor(erased, t) \in TextOperation
    BY <2>2, InputsAssumption, AppendAtCursorType
  <2>5. Dropped
    BY <1>3 DEF Dropped
  <2> QED BY <2>3, <2>4, <2>5 DEF Becomes, TextOperation
<1>4. ASSUME MouseRelease PROVE StaysInText
  BY <1>4, UnchangedStays DEF MouseRelease
<1>5. CASE \E p \in Places, t \in Inputs : DropData(t, p)
  BY <1>3, <1>5
<1>6. CASE \/ \E p \in Places :
              \/ \E shift, doubleclick \in BOOLEAN : MousePress(shift, doubleclick, p)
              \/ MouseDrag(p)
           \/ MouseRelease
  <2>1. StaysInText
    BY <1>1, <1>2, <1>4, <1>6
  <2> QED BY <2>1 DEF StaysInText
<1> QED BY <1>5, <1>6 DEF Mouse

LEMMA ResetStays ==
    ASSUME TypeOK, NEW t \in Texts, NEW length, Reset(t, length)
    PROVE  StaysInText
BY EmptySeq, TextsHaveLengths DEF Reset, StaysInText, CursorInText, Texts

LEMMA MethodsStay ==
    ASSUME TypeOK, Methods
    PROVE  StaysInText
<1>0. Places \subseteq Int /\ text \in Texts
  BY DEF Places, TypeOK
<1>1. ASSUME NEW t \in Inputs, SetText(t) PROVE StaysInText
  BY <1>1, InputsAssumption, ResetStays DEF SetText
<1>2. ASSUME NEW t \in Inputs, AppendText(t) PROVE StaysInText
  BY <1>2, InputsAssumption, HereStays, AppendAtCursorType, BecomesStays DEF AppendText
<1>3. ASSUME NEW n \in Lengths, SetMaxLength(n) PROVE StaysInText
  BY <1>0, <1>3, ResetStays DEF SetMaxLength
<1>4. CASE Clear
  BY <1>4, EmptySeq DEF Clear, StaysInText, CursorInText, Texts
<1>5. ASSUME NEW p \in Places, SetCursor(p) PROVE StaysInText
  BY <1>0, <1>5, HereStays, SetCursorStays DEF SetCursor
<1>6. ASSUME NEW from \in Places, NEW to \in Places, Select(from, to) PROVE StaysInText
  BY <1>6, UnchangedStays DEF Select
<1>7. CASE SelectAll \/ Deselect
  BY <1>7, UnchangedStays DEF SelectAll, Deselect
<1>8. ASSUME NEW b \in Flags, SetEditable(b) PROVE StaysInText
  BY <1>8, UnchangedStays DEF SetEditable
<1> QED
  BY <1>1, <1>2, <1>3, <1>4, <1>5, <1>6, <1>7, <1>8 DEF Methods

LEMMA TextStep ==
    ASSUME TypeOK, [Next]_vars
    PROVE  /\ text' \in Texts /\ cursor_pos' \in Int /\ Len(text') <= MaxText
           /\ StaysInText \/ Dropped
<1>1. CASE Input
  <2>1. Len(text') <= MaxText
    BY <1>1 DEF Input, InBounds
  <2>2. CASE Keyboard \/ Methods
    BY <2>1, <2>2, KeyboardStays, MethodsStay DEF StaysInText
  <2>3. CASE Mouse
    BY <2>1, <2>3, MouseStays
  <2> QED BY <1>1, <2>2, <2>3 DEF Input
<1>2. CASE ~Input
  <2>1. UNCHANGED texts
    BY <1>2 DEF Next, Flush, UndefinedBehaviour, vars
  <2>2. Len(text') <= MaxText
    BY <2>1 DEF texts, TypeOK
  <2> QED BY <2>1, <2>2, UnchangedStays DEF StaysInText
<1> QED BY <1>1, <1>2

-----------------------------------------------------------------------------
(* The selection after a step.                                             *)

SelectionInv == selection.begin <= selection.end
IsSelection(sel) == sel \in Selection /\ sel.begin <= sel.end

LEMMA NoSelectionType == IsSelection(NoSelection)
<1>1. NoSelection \in Selection
  BY DEF NoSelection, Selection
<1> QED BY <1>1 DEF NoSelection, IsSelection

LEMMA FilledType ==
    ASSUME NEW sel \in Selection, NEW p \in Int
    PROVE  IsSelection(Filled(sel, p))
<1>1. Filled(sel, p) \in Selection
  BY DEF Filled, Selection
<1>2. Filled(sel, p).begin = IF p <= sel.cursor_start THEN p ELSE sel.cursor_start
  BY DEF Filled, Selection
<1>3. Filled(sel, p).end = IF p <= sel.cursor_start THEN sel.cursor_start ELSE p
  BY DEF Filled, Selection
<1>4. sel.cursor_start \in Int
  BY DEF Selection
<1> QED BY <1>1, <1>2, <1>3, <1>4 DEF IsSelection

LEMMA ShiftType ==
    ASSUME TypeOK, SelectionInv, NEW shift \in BOOLEAN, NEW p \in Int
    PROVE  /\ IsSelection(ShiftPre(shift))
           /\ IsSelection(ShiftPost(shift, p))
<1>1. IsSelection(ShiftPre(shift))
  <2>1. selection \in Selection /\ cursor_pos \in Int
    BY DEF TypeOK
  <2>2. IsSelection([selection EXCEPT !.cursor_start = cursor_pos])
    <3>1. [selection EXCEPT !.cursor_start = cursor_pos] \in Selection
      BY <2>1 DEF Selection
    <3>2. /\ [selection EXCEPT !.cursor_start = cursor_pos].begin = selection.begin
          /\ [selection EXCEPT !.cursor_start = cursor_pos].end = selection.end
      BY <2>1 DEF Selection
    <3> QED BY <3>1, <3>2 DEF SelectionInv, IsSelection
  <2>3. IsSelection(selection)
    BY <2>1 DEF SelectionInv, IsSelection
  <2> QED BY <2>2, <2>3, NoSelectionType DEF ShiftPre
<1> QED BY <1>1, FilledType DEF ShiftPost, IsSelection

(* A range and flags, whatever the cursor was.                             *)
LEMMA RangeType ==
    ASSUME NEW sel \in Selection, NEW from \in Int, NEW to \in Int, from <= to
    PROVE  /\ IsSelection([sel EXCEPT !.begin = from, !.end = to])
           /\ IsSelection([sel EXCEPT !.begin = from, !.end = to, !.enabled = TRUE])
           /\ IsSelection([sel EXCEPT !.begin = from, !.end = to, !.enabled = TRUE,
                                      !.creating = FALSE, !.doubleclick = FALSE])
<1>1. IsSelection([sel EXCEPT !.begin = from, !.end = to])
  <2>1. [sel EXCEPT !.begin = from, !.end = to] \in Selection
    BY DEF Selection
  <2>2. [sel EXCEPT !.begin = from, !.end = to].begin = from
    BY DEF Selection
  <2>3. [sel EXCEPT !.begin = from, !.end = to].end = to
    BY DEF Selection
  <2> QED BY <2>1, <2>2, <2>3 DEF IsSelection
<1>2. IsSelection([sel EXCEPT !.begin = from, !.end = to, !.enabled = TRUE])
  <2>1. [sel EXCEPT !.begin = from, !.end = to, !.enabled = TRUE] \in Selection
    BY DEF Selection
  <2>2. [sel EXCEPT !.begin = from, !.end = to, !.enabled = TRUE].begin = from
    BY DEF Selection
  <2>3. [sel EXCEPT !.begin = from, !.end = to, !.enabled = TRUE].end = to
    BY DEF Selection
  <2> QED BY <2>1, <2>2, <2>3 DEF IsSelection
<1>3. IsSelection([sel EXCEPT !.begin = from, !.end = to, !.enabled = TRUE,
                             !.creating = FALSE, !.doubleclick = FALSE])
  <2>1. [sel EXCEPT !.begin = from, !.end = to, !.enabled = TRUE,
                    !.creating = FALSE, !.doubleclick = FALSE] \in Selection
    BY DEF Selection
  <2>2. [sel EXCEPT !.begin = from, !.end = to, !.enabled = TRUE,
                    !.creating = FALSE, !.doubleclick = FALSE].begin = from
    BY DEF Selection
  <2>3. [sel EXCEPT !.begin = from, !.end = to, !.enabled = TRUE,
                    !.creating = FALSE, !.doubleclick = FALSE].end = to
    BY DEF Selection
  <2> QED BY <2>1, <2>2, <2>3 DEF IsSelection
<1> QED BY <1>1, <1>2, <1>3

LEMMA CreatingType ==
    ASSUME NEW sel, IsSelection(sel)
    PROVE  IsSelection([sel EXCEPT !.creating = TRUE])
<1>1. [sel EXCEPT !.creating = TRUE] \in Selection
  BY DEF IsSelection, Selection
<1>2. /\ [sel EXCEPT !.creating = TRUE].begin = sel.begin
      /\ [sel EXCEPT !.creating = TRUE].end = sel.end
  BY DEF IsSelection, Selection
<1> QED BY <1>1, <1>2 DEF IsSelection

LEMMA ReleasedType ==
    ASSUME NEW sel, IsSelection(sel)
    PROVE  IsSelection([sel EXCEPT !.creating = FALSE, !.doubleclick = FALSE])
<1>1. [sel EXCEPT !.creating = FALSE, !.doubleclick = FALSE] \in Selection
  BY DEF IsSelection, Selection
<1>2. [sel EXCEPT !.creating = FALSE, !.doubleclick = FALSE].begin = sel.begin
  BY DEF IsSelection, Selection
<1>3. [sel EXCEPT !.creating = FALSE, !.doubleclick = FALSE].end = sel.end
  BY DEF IsSelection, Selection
<1> QED BY <1>1, <1>2, <1>3 DEF IsSelection

LEMMA SelectionStep ==
    ASSUME TypeOK, SelectionInv, [Next]_vars
    PROVE  IsSelection(selection')
<1>0. /\ IsSelection(selection) /\ selection \in Selection
      /\ Places \subseteq Int /\ cursor_pos \in Int
      /\ text \in Texts /\ Len(text) \in Nat
  BY TextsHaveLengths DEF TypeOK, SelectionInv, IsSelection, Places
<1>1. ASSUME NEW shift \in BOOLEAN,
             NEW p \in {0, Len(text), cursor_pos - 1, cursor_pos + 1} \cup (Places \ {cursor_pos}),
             MoveCursor(shift, p)
      PROVE  IsSelection(selection')
  <2>1. p \in Int
    BY <1>0
  <2>2. SetCursorPosition(Here, p).cursor_pos \in Int
    BY <2>1, HereStays, SetCursorPositionType DEF TextOperation
  <2> QED BY <1>1, <2>2, ShiftType DEF MoveCursor
<1>2. ASSUME NEW shift \in BOOLEAN, AltRight(shift) PROVE IsSelection(selection')
  BY <1>2, <1>0, ShiftType DEF AltRight
<1>3. ASSUME NEW c, Type(c) PROVE IsSelection(selection')
  BY <1>3, NoSelectionType DEF Type
<1>4. CASE Cut \/ Backspace \/ Delete \/ DeleteToStart \/ DeleteToEnd
  BY <1>0, <1>4, NoSelectionType
     DEF Cut, Backspace, Delete, DeleteToStart, DeleteToEnd, DeleteSelection, RemoveChar
<1>5. ASSUME NEW cc, BackspaceWord(cc) \/ DeleteWord(cc) PROVE IsSelection(selection')
  BY <1>0, <1>5 DEF BackspaceWord, DeleteWord
<1>6. ASSUME NEW t, Paste(t) PROVE IsSelection(selection')
  BY <1>0, <1>6, NoSelectionType DEF Paste
<1>7. CASE Undo \/ Redo \/ Clear
  BY <1>0, <1>7 DEF Undo, Redo, Restore, Clear
<1>8. ASSUME NEW p \in Places, NEW shift \in BOOLEAN, NEW doubleclick \in BOOLEAN,
             MousePress(shift, doubleclick, p)
      PROVE  IsSelection(selection')
  <2>1. CASE shift
    <3>1. IsSelection(Filled(ShiftPre(shift), p))
      BY <1>0, ShiftType, FilledType DEF IsSelection
    <3>2. selection' = [Filled(ShiftPre(shift), p) EXCEPT !.creating = TRUE]
      BY <1>8, <2>1 DEF MousePress
    <3> QED BY <3>1, <3>2, CreatingType
  <2>2. CASE ~shift /\ doubleclick
    <3>1. selection' = [NoSelection EXCEPT !.end = Len(text), !.enabled = TRUE,
                                           !.doubleclick = TRUE]
      BY <1>8, <2>2 DEF MousePress
    <3>2. selection' = [begin |-> 0, end |-> Len(text), cursor_start |-> 0,
                        enabled |-> TRUE, creating |-> FALSE, doubleclick |-> TRUE]
      BY <3>1 DEF NoSelection
    <3>3. selection' \in Selection
      BY <1>0, <3>2 DEF Selection
    <3> QED BY <1>0, <3>2, <3>3 DEF IsSelection
  <2>3. CASE ~shift /\ ~doubleclick
    <3>1. selection' = [NoSelection EXCEPT !.cursor_start = p, !.creating = TRUE]
      BY <1>8, <2>3 DEF MousePress
    <3>2. selection' = [begin |-> 0, end |-> 0, cursor_start |-> p,
                        enabled |-> FALSE, creating |-> TRUE, doubleclick |-> FALSE]
      BY <3>1 DEF NoSelection
    <3>3. selection' \in Selection
      BY <1>0, <3>2 DEF Selection
    <3> QED BY <3>2, <3>3 DEF IsSelection
  <2> QED BY <2>1, <2>2, <2>3
<1>9. ASSUME NEW p \in Places, MouseDrag(p) PROVE IsSelection(selection')
  BY <1>0, <1>9, FilledType DEF MouseDrag
<1>10. ASSUME NEW p \in Places, NEW t \in Inputs, DropData(t, p) PROVE IsSelection(selection')
  <2> DEFINE selected == selection.end - selection.begin
  <2>1. selected \in Int /\ selected >= 0
    BY DEF TypeOK, Selection, SelectionInv
  <2>2. cursor_pos' \in Int
    <3>1. Mouse
      BY <1>10 DEF Mouse
    <3> QED BY <3>1, MouseStays
  <2>3. selection' = [selection EXCEPT !.begin = cursor_pos' - selected, !.end = cursor_pos']
    BY <1>10 DEF DropData, Becomes
  <2> HIDE DEF selected
  <2>4. cursor_pos' - selected \in Int /\ cursor_pos' - selected <= cursor_pos'
    <3>1. ASSUME NEW a \in Int, NEW b \in Int, b >= 0
          PROVE  a - b \in Int /\ a - b <= a
      BY <3>1
    <3> QED BY <2>1, <2>2, <3>1
  <2> QED BY <1>0, <2>2, <2>3, <2>4, RangeType
<1>11. CASE MouseRelease
  <2>1. selection' \in {[selection EXCEPT !.creating = FALSE, !.doubleclick = FALSE], NoSelection}
    BY <1>11 DEF MouseRelease
  <2> QED BY <1>0, <2>1, NoSelectionType, ReleasedType
<1>12. ASSUME NEW t, SetText(t) \/ AppendText(t) PROVE IsSelection(selection')
  BY <1>0, <1>12 DEF SetText, Reset, AppendText
<1>13. ASSUME NEW n, SetMaxLength(n) \/ SetCursor(n) \/ SetEditable(n) PROVE IsSelection(selection')
  BY SMTT(30), <1>0, <1>13 DEF SetMaxLength, Reset, SetCursor, SetEditable
<1>14. ASSUME NEW from \in Places, NEW to \in Places, Select(from, to) PROVE IsSelection(selection')
  <2>1. from \in Int /\ to \in Int /\ from <= to
    BY SMTT(30), <1>0, <1>14 DEF Select
  <2> QED BY <1>0, <1>14, <2>1, RangeType DEF Select
<1>15. CASE SelectAll
  <2>1. 0 \in Int /\ Len(text) \in Int /\ 0 <= Len(text)
    BY <1>0
  <2>2. selection' = [selection EXCEPT !.begin = 0, !.end = Len(text), !.enabled = TRUE]
    BY <1>15 DEF SelectAll
  <2> QED BY <1>0, <2>1, <2>2, RangeType
<1>16. CASE Deselect
  BY <1>16, NoSelectionType DEF Deselect
<1>17. CASE ~Input
  <2>1. UNCHANGED selection
    BY <1>17 DEF Next, Flush, UndefinedBehaviour, vars
  <2> QED BY <1>0, <2>1
<1>18. CASE Keyboard
  BY <1>18, <1>1, <1>2, <1>3, <1>4, <1>5, <1>6, <1>7 DEF Keyboard
<1>19. CASE Mouse
  BY <1>19, <1>8, <1>9, <1>10, <1>11 DEF Mouse
<1>20. CASE Methods
  BY <1>20, <1>7, <1>12, <1>13, <1>14, <1>15, <1>16 DEF Methods
<1> QED BY <1>17, <1>18, <1>19, <1>20 DEF Input

-----------------------------------------------------------------------------
(* The history after a step: it stays, with another state shown, it grows  *)
(* over what was undone, or it starts again.                               *)

Restarted(stack) == undo_stack' = stack /\ undo_stack_pos' = End
HistoryMoves ==
    \/ /\ undo_stack' = undo_stack
       /\ undo_stack_pos' = undo_stack_pos \/ undo_stack_pos' \in 1 .. Len(undo_stack)
    \/ \E op \in TextOperation : ClearRedo(op)
    \/ Restarted(<<Here>>)
    \/ Restarted(<<Here, [text |-> <<>>, cursor_pos |-> 0]>>)

LEMMA RemoveCharMoves ==
    ASSUME NEW op \in TextOperation, RemoveChar(op)
    PROVE  HistoryMoves
BY DeleteCharType DEF RemoveChar, TextChanged, HistoryMoves, history

LEMMA DeferMoves == DeferTextChanged => HistoryMoves
BY DEF DeferTextChanged, HistoryMoves, history

LEMMA KeyboardMoves ==
    ASSUME TypeOK, Keyboard
    PROVE  HistoryMoves
<1>0. text \in Texts /\ Len(text) \in Nat /\ cursor_pos \in Int /\ Here \in TextOperation
  BY TextsHaveLengths, HereStays DEF TypeOK
<1>1. ASSUME NEW shift, NEW p, MoveCursor(shift, p) \/ AltRight(shift) PROVE HistoryMoves
  BY <1>1 DEF MoveCursor, AltRight, HistoryMoves, history
<1>2. ASSUME NEW c \in Chars, Type(c) PROVE HistoryMoves
  <2>1. PICK u \in Inputs : Len(u) = 1 /\ c = u[1]
    BY DEF Chars
  <2>2. c \in Characters
    BY <2>1 DEF Characters
  <2>3. <<c>> \in Texts
    BY <2>2 DEF Texts
  <2>4. AppendAtCursor(WithoutSelection(Here), <<c>>) \in TextOperation
    BY <2>3, WithoutSelectionStays, AppendAtCursorType
  <2> QED BY <1>2, <2>4 DEF Type, TextChanged, HistoryMoves
<1>3. CASE DeleteSelection
  BY <1>3, DeferMoves DEF DeleteSelection
<1>4. CASE Cut \/ Backspace
  BY <1>0, <1>3, <1>4, RemoveCharMoves DEF Cut, Backspace
<1>5. CASE Delete
  <2>1. SetCursorPosition(Here, cursor_pos + 1) \in TextOperation
    BY <1>0, SetCursorPositionType
  <2> QED BY <1>3, <1>5, <2>1, RemoveCharMoves DEF Delete
<1>6. CASE DeleteToStart
  <2> DEFINE op == [text |-> Substr(text, cursor_pos, Len(text) - cursor_pos), cursor_pos |-> 0]
  <2>1. op \in TextOperation
    <3>1. Len(text) - cursor_pos \in Int
      BY <1>0
    <3>2. Substr(text, cursor_pos, Len(text) - cursor_pos) \in Texts
      BY <1>0, <3>1, SubstrIs DEF Texts
    <3> QED BY <3>2 DEF TextOperation
  <2>2. ClearRedo(op)
    BY <1>6 DEF DeleteToStart, TextChanged
  <2> HIDE DEF op
  <2> QED BY <2>1, <2>2 DEF HistoryMoves
<1>7. CASE DeleteToEnd
  <2> DEFINE op == [Here EXCEPT !.text = Substr(text, 0, cursor_pos)]
  <2>1. op \in TextOperation
    <3>1. Substr(text, 0, cursor_pos) \in Texts
      BY <1>0, SubstrIs DEF Texts
    <3> QED BY <1>0, <3>1, WithTextType
  <2>2. ClearRedo(op)
    BY <1>7 DEF DeleteToEnd, TextChanged
  <2> HIDE DEF op
  <2> QED BY <2>1, <2>2 DEF HistoryMoves
<1>8. ASSUME NEW cc, BackspaceWord(cc) \/ DeleteWord(cc) \/ Paste(cc) PROVE HistoryMoves
  BY <1>8, DeferMoves DEF BackspaceWord, DeleteWord, Paste
<1>9. CASE Undo \/ Redo
  <2>1. PICK i \in 1 .. Len(undo_stack) : Restore(i)
    BY <1>9, UndoRedoRange
  <2> QED BY <2>1 DEF Restore, HistoryMoves
<1>10. CASE Clear
  BY <1>10 DEF Clear, HistoryMoves, Restarted
<1> QED
  BY <1>1, <1>2, <1>4, <1>5, <1>6, <1>7, <1>8, <1>9, <1>10 DEF Keyboard

LEMMA HistoryStep ==
    ASSUME TypeOK, [Next]_vars
    PROVE  HistoryMoves
<1>1. CASE Keyboard
  BY <1>1, KeyboardMoves
<1>2. CASE Mouse
  BY <1>2 DEF Mouse, MousePress, MouseDrag, MouseRelease, DropData, HistoryMoves, history
<1>3. CASE Methods
  BY <1>3 DEF Methods, SetText, SetMaxLength, Reset, ClearUndoStack, AppendText, Clear, SetCursor,
     Select, SelectAll, Deselect, SetEditable, HistoryMoves, Restarted, history
<1>4. CASE Flush
  BY <1>4, HereStays DEF Flush, TextChanged, HistoryMoves
<1>5. CASE UNCHANGED history
  BY <1>5 DEF history, HistoryMoves
<1> QED
  BY <1>1, <1>2, <1>3, <1>4, <1>5 DEF Next, Input, UndefinedBehaviour, vars

(* What a restart or a new state leaves of the history.                    *)
LEMMA ClearRedoIs ==
    ASSUME TypeOK, NEW op \in TextOperation, ClearRedo(op)
    PROVE  LET kept == IF undo_stack_pos = End THEN Len(undo_stack) ELSE undo_stack_pos IN
           /\ undo_stack' \in Seq(TextOperation)
           /\ Len(undo_stack') = kept + 1
           /\ SubSeq(undo_stack', 1, kept) = SubSeq(undo_stack, 1, kept)
           /\ undo_stack_pos' = End
<1> DEFINE kept == IF undo_stack_pos = End THEN Len(undo_stack) ELSE undo_stack_pos
           old == SubSeq(undo_stack, 1, kept)
<1>1. /\ undo_stack \in Seq(TextOperation) /\ Len(undo_stack) \in Nat
      /\ kept \in Nat /\ kept <= Len(undo_stack)
  BY LenProperties DEF TypeOK
<1>2. \A i \in 1 .. kept : undo_stack[i] \in TextOperation
  BY <1>1, ElementOfSeq
<1>3. undo_stack' = Append(old, op) /\ undo_stack_pos' = End
  <2>1. undo_stack_pos = End => old = undo_stack
    BY <1>1, SubSeqFull
  <2> QED BY <2>1 DEF ClearRedo
<1> HIDE DEF kept
<1>4. /\ old \in Seq(TextOperation) /\ Len(old) = kept
      /\ \A i \in 1 .. kept : old[i] = undo_stack[i]
  <2>1. /\ old \in Seq(TextOperation)
        /\ Len(old) = IF 1 <= kept THEN kept - 1 + 1 ELSE 0
        /\ \A i \in 1 .. kept - 1 + 1 : old[i] = undo_stack[1 + i - 1]
    BY <1>1, <1>2, SubSeqProperties
  <2>2. \A i \in 1 .. kept : 1 + i - 1 = i
    BY <1>1
  <2> HIDE DEF old
  <2> QED BY <1>1, <2>1, <2>2
<1> HIDE DEF old
<1>5. /\ undo_stack' \in Seq(TextOperation) /\ Len(undo_stack') = kept + 1
      /\ \A i \in 1 .. kept : undo_stack'[i] = old[i]
  BY <1>1, <1>3, <1>4
<1>6. SubSeq(undo_stack', 1, kept) = old
  <2> DEFINE new == SubSeq(undo_stack', 1, kept)
  <2>1. \A i \in 1 .. kept : undo_stack'[i] \in TextOperation
    BY <1>2, <1>4, <1>5
  <2>2. /\ new \in Seq(TextOperation)
        /\ Len(new) = IF 1 <= kept THEN kept - 1 + 1 ELSE 0
        /\ \A i \in 1 .. kept - 1 + 1 : new[i] = undo_stack'[1 + i - 1]
    BY <1>1, <2>1, SubSeqProperties
  <2>3. \A i \in 1 .. kept : 1 + i - 1 = i
    BY <1>1
  <2> HIDE DEF new
  <2>4. Len(new) = Len(old) /\ \A i \in 1 .. Len(new) : new[i] = old[i]
    BY <1>1, <1>4, <1>5, <2>2, <2>3
  <2>5. new = old
    BY <1>4, <2>2, <2>4, SeqEqual
  <2> QED BY <2>5 DEF new
<1> QED BY <1>3, <1>5, <1>6 DEF kept, old

-----------------------------------------------------------------------------
(* Notification.                                                           *)

(* A dirty text has a call of _text_changed queued, if it can be queued.   *)
QueueInv == text_changed_dirty /\ CanDefer => pending > 0

QueueMoves ==
    \/ Quiet
    \/ EmitTextChange /\ pending' \in {pending, Queued}
    \/ DeferTextChanged

LEMMA RemoveCharQueues ==
    ASSUME NEW op, RemoveChar(op)
    PROVE  QueueMoves
BY DEF RemoveChar, TextChanged, QueueMoves, Quiet, queue

LEMMA KeyboardQueues ==
    ASSUME Keyboard
    PROVE  QueueMoves /\ (text' # text => announced' \/ DeferTextChanged)
<1>0. Here.text = text
  BY DEF Here
<1>1. ASSUME NEW shift, NEW p, MoveCursor(shift, p) \/ AltRight(shift)
      PROVE  Quiet /\ text' = text
  BY <1>0, <1>1 DEF MoveCursor, AltRight, Becomes, SetCursorPosition, Here, texts
<1>2. ASSUME NEW c, Type(c) PROVE QueueMoves /\ announced'
  BY <1>2 DEF Type, TextChanged, EmitTextChange, QueueMoves
<1>3. ASSUME NEW op, op.text = text, RemoveChar(op)
      PROVE  QueueMoves /\ (text' # text => announced')
  <2>1. QueueMoves
    BY <1>3, RemoveCharQueues
  <2>2. text' # text => announced'
    BY <1>3 DEF RemoveChar, TextChanged, EmitTextChange, Becomes
  <2> QED BY <2>1, <2>2
<1>4. CASE Cut \/ Backspace
  BY <1>0, <1>3, <1>4 DEF Cut, Backspace, DeleteSelection, QueueMoves
<1>5. CASE Delete
  <2>1. SetCursorPosition(Here, cursor_pos + 1).text = text
    BY DEF SetCursorPosition, Here
  <2> QED BY <1>3, <1>5, <2>1 DEF Delete, DeleteSelection, QueueMoves
<1>6. CASE DeleteToStart \/ DeleteToEnd
  BY <1>6 DEF DeleteToStart, DeleteToEnd, TextChanged, EmitTextChange, QueueMoves
<1>7. ASSUME NEW cc, BackspaceWord(cc) \/ DeleteWord(cc) \/ Paste(cc) PROVE DeferTextChanged
  BY <1>7 DEF BackspaceWord, DeleteWord, Paste
<1>8. CASE Undo \/ Redo \/ Clear
  BY <1>8 DEF Undo, Redo, Restore, Clear, EmitTextChange, QueueMoves
<1> QED
  BY <1>1, <1>2, <1>4, <1>5, <1>6, <1>7, <1>8 DEF Keyboard, QueueMoves

LEMMA QueueStep ==
    ASSUME TypeOK, QueueInv, [Next]_vars
    PROVE  /\ text_changed_dirty' \in BOOLEAN /\ announced' \in BOOLEAN /\ pending' \in Nat
           /\ QueueInv'
<1>1. CASE QueueMoves
  <2>1. CASE Quiet
    BY <2>1 DEF Quiet, queue, TypeOK, QueueInv
  <2>0. pending \in Nat /\ Queued \in Nat
    BY DEF Queued, TypeOK
  <2>2. CASE EmitTextChange /\ pending' \in {pending, Queued}
    <3>1. announced' = TRUE /\ text_changed_dirty' = FALSE /\ pending' \in Nat
      BY <2>0, <2>2 DEF EmitTextChange
    <3> QED BY <3>1, Zenon DEF QueueInv
  <2>3. CASE DeferTextChanged
    <3>1. announced' = FALSE /\ text_changed_dirty' = TRUE /\ pending' = Queued
      BY <2>3 DEF DeferTextChanged
    <3>2. CanDefer => Queued > 0
      <4>1. CASE text_changed_dirty
        BY <2>0, <4>1 DEF QueueInv, Queued
      <4>2. CASE ~text_changed_dirty
        <5>1. CanDefer => Queued = pending + 1
          BY <4>2 DEF Queued
        <5>2. pending \in Nat
          BY <2>0
        <5> QED BY <5>1, <5>2
      <4> QED BY <4>1, <4>2
    <3>3. CanDefer => pending' > 0
      BY <3>1, <3>2
    <3> QED BY <2>0, <3>1, <3>3, Zenon DEF QueueInv
  <2> QED BY <1>1, <2>1, <2>2, <2>3 DEF QueueMoves
<1>2. CASE Flush
  <2>1. announced' = TRUE /\ text_changed_dirty' = FALSE
    BY <1>2 DEF Flush, TextChanged, EmitTextChange
  <2>2. pending \in Nat /\ pending > 0 /\ pending' = pending - 1
    BY <1>2 DEF Flush, TypeOK
  <2>3. pending' \in Nat
    BY <2>2
  <2> QED BY <2>1, <2>3, Zenon DEF QueueInv
<1>3. CASE UNCHANGED vars
  BY <1>3 DEF vars, queue, TypeOK, QueueInv
<1>4. CASE Keyboard
  BY <1>1, <1>4, KeyboardQueues
<1>5. CASE Mouse
  BY <1>1, <1>5 DEF Mouse, MousePress, MouseDrag, MouseRelease, DropData, QueueMoves
<1>6. CASE Methods
  BY <1>1, <1>6 DEF Methods, SetText, SetMaxLength, Reset, AppendText, Clear, SetCursor, Select,
     SelectAll, Deselect, SetEditable, QueueMoves
<1>7. CASE UndefinedBehaviour
  BY <1>1, <1>7 DEF UndefinedBehaviour, QueueMoves
<1> QED BY <1>2, <1>3, <1>4, <1>5, <1>6, <1>7 DEF Next, Input

(* The settings after a step.                                              *)
LEMMA SettingsStep ==
    ASSUME TypeOK, [Next]_vars
    PROVE  max_length' \in Lengths /\ editable' \in BOOLEAN /\ defined' \in BOOLEAN
<1>0. max_length \in Lengths /\ editable \in BOOLEAN /\ defined \in BOOLEAN
  BY DEF TypeOK
<1>1. CASE Input
  <2>1. CASE Keyboard
    BY <1>0, <1>1, <2>1
       DEF Keyboard, MoveCursor, AltRight, Type, Cut, Backspace, Delete, DeleteSelection,
           RemoveChar, DeleteToStart, DeleteToEnd, BackspaceWord, DeleteWord, Paste, Undo, Redo,
           Restore, Clear, settings, Input
  <2>2. CASE Mouse
    BY <1>0, <1>1, <2>2
       DEF Mouse, MousePress, MouseDrag, MouseRelease, DropData, settings, Input
  <2>3. CASE Methods
    BY <1>0, <1>1, <2>3, FlagsAssumption
       DEF Methods, SetText, SetMaxLength, Reset, AppendText, Clear, SetCursor, Select, SelectAll,
           Deselect, SetEditable, settings, Input
  <2> QED BY <1>1, <2>1, <2>2, <2>3 DEF Input
<1>2. CASE Flush \/ UndefinedBehaviour \/ UNCHANGED vars
  BY <1>0, <1>2 DEF Flush, UndefinedBehaviour, vars, settings
<1> QED BY <1>1, <1>2 DEF Next

-----------------------------------------------------------------------------
(* Types.                                                                  *)

EditInv == TypeOK /\ SelectionInv /\ QueueInv

LEMMA EditInit == Init => EditInv
<1> SUFFICES ASSUME Init PROVE EditInv
  OBVIOUS
<1>1. /\ text \in Texts /\ Len(text) <= MaxText /\ cursor_pos \in Int
      /\ Here \in TextOperation
  <2>1. text \in Texts /\ cursor_pos \in Int /\ Len(text) = 0
    BY EmptySeq DEF Init, Texts
  <2> QED BY <2>1, HereIs, NumbersAssumption
<1>2. IsSelection(selection)
  BY NoSelectionType DEF Init
<1>3. undo_stack \in Seq(TextOperation) /\ undo_stack # <<>>
  BY <1>1 DEF Init
<1> QED
  BY <1>1, <1>2, <1>3, NumbersAssumption
  DEF Init, EditInv, TypeOK, IsSelection, SelectionInv, QueueInv

LEMMA HistoryType ==
    ASSUME TypeOK, HistoryMoves
    PROVE  /\ undo_stack' \in Seq(TextOperation) /\ undo_stack' # <<>>
           /\ undo_stack_pos' \in {End} \cup 1 .. Len(undo_stack')
<1>0. /\ undo_stack \in Seq(TextOperation) /\ undo_stack # <<>>
      /\ undo_stack_pos \in {End} \cup 1 .. Len(undo_stack)
      /\ Here \in TextOperation
  BY HereStays DEF TypeOK
<1>1. CASE UNCHANGED undo_stack /\ (undo_stack_pos' = undo_stack_pos
                                      \/ undo_stack_pos' \in 1 .. Len(undo_stack))
  BY <1>0, <1>1
<1>2. ASSUME NEW op \in TextOperation, ClearRedo(op)
      PROVE  /\ undo_stack' \in Seq(TextOperation) /\ undo_stack' # <<>>
             /\ undo_stack_pos' = End
  <2>1. Len(undo_stack) \in Nat
    BY <1>0, LenProperties
  <2>2. /\ undo_stack' \in Seq(TextOperation) /\ undo_stack_pos' = End
        /\ Len(undo_stack') = (IF undo_stack_pos = End THEN Len(undo_stack)
                               ELSE undo_stack_pos) + 1
    BY <1>2, ClearRedoIs
  <2>3. Len(undo_stack') # 0
    BY <1>0, <2>1, <2>2
  <2> QED BY <2>2, <2>3
<1>3. CASE Restarted(<<Here>>)
  BY <1>0, <1>3 DEF Restarted
<1>4. CASE Restarted(<<Here, [text |-> <<>>, cursor_pos |-> 0]>>)
  <2>1. [text |-> <<>>, cursor_pos |-> 0] \in TextOperation
    BY EmptySeq DEF TextOperation, Texts
  <2> QED BY <1>0, <1>4, <2>1 DEF Restarted
<1> QED BY <1>1, <1>2, <1>3, <1>4 DEF HistoryMoves

LEMMA EditStep == EditInv /\ [Next]_vars => EditInv'
<1> SUFFICES ASSUME EditInv, [Next]_vars PROVE EditInv'
  OBVIOUS
<1>0. TypeOK /\ SelectionInv /\ QueueInv
  BY DEF EditInv
<1>1. text' \in Texts /\ Len(text') <= MaxText /\ cursor_pos' \in Int
  BY <1>0, TextStep
<1>2. selection' \in Selection /\ SelectionInv'
  BY <1>0, SelectionStep DEF IsSelection, SelectionInv
<1>3. /\ undo_stack' \in Seq(TextOperation) /\ undo_stack' # <<>>
      /\ undo_stack_pos' \in {End} \cup 1 .. Len(undo_stack')
  BY <1>0, HistoryStep, HistoryType
<1>4. /\ text_changed_dirty' \in BOOLEAN /\ announced' \in BOOLEAN /\ pending' \in Nat
      /\ QueueInv'
  BY <1>0, QueueStep
<1>5. max_length' \in Lengths /\ editable' \in BOOLEAN /\ defined' \in BOOLEAN
  BY <1>0, SettingsStep
<1> QED BY <1>1, <1>2, <1>3, <1>4, <1>5 DEF EditInv, TypeOK

LEMMA EditInvariant == Spec => []EditInv
BY EditInit, EditStep, PTL DEF Spec

(* Texts stay texts within the bound, the selection's ends are in order,   *)
(* the history is never empty and its position is in it.                   *)
THEOREM TypeCorrect == Spec => []TypeOK
<1>1. EditInv => TypeOK
  BY DEF EditInv
<1> QED BY <1>1, EditInvariant, PTL

-----------------------------------------------------------------------------
(* Action properties.                                                      *)

(* No call but drop_data takes the cursor out of the text, however stale   *)
(* the selection and the history are.                                      *)
THEOREM CursorStays == Spec => CursorStaysInText
<1>1. EditInv /\ [Next]_vars =>
         [CursorInText /\ selection.begin >= 0 /\ ~CursorInText' => Dropped]_vars
  BY TextStep DEF EditInv, StaysInText
<1> QED BY <1>1, EditInvariant, PTL DEF Spec, CursorStaysInText

(* The states up to the one undo has reached stay in the history, unless   *)
(* it starts again.                                                        *)
THEOREM HistoryKept == Spec => HistoryIsKept
<1>1. ASSUME EditInv, [Next]_vars
      PROVE  \/ undo_stack'[1] = Here
             \/ LET kept == IF undo_stack_pos = End THEN Len(undo_stack) ELSE undo_stack_pos
                IN  /\ kept <= Len(undo_stack')
                    /\ SubSeq(undo_stack', 1, kept) = SubSeq(undo_stack, 1, kept)
  <2> DEFINE kept == IF undo_stack_pos = End THEN Len(undo_stack) ELSE undo_stack_pos
  <2>0. TypeOK /\ HistoryMoves
    BY <1>1, HistoryStep DEF EditInv
  <2>1. kept \in Nat /\ kept <= Len(undo_stack)
    BY <2>0, LenProperties DEF TypeOK
  <2>2. CASE undo_stack' = undo_stack
    BY <2>1, <2>2
  <2>3. ASSUME NEW op \in TextOperation, ClearRedo(op)
        PROVE  kept <= Len(undo_stack') /\ SubSeq(undo_stack', 1, kept) = SubSeq(undo_stack, 1, kept)
    <3>1. /\ Len(undo_stack') = kept + 1
          /\ SubSeq(undo_stack', 1, kept) = SubSeq(undo_stack, 1, kept)
      BY <2>0, <2>3, ClearRedoIs
    <3> HIDE DEF kept
    <3> QED BY <2>1, <3>1
  <2>4. CASE Restarted(<<Here>>) \/ Restarted(<<Here, [text |-> <<>>, cursor_pos |-> 0]>>)
    BY <2>4 DEF Restarted
  <2> QED BY <2>0, <2>2, <2>3, <2>4 DEF HistoryMoves
<1> QED BY <1>1, EditInvariant, PTL DEF Spec, HistoryIsKept

(* Where text_changed can be deferred, every key or menu entry that        *)
(* changes the text announces it or leaves a call queued that will.        *)
THEOREM EditsAnnounced ==
    ASSUME CanDefer
    PROVE  Spec => EditsAreAnnounced
<1>1. ASSUME EditInv, [Next]_vars, text' # text, ~announced', pending' = 0
      PROVE  ~Keyboard
  <2>1. ASSUME Keyboard PROVE FALSE
    <3>1. DeferTextChanged
      BY <1>1, <2>1, KeyboardQueues
    <3>2. text_changed_dirty' /\ QueueInv'
      BY <1>1, <3>1, QueueStep DEF DeferTextChanged, EditInv
    <3> QED BY <1>1, <3>2 DEF QueueInv
  <2> QED BY <2>1
<1> QED BY <1>1, EditInvariant, PTL DEF Spec, EditsAreAnnounced

-----------------------------------------------------------------------------
(* What is before the cursor when a range is deleted.                      *)

LEMMA PrefixIs ==
    ASSUME NEW S, NEW t \in Seq(S), NEW c \in 0 .. Len(t)
    PROVE  /\ Substr(t, 0, c) \in Seq(S) /\ Len(Substr(t, 0, c)) = c
           /\ \A i \in 1 .. c : Substr(t, 0, c)[i] = t[i]
<1>1. Len(t) \in Nat /\ c \in Int
  BY LenProperties
<1>2. Substr(t, 0, c) \in Seq(S) /\ IsCut(Substr(t, 0, c), t, 0, c)
  BY <1>1, SubstrIs
<1> QED BY <1>1, <1>2 DEF IsCut, CutLength

(* Erasing from the prefix of a text.                                      *)
LEMMA ErasedPrefixIs ==
    ASSUME NEW S, NEW t \in Seq(S), NEW c \in 0 .. Len(t),
           NEW from \in Nat, NEW n \in Nat
    PROVE  LET s == Substr(t, 0, c)
               k == IF c <= from THEN c ELSE IF c <= from + n THEN from ELSE c - n
           IN  Erase(s, from, n) \in Seq(S) /\ IsRest(Erase(s, from, n), t, from, n, k)
<1> DEFINE s == Substr(t, 0, c)
           k == IF c <= from THEN c ELSE IF c <= from + n THEN from ELSE c - n
           a == Substr(s, 0, from)
           b == Substr(s, from + n, Len(s) - (from + n))
           la == IF c <= from THEN c ELSE from
<1>0. c \in Nat /\ from + n \in Nat /\ la \in Nat /\ k \in Nat /\ la <= k
  BY LenProperties
<1>1. /\ s \in Seq(S) /\ Len(s) = c
      /\ \A i \in 1 .. c : s[i] = t[i]
  BY PrefixIs
<1>2. Erase(s, from, n) = a \o b
  BY DEF Erase
<1> HIDE DEF s
<1>3. /\ a \in Seq(S) /\ Len(a) = la
      /\ \A i \in 1 .. la : a[i] = s[i]
  <2>1. a \in Seq(S) /\ IsCut(a, s, 0, from)
    BY <1>1, SubstrIs
  <2> HIDE DEF a
  <2> QED BY <1>0, <1>1, <2>1 DEF IsCut, CutLength
<1>4. /\ b \in Seq(S) /\ Len(b) = k - la
      /\ \A i \in 1 .. k - la : b[i] = s[from + n + i]
  <2>1. Len(s) - (from + n) \in Int /\ from + n \in Int
    BY <1>0, <1>1
  <2>2. b \in Seq(S) /\ IsCut(b, s, from + n, Len(s) - (from + n))
    BY <1>1, <2>1, SubstrIs
  <2> HIDE DEF b
  <2> QED BY <1>0, <1>1, <2>2 DEF IsCut, CutLength
<1> HIDE DEF a, b
<1>5. /\ a \o b \in Seq(S)
      /\ Len(a \o b) = Len(a) + Len(b)
      /\ \A i \in 1 .. Len(a) + Len(b) :
            (a \o b)[i] = IF i <= Len(a) THEN a[i] ELSE b[i - Len(a)]
  BY <1>3, <1>4, ConcatProperties
<1>6. Len(a) + Len(b) = k
  BY <1>0, <1>3, <1>4
<1>7. ASSUME NEW i \in 1 .. k
      PROVE  (a \o b)[i] = IF i <= from THEN t[i] ELSE t[i + n]
  <2>0. i \in Int /\ i >= 1 /\ i <= k
    BY <1>0
  <2>1. (a \o b)[i] = IF i <= la THEN a[i] ELSE b[i - la]
    BY <1>3, <1>5, <1>6
  <2>2. CASE i <= la
    <3>1. i \in 1 .. la /\ i \in 1 .. c /\ i <= from
      BY <1>0, <2>0, <2>2
    <3> QED BY <1>1, <1>3, <2>1, <2>2, <3>1
  <2>3. CASE i > la
    <3>1. la = from /\ i > from /\ ~(i <= la)
      BY <1>0, <2>0, <2>3
    <3>2. i - la \in 1 .. k - la /\ from + n + (i - la) = i + n /\ i + n \in 1 .. c
      BY <1>0, <2>0, <2>3, <3>1
    <3> QED BY <1>1, <1>4, <2>0, <2>1, <3>1, <3>2
  <2>4. i <= la \/ i > la
    BY <1>0, <2>0
  <2> QED BY <2>2, <2>3, <2>4, Zenon
<1>8. Erase(s, from, n) \in Seq(S) /\ IsRest(Erase(s, from, n), t, from, n, k)
  BY <1>2, <1>5, <1>6, <1>7 DEF IsRest
<1> QED BY <1>8 DEF s

(* Deleting any range leaves the cursor between the characters it was      *)
(* between, or where the range was.                                        *)
THEOREM DeletionKeeps == Spec => []DeletionKeepsTheCursor
<1>1. TypeOK => DeletionKeepsTheCursor
  <2> SUFFICES ASSUME TypeOK, CursorInText,
                      NEW from \in Places, NEW to \in Places, from <= to
               PROVE  LET op == DeleteText(Here, from, to) IN
                      Substr(op.text, 0, op.cursor_pos) =
                          Erase(Substr(text, 0, cursor_pos), from, to - from)
    BY DEF DeletionKeepsTheCursor
  <2> DEFINE n == to - from
             rest == Erase(text, from, n)
             k == IF cursor_pos <= from THEN cursor_pos
                  ELSE IF cursor_pos <= from + n THEN from ELSE cursor_pos - n
  <2>1. /\ text \in Texts /\ Len(text) \in Nat
        /\ cursor_pos \in 0 .. Len(text) /\ from \in Nat /\ n \in Nat /\ from + n <= Len(text)
    BY TextsHaveLengths DEF TypeOK, CursorInText, Places
  <2>2. k \in 0 .. Len(text) - n
    BY <2>1
  <2> HIDE DEF n
  <2>3. /\ rest \in Texts /\ Len(rest) = Len(text) - n
        /\ \A i \in 1 .. Len(text) - n : rest[i] = IF i <= from THEN text[i] ELSE text[i + n]
    <3>1. text \in Seq(Characters) /\ from \in Nat /\ n \in Nat /\ from + n <= Len(text)
      BY <2>1 DEF Texts
    <3>2. rest \in Seq(Characters) /\ IsRest(rest, text, from, n, Len(text) - n)
      BY <3>1, EraseIs
    <3> HIDE DEF rest
    <3> QED BY <3>2 DEF Texts, IsRest
  <2> HIDE DEF rest
  <2>4. DeleteText(Here, from, to) = [text |-> rest, cursor_pos |-> k]
    <3> DEFINE cursor == cursor_pos - Clamp(cursor_pos - from, 0, n)
    <3>1. cursor = k
      BY <2>1 DEF Clamp
    <3> HIDE DEF cursor, k
    <3>2. (IF cursor >= Len(rest) THEN Len(rest) ELSE cursor) = k
      BY <2>1, <2>2, <2>3, <3>1
    <3>3. DeleteText(Here, from, to) =
            [text |-> rest,
             cursor_pos |-> IF cursor >= Len(rest) THEN Len(rest) ELSE cursor]
      BY DEF DeleteText, Here, rest, cursor, n
    <3> QED BY <3>2, <3>3
  <2> DEFINE l == Substr(rest, 0, k)
             r == Erase(Substr(text, 0, cursor_pos), from, n)
  <2>5. /\ l \in Texts /\ Len(l) = k
        /\ \A i \in 1 .. k : l[i] = rest[i]
    <3> HIDE DEF k
    <3> QED BY ZenonT(30), <2>2, <2>3, PrefixIs DEF Texts
  <2>6. /\ r \in Texts /\ Len(r) = k
        /\ \A i \in 1 .. k : r[i] = IF i <= from THEN text[i] ELSE text[i + n]
    <3>1. /\ text \in Seq(Characters) /\ cursor_pos \in 0 .. Len(text)
          /\ from \in Nat /\ n \in Nat
      BY <2>1 DEF Texts
    <3>2. r \in Seq(Characters) /\ IsRest(r, text, from, n, k)
      BY <3>1, ErasedPrefixIs
    <3> HIDE DEF r, k
    <3> QED BY <3>2 DEF Texts, IsRest
  <2> HIDE DEF l, r, k
  <2>7. \A i \in 1 .. k : i \in 1 .. Len(text) - n
    BY <2>1, <2>2
  <2>8. \A i \in 1 .. Len(l) : l[i] = r[i]
    BY <2>3, <2>5, <2>6, <2>7
  <2>9. l = r
    BY <2>5, <2>6, <2>8, SeqEqual DEF Texts
  <2> QED BY <2>4, <2>9 DEF l, r, n
<1> QED BY <1>1, TypeCorrect, PTL

-----------------------------------------------------------------------------
(* How long a text gets.                                                   *)

LEMMA EraseShrinks ==
    ASSUME NEW S, NEW t \in Seq(S), NEW from \in Int, NEW n \in Nat
    PROVE  Len(Erase(t, from, n)) <= Len(t)
<1> DEFINE a == Substr(t, 0, from)
           b == Substr(t, from + n, Len(t) - (from + n))
<1>0. Len(t) \in Nat /\ from + n \in Int /\ Len(t) - (from + n) \in Int
  BY LenProperties
<1>1. a \in Seq(S) /\ IsCut(a, t, 0, from)
  BY SubstrIs
<1>2. b \in Seq(S) /\ IsCut(b, t, from + n, Len(t) - (from + n))
  BY <1>0, SubstrIs
<1>3. Erase(t, from, n) = a \o b
  BY DEF Erase
<1> HIDE DEF a, b
<1>4. Len(a \o b) = Len(a) + Len(b)
  BY <1>1, <1>2, ConcatProperties
<1>5. Len(a) \in Nat /\ (from <= 0 => Len(a) = 0) /\ (from >= 0 => Len(a) <= from)
      /\ Len(a) <= Len(t)
  BY <1>0, <1>1 DEF IsCut, CutLength
<1>6. Len(b) = 0 \/ (Len(b) = Len(t) - (from + n) /\ from + n >= 0)
  BY <1>0, <1>2 DEF IsCut, CutLength
<1>7. Len(a) + Len(b) <= Len(t)
  BY <1>0, <1>5, <1>6
<1> QED BY <1>3, <1>4, <1>7

(* A step that obeys max_length makes no text longer than that.            *)
Obeys(op) == Len(op.text) <= Len(text) \/ max_length <= 0 \/ Len(op.text) <= max_length

LEMMA WithoutSelectionShrinks ==
    ASSUME TypeOK, SelectionInv
    PROVE  Len(WithoutSelection(Here).text) <= Len(text)
<1>1. /\ text \in Texts /\ Len(text) \in Nat /\ selection.begin \in Int
      /\ selection.end - selection.begin \in Nat
  BY TextsHaveLengths DEF TypeOK, Selection, SelectionInv
<1>2. Len(Erase(text, selection.begin, selection.end - selection.begin)) <= Len(text)
  BY <1>1, EraseShrinks DEF Texts
<1>3. /\ Here.text = text
      /\ DeleteText(Here, selection.begin, selection.end).text =
            Erase(text, selection.begin, selection.end - selection.begin)
  BY DEF DeleteText, Here
<1> QED BY <1>1, <1>2, <1>3 DEF WithoutSelection

LEMMA AppendObeys ==
    ASSUME TypeOK, NEW op \in TextOperation, NEW t \in Texts, Len(op.text) <= Len(text)
    PROVE  Obeys(AppendAtCursor(op, t))
<1> DEFINE pre == Substr(op.text, 0, op.cursor_pos)
           post == Substr(op.text, op.cursor_pos, Len(op.text) - op.cursor_pos)
           new == pre \o t \o post
<1>0. /\ op.text \in Texts /\ op.cursor_pos \in Int /\ Len(op.text) \in Nat /\ Len(t) \in Nat
      /\ Len(op.text) - op.cursor_pos \in Int /\ max_length \in Int
  BY TextsHaveLengths, NumbersAssumption DEF TextOperation, TypeOK
<1>1. pre \in Texts /\ IsCut(pre, op.text, 0, op.cursor_pos)
  BY <1>0, SubstrIs DEF Texts
<1>2. post \in Texts /\ IsCut(post, op.text, op.cursor_pos, Len(op.text) - op.cursor_pos)
  BY <1>0, SubstrIs DEF Texts
<1> HIDE DEF pre, post
<1>3. pre \o t \in Texts /\ Len(pre \o t) = Len(pre) + Len(t)
  BY <1>1, ConcatProperties DEF Texts
<1>4. new \in Texts /\ Len(new) = Len(pre) + Len(t) + Len(post)
  BY <1>2, <1>3, ConcatProperties DEF Texts
<1>5. Len(new) <= Len(op.text) + Len(t)
  <2>1. /\ Len(pre) \in Nat /\ Len(pre) <= Len(op.text)
        /\ (op.cursor_pos <= 0 => Len(pre) = 0)
        /\ (op.cursor_pos >= 0 => Len(pre) <= op.cursor_pos)
    BY <1>0, <1>1 DEF IsCut, CutLength
  <2>2. Len(post) = 0 \/ (Len(post) = Len(op.text) - op.cursor_pos /\ op.cursor_pos >= 0)
    BY <1>0, <1>2 DEF IsCut, CutLength
  <2>3. Len(pre) + Len(post) <= Len(op.text) /\ Len(post) \in Int
    BY <1>0, <2>1, <2>2
  <2> QED BY <1>0, <1>4, <2>1, <2>3
<1> HIDE DEF new
<1>6. CASE max_length <= 0 \/ Len(op.text) + Len(t) <= max_length
  <2>1. AppendAtCursor(op, t) =
            SetCursorPosition([op EXCEPT !.text = new], op.cursor_pos + Len(t))
    BY <1>6 DEF AppendAtCursor, pre, post, new
  <2>2. op.cursor_pos + Len(t) \in Int
    BY <1>0
  <2>3. [op EXCEPT !.text = new] \in TextOperation /\ [op EXCEPT !.text = new].text = new
    BY <1>4, WithTextType
  <2>4. AppendAtCursor(op, t).text = new
    BY <2>1, <2>2, <2>3, SetCursorPositionType
  <2>5. Len(new) \in Nat
    BY <1>4, TextsHaveLengths
  <2> QED BY <1>0, <1>5, <1>6, <2>4, <2>5 DEF Obeys
<1>7. CASE ~(max_length <= 0 \/ Len(op.text) + Len(t) <= max_length)
  BY <1>7 DEF AppendAtCursor, Obeys
<1> QED BY <1>6, <1>7

(* The property of a step: a text that outgrows max_length is restored.    *)
Respects ==
    Len(text') > Len(text) /\ max_length' > 0 /\ Len(text') > max_length' =>
        \E i \in 1 .. Len(undo_stack) : undo_stack[i].text = text'

LEMMA BecomesObeys ==
    ASSUME TypeOK, NEW op \in TextOperation, Obeys(op), Becomes(op), max_length' = max_length
    PROVE  Respects
<1>1. text' = op.text /\ Len(op.text) \in Nat /\ Len(text) \in Nat /\ max_length \in Nat
  BY TextsHaveLengths, NumbersAssumption DEF Becomes, TextOperation, TypeOK
<1> QED BY <1>1 DEF Obeys, Respects

LEMMA ShorterRespects ==
    ASSUME TypeOK, Len(text') \in Nat, Len(text') <= Len(text)
    PROVE  Respects
<1>1. Len(text) \in Nat
  BY TextsHaveLengths DEF TypeOK
<1> QED BY <1>1 DEF Respects

LEMMA RemoveCharRespects ==
    ASSUME TypeOK, NEW op \in TextOperation, op.text = text, RemoveChar(op)
    PROVE  Respects
<1>0. text \in Texts /\ Len(text) \in Nat /\ op.cursor_pos - 1 \in Int
  BY TextsHaveLengths DEF TypeOK, TextOperation
<1>1. CASE HasCharBefore(op)
  <2> DEFINE cut == Erase(text, op.cursor_pos - 1, 1)
  <2>1. cut \in Texts /\ Len(cut) \in Nat /\ Len(cut) <= Len(text)
    BY <1>0, EraseType, EraseShrinks DEF Texts
  <2>2. DeleteChar(op).text = cut
    <3>1. DeleteChar(op) = SetCursorPosition([op EXCEPT !.text = cut], op.cursor_pos - 1)
      BY DEF DeleteChar
    <3> HIDE DEF cut
    <3>2. [op EXCEPT !.text = cut] \in TextOperation /\ [op EXCEPT !.text = cut].text = cut
      BY <2>1, WithTextType
    <3> QED BY <1>0, <3>1, <3>2, SetCursorPositionType
  <2>3. text' = DeleteChar(op).text
    BY <1>1 DEF RemoveChar, Becomes
  <2> HIDE DEF cut
  <2> QED BY <2>1, <2>2, <2>3, ShorterRespects
<1>2. CASE ~HasCharBefore(op)
  <2>1. text' = text
    BY <1>2 DEF RemoveChar, Becomes
  <2> QED BY <1>0, <2>1, ShorterRespects
<1> QED BY <1>1, <1>2

LEMMA DeleteTextRespects ==
    ASSUME TypeOK, NEW from \in Int, NEW to \in Int, from <= to,
           text' = DeleteText(Here, from, to).text
    PROVE  Respects
<1>1. text \in Texts /\ to - from \in Nat
  BY DEF TypeOK
<1>2. text' = Erase(text, from, to - from)
  BY DEF DeleteText, Here
<1>3. Len(text') \in Nat /\ Len(text') <= Len(text)
  BY <1>1, <1>2, EraseType, EraseShrinks DEF Texts
<1> QED BY <1>3, ShorterRespects

LEMMA DeleteSelectionRespects ==
    ASSUME TypeOK, SelectionInv, DeleteSelection
    PROVE  Respects
<1>1. selection.begin \in Int /\ selection.end \in Int /\ selection.begin <= selection.end
  BY DEF TypeOK, Selection, SelectionInv
<1>2. text' = DeleteText(Here, selection.begin, selection.end).text
  BY DEF DeleteSelection, WithoutSelection, Becomes
<1> QED BY <1>1, <1>2, DeleteTextRespects

LEMMA ResetRespects ==
    ASSUME TypeOK, NEW t \in Texts, NEW length \in Nat, Reset(t, length)
    PROVE  Respects
<1>1. max_length' = length /\ (length <= 0 \/ Len(t) <= length => text' = t)
  BY DEF Reset
<1>2. ~(length <= 0 \/ Len(t) <= length) => text' = <<>>
  BY DEF Reset
<1>3. Len(t) \in Nat /\ Len(text) \in Nat
  BY TextsHaveLengths DEF TypeOK
<1> QED BY <1>1, <1>2, <1>3 DEF Respects

LEMMA KeyboardRespects ==
    ASSUME TypeOK, SelectionInv, Keyboard
    PROVE  Respects
<1>0. /\ text \in Texts /\ Len(text) \in Nat /\ cursor_pos \in Int /\ Places \subseteq Int
      /\ Here \in TextOperation /\ Here.text = text
  BY TextsHaveLengths, HereStays DEF TypeOK, Places
<1>1. CASE text' = text
  BY <1>0, <1>1, ShorterRespects
<1>2. ASSUME NEW shift \in BOOLEAN, NEW p \in Int, MoveCursor(shift, p) \/ AltRight(shift)
      PROVE  text' = text
  BY <1>2 DEF MoveCursor, AltRight, Becomes, SetCursorPosition, Here, texts
<1>3. ASSUME NEW c \in Chars, Type(c) PROVE Respects
  <2>1. PICK u \in Inputs : Len(u) = 1 /\ c = u[1]
    BY DEF Chars
  <2>2. c \in Characters
    BY <2>1 DEF Characters
  <2>3. <<c>> \in Texts
    BY <2>2 DEF Texts
  <2>4. WithoutSelection(Here) \in TextOperation /\ Len(WithoutSelection(Here).text) <= Len(text)
    BY WithoutSelectionStays, WithoutSelectionShrinks
  <2>5. /\ AppendAtCursor(WithoutSelection(Here), <<c>>) \in TextOperation
        /\ Obeys(AppendAtCursor(WithoutSelection(Here), <<c>>))
    BY <2>3, <2>4, AppendAtCursorType, AppendObeys
  <2> QED BY <1>3, <2>5, BecomesObeys DEF Type, settings
<1>4. CASE Cut \/ Backspace
  BY <1>0, <1>4, DeleteSelectionRespects, RemoveCharRespects DEF Cut, Backspace
<1>5. CASE Delete
  <2>1. /\ SetCursorPosition(Here, cursor_pos + 1) \in TextOperation
        /\ SetCursorPosition(Here, cursor_pos + 1).text = text
    <3>1. cursor_pos + 1 \in Int
      BY <1>0
    <3> QED BY <1>0, <3>1, SetCursorPositionType
  <2> QED BY <1>5, <2>1, DeleteSelectionRespects, RemoveCharRespects DEF Delete
<1>6. CASE DeleteToStart
  <2> DEFINE new == Substr(text, cursor_pos, Len(text) - cursor_pos)
  <2>1. Len(text) - cursor_pos \in Int
    BY <1>0
  <2>2. new \in Texts /\ IsCut(new, text, cursor_pos, Len(text) - cursor_pos)
    BY <1>0, <2>1, SubstrIs DEF Texts
  <2>3. text' = new
    BY <1>6 DEF DeleteToStart, Becomes
  <2> HIDE DEF new
  <2>4. Len(text') \in Nat /\ Len(text') <= Len(text)
    BY <1>0, <2>2, <2>3 DEF IsCut, CutLength
  <2> QED BY <2>4, ShorterRespects
<1>7. CASE DeleteToEnd
  <2> DEFINE new == Substr(text, 0, cursor_pos)
  <2>1. new \in Texts /\ IsCut(new, text, 0, cursor_pos)
    BY <1>0, SubstrIs DEF Texts
  <2>2. text' = [Here EXCEPT !.text = new].text
    BY <1>7 DEF DeleteToEnd, Becomes
  <2> HIDE DEF new
  <2>3. text' = new
    BY <1>0, <2>1, <2>2, WithTextType
  <2>4. Len(text') \in Nat /\ Len(text') <= Len(text)
    BY <1>0, <2>1, <2>3 DEF IsCut, CutLength
  <2> QED BY <2>4, ShorterRespects
<1>8. ASSUME NEW cc \in Places \cup {cursor_pos}, BackspaceWord(cc) PROVE Respects
  <2>1. cc \in Int /\ cc <= cursor_pos
    BY <1>0, <1>8 DEF BackspaceWord
  <2>2. DeleteText(Here, cc, cursor_pos) \in TextOperation
    BY <1>0, <2>1, DeleteTextType
  <2>3. text' = DeleteText(Here, cc, cursor_pos).text
    BY <1>8, <2>1, <2>2, SetCursorPositionType DEF BackspaceWord, Becomes
  <2> QED BY <1>0, <2>1, <2>3, DeleteTextRespects
<1>9. ASSUME NEW cc \in Places \cup {cursor_pos}, DeleteWord(cc) PROVE Respects
  <2>1. cc \in Int /\ cursor_pos <= cc
    BY <1>0, <1>9 DEF DeleteWord
  <2>2. text' = DeleteText(Here, cursor_pos, cc).text
    BY <1>9 DEF DeleteWord, Becomes
  <2> QED BY <1>0, <2>1, <2>2, DeleteTextRespects
<1>10. ASSUME NEW t \in Inputs, Paste(t) PROVE Respects
  <2>1. t \in Texts
    BY InputsAssumption
  <2>2. WithoutSelection(Here) \in TextOperation /\ Len(WithoutSelection(Here).text) <= Len(text)
    BY WithoutSelectionStays, WithoutSelectionShrinks
  <2>3. /\ AppendAtCursor(WithoutSelection(Here), t) \in TextOperation
        /\ Obeys(AppendAtCursor(WithoutSelection(Here), t))
    BY <2>1, <2>2, AppendAtCursorType, AppendObeys
  <2> QED BY <1>10, <2>3, BecomesObeys DEF Paste, settings
<1>11. CASE Undo \/ Redo
  <2>1. PICK i \in 1 .. Len(undo_stack) : Restore(i)
    BY <1>11, UndoRedoRange
  <2>2. undo_stack[i] \in TextOperation
    BY <2>1, ElementOfSeq DEF TypeOK
  <2>3. undo_stack[i].cursor_pos \in Int
    BY <2>2 DEF TextOperation
  <2>4. text' = undo_stack[i].text
    BY <2>1, <2>2, <2>3, SetCursorPositionType DEF Restore, Becomes
  <2> QED BY <2>1, <2>4 DEF Respects
<1>12. CASE Clear
  BY <1>0, <1>12, EmptySeq, ShorterRespects DEF Clear
<1>13. ASSUME NEW p \in {0, Len(text), cursor_pos - 1, cursor_pos + 1} \cup (Places \ {cursor_pos})
       PROVE  p \in Int
  BY <1>0
<1> QED
  BY <1>1, <1>2, <1>3, <1>4, <1>5, <1>6, <1>7, <1>8, <1>9, <1>10, <1>11, <1>12, <1>13
  DEF Keyboard

LEMMA MouseRespects ==
    ASSUME TypeOK, SelectionInv, Mouse
    PROVE  Respects
<1>0. /\ text \in Texts /\ Len(text) \in Nat /\ Places \subseteq Int
      /\ Here \in TextOperation /\ Here.text = text
  BY TextsHaveLengths, HereStays DEF TypeOK, Places
<1>1. CASE text' = text
  BY <1>0, <1>1, ShorterRespects
<1>2. ASSUME NEW p \in Places, NEW t \in Inputs, DropData(t, p) PROVE Respects
  <2> DEFINE cut == Erase(text, selection.begin, selection.end - selection.begin)
             erased == [SetCursorPosition(Here, p) EXCEPT !.text = cut]
  <2>1. cut \in Texts /\ Len(cut) <= Len(text)
    <3>1. selection.begin \in Int /\ selection.end - selection.begin \in Nat
      BY DEF TypeOK, Selection, SelectionInv
    <3> QED BY <1>0, <3>1, EraseType, EraseShrinks DEF Texts
  <2>2. Becomes(AppendAtCursor(erased, t)) /\ max_length' = max_length
    BY <1>2 DEF DropData, settings
  <2>3. erased \in TextOperation /\ erased.text = cut
    <3> HIDE DEF cut
    <3> QED BY <1>0, <2>1, SetCursorPositionType, WithTextType
  <2> HIDE DEF cut, erased
  <2>4. /\ AppendAtCursor(erased, t) \in TextOperation
        /\ Obeys(AppendAtCursor(erased, t))
    BY <2>1, <2>3, InputsAssumption, AppendAtCursorType, AppendObeys
  <2> QED BY <2>2, <2>4, BecomesObeys
<1>3. CASE \E p \in Places, t \in Inputs : DropData(t, p)
  BY <1>2, <1>3
<1>4. CASE \/ \E p \in Places :
              \/ \E shift, doubleclick \in BOOLEAN : MousePress(shift, doubleclick, p)
              \/ MouseDrag(p)
           \/ MouseRelease
  BY <1>1, <1>4 DEF MousePress, MouseDrag, MouseRelease, Becomes, SetCursorPosition, Here, texts
<1> QED BY <1>3, <1>4 DEF Mouse

LEMMA MethodsRespect ==
    ASSUME TypeOK, Methods
    PROVE  Respects
<1>0. /\ text \in Texts /\ Len(text) \in Nat /\ max_length \in Nat
      /\ Here \in TextOperation /\ Here.text = text
  BY TextsHaveLengths, HereStays, NumbersAssumption DEF TypeOK
<1>1. CASE text' = text
  BY <1>0, <1>1, ShorterRespects
<1>2. ASSUME NEW t \in Inputs, SetText(t) PROVE Respects
  BY <1>0, <1>2, InputsAssumption, ResetRespects DEF SetText
<1>3. ASSUME NEW t \in Inputs, AppendText(t) PROVE Respects
  <2>1. t \in Texts
    BY InputsAssumption
  <2>2. AppendAtCursor(Here, t) \in TextOperation /\ Obeys(AppendAtCursor(Here, t))
    BY <1>0, <2>1, AppendAtCursorType, AppendObeys
  <2> QED BY <1>3, <2>2, BecomesObeys DEF AppendText, settings
<1>4. ASSUME NEW n \in Lengths, SetMaxLength(n) PROVE Respects
  BY <1>0, <1>4, NumbersAssumption, ResetRespects DEF SetMaxLength
<1>5. CASE Clear
  BY <1>0, <1>5, EmptySeq, ShorterRespects DEF Clear
<1>6. ASSUME NEW p, SetCursor(p) PROVE text' = text
  BY <1>6 DEF SetCursor, Becomes, SetCursorPosition, Here
<1>7. ASSUME NEW from, NEW to, Select(from, to) PROVE text' = text
  BY <1>7 DEF Select, texts
<1>8. CASE SelectAll \/ Deselect
  BY <1>1, <1>8 DEF SelectAll, Deselect, texts
<1>9. ASSUME NEW b, SetEditable(b) PROVE text' = text
  BY <1>9 DEF SetEditable, texts
<1> QED BY <1>1, <1>2, <1>3, <1>4, <1>5, <1>6, <1>7, <1>8, <1>9 DEF Methods

(* A text longer than max_length, and than the text before it, is one that *)
(* undo or redo brought back.                                              *)
THEOREM EntryRespects == Spec => EntryRespectsMaxLength
<1>1. ASSUME EditInv, [Next]_vars PROVE Respects
  <2>0. TypeOK /\ SelectionInv /\ Len(text) \in Nat
    BY <1>1, TextsHaveLengths DEF EditInv, TypeOK
  <2>1. CASE Input
    BY <2>0, <2>1, KeyboardRespects, MouseRespects, MethodsRespect DEF Input
  <2>2. CASE ~Input
    <3>1. text' = text
      BY <1>1, <2>2 DEF Next, Flush, UndefinedBehaviour, vars, texts
    <3> QED BY <2>0, <3>1, ShorterRespects
  <2> QED BY <2>1, <2>2
<1> QED BY <1>1, EditInvariant, PTL DEF Spec, EntryRespectsMaxLength, Respects
=============================================================================
