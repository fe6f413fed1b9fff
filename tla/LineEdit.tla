------------------------------ MODULE LineEdit ------------------------------
(***************************************************************************)
(* TLLineEdit: the text, the cursor, the selection, the undo history and   *)
(* the deferred text_changed notification.  One action per input handler   *)
(* and per editing method.  A text is a sequence of opaque characters; the *)
(* pixel under the mouse is abstracted to the cursor position it hits,     *)
(* word boundaries to any position a word move may stop at.  Scrolling,    *)
(* drawing, the caret timer and the input method are left out.             *)
(***************************************************************************)
EXTENDS Integers, Sequences

CONSTANTS
    Inputs,      \* texts that are typed, pasted, dropped or set
    pass,        \* the secret flag, which disables cut
    CanDefer,    \* GODOT_MODULE build with the control inside the tree
    Lengths,     \* values for max_length
    Flags,       \* values for editable
    MaxText,     \* bound on the length of the text
    MaxBefore,   \* bound on how far before the text a position may lie
    MaxHistory   \* bound on the recorded and the pending text changes

ASSUME FlagsAssumption == pass \in BOOLEAN /\ CanDefer \in BOOLEAN /\ Flags \subseteq BOOLEAN
ASSUME NumbersAssumption ==
    /\ Lengths \subseteq Nat /\ 0 \in Lengths
    /\ {MaxText, MaxBefore, MaxHistory} \subseteq Nat

(* The characters a text can have.                                         *)
Characters == UNION {{t[i] : i \in 1 .. Len(t)} : t \in Inputs}
Texts == Seq(Characters)
ASSUME InputsAssumption == Inputs \subseteq Texts

VARIABLES
    text,
    cursor_pos,
    selection,           \* begin, end, cursor_start, enabled, creating, doubleclick
    undo_stack,          \* sequence of TextOperations
    undo_stack_pos,      \* index into undo_stack, End for undo_stack.end()
    text_changed_dirty,
    pending,             \* calls of _text_changed in the message queue
    announced,           \* the last step emitted text_changed with the text
    max_length,
    editable,
    defined              \* no end() iterator was dereferenced

texts == <<text, cursor_pos>>
history == <<undo_stack, undo_stack_pos>>
queue == <<text_changed_dirty, pending>>
settings == <<max_length, editable>>
vars == <<texts, selection, history, queue, announced, settings, defined>>

End == 0

(* The text and the cursor travel together: this is also what the code     *)
(* keeps in a TextOperation.                                               *)
Here == [text |-> text, cursor_pos |-> cursor_pos]
Becomes(op) == text' = op.text /\ cursor_pos' = op.cursor_pos

TextOperation == [text : Texts, cursor_pos : Int]
Selection == [begin : Int, end : Int, cursor_start : Int,
              enabled : BOOLEAN, creating : BOOLEAN, doubleclick : BOOLEAN]

TypeOK ==
    /\ text \in Texts /\ Len(text) <= MaxText /\ cursor_pos \in Int
    /\ selection \in Selection
    /\ undo_stack \in Seq(TextOperation) /\ undo_stack # <<>>
    /\ undo_stack_pos \in {End} \cup 1 .. Len(undo_stack)
    /\ text_changed_dirty \in BOOLEAN /\ announced \in BOOLEAN /\ pending \in Nat
    /\ max_length \in Lengths /\ editable \in BOOLEAN /\ defined \in BOOLEAN

-----------------------------------------------------------------------------
(* Godot's String and CLAMP.                                               *)

Clamp(x, low, high) == IF x < low THEN low ELSE IF x > high THEN high ELSE x
Substr(t, from, n) ==
    IF from < 0 \/ from >= Len(t) \/ n <= 0 THEN <<>>
    ELSE SubSeq(t, from + 1, Clamp(from + n, 0, Len(t)))
Erase(t, from, n) == Substr(t, 0, from) \o Substr(t, from + n, Len(t) - (from + n))

-----------------------------------------------------------------------------
(* Edits of the text and the cursor.                                       *)

(* A slip: p is not held back at the end of the text.                      *)
SetCursorUnchecked(op, p) == [op EXCEPT !.cursor_pos = IF p < 0 THEN 0 ELSE p]
SetCursorPosition(op, p) == [op EXCEPT !.cursor_pos = Clamp(p, 0, Len(op.text))]

(* A slip: the text that is already there does not count.                  *)
AppendUnchecked(op, t) ==
    IF max_length <= 0 \/ Len(t) <= max_length
    THEN LET pre == Substr(op.text, 0, op.cursor_pos)
             post == Substr(op.text, op.cursor_pos, Len(op.text) - op.cursor_pos)
         IN  SetCursorPosition([op EXCEPT !.text = pre \o t \o post], op.cursor_pos + Len(t))
    ELSE op

(* append_at_cursor: nothing happens beyond max_length.                    *)
AppendAtCursor(op, t) ==
    IF max_length <= 0 \/ Len(op.text) + Len(t) <= max_length
    THEN LET pre == Substr(op.text, 0, op.cursor_pos)
             post == Substr(op.text, op.cursor_pos, Len(op.text) - op.cursor_pos)
         IN  SetCursorPosition([op EXCEPT !.text = pre \o t \o post], op.cursor_pos + Len(t))
    ELSE op

(* A slip: a cursor behind the range moves to its start.                   *)
DeleteTextToStart(op, from, to) ==
    [text |-> Erase(op.text, from, to - from),
     cursor_pos |-> IF op.cursor_pos > from THEN from ELSE op.cursor_pos]

DeleteText(op, from, to) ==
    LET rest == Erase(op.text, from, to - from)
        cursor == op.cursor_pos - Clamp(op.cursor_pos - from, 0, to - from)
    IN  [text |-> rest, cursor_pos |-> IF cursor >= Len(rest) THEN Len(rest) ELSE cursor]

(* delete_char, when there is a character before the cursor.               *)
HasCharBefore(op) == Len(op.text) > 0 /\ op.cursor_pos # 0
DeleteChar(op) ==
    SetCursorPosition([op EXCEPT !.text = Erase(op.text, op.cursor_pos - 1, 1)],
                      op.cursor_pos - 1)

-----------------------------------------------------------------------------
(* The selection.                                                          *)

NoSelection ==
    [begin |-> 0, end |-> 0, cursor_start |-> 0,
     enabled |-> FALSE, creating |-> FALSE, doubleclick |-> FALSE]

(* selection_fill_at_cursor.                                               *)
Filled(sel, p) ==
    [sel EXCEPT !.begin = IF p <= sel.cursor_start THEN p ELSE sel.cursor_start,
                !.end = IF p <= sel.cursor_start THEN sel.cursor_start ELSE p,
                !.enabled = p # sel.cursor_start]

(* shift_selection_check_pre and _post around a move of the cursor to p.   *)
ShiftPre(shift) ==
    IF ~shift THEN NoSelection
    ELSE IF selection.enabled THEN selection
    ELSE [selection EXCEPT !.cursor_start = cursor_pos]
ShiftPost(shift, p) == IF shift THEN Filled(ShiftPre(shift), p) ELSE ShiftPre(shift)

WithoutSelection(op) ==
    IF selection.enabled THEN DeleteText(op, selection.begin, selection.end) ELSE op

-----------------------------------------------------------------------------
(* Notification and history.                                               *)

(* _emit_text_change; a slip: the dirty flag stays.                        *)
EmitAndStayDirty == announced' = TRUE /\ UNCHANGED text_changed_dirty
EmitTextChange == announced' = TRUE /\ text_changed_dirty' = FALSE
Quiet == announced' = FALSE /\ UNCHANGED queue

(* A slip: the state that is shown is dropped with what was undone.        *)
ClearRedoTooMuch(op) ==
    /\ undo_stack' = IF undo_stack_pos = End THEN Append(undo_stack, op)
                     ELSE Append(SubSeq(undo_stack, 1, undo_stack_pos - 1), op)
    /\ undo_stack_pos' = End

(* _clear_redo: what was undone is dropped, the new state is recorded.     *)
ClearRedo(op) ==
    /\ undo_stack' = IF undo_stack_pos = End THEN Append(undo_stack, op)
                     ELSE Append(SubSeq(undo_stack, 1, undo_stack_pos), op)
    /\ undo_stack_pos' = End

(* _text_changed.                                                          *)
TextChanged(op) == EmitTextChange /\ ClearRedo(op)

(* delete_text and paste_text leave that to a queued call, once; a slip:   *)
(* the flag is read the wrong way round.                                   *)
QueuedIfDirty == IF text_changed_dirty /\ CanDefer THEN pending + 1 ELSE pending
Queued == IF text_changed_dirty \/ ~CanDefer THEN pending ELSE pending + 1
DeferTextChanged ==
    /\ text_changed_dirty' = TRUE
    /\ pending' = Queued
    /\ announced' = FALSE
    /\ UNCHANGED history

(* _clear_undo_stack: the new history starts with the text of the moment.  *)
(* A slip: the position is left where it was.                              *)
ClearUndoStackOnly == undo_stack' = <<Here>> /\ UNCHANGED undo_stack_pos
ClearUndoStack == undo_stack' = <<Here>> /\ undo_stack_pos' = End

Init ==
    /\ text = <<>> /\ cursor_pos = 0 /\ selection = NoSelection
    /\ undo_stack = <<Here>> /\ undo_stack_pos = End
    /\ text_changed_dirty = FALSE /\ pending = 0 /\ announced = FALSE
    /\ max_length = 0 /\ editable = TRUE /\ defined = TRUE

-----------------------------------------------------------------------------
(* Keyboard and context menu.                                              *)

(* Left, right, up, down, home, end; wherever a word move may stop.        *)
MoveCursor(shift, p) ==
    LET op == SetCursorPosition(Here, p) IN
    /\ Becomes(op)
    /\ selection' = ShiftPost(shift, op.cursor_pos)
    /\ Quiet /\ UNCHANGED <<history, settings>>

(* Alt+Right moves nothing, but prepares the selection all the same.       *)
AltRight(shift) ==
    /\ selection' = ShiftPre(shift)
    /\ Quiet /\ UNCHANGED <<texts, history, settings>>

(* A printable key: typing replaces the selection.                         *)
Type(c) ==
    /\ editable
    /\ LET op == AppendAtCursor(WithoutSelection(Here), <<c>>) IN Becomes(op) /\ TextChanged(op)
    /\ pending' = IF selection.enabled THEN Queued ELSE pending
    /\ selection' = NoSelection
    /\ UNCHANGED settings

(* selection_delete: Backspace, Delete, Shift+Delete, Ctrl+X, MENU_CUT.    *)
DeleteSelection ==
    /\ selection.enabled
    /\ Becomes(WithoutSelection(Here))
    /\ DeferTextChanged
    /\ selection' = NoSelection
    /\ UNCHANGED settings

Cut == editable /\ ~pass /\ DeleteSelection

(* delete_char, for the character before op's cursor.                      *)
RemoveChar(op) ==
    /\ IF HasCharBefore(op)
       THEN Becomes(DeleteChar(op)) /\ TextChanged(DeleteChar(op))
       ELSE Becomes(op) /\ announced' = FALSE /\ UNCHANGED <<history, text_changed_dirty>>
    /\ UNCHANGED <<pending, selection, settings>>

Backspace == editable /\ IF selection.enabled THEN DeleteSelection ELSE RemoveChar(Here)

(* Ctrl+Backspace deletes back to a word boundary.                         *)
BackspaceWord(cc) ==
    /\ editable /\ ~selection.enabled
    /\ cursor_pos <= Len(text) + 1
    /\ cc < cursor_pos \/ (cc = cursor_pos /\ cursor_pos <= 0)
    /\ Becomes(SetCursorPosition(DeleteText(Here, cc, cursor_pos), cc))
    /\ DeferTextChanged
    /\ UNCHANGED <<selection, settings>>

Delete ==
    /\ editable
    /\ IF selection.enabled THEN DeleteSelection
       ELSE /\ cursor_pos # Len(text)
            /\ RemoveChar(SetCursorPosition(Here, cursor_pos + 1))

DeleteWord(cc) ==
    /\ editable /\ ~selection.enabled
    /\ cursor_pos # Len(text) /\ cursor_pos >= 0
    /\ cc > cursor_pos \/ (cc = cursor_pos /\ cursor_pos > Len(text))
    /\ Becomes(DeleteText(Here, cursor_pos, cc))
    /\ DeferTextChanged
    /\ UNCHANGED <<selection, settings>>

(* Ctrl+U and Ctrl+K.                                                      *)
DeleteToStart ==
    /\ editable
    /\ LET op == [text |-> Substr(text, cursor_pos, Len(text) - cursor_pos), cursor_pos |-> 0]
       IN  Becomes(op) /\ TextChanged(op)
    /\ selection' = NoSelection
    /\ UNCHANGED <<pending, settings>>

DeleteToEnd ==
    /\ editable
    /\ LET op == [Here EXCEPT !.text = Substr(text, 0, cursor_pos)]
       IN  Becomes(op) /\ TextChanged(op)
    /\ selection' = NoSelection
    /\ UNCHANGED <<pending, settings>>

(* The clipboard holds t.                                                  *)
Paste(t) ==
    /\ editable /\ t # <<>>
    /\ Becomes(AppendAtCursor(WithoutSelection(Here), t))
    /\ DeferTextChanged
    /\ selection' = IF selection.enabled THEN NoSelection ELSE selection
    /\ UNCHANGED settings

(* Undo and redo move to another state of the history and announce it.     *)
Restore(i) ==
    /\ undo_stack_pos' = i
    /\ LET op == undo_stack[i] IN
       /\ Becomes(SetCursorPosition(op, op.cursor_pos))
       /\ EmitTextChange
    /\ UNCHANGED <<undo_stack, pending, selection, settings>>

(* From end() the decrement reaches the last state there is.               *)
Undo ==
    /\ editable
    /\ IF undo_stack_pos = End
       THEN Len(undo_stack) > 1 /\ Restore(Len(undo_stack))
       ELSE undo_stack_pos # 1 /\ Restore(undo_stack_pos - 1)

Redo == editable /\ undo_stack_pos \notin {End, Len(undo_stack)} /\ Restore(undo_stack_pos + 1)

(* Redo at the last state increments to end() and dereferences it.         *)
RedoPastTheEnd == editable /\ undo_stack_pos = Len(undo_stack)

(* A word move reads the character next to the cursor, wherever that is.   *)
ReadOutsideTheText == cursor_pos < 0 \/ cursor_pos > Len(text) + 1

(* Either may end in anything: the model stops.                            *)
UndefinedBehaviour ==
    /\ RedoPastTheEnd \/ ReadOutsideTheText
    /\ defined' = FALSE
    /\ Quiet /\ UNCHANGED <<texts, selection, history, settings>>

-----------------------------------------------------------------------------
(* Mouse.                                                                  *)

MousePress(shift, doubleclick, p) ==
    /\ Becomes(SetCursorPosition(Here, p))
    /\ selection' =
          IF shift THEN [Filled(ShiftPre(shift), p) EXCEPT !.creating = TRUE]
          ELSE IF doubleclick
          THEN [NoSelection EXCEPT !.end = Len(text), !.enabled = TRUE, !.doubleclick = TRUE]
          ELSE [NoSelection EXCEPT !.cursor_start = p, !.creating = TRUE]
    /\ Quiet /\ UNCHANGED <<history, settings>>

MouseDrag(p) ==
    /\ selection.creating
    /\ Becomes(SetCursorPosition(Here, p))
    /\ selection' = Filled(selection, p)
    /\ Quiet /\ UNCHANGED <<history, settings>>

MouseRelease ==
    /\ selection' = IF selection.creating \/ selection.doubleclick
                    THEN [selection EXCEPT !.creating = FALSE, !.doubleclick = FALSE]
                    ELSE NoSelection
    /\ Quiet /\ UNCHANGED <<texts, history, settings>>

(* drop_data: what is selected goes, enabled or not, and t comes in.       *)
DropData(t, p) ==
    LET selected == selection.end - selection.begin
        erased == [SetCursorPosition(Here, p) EXCEPT !.text = Erase(text, selection.begin, selected)]
        op == AppendAtCursor(erased, t)
    IN  /\ Becomes(op)
        /\ selection' = [selection EXCEPT !.begin = op.cursor_pos - selected, !.end = op.cursor_pos]
        /\ Quiet /\ UNCHANGED <<history, settings>>

-----------------------------------------------------------------------------
(* Methods.                                                                *)

(* set_text; set_max_length sets the text it has once more.                *)
Reset(t, length) ==
    /\ ClearUndoStack
    /\ text' = IF length <= 0 \/ Len(t) <= length THEN t ELSE <<>>
    /\ cursor_pos' = 0
    /\ max_length' = length
    /\ Quiet /\ UNCHANGED <<selection, editable>>
SetText(t) == Reset(t, max_length)
SetMaxLength(n) == Reset(text, n)

(* clear, and MENU_CLEAR while editable.                                   *)
Clear ==
    /\ text' = <<>> /\ cursor_pos' = 0
    /\ undo_stack' = <<Here, [text |-> <<>>, cursor_pos |-> 0]>> /\ undo_stack_pos' = End
    /\ EmitTextChange
    /\ UNCHANGED <<pending, selection, settings>>

SetCursor(p) ==
    /\ Becomes(SetCursorPosition(Here, p))
    /\ Quiet /\ UNCHANGED <<selection, history, settings>>

AppendText(t) ==
    /\ Becomes(AppendAtCursor(Here, t))
    /\ Quiet /\ UNCHANGED <<selection, history, settings>>

(* select; Ctrl+A and select_all are the whole text.                       *)
Select(from, to) ==
    /\ from < to
    /\ selection' = [selection EXCEPT !.begin = from, !.end = to, !.enabled = TRUE,
                                      !.creating = FALSE, !.doubleclick = FALSE]
    /\ Quiet /\ UNCHANGED <<texts, history, settings>>

SelectAll ==
    /\ text # <<>>
    /\ selection' = [selection EXCEPT !.begin = 0, !.end = Len(text), !.enabled = TRUE]
    /\ Quiet /\ UNCHANGED <<texts, history, settings>>

Deselect == selection' = NoSelection /\ Quiet /\ UNCHANGED <<texts, history, settings>>

SetEditable(b) ==
    /\ editable' = b
    /\ Quiet /\ UNCHANGED <<texts, selection, history, max_length>>

(* The message queue calls _text_changed.                                  *)
Flush ==
    /\ defined /\ pending > 0
    /\ pending' = pending - 1
    /\ TextChanged(Here)
    /\ UNCHANGED <<texts, selection, settings, defined>>

-----------------------------------------------------------------------------
Places == 0 .. Len(text)
Chars == {t[1] : t \in {u \in Inputs : Len(u) = 1}}

Keyboard ==
    \/ \E shift \in BOOLEAN :
        \/ \E p \in {0, Len(text), cursor_pos - 1, cursor_pos + 1} \cup (Places \ {cursor_pos}) :
            MoveCursor(shift, p)
        \/ AltRight(shift)
    \/ \E c \in Chars : Type(c)
    \/ Cut \/ Backspace \/ Delete \/ DeleteToStart \/ DeleteToEnd
    \/ \E cc \in Places \cup {cursor_pos} : BackspaceWord(cc) \/ DeleteWord(cc)
    \/ \E t \in Inputs : Paste(t)
    \/ Undo \/ Redo
    \/ editable /\ Clear

Mouse ==
    \/ \E p \in Places :
        \/ \E shift, doubleclick \in BOOLEAN : MousePress(shift, doubleclick, p)
        \/ MouseDrag(p)
        \/ \E t \in Inputs : DropData(t, p)
    \/ MouseRelease

Methods ==
    \/ \E t \in Inputs : SetText(t) \/ AppendText(t)
    \/ \E n \in Lengths : SetMaxLength(n)
    \/ Clear
    \/ \E p \in Places : SetCursor(p)
    \/ \E from, to \in Places : Select(from, to)
    \/ SelectAll \/ Deselect
    \/ \E b \in Flags : SetEditable(b)

(* Room is left in the history for the calls that are queued.              *)
InBounds ==
    /\ Len(text') <= MaxText
    /\ cursor_pos' >= -MaxBefore /\ selection'.begin >= -MaxBefore
    /\ Len(undo_stack') + pending' <= MaxHistory

Input == defined /\ (Keyboard \/ Mouse \/ Methods) /\ InBounds /\ UNCHANGED defined

Next ==
    \/ Input
    \/ Flush
    \/ defined /\ UndefinedBehaviour
    \/ ~defined /\ UNCHANGED vars

(* The main loop flushes the message queue once per iteration.             *)
Spec == Init /\ [][Next]_vars /\ WF_vars(Flush)

-----------------------------------------------------------------------------
(* Properties.                                                             *)

CursorInText == 0 <= cursor_pos /\ cursor_pos <= Len(text)
Dropped == \E t \in Inputs, p \in Places : DropData(t, p)

(* However stale the selection is after undo, set_text or an edit during a *)
(* mouse selection, no call but drop_data takes the cursor out of the text *)
(* (the clamps in set_cursor_position and delete_text).                    *)
CursorStaysInText ==
    [][CursorInText /\ selection.begin >= 0 /\ ~CursorInText' => Dropped]_vars

(* Deleting any range leaves the cursor between the characters it was      *)
(* between, or where the range was (delete_text).                          *)
DeletionKeepsTheCursor ==
    CursorInText =>
        \A from, to \in Places :
            from <= to =>
                LET op == DeleteText(Here, from, to) IN
                Substr(op.text, 0, op.cursor_pos) = Erase(Substr(text, 0, cursor_pos), from, to - from)

(* Whatever is done, the states up to the one undo has reached stay in the *)
(* history, unless it starts again with the text of the moment (the loop   *)
(* in _clear_redo).                                                        *)
HistoryIsKept ==
    [][\/ undo_stack'[1] = Here
       \/ LET kept == IF undo_stack_pos = End THEN Len(undo_stack) ELSE undo_stack_pos
          IN  /\ kept <= Len(undo_stack')
              /\ SubSeq(undo_stack', 1, kept) = SubSeq(undo_stack, 1, kept)]_vars

(* Text grows beyond max_length only by going back to a text that was      *)
(* there before max_length was set (append_at_cursor, undo, redo).         *)
EntryRespectsMaxLength ==
    [][Len(text') > Len(text) /\ max_length' > 0 /\ Len(text') > max_length' =>
          \E i \in 1 .. Len(undo_stack) : undo_stack[i].text = text']_vars

(* Every key or menu entry that changes the text either announces the new  *)
(* text at once or leaves a call queued that will (text_changed_dirty).    *)
EditsAreAnnounced ==
    [][text' # text /\ ~announced' /\ pending' = 0 => ~Keyboard]_vars

(* What the dirty flag promises is kept: text_changed comes with the text  *)
(* the control then has.                                                   *)
DirtyTextIsAnnounced == text_changed_dirty ~> (announced \/ ~defined)

(* What the documentation says of undo ("Undoes the previous action."):    *)
(* after an edit that was recorded, undo brings another text or cursor.    *)
UndoUndoes ==
    [][Undo /\ undo_stack_pos = End /\ Here = undo_stack[Len(undo_stack)] =>
          [text |-> text', cursor_pos |-> cursor_pos'] # Here]_vars

(* What the documentation says of redo ("Reverse the last undo action."):  *)
(* when there is nothing to reverse, redo does not leave the history.      *)
RedoIsDefined == ~(RedoPastTheEnd /\ ~defined)
=============================================================================
