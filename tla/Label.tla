------------------------------- MODULE Label --------------------------------
(***************************************************************************)
(* TLLabel on a TLFontFamily: a chain of caches that each mark the next.   *)
(* The family tells the string ("changed"), the string drops its clusters  *)
(* and tells the label ("string_changed"), and the label drops its lines   *)
(* and queues a redraw.  current holds the views of the label that show    *)
(* what its text, its fonts and its settings are now.                      *)
(***************************************************************************)
EXTENDS FontFamily

VARIABLES
    base_font,   \* "family", "other" or "none"
    is_empty,    \* xl_text is empty
    uppercase,   \* the setting
    raised,      \* the string got xl_text in upper case
    valid,       \* the string has its clusters
    lines_dirty, \* _lines_dirty
    queued,      \* a redraw is queued
    current      \* the views that are up to date

caseVars == <<uppercase, raised>>
labelVars == <<base_font, is_empty, caseVars, valid, lines_dirty, queued, current>>
vars == <<familyVars, labelVars>>

Views == {"string", "lines", "drawing"}

LabelInit ==
    /\ base_font = "none"
    /\ is_empty = TRUE
    /\ uppercase = FALSE
    /\ raised = FALSE
    /\ valid = FALSE
    /\ lines_dirty = TRUE
    /\ queued = TRUE
    /\ current = {}

-----------------------------------------------------------------------------
(* Slip: the redraw is not queued.                                         *)
MarkLinesOnly == lines_dirty' = TRUE /\ UNCHANGED queued

(* _font_changed of the label, and every setter that calls update().       *)
MarkLines == lines_dirty' = TRUE /\ queued' = TRUE

(* Slip: the string drops its clusters and does not tell the label.        *)
StringChangesUnheard ==
    /\ valid' = FALSE
    /\ current' = {}
    /\ queued' = TRUE
    /\ UNCHANGED lines_dirty

(* What the string is shaped from changes, and the label hears of it.      *)
StringChanges == valid' = FALSE /\ MarkLines /\ current' = {}

(* What only the lines, or only the drawing, are made from changes.        *)
LinesChange == MarkLines /\ current' = current \cap {"string"}
DrawingChanges == queued' = TRUE /\ current' = current \ {"drawing"}

(* The family emits "changed": _font_changed of the string, if connected.  *)
FamilyChanges ==
    /\ FamilyEmits
    /\ IF base_font = "family"
       THEN StringChanges
       ELSE UNCHANGED <<valid, lines_dirty, queued, current>>
    /\ UNCHANGED <<base_font, is_empty, caseVars>>

FamilyChangesSilently ==
    /\ \E s \in Styles, c \in Chains : SetNowhere(s, c)
    /\ UNCHANGED labelVars

(* A face the family does not listen to changes.                           *)
FaceChangesUnheard ==
    /\ \E f \in Faces :
           /\ FaceChangedUnheard(f)
           /\ current' = IF base_font = "family" /\ Places(f) # {} THEN {} ELSE current
    /\ UNCHANGED <<base_font, is_empty, caseVars, valid, lines_dirty, queued>>

(* A new xl_text.  It goes to the string as it is, whatever uppercase says.*)
NewText ==
    /\ is_empty' \in BOOLEAN
    /\ ~(is_empty /\ is_empty')
    /\ raised' = FALSE
    /\ UNCHANGED uppercase

(* set_text with another text.  An empty string emits no string_changed,   *)
(* but the label marks its lines itself.                                   *)
SetText ==
    /\ NewText
    /\ StringChanges
    /\ UNCHANGED <<familyVars, base_font>>

(* set_uppercase with the other value: the string gets the text again.     *)
SetUppercase ==
    /\ uppercase' = ~uppercase
    /\ raised' = uppercase'
    /\ StringChanges
    /\ UNCHANGED <<familyVars, base_font, is_empty>>

(* set_base_font_style, set_base_font_size, set_text_direction,            *)
(* set_ot_features and set_language with another value.                    *)
SetStringProperty ==
    /\ StringChanges
    /\ UNCHANGED <<familyVars, base_font, is_empty, caseVars>>

SetBaseFont ==
    /\ base_font' \in {"family", "other"} \ {base_font}
    /\ StringChanges
    /\ UNCHANGED <<familyVars, is_empty, caseVars>>

(* set_base_font, set_base_font_style and set_base_font_size with the      *)
(* value there is, set_base_font(null).                                    *)
SetNothing ==
    /\ MarkLines
    /\ UNCHANGED <<familyVars, base_font, is_empty, caseVars, valid, current>>

(* set_autowrap and set_align with another value, a new theme; a new size, *)
(* for which Godot queues the redraw.                                      *)
SetLinesProperty ==
    /\ LinesChange
    /\ UNCHANGED <<familyVars, base_font, is_empty, caseVars, valid>>

(* set_valign, set_clip_text, set_lines_skipped, set_max_lines_visible,    *)
(* set_visible_characters, set_percent_visible.                            *)
SetDrawingProperty ==
    /\ DrawingChanges
    /\ UNCHANGED <<familyVars, base_font, is_empty, caseVars, valid, lines_dirty>>

-----------------------------------------------------------------------------
(* The text of the string is in the case the label is set to.              *)
InCase == is_empty \/ raised = uppercase

(* _reshape_lines.  The string has, or has not, its clusters; without them *)
(* they are made of its text.  shows are the views that are up to date     *)
(* before.  Without a text the lines are cleared and stay dirty.           *)
Reshape(has, empty, cased, shows) ==
    IF empty
    THEN shows \cup {"lines"}
    ELSE IF "string" \in shows \/ (~has /\ cased)
         THEN shows \cup {"string", "lines"}
         ELSE shows \ {"lines"}

(* NOTIFICATION_TRANSLATION_CHANGED: a new text is laid out at once.       *)
TranslationChanged ==
    /\ NewText
    /\ valid' = ~is_empty'
    /\ lines_dirty' = (is_empty' /\ lines_dirty)
    /\ queued' = TRUE
    /\ current' = Reshape(FALSE, is_empty', InCase', {})
    /\ UNCHANGED <<familyVars, base_font>>

(* Slip: the early return for an empty text comes after the flag is reset. *)
ReshapeAlwaysClean ==
    IF lines_dirty
    THEN valid' = TRUE /\ lines_dirty' = FALSE
    ELSE UNCHANGED <<valid, lines_dirty>>

ReshapeIfDirty ==
    IF lines_dirty
    THEN /\ valid' = (valid \/ ~is_empty)
         /\ lines_dirty' = is_empty
    ELSE UNCHANGED <<valid, lines_dirty>>
LaidOut == IF lines_dirty THEN Reshape(valid, is_empty, InCase, current) ELSE current

(* get_minimum_size, get_line_count, get_visible_line_count.               *)
Query ==
    /\ ReshapeIfDirty
    /\ current' = LaidOut
    /\ UNCHANGED <<familyVars, base_font, is_empty, caseVars, queued>>

(* NOTIFICATION_DRAW.                                                      *)
Draw ==
    /\ queued
    /\ ReshapeIfDirty
    /\ queued' = FALSE
    /\ current' = IF "lines" \in LaidOut THEN LaidOut \cup {"drawing"} ELSE LaidOut
    /\ UNCHANGED <<familyVars, base_font, is_empty, caseVars>>

Init == FamilyInit /\ LabelInit

Next ==
    \/ FamilyChanges \/ FamilyChangesSilently \/ FaceChangesUnheard
    \/ SetText \/ SetUppercase \/ SetStringProperty \/ SetBaseFont \/ SetNothing
    \/ SetLinesProperty \/ SetDrawingProperty
    \/ TranslationChanged \/ Query \/ Draw

(* Godot draws a visible item whose redraw is queued with the next frame.  *)
Spec == Init /\ [][Next]_vars /\ WF_vars(Draw)

-----------------------------------------------------------------------------
(* The types; clusters are kept for a text only.                           *)
TypeOK ==
    /\ FamilyTypeOK
    /\ base_font \in {"family", "other", "none"}
    /\ is_empty \in BOOLEAN /\ valid \in BOOLEAN
    /\ uppercase \in BOOLEAN /\ raised \in BOOLEAN
    /\ lines_dirty \in BOOLEAN /\ queued \in BOOLEAN
    /\ current \subseteq Views
    /\ is_empty => ~valid

(* The family listens to every face it has.                                *)
AllHeard == \A f \in Faces : Places(f) # {} => f \in connected

(* What the label has cached is what its text, its fonts and its settings  *)
(* give now: clusters that count as valid, lines that are not dirty.  A    *)
(* face that changes must get through the family and the string.  Two      *)
(* guards name where the code is otherwise: a face whose count is wrong    *)
(* may be one the family does not listen to (set_face), and a text that is *)
(* set while uppercase is on stays as it is (set_text, the translation).   *)
CachesAreCurrent ==
    AllHeard /\ InCase =>
        /\ valid => "string" \in current
        /\ ~lines_dirty => "lines" \in current

(* A change of a face, a chain, the text or a setting is drawn, whatever   *)
(* happens meanwhile, but for what those two guards name.                  *)
ChangesAreDrawn ==
    "drawing" \notin current ~> "drawing" \in current \/ ~AllHeard \/ ~InCase
=============================================================================
