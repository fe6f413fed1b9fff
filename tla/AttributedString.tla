-------------------------- MODULE AttributedString --------------------------
(***************************************************************************)
(* TLShapedAttributedString: the text, its format and style runs, and the  *)
(* cached visual built from them.  One action per editing call; a call the *)
(* code rejects without touching its state is a stuttering step, and only  *)
(* the rejected calls that do touch it are actions.  A character is        *)
(* abstracted to its position, so the text is its length in UTF-16 units;  *)
(* the visual is abstracted to the format attributes each character was    *)
(* shaped with.                                                            *)
(***************************************************************************)
EXTENDS AttributeRuns

CONSTANTS
    FormatAttrs,       \* attributes up to TEXT_ATTRIBUTE_MAX_FORMAT_ATTRIBUTE
    ReplacementAttrs,  \* image, rectangle and id replacements
    Sources,           \* other strings that can be inserted
    NoVisual,          \* "the visual has to be rebuilt"
    MaxLen,            \* bound on the length of the text
    MaxKey             \* bound on the run keys

StyleAttrs == Attrs \ FormatAttrs

ASSUME AttrsAssumption ==
    /\ FormatAttrs \subseteq Attrs
    /\ ReplacementAttrs \subseteq FormatAttrs
ASSUME BoundsAssumption == MaxLen \in Nat /\ MaxKey \in Nat

(* A string that is inserted: its length, its runs, and whether it is a    *)
(* TLShapedAttributedString at all (a plain one has no runs).              *)
ASSUME SourcesAssumption ==
    \A src \in Sources :
        /\ src.size \in Nat /\ src.attributed \in BOOLEAN
        /\ IsRunMap(src.format) /\ IsRunMap(src.style)

VARIABLES
    data_size,          \* length of the text
    format_attributes,  \* runs that decide how the text is shaped
    style_attributes,   \* runs that are read when the text is drawn
    visual              \* the shaped text, NoVisual while it is invalid

vars == <<data_size, format_attributes, style_attributes, visual>>

Positions == 0 .. data_size - 1

TypeOK ==
    /\ data_size \in Nat
    /\ IsRunMap(format_attributes)
    /\ IsRunMap(style_attributes)
    /\ visual = NoVisual \/ visual \in [Positions -> Run]

Init ==
    /\ data_size = 0
    /\ format_attributes = NoRuns
    /\ style_attributes = NoRuns
    /\ visual = NoVisual

-----------------------------------------------------------------------------
(* Shaping.                                                                *)

Bounded(m) == \A k \in DOMAIN m : k <= MaxKey

(* _shape_bidi_script_run over start..end-1.  A left-to-right run takes    *)
(* the runs from the one that covers its first character on, and is shaped *)
(* without attributes when there is none; a right-to-left run starts with  *)
(* the run that covers its last character and, below the first key,        *)
(* stretches the first run down to its own start.                          *)
FirstKey(m) == CHOOSE k \in DOMAIN m : \A j \in DOMAIN m : k <= j
ShapeScriptRun(m, start, end, rtl) ==
    [p \in start .. end - 1 |->
        IF rtl
        THEN IF HasRun(m, p) THEN At(m, p)
             ELSE IF HasRun(m, end - 1) THEN m[FirstKey(m)] ELSE NoAttrs
        ELSE IF HasRun(m, start) THEN At(m, p) ELSE NoAttrs]

(* The text is cut into script runs at the positions of cuts; the runs in  *)
(* rtl run from right to left.                                             *)
ShapedWith(m, cuts, rtl) ==
    LET starts == cuts \cup {0}
        Start(p) == CHOOSE s \in starts : s <= p /\ \A t \in starts : t <= p => t <= s
        End(p) == CHOOSE e \in starts \cup {data_size} :
                    e > p /\ \A f \in starts \cup {data_size} : f > p => e <= f
    IN  [p \in Positions |-> ShapeScriptRun(m, Start(p), End(p), Start(p) \in rtl)[p]]

(* _shape_full_string: nothing to do when the visual is valid or there is  *)
(* no text.  Where script runs lie and which way they run is up to the     *)
(* text.                                                                   *)
Shape ==
    /\ visual = NoVisual
    /\ data_size > 0
    /\ \E cuts \in SUBSET (1 .. data_size - 1) : \E rtl \in SUBSET (cuts \cup {0}) :
        visual' = ShapedWith(format_attributes, cuts, rtl)
    /\ UNCHANGED <<data_size, format_attributes, style_attributes>>

(* The setters of the base class (direction, font, style, size, features,  *)
(* language, control characters) and a change inside of the font.          *)
Restyle ==
    /\ visual' = NoVisual
    /\ UNCHANGED <<data_size, format_attributes, style_attributes>>

-----------------------------------------------------------------------------
(* Attributes.                                                             *)

ValidRange(s, e) == 0 <= s /\ s <= e /\ e <= data_size

(* p_end = -1 stands for the end of the text.                              *)
RangeEnd(e) == IF e = -1 THEN data_size ELSE e

(* The runs add_attribute writes to: up to the end of the text it goes on  *)
(* to the last key there is, except that a replacement stops at a run that *)
(* starts at the very end.                                                 *)
Covered(m, a, s, e) ==
    {k \in DOMAIN m : /\ k >= s
                      /\ k < e \/ e = data_size
                      /\ (a \in ReplacementAttrs /\ e = data_size /\ e \in DOMAIN m) => k < e}

(* A slip: no break at the end of the range.                               *)
WithAttributeUnbroken(m, a, v, s, e) ==
    LET broken == EnsureBreak(EnsureBreak(m, 0), s)
    IN  Optimize(Overwrite(broken, Covered(broken, a, s, e), {a}, v))

WithAttribute(m, a, v, s, e) ==
    LET broken == EnsureBreaks(EnsureBreak(m, 0), s, e, data_size)
    IN  Optimize(Overwrite(broken, Covered(broken, a, s, e), {a}, v))

AddAttribute(a, v, s, e) ==
    /\ ValidRange(s, RangeEnd(e))
    /\ IF a \in FormatAttrs
       THEN /\ format_attributes' = WithAttribute(format_attributes, a, v, s, RangeEnd(e))
            /\ visual' = NoVisual
            /\ UNCHANGED style_attributes
       ELSE /\ style_attributes' = WithAttribute(style_attributes, a, v, s, RangeEnd(e))
            /\ UNCHANGED <<format_attributes, visual>>
    /\ UNCHANGED data_size

(* A slip: the run that starts at the end of the range is cleared as well. *)
WithoutAttributesToEnd(m, names, s, e) ==
    LET broken == EnsureBreaks(m, s, e, data_size)
    IN  Optimize(Overwrite(broken, {k \in DOMAIN broken : s <= k /\ k <= e}, names, Unset))

WithoutAttributes(m, names, s, e) ==
    LET broken == EnsureBreaks(m, s, e, data_size)
    IN  Optimize(Overwrite(broken, {k \in DOMAIN broken : s <= k /\ k < e}, names, Unset))

(* remove_attribute clears the visual whichever map it edits.              *)
RemoveAttribute(a, s, e) ==
    /\ ValidRange(s, RangeEnd(e))
    /\ IF a \in FormatAttrs
       THEN /\ format_attributes' = WithoutAttributes(format_attributes, {a}, s, RangeEnd(e))
            /\ UNCHANGED style_attributes
       ELSE /\ style_attributes' = WithoutAttributes(style_attributes, {a}, s, RangeEnd(e))
            /\ UNCHANGED format_attributes
    /\ visual' = NoVisual
    /\ UNCHANGED data_size

RemoveAttributes(s, e) ==
    /\ ValidRange(s, RangeEnd(e))
    /\ format_attributes' = WithoutAttributes(format_attributes, Attrs, s, RangeEnd(e))
    /\ style_attributes' = WithoutAttributes(style_attributes, Attrs, s, RangeEnd(e))
    /\ visual' = NoVisual
    /\ UNCHANGED data_size

ClearAttributes ==
    /\ format_attributes' = NoRuns
    /\ style_attributes' = NoRuns
    /\ visual' = NoVisual
    /\ UNCHANGED data_size

(* A slip: the visual is not cleared.                                      *)
LoadAttributesSilently(src) ==
    /\ format_attributes' = src.format
    /\ style_attributes' = src.style
    /\ UNCHANGED <<data_size, visual>>

(* load_attributes_dict with the runs another string saved.                *)
LoadAttributes(src) ==
    /\ format_attributes' = src.format
    /\ style_attributes' = src.style
    /\ visual' = NoVisual
    /\ UNCHANGED data_size

-----------------------------------------------------------------------------
(* Text.                                                                   *)

(* A slip: the visual is not cleared.                                      *)
SetTextSilently(n) == data_size' = n /\ UNCHANGED <<format_attributes, style_attributes, visual>>

(* set_text is not overridden: the runs stay where they were.              *)
SetText(n) ==
    /\ data_size' = n
    /\ visual' = NoVisual
    /\ UNCHANGED <<format_attributes, style_attributes>>

SpliceRuns(s, e, d) ==
    /\ format_attributes' = Splice(format_attributes, s, e, d)
    /\ style_attributes' = Splice(style_attributes, s, e, d)

(* replace_text, replace_utf8, replace_utf16 and replace_utf32, with n     *)
(* units of new text.                                                      *)
ReplaceText(s, e, n) ==
    /\ ValidRange(s, e)
    /\ data_size' = data_size - (e - s) + n
    /\ SpliceRuns(s, e, n - (e - s))
    /\ visual' = NoVisual

(* The same calls with a range the base class rejects: the text stays, and *)
(* the override rewrites the runs nevertheless.                            *)
RejectedReplaceText(s, e) ==
    /\ ~ValidRange(s, e)
    /\ SpliceRuns(s, e, 0)
    /\ visual' = NoVisual
    /\ UNCHANGED data_size

(* replace_sstring checks the range itself; the runs of an attributed      *)
(* string come with it.                                                    *)
ReplaceSString(s, e, src) ==
    /\ ValidRange(s, e)
    /\ data_size' = data_size - (e - s) + src.size
    /\ LET d == src.size - (e - s)
       IN  /\ format_attributes' = Overlay(Splice(format_attributes, s, e, d), src.format, s)
           /\ style_attributes' = Overlay(Splice(style_attributes, s, e, d), src.style, s)
    /\ visual' = NoVisual

(* add_sstring.  A plain string goes through replace_sstring.              *)
AddSString(src) ==
    IF src.attributed
    THEN /\ src.size > 0
         /\ data_size' = data_size + src.size
         /\ format_attributes' = Overlay(format_attributes, src.format, data_size)
         /\ style_attributes' = Overlay(style_attributes, src.style, data_size)
         /\ visual' = NoVisual
    ELSE ReplaceSString(data_size, data_size, src)

-----------------------------------------------------------------------------
Ends == -1 .. MaxLen

(* The edits that emit string_changed: all but set_text with no text.       *)
EmittingEdit ==
    \/ \E a \in Attrs, s \in 0 .. MaxLen, e \in Ends :
        \/ \E v \in Values : AddAttribute(a, v, s, e)
        \/ RemoveAttribute(a, s, e)
    \/ \E s \in 0 .. MaxLen, e \in Ends : RemoveAttributes(s, e)
    \/ Restyle
    \/ ClearAttributes
    \/ \E src \in Sources : LoadAttributes(src)
    \/ \E n \in 1 .. MaxLen : SetText(n)
    \/ \E s, e, n \in 0 .. MaxLen : ReplaceText(s, e, n)
    \/ \E s, e \in -1 .. MaxLen + 1 : RejectedReplaceText(s, e)
    \/ \E s, e \in 0 .. MaxLen, src \in Sources : ReplaceSString(s, e, src)
    \/ \E src \in Sources : AddSString(src)

Edit == EmittingEdit \/ SetText(0)

(* The bounds cut off edits that outgrow them.                             *)
InBounds ==
    /\ data_size' <= MaxLen
    /\ Bounded(format_attributes)'
    /\ Bounded(style_attributes)'

Next == Shape \/ (Edit /\ InBounds)

Spec == Init /\ [][Next]_vars

-----------------------------------------------------------------------------
(* Properties.                                                             *)

RunMaps == {format_attributes, style_attributes}

(* add_attribute changes one attribute of the characters in the range and  *)
(* nothing else, for whichever ranges the runs are broken, merged and      *)
(* walked over (add_attribute, _ensure_break, _optimize_attributes).       *)
AddSetsExactlyTheRange ==
    \A m \in RunMaps, a \in Attrs, v \in Values, s, e \in 0 .. data_size :
        LET new == WithAttribute(m, a, v, s, e) IN
        s <= e =>
            \A p \in Positions :
                At(new, p) = IF s <= p /\ p < e THEN [At(m, p) EXCEPT ![a] = v] ELSE At(m, p)

(* remove_attribute and remove_attributes take attributes away from the    *)
(* characters in the range and from no other.                              *)
RemoveClearsExactlyTheRange ==
    \A m \in RunMaps, names \in {{a} : a \in Attrs} \cup {Attrs}, s, e \in 0 .. data_size :
        LET new == WithoutAttributes(m, names, s, e) IN
        s <= e =>
            \A p \in Positions : \A a \in Attrs :
                At(new, p)[a] =
                    IF s <= p /\ p < e /\ a \in names THEN Unset ELSE At(m, p)[a]

(* Inserting text moves the attributes with the characters they belong to, *)
(* and the new characters take those of the character they push away       *)
(* (replace_text with an empty range, add_text).                           *)
InsertionMovesAttributes ==
    \A m \in RunMaps, s \in 0 .. data_size, n \in 1 .. MaxLen :
        LET new == Splice(m, s, s, n) IN
        /\ \A p \in Positions : At(new, IF p < s THEN p ELSE p + n) = At(m, p)
        /\ \A i \in s .. s + n - 1 : At(new, i) = At(m, s)

(* Replacing text leaves the characters before it alone, and a character   *)
(* behind it that loses its attributes gets those in force at p_start,     *)
(* never those of an unrelated run.                                        *)
ReplaceBleedsOnlyFromStart ==
    \A m \in RunMaps, s, e \in 0 .. data_size, n \in 0 .. MaxLen :
        s <= e =>
            LET new == Splice(m, s, e, n - (e - s)) IN
            /\ \A p \in 0 .. s - 1 : At(new, p) = At(m, p)
            /\ \A p \in e .. data_size - 1 :
                   At(new, p + n - (e - s)) \in {At(m, p), At(m, s)}

(* A visual that is in use shows the runs as they are: no edit of the text *)
(* or of the format runs leaves an old visual behind, and script runs of   *)
(* either direction read the right runs, once some run covers the first    *)
(* character (_clear_visual calls, _shape_bidi_script_run).                *)
VisualShowsTheRuns ==
    visual # NoVisual /\ HasRun(format_attributes, 0) =>
        visual = [p \in Positions |-> At(format_attributes, p)]

(* substr gives each character the attributes it has in the whole string,  *)
(* when some run covers the start of the range (_shape_substring).         *)
SubstrKeepsAttributes ==
    \A m \in RunMaps, s, e \in 0 .. data_size :
        s <= e /\ HasRun(m, s) =>
            \A p \in 0 .. e - s - 1 : At(Extract(m, s, e), p) = At(m, p + s)

(* What the documentation of replace_text says ("Replaces substring with   *)
(* text."): characters outside of the substring keep their attributes.     *)
ReplaceKeepsTheOthers ==
    \A m \in RunMaps, s, e \in 0 .. data_size :
        s <= e =>
            \A p \in e .. data_size - 1 : At(Splice(m, s, e, s - e), p + s - e) = At(m, p)
=============================================================================
