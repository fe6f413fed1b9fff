\* Texts of three and four characters in up to three faces.
CONSTANTS
    f1 = f1
    f2 = f2
    f3 = f3
    latn = latn
    arab = arab
    lang = lang
    Faces = {f1, f2, f3}
    Tags = {latn, arab, lang}
    Main = Main
    Hex = Hex
    Requests <- MCTexts
SPECIFICATION Spec
\* The call has returned.
CHECK_DEADLOCK FALSE
INVARIANTS
    TypeOK
    LineBounds
    LinesAreGreedy
    CaretComesBack
    HighlightIsTheRange
PROPERTIES
    DrawsFirstCovering
    Terminates
