\* Texts of four characters with every way to break.
CONSTANTS
    f1 = f1
    f2 = f2
    f3 = f3
    latn = latn
    arab = arab
    lang = lang
    Faces = {f1, f2, f3}
    Tags = {latn, arab, lang}
    Main = Main
    Hex = Hex
    Requests <- MCBrokenTexts
SPECIFICATION Spec
\* The call has returned.
CHECK_DEADLOCK FALSE
INVARIANTS LinesFitTheWidth
