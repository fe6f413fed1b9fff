\* One character, texts of up to two, a history of two: enough to undo, redo and
\* record over an undone state. No position before the text.
CONSTANTS
    x = x
    Inputs <- MCInputs
    pass = FALSE
    CanDefer = TRUE
    Lengths <- MCLengths
    Flags = {TRUE}
    MaxText = 2
    MaxBefore = 0
    MaxHistory = 2
SPECIFICATION Spec
INVARIANTS
    TypeOK
    DeletionKeepsTheCursor
PROPERTIES
    CursorStaysInText
    HistoryIsKept
    EntryRespectsMaxLength
    EditsAreAnnounced
    DirtyTextIsAnnounced
