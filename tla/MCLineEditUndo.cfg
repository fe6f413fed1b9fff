\* The instance of MCLineEdit, against what is documented of undo.
CONSTANTS
    x = x
    Inputs <- MCInputs
    pass = FALSE
    CanDefer = TRUE
    Lengths <- MCLengths
    Flags = {TRUE}
    MaxText = 2
    MaxBefore = 1
    MaxHistory = 3
SPECIFICATION Spec
PROPERTY
    UndoUndoes
