\* Up to three paragraphs with two characters in all: a selection can hold a whole
\* paragraph in its middle. Scripts pass positions in and behind the text.
CONSTANTS
    x = x
    NL = NL
    Typed <- MCTyped
    Pasted <- MCPasted
    Composed <- MCComposed
    ScriptSelections <- MCSelections
    ReadonlyValues = {FALSE}
    SelectableValues = {TRUE}
    MaxText = 2
    MaxParagraphs = 3
    MaxStale = 1
SPECIFICATION Spec
INVARIANTS
    TypeOK
PROPERTIES
    SelectionStaysInText
    EditsReplaceTheSelection
    EnterSplitsTheText
    CompositionShowsTheEdit
    MovesKeepTheirDirection
