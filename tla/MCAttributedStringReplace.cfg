\* The instance of MCAttributedString, against what is documented of replace_text.
CONSTANTS
    image = image
    color = color
    v = v
    Unset = Unset
    NoVisual = NoVisual
    Attrs = {image, color}
    FormatAttrs = {image}
    ReplacementAttrs = {image}
    Values = {v}
    Sources <- MCSources
    MaxLen = 3
    MaxKey = 2
SPECIFICATION Spec
INVARIANT
    ReplaceKeepsTheOthers
