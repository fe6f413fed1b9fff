\* One format attribute, a replacement, and one style attribute; text of up to
\* three characters.
CONSTANTS
    image = image
    color = color
    v = v
    Unset = Unset
    NoVisual = NoVisual
    Attrs = {image, color}
    FormatAttrs = {image}
    ReplacementAttrs = {image}
    Values = {v}
    Sources <- MCSources
    MaxLen = 3
    MaxKey = 2
    FeedSets <- MCFeedSets
SPECIFICATION ParagraphSpec
INVARIANTS
    TypeOK
    AddSetsExactlyTheRange
    RemoveClearsExactlyTheRange
    InsertionMovesAttributes
    ReplaceBleedsOnlyFromStart
    VisualShowsTheRuns
    SubstrKeepsAttributes
    LinesShowTheString
