\* The instance of MCDynamicFont, against what is documented of oversampling.
CONSTANTS
    Smallest = 4
    Largest = 8
    PerRow = 4
    font1 = font1
    font2 = font2
    Fonts = {font1, font2}
    ColorFonts = {font2}
    NoFont = NoFont
    NotCached = NotCached
    Hintings = {0, 2}
    Flags = {4, 2048}
    Oversamplings = {1, 2}
    Sizes = {1, 2}
    c1 = c1
    c2 = c2
    Codepoints = {c1, c2}
    Bitmaps <- MCBitmaps
    MaxTextures = 2
    MaxGlyphs = 3
SPECIFICATION Spec
INVARIANT
    OversamplingScales
