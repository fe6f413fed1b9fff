---------------------------- MODULE DynamicFont ----------------------------
(***************************************************************************)
(* TLDynamicFontFace and the TLDynamicFontFaceAtSize objects it makes, one *)
(* per font size, the first time the size is used.  Each of them opens the *)
(* font with the settings of the face and caches the glyphs it rasterises. *)
(* The two glyph caches are one function over pairs of a kind and a        *)
(* codepoint; hinting stands for the hinting mode and force_autohinter,    *)
(* which are handled alike.                                                *)
(***************************************************************************)
EXTENDS GlyphAtlas, FiniteSets

CONSTANTS
    Fonts,         \* paths and memory blocks fonts are loaded from
    ColorFonts,    \* those with colour bitmaps, in fixed sizes
    NoFont,        \* none was loaded, or one that cannot be opened
    Hintings,      \* hinting modes
    Flags,         \* texture flags
    Oversamplings, \* oversampling factors
    Sizes,         \* font sizes
    Codepoints,    \* glyph indices
    NotCached,     \* the caches have no such glyph
    Bitmaps,       \* bitmaps FreeType may render
    MaxTextures,   \* bound on the textures there are
    MaxGlyphs      \* bound on the glyphs that are cached

DF_HINTING_NORMAL == 2
FLAG_VIDEO_SURFACE == 2048

ASSUME SettingsAssumption ==
    /\ NoFont \notin Fonts /\ ColorFonts \subseteq Fonts
    /\ DF_HINTING_NORMAL \in Hintings /\ FLAG_VIDEO_SURFACE \in Flags
    /\ Oversamplings \subseteq Nat \ {0} /\ 1 \in Oversamplings
    /\ Sizes \subseteq Nat \ {0} /\ {MaxTextures, MaxGlyphs} \subseteq Nat
ASSUME FlagsAssumption == Flags \subseteq Nat
ASSUME BitmapsAssumption ==
    Bitmaps \subseteq [width : Nat, rows : Nat, mode : {"gray", "bgra", "other"}]

VARIABLES
    font,          \* path, font_mem and font_mem_size
    hinting,
    txt_flags,
    oversampling,
    sizes          \* the sizes in use, each with its TLDynamicFontFaceAtSize

settings == <<font, hinting, txt_flags, oversampling>>
vars == <<settings, sizes>>

Kinds == {"fill", "outline"}
Keys == Kinds \X Codepoints

CachedGlyphs ==
    [shown : ValidGlyph \cup {NoGlyph}, hinting : Hintings, oversampling : Oversamplings]
Atlas ==
    [font : Fonts, hinting : Hintings, txt_flags : Flags, oversampling : Oversamplings,
     pixel_size : Nat, texture_cache : Seq(Texture),
     glyph_cache : [Keys -> CachedGlyphs \cup {NotCached}]]
ASSUME NotCachedAssumption == NotCached \notin CachedGlyphs
NothingCached == [key \in Keys |-> NotCached]

(* A TLDynamicFontFaceAtSize that opened the font: pixel_size is what      *)
(* FreeType was told, unless the font has sizes of its own.                *)
Loaded(size) ==
    [font |-> font, hinting |-> hinting, txt_flags |-> txt_flags, oversampling |-> oversampling,
     pixel_size |-> size * oversampling,
     texture_cache |-> <<>>, glyph_cache |-> NothingCached]

Init ==
    /\ font = NoFont /\ hinting = DF_HINTING_NORMAL /\ txt_flags = FLAG_VIDEO_SURFACE
    /\ oversampling = 1
    /\ sizes = [size \in {} |-> Loaded(size)]

-----------------------------------------------------------------------------
(* Using the font.                                                         *)

WithSize(size, at) == [s \in DOMAIN sizes \cup {size} |-> IF s = size THEN at ELSE sizes[s]]

(* The object for a size: the one there is, or a new one.  A font that     *)
(* cannot be opened leaves nothing behind that is used again.              *)
AtSize(size) ==
    IF size \in DOMAIN sizes THEN {sizes[size]}
    ELSE IF font = NoFont THEN {} ELSE {Loaded(size)}

(* get_hb_font, get_ascent and the other getters (for the scripts of a     *)
(* font, the size 16), and a glyph that FreeType cannot load or render.    *)
Use(size) ==
    /\ \E at \in AtSize(size) : sizes' = WithSize(size, at)
    /\ UNCHANGED settings

(* The modes a font renders a glyph of this kind in.                       *)
Renders(at, kind, bitmap) ==
    /\ bitmap.mode = "bgra" => at.font \in ColorFonts
    /\ kind = "outline" => bitmap.mode = "gray"

WithCaches(at, textures, glyphs) ==
    [font |-> at.font, hinting |-> at.hinting, txt_flags |-> at.txt_flags,
     oversampling |-> at.oversampling, pixel_size |-> at.pixel_size,
     texture_cache |-> textures, glyph_cache |-> glyphs]

Cached(at, key, new) ==
    WithCaches(at, new.textures,
               [at.glyph_cache EXCEPT ![key] =
                  [shown |-> new.glyph, hinting |-> at.hinting, oversampling |-> at.oversampling]])

(* draw_glyph and draw_glyph_outline of a glyph that is not cached; one    *)
(* that is cached changes nothing.                                         *)
Draw(size, kind, codepoint, bitmap) ==
    /\ \E at \in AtSize(size) :
        /\ at.glyph_cache[<<kind, codepoint>>] = NotCached
        /\ Renders(at, kind, bitmap)
        /\ \E new \in BitmapToGlyph(at.texture_cache, bitmap, at.txt_flags,
                                    size * at.oversampling * PerRow) :
            sizes' = WithSize(size, Cached(at, <<kind, codepoint>>, new))
    /\ UNCHANGED settings

-----------------------------------------------------------------------------
(* Changing the font.                                                      *)

(* Slip: the textures stay when their glyphs go.                           *)
ClearGlyphsOnly(at) == WithCaches(at, at.texture_cache, NothingCached)
ClearCache(at) == WithCaches(at, <<>>, NothingCached)

(* set_hinting and set_force_autohinter.                                   *)
SetHinting(h) ==
    /\ hinting # h
    /\ hinting' = h
    /\ sizes' = [s \in DOMAIN sizes |->
                   IF sizes[s].hinting # h THEN ClearCache([sizes[s] EXCEPT !.hinting = h])
                   ELSE sizes[s]]
    /\ UNCHANGED <<font, txt_flags, oversampling>>

(* A slip: the caches are not cleared.                                     *)
RescaledInPlace(at, o) == [at EXCEPT !.oversampling = o]

(* A font that is open stays at the pixel size it was opened with.         *)
Rescaled(at, o) ==
    IF at.oversampling # o THEN ClearCache([at EXCEPT !.oversampling = o]) ELSE at
SetOversampling(o) ==
    /\ oversampling # o
    /\ oversampling' = o
    /\ sizes' = [s \in DOMAIN sizes |-> Rescaled(sizes[s], o)]
    /\ UNCHANGED <<font, hinting, txt_flags>>

(* The textures there are get the flags, the glyphs in them stay.          *)
Flagged(at, f) ==
    WithCaches([at EXCEPT !.txt_flags = f],
               [i \in DOMAIN at.texture_cache |-> [at.texture_cache[i] EXCEPT !.flags = f]],
               at.glyph_cache)
SetTextureFlags(f) ==
    /\ txt_flags # f
    /\ txt_flags' = f
    /\ sizes' = [s \in DOMAIN sizes |->
                   IF sizes[s].txt_flags # f THEN Flagged(sizes[s], f) ELSE sizes[s]]
    /\ UNCHANGED <<font, hinting, oversampling>>

(* load, set_font_path and set_font_ptr close every size.                  *)
Load(f) ==
    /\ font' = f
    /\ sizes' = [size \in {} |-> Loaded(size)]
    /\ UNCHANGED <<hinting, txt_flags, oversampling>>

-----------------------------------------------------------------------------
CachedKeys(at) == {key \in Keys : at.glyph_cache[key] # NotCached}
InBounds ==
    /\ Cardinality(UNION {{s} \X DOMAIN sizes'[s].texture_cache : s \in DOMAIN sizes'}) <= MaxTextures
    /\ Cardinality(UNION {{s} \X CachedKeys(sizes'[s]) : s \in DOMAIN sizes'}) <= MaxGlyphs

Next ==
    \/ \E size \in Sizes :
        \/ Use(size)
        \/ \E kind \in Kinds, codepoint \in Codepoints, bitmap \in Bitmaps :
            Draw(size, kind, codepoint, bitmap) /\ InBounds
    \/ \E h \in Hintings : SetHinting(h)
    \/ \E o \in Oversamplings : SetOversampling(o)
    \/ \E f \in Flags : SetTextureFlags(f)
    \/ \E f \in Fonts \cup {NoFont} : Load(f)

Spec == Init /\ [][Next]_vars

-----------------------------------------------------------------------------
(* Properties.                                                             *)

(* The glyphs of an object that are drawn from a texture.                  *)
Shown(at) == {key \in CachedKeys(at) : at.glyph_cache[key].shown.valid}
Place(at, key) == at.glyph_cache[key].shown

TypeOK ==
    /\ font \in Fonts \cup {NoFont} /\ hinting \in Hintings /\ txt_flags \in Flags
    /\ oversampling \in Oversamplings
    /\ DOMAIN sizes \subseteq Sizes /\ sizes \in [DOMAIN sizes -> Atlas]

(* A glyph that is drawn has a texture, its bitmap and the margin around   *)
(* it lie inside of it, and the place is taken (texture_cache[gl.id], the  *)
(* copy loop and the height array of bitmap_to_glyph).                     *)
GlyphsLieInTheirTexture ==
    \A s \in DOMAIN sizes : \A key \in Shown(sizes[s]) :
        LiesIn(sizes[s].texture_cache, Place(sizes[s], key))

(* No glyph is copied over another, filled or outlined, in whatever order  *)
(* they are drawn (find_texture_pos_for_glyph, the height array).          *)
GlyphsDoNotOverlap ==
    \A s \in DOMAIN sizes : \A key, other \in Shown(sizes[s]) :
        key # other => Apart(Place(sizes[s], key), Place(sizes[s], other))

(* What is cached was made for the font and the settings in force, however *)
(* they changed since the size was opened (set_hinting, set_oversampling,  *)
(* set_texture_flags, load).                                               *)
CachesAreFresh ==
    \A s \in DOMAIN sizes :
        /\ sizes[s].font = font
        /\ \A key \in CachedKeys(sizes[s]) :
            /\ sizes[s].glyph_cache[key].hinting = hinting
            /\ sizes[s].glyph_cache[key].oversampling = oversampling
        /\ \A i \in 1 .. Len(sizes[s].texture_cache) :
            sizes[s].texture_cache[i].format # Blank => sizes[s].texture_cache[i].flags = txt_flags

(* A texture that holds pixels shows a glyph: none outlives the glyphs it  *)
(* was made for (clear_cache clears all three caches).                     *)
TexturesAreUsed ==
    \A s \in DOMAIN sizes : \A i \in 1 .. Len(sizes[s].texture_cache) :
        sizes[s].texture_cache[i].format # Blank =>
            \E key \in Shown(sizes[s]) : Place(sizes[s], key).id = i

(* What the documentation says of oversampling ("Font oversampling         *)
(* factor."): a scalable font is rasterised at its size times the factor.  *)
OversamplingScales ==
    \A s \in DOMAIN sizes : sizes[s].font \notin ColorFonts => sizes[s].pixel_size = s * oversampling
=============================================================================
