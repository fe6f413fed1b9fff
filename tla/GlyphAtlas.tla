----------------------------- MODULE GlyphAtlas -----------------------------
(***************************************************************************)
(* Where TLDynamicFontFaceAtSize puts the glyphs it rasterises.  A texture *)
(* is filled along its skyline: offsets holds, for every column, the       *)
(* height below which the column is taken.  A bitmap goes, with a margin   *)
(* around it, to the leftmost of the lowest places of the first texture of *)
(* its format that has room; a new texture is made when none has.          *)
(***************************************************************************)
EXTENDS Integers, Sequences

CONSTANTS
    Smallest,  \* 512, the least size of a texture
    Largest,   \* 4096, the greatest
    PerRow     \* 12, the glyphs a row of a texture should hold

Powers == {1, 2, 4, 8, 16, 32, 64, 128, 256, 512, 1024, 2048, 4096}

ASSUME SizesAssumption ==
    /\ Smallest \in Powers /\ Largest \in Powers /\ Smallest <= Largest
    /\ PerRow \in Nat

rect_margin == 1

(* The image of a texture has no format of its own until a bitmap is       *)
(* copied to it.                                                           *)
Blank == "blank"

(* The columns of the widest texture; a narrower one has the first         *)
(* texture_size of them, and the others are never looked at.               *)
Columns == 0 .. Largest - 1

TextureSizes == {p \in Powers : Smallest <= p /\ p <= Largest}
Texture ==
    [format : {Blank, "LA8", "RGBA8"}, flags : Nat, texture_size : TextureSizes,
     offsets : [Columns -> 0 .. Largest]]
ValidGlyph == [valid : {TRUE}, id : Nat, x : Nat, y : Nat, mw : Nat, mh : Nat]
NoGlyph == [valid |-> FALSE]

(* What FreeType renders: mode is gray (or mono), bgra, or one of the      *)
(* modes the code does not support.                                        *)
FormatOf(bitmap) == IF bitmap.mode = "bgra" THEN "RGBA8" ELSE "LA8"
Padded(n) == n + 2 * rect_margin
HasPixels(bitmap) == bitmap.width > 0 /\ bitmap.rows > 0

-----------------------------------------------------------------------------
(* find_texture_pos_for_glyph.                                             *)

Starts(tex, mw) == 0 .. tex.texture_size - mw - 1

Skyline(tex, x, mw) == {0} \cup {tex.offsets[k] : k \in x .. x + mw - 1}

(* Where a bitmap mw wide lies lowest, and of these places the leftmost.   *)
Lies(tex, mw, x, y) == \A z \in Skyline(tex, x, mw) : z <= y
Lowest(tex, mw, x, y) ==
    /\ Lies(tex, mw, x, y)
    /\ \A j \in Starts(tex, mw) :
           \E z \in Skyline(tex, j, mw) : IF j < x THEN z > y ELSE z >= y

LowestPlaces(tex, mw) ==
    {q \in UNION {{x} \X Skyline(tex, x, mw) : x \in Starts(tex, mw)} :
        Lowest(tex, mw, q[1], q[2])}

(* A slip: a texture has room however little is left above the place.      *)
HasRoomAbove(tex, y, mh) == y <= tex.texture_size
HasRoom(tex, y, mh) == y + mh <= tex.texture_size

(* The places with room, in the textures of the format.                    *)
Rooms(textures, format, mw, mh) ==
    UNION {{[index |-> i, x |-> q[1], y |-> q[2]] :
                q \in {r \in LowestPlaces(textures[i], mw) : HasRoom(textures[i], r[2], mh)}} :
           i \in {j \in 1 .. Len(textures) : textures[j].format = format}}

Greater(m, n) == IF m > n THEN m ELSE n
TextureSize(wanted, mw, mh) ==
    LET texsize == Greater(Greater(Greater(wanted, Smallest), mw), mh)
    IN  IF texsize >= Largest THEN Largest
        ELSE CHOOSE p \in Powers : texsize <= p /\ p < 2 * texsize

NewTexture(size) ==
    [format |-> Blank, flags |-> 0, texture_size |-> size, offsets |-> [k \in Columns |-> 0]]

(* The position found, and the textures there are then.                    *)
Positions(textures, format, mw, mh, wanted) ==
    LET rooms == Rooms(textures, format, mw, mh) IN
    IF rooms = {}
    THEN {[index |-> Len(textures) + 1, x |-> 0, y |-> 0,
           textures |-> Append(textures, NewTexture(TextureSize(wanted, mw, mh)))]}
    ELSE {[index |-> p.index, x |-> p.x, y |-> p.y, textures |-> textures] :
            p \in {q \in rooms : \A r \in rooms : q.index <= r.index}}

-----------------------------------------------------------------------------
(* bitmap_to_glyph.                                                        *)

GlyphAt(pos, bitmap) ==
    [valid |-> TRUE, id |-> pos.index, x |-> pos.x, y |-> pos.y,
     mw |-> Padded(bitmap.width), mh |-> Padded(bitmap.rows)]

(* A slip: the lower margin is not counted.                                *)
RaisedToTheBitmap(tex, pos, bitmap) ==
    [tex EXCEPT !.offsets =
        [k \in Columns |->
            IF pos.x <= k /\ k < pos.x + Padded(bitmap.width)
            THEN pos.y + rect_margin + bitmap.rows ELSE tex.offsets[k]]]

(* The height array behind the bitmap.                                     *)
Raised(tex, pos, bitmap) ==
    [tex EXCEPT !.offsets =
        [k \in Columns |->
            IF pos.x <= k /\ k < pos.x + Padded(bitmap.width)
            THEN pos.y + Padded(bitmap.rows) ELSE tex.offsets[k]]]

Blitted(tex, bitmap, txt_flags) ==
    [format |-> FormatOf(bitmap), flags |-> txt_flags,
     texture_size |-> tex.texture_size, offsets |-> tex.offsets]

(* The glyph a bitmap becomes and the textures there are then: a bitmap    *)
(* that is too large leaves no trace, one of an unsupported mode may leave *)
(* a new texture that stays blank.                                         *)
BitmapToGlyph(textures, bitmap, txt_flags, wanted) ==
    LET mw == Padded(bitmap.width)
        mh == Padded(bitmap.rows)
    IN  IF mw > Largest \/ mh > Largest
        THEN {[glyph |-> NoGlyph, textures |-> textures]}
        ELSE {IF bitmap.mode = "other" /\ HasPixels(bitmap)
              THEN [glyph |-> NoGlyph, textures |-> pos.textures]
              ELSE [glyph |-> GlyphAt(pos, bitmap),
                    textures |-> [pos.textures EXCEPT ![pos.index] =
                        Raised(Blitted(pos.textures[pos.index], bitmap, txt_flags), pos, bitmap)]] :
                pos \in Positions(textures, FormatOf(bitmap), mw, mh, wanted)}

-----------------------------------------------------------------------------
(* What the placement is to guarantee: a glyph and the margin around it    *)
(* lie in the square of the texture it names, below the skyline.           *)
LiesIn(textures, g) ==
    /\ g.id \in 1 .. Len(textures)
    /\ g.mw > 0 /\ g.x + g.mw <= textures[g.id].texture_size
    /\ g.y + g.mh <= textures[g.id].texture_size
    /\ \A k \in g.x .. g.x + g.mw - 1 : g.y + g.mh <= textures[g.id].offsets[k]

Apart(g, h) ==
    \/ g.id # h.id
    \/ g.x + g.mw <= h.x \/ h.x + h.mw <= g.x
    \/ g.y + g.mh <= h.y \/ h.y + h.mh <= g.y
=============================================================================
