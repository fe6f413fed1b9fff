------------------------- MODULE DynamicFontProofs -------------------------
(***************************************************************************)
(* The properties of DynamicFont, for any fonts, settings, sizes and       *)
(* bitmaps, and whatever the bounds are.  The lemmas about GlyphAtlas come *)
(* first: a glyph lies in its texture, the skyline never falls, and a new  *)
(* glyph is apart from every glyph that lies below the skyline already.    *)
(* What they say of one bitmap is lifted to the object of one size, then   *)
(* to the face.                                                            *)
(***************************************************************************)
EXTENDS DynamicFont, TLAPS

-----------------------------------------------------------------------------
(* The size of a new texture.                                              *)

(* A power of two that is less than twice another number below a power of  *)
(* two is not above that power.                                            *)
LEMMA PowersBelow ==
    ASSUME NEW p \in Powers, NEW q \in Powers, NEW n \in Nat, n < q, p < 2 * n
    PROVE  p <= q
BY DEF Powers

(* _next_power_of_2 finds one up to the greatest.                          *)
LEMMA NextPower ==
    ASSUME NEW n \in Nat, n > 0, n < 4096
    PROVE  \E p \in Powers : n <= p /\ p < 2 * n
<1>1. CASE n <= 8
  <2>1. n = 1 \/ n = 2 \/ n \in 3 .. 4 \/ n \in 5 .. 8
    BY <1>1
  <2>2. {1, 2, 4, 8} \subseteq Powers
    BY DEF Powers
  <2> QED BY <2>1, <2>2
<1>2. CASE n > 8 /\ n <= 128
  <2>1. n \in 9 .. 16 \/ n \in 17 .. 32 \/ n \in 33 .. 64 \/ n \in 65 .. 128
    BY <1>2
  <2>2. {16, 32, 64, 128} \subseteq Powers
    BY DEF Powers
  <2> QED BY <2>1, <2>2
<1>3. CASE n > 128
  <2>1. \/ n \in 129 .. 256 \/ n \in 257 .. 512 \/ n \in 513 .. 1024
        \/ n \in 1025 .. 2048 \/ n \in 2049 .. 4096
    BY <1>3
  <2>2. {256, 512, 1024, 2048, 4096} \subseteq Powers
    BY DEF Powers
  <2> QED BY <2>1, <2>2
<1> QED BY <1>1, <1>2, <1>3

LEMMA PowersNat == Powers \subseteq 1 .. 4096
BY DEF Powers

(* The new texture is large enough for a bitmap that is not too large.     *)
LEMMA TextureSizeFits ==
    ASSUME NEW wanted \in Nat, NEW mw \in Nat, NEW mh \in Nat, mw <= Largest, mh <= Largest
    PROVE  /\ TextureSize(wanted, mw, mh) \in TextureSizes
           /\ mw <= TextureSize(wanted, mw, mh) /\ mh <= TextureSize(wanted, mw, mh)
<1> DEFINE texsize == Greater(Greater(Greater(wanted, Smallest), mw), mh)
<1>1. /\ Smallest \in Powers /\ Largest \in Powers /\ Smallest <= Largest
      /\ Smallest \in 1 .. 4096 /\ Largest \in 1 .. 4096
  BY SizesAssumption, PowersNat
<1>2. texsize \in Nat /\ texsize >= Smallest /\ mw <= texsize /\ mh <= texsize
  BY <1>1 DEF Greater
<1>3. TextureSize(wanted, mw, mh) =
        IF texsize >= Largest THEN Largest
        ELSE CHOOSE p \in Powers : texsize <= p /\ p < 2 * texsize
  BY DEF TextureSize
<1> HIDE DEF texsize
<1>4. CASE texsize >= Largest
  BY <1>1, <1>3, <1>4 DEF TextureSizes
<1>5. CASE texsize < Largest
  <2> DEFINE p == CHOOSE q \in Powers : texsize <= q /\ q < 2 * texsize
  <2>1. p \in Powers /\ texsize <= p /\ p < 2 * texsize
    <3>1. \E q \in Powers : texsize <= q /\ q < 2 * texsize
      BY SMTT(30), <1>1, <1>2, <1>5, NextPower
    <3> QED BY <3>1
  <2>2. TextureSize(wanted, mw, mh) = p
    BY <1>1, <1>2, <1>3, <1>5
  <2> HIDE DEF p
  <2>3. p <= Largest
    BY <1>1, <1>2, <1>5, <2>1, PowersBelow
  <2>4. p \in Int
    BY <2>1, PowersNat
  <2> QED BY <1>1, <1>2, <2>1, <2>2, <2>3, <2>4 DEF TextureSizes
<1> QED BY <1>1, <1>2, <1>4, <1>5

LEMMA LargestIsPositive == Largest \in Nat /\ Largest > 0
BY SizesAssumption DEF Powers

LEMMA TextureSizesAreBounded ==
    ASSUME NEW size \in TextureSizes
    PROVE  size \in Nat /\ 0 < size /\ size <= Largest
<1>1. size \in Powers /\ size <= Largest
  BY DEF TextureSizes
<1>2. size \in 1 .. 4096
  BY <1>1, PowersNat
<1> QED BY <1>1, <1>2

LEMMA NewTextureType ==
    ASSUME NEW size \in TextureSizes
    PROVE  NewTexture(size) \in Texture
<1>1. 0 \in 0 .. Largest
  BY LargestIsPositive
<1> QED BY <1>1 DEF NewTexture, Texture

-----------------------------------------------------------------------------
(* The place that is found.                                                *)

(* A rectangle lies in a texture, above its skyline.                       *)
Fits(tex, x, y, mw, mh) ==
    /\ x + mw <= tex.texture_size /\ y + mh <= tex.texture_size
    /\ \A k \in x .. x + mw - 1 : tex.offsets[k] <= y

(* The lowest place of a texture is one above its skyline.                 *)
LEMMA LowestPlacesFit ==
    ASSUME NEW tex \in Texture, NEW mw \in Nat, NEW mh \in Nat,
           NEW q \in LowestPlaces(tex, mw), HasRoom(tex, q[2], mh)
    PROVE  /\ q[1] \in Nat /\ q[2] \in Nat
           /\ Fits(tex, q[1], q[2], mw, mh)
<1>1. PICK x \in Starts(tex, mw) : q \in {x} \X Skyline(tex, x, mw)
  BY DEF LowestPlaces
<1>2. q[1] = x /\ q[2] \in Skyline(tex, x, mw)
  BY <1>1
<1>3. Lies(tex, mw, q[1], q[2])
  BY DEF LowestPlaces, Lowest
<1>4. /\ tex.texture_size \in Nat /\ tex.texture_size <= Largest /\ Largest \in Nat
      /\ tex.offsets \in [Columns -> 0 .. Largest]
  <2>1. tex.texture_size \in TextureSizes /\ tex.offsets \in [Columns -> 0 .. Largest]
    BY DEF Texture
  <2> QED BY <2>1, TextureSizesAreBounded, LargestIsPositive
<1>5. x \in Nat /\ x + mw <= tex.texture_size - 1
  BY <1>1, <1>4 DEF Starts
<1>6. \A k \in x .. x + mw - 1 : k \in Columns
  BY <1>4, <1>5 DEF Columns
<1>7. q[2] \in Nat
  BY <1>2, <1>4, <1>6 DEF Skyline
<1>8. \A k \in x .. x + mw - 1 : tex.offsets[k] <= q[2]
  BY <1>2, <1>3 DEF Lies, Skyline
<1>9. q[2] + mh <= tex.texture_size
  BY DEF HasRoom
<1> QED BY <1>2, <1>4, <1>5, <1>7, <1>8, <1>9 DEF Fits

LEMMA RoomsFit ==
    ASSUME NEW textures \in Seq(Texture), NEW format, NEW mw \in Nat, NEW mh \in Nat,
           NEW p \in Rooms(textures, format, mw, mh)
    PROVE  /\ p.index \in 1 .. Len(textures) /\ p.x \in Nat /\ p.y \in Nat
           /\ Fits(textures[p.index], p.x, p.y, mw, mh)
<1>1. PICK i \in 1 .. Len(textures) :
        \E q \in LowestPlaces(textures[i], mw) :
            HasRoom(textures[i], q[2], mh) /\ p = [index |-> i, x |-> q[1], y |-> q[2]]
  BY DEF Rooms
<1>2. PICK q \in LowestPlaces(textures[i], mw) :
        HasRoom(textures[i], q[2], mh) /\ p = [index |-> i, x |-> q[1], y |-> q[2]]
  BY <1>1
<1>3. textures[i] \in Texture
  OBVIOUS
<1>4. q[1] \in Nat /\ q[2] \in Nat /\ Fits(textures[i], q[1], q[2], mw, mh)
  BY <1>2, <1>3, LowestPlacesFit
<1> QED BY <1>2, <1>4

(* Textures only grow in number, those there were stay, the others are     *)
(* blank.                                                                  *)
Extends(after, before) ==
    /\ Len(before) <= Len(after)
    /\ \A i \in 1 .. Len(before) : after[i] = before[i]
    /\ \A i \in 1 .. Len(after) : i > Len(before) => after[i].format = Blank

LEMMA PositionsFit ==
    ASSUME NEW textures \in Seq(Texture), NEW format, NEW mw \in Nat, NEW mh \in Nat,
           NEW wanted \in Nat, mw <= Largest, mh <= Largest,
           NEW pos \in Positions(textures, format, mw, mh, wanted)
    PROVE  /\ pos.textures \in Seq(Texture) /\ Extends(pos.textures, textures)
           /\ pos.index \in 1 .. Len(pos.textures) /\ pos.x \in Nat /\ pos.y \in Nat
           /\ Fits(pos.textures[pos.index], pos.x, pos.y, mw, mh)
<1> DEFINE rooms == Rooms(textures, format, mw, mh)
<1>1. CASE rooms = {}
  <2> DEFINE size == TextureSize(wanted, mw, mh)
             tex == NewTexture(size)
             grown == Append(textures, tex)
  <2>1. size \in TextureSizes /\ mw <= size /\ mh <= size
    BY TextureSizeFits
  <2>2. tex \in Texture
    BY <2>1, NewTextureType
  <2>3. pos = [index |-> Len(textures) + 1, x |-> 0, y |-> 0, textures |-> grown]
    BY <1>1 DEF Positions
  <2>4. Fits(tex, 0, 0, mw, mh)
    <3>1. tex.texture_size = size /\ tex.offsets = [k \in Columns |-> 0]
      BY DEF NewTexture
    <3>2. size \in Nat /\ size <= Largest /\ Largest \in Nat
      BY <2>1, TextureSizesAreBounded, LargestIsPositive
    <3>3. \A k \in 0 .. 0 + mw - 1 : tex.offsets[k] = 0
      BY <2>1, <3>1, <3>2 DEF Columns
    <3> HIDE DEF tex
    <3> QED BY <2>1, <3>1, <3>2, <3>3 DEF Fits
  <2> HIDE DEF tex, size
  <2>5. /\ grown \in Seq(Texture) /\ Len(grown) = Len(textures) + 1 /\ Len(textures) \in Nat
        /\ grown[Len(textures) + 1] = tex
    BY <2>2
  <2>6. Extends(grown, textures)
    <3>1. tex.format = Blank
      BY DEF tex, NewTexture
    <3> QED BY <2>2, <3>1 DEF Extends
  <2> QED BY <2>3, <2>4, <2>5, <2>6
<1>2. CASE rooms # {}
  <2>1. PICK p \in rooms : pos = [index |-> p.index, x |-> p.x, y |-> p.y, textures |-> textures]
    BY <1>2 DEF Positions
  <2>2. /\ p.index \in 1 .. Len(textures) /\ p.x \in Nat /\ p.y \in Nat
        /\ Fits(textures[p.index], p.x, p.y, mw, mh)
    BY RoomsFit
  <2>3. Extends(textures, textures)
    BY DEF Extends
  <2> QED BY <2>1, <2>2, <2>3
<1> QED BY <1>1, <1>2

-----------------------------------------------------------------------------
(* A bitmap that becomes a glyph.                                          *)

Rendered == [width : Nat, rows : Nat, mode : {"gray", "bgra", "other"}]

PaddedBitmap(bitmap) ==
    /\ Padded(bitmap.width) \in Nat /\ Padded(bitmap.width) > 0 /\ Padded(bitmap.rows) \in Nat

LEMMA BitmapsArePadded == ASSUME NEW bitmap \in Rendered PROVE PaddedBitmap(bitmap)
BY DEF Rendered, PaddedBitmap, Padded, rect_margin

(* What becomes of the texture the bitmap is copied to.                    *)
Written(tex, pos, bitmap, flagsWanted) == Raised(Blitted(tex, bitmap, flagsWanted), pos, bitmap)

LEMMA WrittenFields ==
    ASSUME NEW tex \in Texture, NEW bitmap \in Rendered, NEW flagsWanted \in Nat, NEW pos
    PROVE  Written(tex, pos, bitmap, flagsWanted) =
             [format |-> FormatOf(bitmap), flags |-> flagsWanted, texture_size |-> tex.texture_size,
              offsets |-> [k \in Columns |->
                 IF pos.x <= k /\ k < pos.x + Padded(bitmap.width)
                 THEN pos.y + Padded(bitmap.rows) ELSE tex.offsets[k]]]
BY DEF Written, Raised, Blitted

(* It stays a texture, and its skyline rises to the bottom of the bitmap.  *)
LEMMA SkylineRises ==
    ASSUME NEW tex \in Texture, NEW bitmap \in Rendered, NEW flagsWanted \in Nat,
           NEW pos, pos.x \in Nat, pos.y \in Nat,
           Fits(tex, pos.x, pos.y, Padded(bitmap.width), Padded(bitmap.rows))
    PROVE  LET new == Written(tex, pos, bitmap, flagsWanted)
           IN  /\ new \in Texture /\ new.texture_size = tex.texture_size
               /\ \A k \in Columns : tex.offsets[k] <= new.offsets[k]
               /\ \A k \in pos.x .. pos.x + Padded(bitmap.width) - 1 :
                    new.offsets[k] = pos.y + Padded(bitmap.rows)
<1> DEFINE mw == Padded(bitmap.width)
           mh == Padded(bitmap.rows)
           new == Written(tex, pos, bitmap, flagsWanted)
           raised == [k \in Columns |->
                        IF pos.x <= k /\ k < pos.x + mw THEN pos.y + mh ELSE tex.offsets[k]]
<1>1. mw \in Nat /\ mw > 0 /\ mh \in Nat
  BY BitmapsArePadded DEF PaddedBitmap
<1>2. /\ tex.texture_size \in TextureSizes /\ tex.offsets \in [Columns -> 0 .. Largest]
      /\ tex.texture_size \in Nat /\ tex.texture_size <= Largest /\ Largest \in Nat
  <2>1. tex.texture_size \in TextureSizes /\ tex.offsets \in [Columns -> 0 .. Largest]
    BY DEF Texture
  <2> QED BY <2>1, TextureSizesAreBounded, LargestIsPositive
<1>3. FormatOf(bitmap) \in {Blank, "LA8", "RGBA8"}
  BY DEF FormatOf
<1>4. new = [format |-> FormatOf(bitmap), flags |-> flagsWanted,
             texture_size |-> tex.texture_size, offsets |-> raised]
  BY WrittenFields
<1>5. /\ pos.x + mw <= tex.texture_size /\ pos.y + mh <= tex.texture_size
      /\ \A k \in pos.x .. pos.x + mw - 1 : tex.offsets[k] <= pos.y
  BY DEF Fits
<1> HIDE DEF mw, mh, new
<1>6. raised \in [Columns -> 0 .. Largest]
  <2>1. pos.y + mh \in 0 .. Largest
    BY <1>1, <1>2, <1>5
  <2>2. \A k \in Columns : tex.offsets[k] \in 0 .. Largest
    BY <1>2
  <2>3. \A k \in Columns :
          (IF pos.x <= k /\ k < pos.x + mw THEN pos.y + mh ELSE tex.offsets[k]) \in 0 .. Largest
    BY <2>1, <2>2, Zenon
  <2> QED BY <2>3, Zenon
<1>7. ASSUME NEW k \in Columns
      PROVE  tex.offsets[k] <= raised[k]
  <2>1. k \in Nat /\ tex.offsets[k] \in Nat
    BY <1>2 DEF Columns
  <2>2. CASE pos.x <= k /\ k < pos.x + mw
    <3>1. tex.offsets[k] <= pos.y /\ raised[k] = pos.y + mh
      BY <1>1, <1>5, <2>1, <2>2
    <3> QED BY <1>1, <2>1, <3>1
  <2>3. CASE ~(pos.x <= k /\ k < pos.x + mw)
    BY <2>1, <2>3
  <2> QED BY <2>2, <2>3
<1>8. \A k \in pos.x .. pos.x + mw - 1 : raised[k] = pos.y + mh
  BY SMTT(30), <1>1, <1>2, <1>5 DEF Columns
<1> HIDE DEF raised
<1>9. new \in Texture
  BY <1>2, <1>3, <1>4, <1>6 DEF Texture
<1> QED BY <1>4, <1>7, <1>8, <1>9 DEF mw, mh, new

(* The three ways a bitmap ends.                                           *)
Unplaced(new, textures) == new.glyph = NoGlyph /\ new.textures = textures
Unsupported(new, pos) == new.glyph = NoGlyph /\ new.textures = pos.textures
Copied(new, pos, bitmap, flagsWanted) ==
    /\ new.glyph = GlyphAt(pos, bitmap)
    /\ new.textures = [pos.textures EXCEPT ![pos.index] =
                          Written(pos.textures[pos.index], pos, bitmap, flagsWanted)]

(* The place is one of PositionsFit.                                       *)
WellPlaced(pos, textures, bitmap) ==
    /\ pos.textures \in Seq(Texture) /\ Extends(pos.textures, textures)
    /\ pos.index \in 1 .. Len(pos.textures) /\ pos.x \in Nat /\ pos.y \in Nat
    /\ Fits(pos.textures[pos.index], pos.x, pos.y, Padded(bitmap.width), Padded(bitmap.rows))

LEMMA BitmapEnds ==
    ASSUME NEW textures \in Seq(Texture), NEW bitmap \in Rendered, NEW flagsWanted \in Nat,
           NEW wanted \in Nat, NEW new \in BitmapToGlyph(textures, bitmap, flagsWanted, wanted)
    PROVE  \/ Unplaced(new, textures)
           \/ \E pos : /\ WellPlaced(pos, textures, bitmap)
                       /\ Unsupported(new, pos) \/ Copied(new, pos, bitmap, flagsWanted)
<1> DEFINE mw == Padded(bitmap.width)
           mh == Padded(bitmap.rows)
<1>1. mw \in Nat /\ mh \in Nat
  BY BitmapsArePadded DEF PaddedBitmap
<1>2. CASE mw > Largest \/ mh > Largest
  BY <1>2 DEF BitmapToGlyph, Unplaced
<1>3. CASE ~(mw > Largest \/ mh > Largest)
  <2>1. PICK pos \in Positions(textures, FormatOf(bitmap), mw, mh, wanted) :
          new = IF bitmap.mode = "other" /\ HasPixels(bitmap)
                THEN [glyph |-> NoGlyph, textures |-> pos.textures]
                ELSE [glyph |-> GlyphAt(pos, bitmap),
                      textures |-> [pos.textures EXCEPT ![pos.index] =
                         Raised(Blitted(pos.textures[pos.index], bitmap, flagsWanted), pos, bitmap)]]
    BY <1>3 DEF BitmapToGlyph
  <2>2. Unsupported(new, pos) \/ Copied(new, pos, bitmap, flagsWanted)
    BY <2>1 DEF Unsupported, Copied, Written
  <2>3. mw <= Largest /\ mh <= Largest
    BY <1>1, <1>3, LargestIsPositive
  <2> HIDE DEF mw, mh
  <2>4. /\ pos.textures \in Seq(Texture) /\ Extends(pos.textures, textures)
        /\ pos.index \in 1 .. Len(pos.textures) /\ pos.x \in Nat /\ pos.y \in Nat
        /\ Fits(pos.textures[pos.index], pos.x, pos.y, mw, mh)
    BY <1>1, <2>3, PositionsFit
  <2>5. WellPlaced(pos, textures, bitmap)
    BY <2>4 DEF WellPlaced, mw, mh
  <2> QED BY <2>2, <2>5
<1> QED BY <1>2, <1>3

(* What may happen to the textures there are: no skyline falls.            *)
Rises(after, before) ==
    /\ Len(before) <= Len(after)
    /\ \A i \in 1 .. Len(before) :
        /\ after[i].texture_size = before[i].texture_size
        /\ \A k \in Columns : before[i].offsets[k] <= after[i].offsets[k]

LEMMA OffsetsAreNatural ==
    ASSUME NEW textures \in Seq(Texture), NEW i \in 1 .. Len(textures), NEW k \in Columns
    PROVE  textures[i].offsets[k] \in Nat
<1>1. textures[i] \in Texture
  OBVIOUS
<1>2. textures[i].offsets[k] \in 0 .. Largest
  BY <1>1 DEF Texture
<1> QED BY <1>2, LargestIsPositive

LEMMA ExtensionRises ==
    ASSUME NEW before \in Seq(Texture), NEW after, Extends(after, before)
    PROVE  Rises(after, before)
<1>1. \A i \in 1 .. Len(before), k \in Columns : before[i].offsets[k] \in Nat
  BY OffsetsAreNatural
<1>2. \A i \in 1 .. Len(before), k \in Columns : before[i].offsets[k] <= before[i].offsets[k]
  BY <1>1
<1> QED BY <1>2 DEF Extends, Rises

(* A copied bitmap: the textures after it, and its own column.             *)
LEMMA CopyRises ==
    ASSUME NEW textures \in Seq(Texture), NEW bitmap \in Rendered, NEW flagsWanted \in Nat,
           NEW pos, WellPlaced(pos, textures, bitmap), NEW new, Copied(new, pos, bitmap, flagsWanted)
    PROVE  /\ new.textures \in Seq(Texture) /\ Rises(new.textures, textures)
           /\ LiesIn(new.textures, new.glyph) /\ new.glyph \in ValidGlyph
<1> DEFINE mw == Padded(bitmap.width)
           mh == Padded(bitmap.rows)
           before == pos.textures
           tex == pos.textures[pos.index]
           raised == Written(tex, pos, bitmap, flagsWanted)
<1>1. /\ before \in Seq(Texture) /\ Extends(before, textures) /\ pos.index \in 1 .. Len(before)
      /\ pos.x \in Nat /\ pos.y \in Nat /\ Fits(tex, pos.x, pos.y, mw, mh)
  BY DEF WellPlaced
<1>2. mw \in Nat /\ mw > 0 /\ mh \in Nat
  BY BitmapsArePadded DEF PaddedBitmap
<1>3. /\ new.glyph = [valid |-> TRUE, id |-> pos.index, x |-> pos.x, y |-> pos.y,
                      mw |-> mw, mh |-> mh]
      /\ new.textures = [before EXCEPT ![pos.index] = raised]
  BY DEF Copied, GlyphAt
<1>4. tex \in Texture
  BY <1>1
<1>5. /\ raised \in Texture /\ raised.texture_size = tex.texture_size
      /\ \A k \in Columns : tex.offsets[k] <= raised.offsets[k]
      /\ \A k \in pos.x .. pos.x + mw - 1 : raised.offsets[k] = pos.y + mh
  <2> HIDE DEF tex
  <2> QED BY <1>1, <1>4, SkylineRises
<1> HIDE DEF mw, mh, raised
<1>6. /\ new.textures \in Seq(Texture) /\ Len(new.textures) = Len(before)
      /\ new.textures[pos.index] = raised
      /\ \A i \in 1 .. Len(before) : i # pos.index => new.textures[i] = before[i]
  BY <1>1, <1>3, <1>5
<1>7. Rises(new.textures, textures)
  <2>1. Len(textures) <= Len(new.textures)
    BY <1>1, <1>6 DEF Extends
  <2>2. ASSUME NEW i \in 1 .. Len(textures)
        PROVE  /\ new.textures[i].texture_size = textures[i].texture_size
               /\ \A k \in Columns : textures[i].offsets[k] <= new.textures[i].offsets[k]
    <3>1. before[i] = textures[i] /\ i \in 1 .. Len(before)
      BY <1>1 DEF Extends
    <3>2. CASE i = pos.index
      BY <1>5, <1>6, <3>1, <3>2
    <3>3. CASE i # pos.index
      <4>1. new.textures[i] = textures[i]
        BY <1>6, <3>1, <3>3
      <4>2. \A k \in Columns : textures[i].offsets[k] \in Nat
        BY OffsetsAreNatural
      <4> QED BY <4>1, <4>2
    <3> QED BY <3>2, <3>3
  <2> QED BY <2>1, <2>2 DEF Rises
<1>8. new.glyph \in ValidGlyph
  BY <1>1, <1>2, <1>3 DEF ValidGlyph
<1>9. LiesIn(new.textures, new.glyph)
  <2>1. /\ new.glyph.id = pos.index /\ new.glyph.x = pos.x /\ new.glyph.y = pos.y
        /\ new.glyph.mw = mw /\ new.glyph.mh = mh
    BY <1>3
  <2>2. pos.x + mw <= tex.texture_size
    BY <1>1 DEF Fits, mw
  <2>3. \A k \in pos.x .. pos.x + mw - 1 : pos.y + mh <= raised.offsets[k]
    BY <1>1, <1>2, <1>5
  <2>4. pos.y + mh <= tex.texture_size
    BY <1>1 DEF Fits, mh
  <2> QED BY <1>1, <1>2, <1>5, <1>6, <2>1, <2>2, <2>3, <2>4 DEF LiesIn
<1> QED BY <1>6, <1>7, <1>8, <1>9

-----------------------------------------------------------------------------
(* The results the font rests on.                                          *)

(* bitmap_to_glyph leaves textures and a glyph of their types.             *)
LEMMA BitmapToGlyphType ==
    ASSUME NEW textures \in Seq(Texture), NEW bitmap \in Rendered, NEW flagsWanted \in Nat,
           NEW wanted \in Nat, NEW new \in BitmapToGlyph(textures, bitmap, flagsWanted, wanted)
    PROVE  new.textures \in Seq(Texture) /\ new.glyph \in ValidGlyph \cup {NoGlyph}
<1>1. CASE Unplaced(new, textures)
  BY <1>1 DEF Unplaced
<1>2. CASE \E pos : /\ WellPlaced(pos, textures, bitmap)
                    /\ Unsupported(new, pos) \/ Copied(new, pos, bitmap, flagsWanted)
  <2>1. PICK pos : /\ WellPlaced(pos, textures, bitmap)
                   /\ Unsupported(new, pos) \/ Copied(new, pos, bitmap, flagsWanted)
    BY <1>2
  <2>2. CASE Unsupported(new, pos)
    BY <2>1, <2>2 DEF Unsupported, WellPlaced
  <2>3. CASE Copied(new, pos, bitmap, flagsWanted)
    BY <2>1, <2>3, CopyRises
  <2> QED BY <2>1, <2>2, <2>3
<1> QED BY <1>1, <1>2, BitmapEnds

LEMMA BitmapToGlyphRises ==
    ASSUME NEW textures \in Seq(Texture), NEW bitmap \in Rendered, NEW flagsWanted \in Nat,
           NEW wanted \in Nat, NEW new \in BitmapToGlyph(textures, bitmap, flagsWanted, wanted)
    PROVE  Rises(new.textures, textures)
<1>1. CASE Unplaced(new, textures)
  <2>1. Extends(new.textures, textures)
    BY <1>1 DEF Unplaced, Extends
  <2> QED BY <2>1, ExtensionRises
<1>2. CASE \E pos : /\ WellPlaced(pos, textures, bitmap)
                    /\ Unsupported(new, pos) \/ Copied(new, pos, bitmap, flagsWanted)
  <2>1. PICK pos : /\ WellPlaced(pos, textures, bitmap)
                   /\ Unsupported(new, pos) \/ Copied(new, pos, bitmap, flagsWanted)
    BY <1>2
  <2>2. CASE Unsupported(new, pos)
    <3>1. Extends(new.textures, textures)
      BY <2>1, <2>2 DEF Unsupported, WellPlaced
    <3> QED BY <3>1, ExtensionRises
  <2>3. CASE Copied(new, pos, bitmap, flagsWanted)
    BY <2>1, <2>3, CopyRises
  <2> QED BY <2>1, <2>2, <2>3
<1> QED BY <1>1, <1>2, BitmapEnds

(* A glyph that lay in its texture still does when skylines rise.          *)
LEMMA GlyphsStay ==
    ASSUME NEW textures \in Seq(Texture), NEW after \in Seq(Texture), Rises(after, textures),
           NEW g \in ValidGlyph, LiesIn(textures, g)
    PROVE  LiesIn(after, g)
<1>1. /\ g.id \in 1 .. Len(textures) /\ g.mw > 0 /\ g.x + g.mw <= textures[g.id].texture_size
      /\ g.y + g.mh <= textures[g.id].texture_size
      /\ \A k \in g.x .. g.x + g.mw - 1 : g.y + g.mh <= textures[g.id].offsets[k]
  BY DEF LiesIn
<1>2. g.x \in Nat /\ g.y \in Nat /\ g.mw \in Nat /\ g.mh \in Nat
  BY DEF ValidGlyph
<1>3. g.id \in 1 .. Len(after) /\ after[g.id].texture_size = textures[g.id].texture_size
  BY <1>1 DEF Rises
<1>4. ASSUME NEW k \in g.x .. g.x + g.mw - 1
      PROVE  g.y + g.mh <= after[g.id].offsets[k]
  <2>1. textures[g.id].texture_size \in Nat /\ textures[g.id].texture_size <= Largest
    <3>1. textures[g.id] \in Texture
      BY <1>1
    <3>2. textures[g.id].texture_size \in TextureSizes
      BY <3>1 DEF Texture
    <3> QED BY <3>2, TextureSizesAreBounded
  <2>2. k \in Columns
    <3>1. k \in Int /\ g.x <= k /\ k < g.x + g.mw
      BY <1>2
    <3>2. g.x + g.mw <= textures[g.id].texture_size
      BY <1>1
    <3> HIDE <1>1
    <3> QED BY SMTT(30), <1>2, <2>1, <3>1, <3>2, LargestIsPositive DEF Columns
  <2>3. textures[g.id].offsets[k] <= after[g.id].offsets[k]
    BY <1>1, <2>2 DEF Rises
  <2>4. g.y + g.mh <= textures[g.id].offsets[k]
    BY <1>1
  <2>5. textures[g.id].offsets[k] \in Nat /\ after[g.id].offsets[k] \in Nat
    BY <1>1, <1>3, <2>2, OffsetsAreNatural
  <2> DEFINE low == textures[g.id].offsets[k]
             high == after[g.id].offsets[k]
  <2>6. low \in Nat /\ high \in Nat /\ low <= high /\ g.y + g.mh <= low
    BY <2>3, <2>4, <2>5
  <2> HIDE DEF low, high
  <2>7. g.y + g.mh <= high
    BY <1>2, <2>6
  <2> QED BY <2>7 DEF high
<1> QED BY <1>1, <1>3, <1>4 DEF LiesIn

(* The new glyph lies in its texture.                                      *)
LEMMA NewGlyphLies ==
    ASSUME NEW textures \in Seq(Texture), NEW bitmap \in Rendered, NEW flagsWanted \in Nat,
           NEW wanted \in Nat, NEW new \in BitmapToGlyph(textures, bitmap, flagsWanted, wanted),
           new.glyph.valid
    PROVE  LiesIn(new.textures, new.glyph)
<1>1. new.glyph # NoGlyph
  BY DEF NoGlyph
<1>2. PICK pos : WellPlaced(pos, textures, bitmap) /\ Copied(new, pos, bitmap, flagsWanted)
  BY <1>1, BitmapEnds DEF Unplaced, Unsupported
<1> QED BY <1>2, CopyRises

(* It is apart from every glyph below the skyline: one that shares a       *)
(* column with it ends where it begins, or above.                          *)
LEMMA NewGlyphIsApart ==
    ASSUME NEW textures \in Seq(Texture), NEW bitmap \in Rendered, NEW flagsWanted \in Nat,
           NEW wanted \in Nat, NEW new \in BitmapToGlyph(textures, bitmap, flagsWanted, wanted),
           new.glyph.valid, NEW g \in ValidGlyph, LiesIn(textures, g)
    PROVE  Apart(new.glyph, g) /\ Apart(g, new.glyph)
<1>1. new.glyph # NoGlyph
  BY DEF NoGlyph
<1>2. PICK pos : WellPlaced(pos, textures, bitmap) /\ Copied(new, pos, bitmap, flagsWanted)
  BY <1>1, BitmapEnds DEF Unplaced, Unsupported
<1> DEFINE mw == Padded(bitmap.width)
           mh == Padded(bitmap.rows)
<1>3. mw \in Nat /\ mw > 0 /\ mh \in Nat
  BY BitmapsArePadded DEF PaddedBitmap
<1>4. new.glyph = [valid |-> TRUE, id |-> pos.index, x |-> pos.x, y |-> pos.y,
                   mw |-> mw, mh |-> mh]
  BY <1>2 DEF Copied, GlyphAt
<1>5. /\ pos.x \in Nat /\ pos.y \in Nat /\ Extends(pos.textures, textures)
      /\ Fits(pos.textures[pos.index], pos.x, pos.y, mw, mh)
  BY <1>2 DEF WellPlaced
<1> HIDE DEF mw, mh
<1>6. g.x \in Nat /\ g.y \in Nat /\ g.mw \in Nat /\ g.mh \in Nat
  BY DEF ValidGlyph
<1>10. g.mw > 0
  BY DEF LiesIn
<1>7. CASE g.id # pos.index
  BY <1>4, <1>7 DEF Apart
<1>8. CASE g.id = pos.index /\ ~(g.x + g.mw <= pos.x) /\ ~(pos.x + mw <= g.x)
  <2>1. PICK k \in Nat : k \in g.x .. g.x + g.mw - 1 /\ k \in pos.x .. pos.x + mw - 1
    <3>1. CASE g.x <= pos.x
      <4>1. pos.x \in g.x .. g.x + g.mw - 1 /\ pos.x \in pos.x .. pos.x + mw - 1
        BY SMTT(30), <1>3, <1>5, <1>6, <1>8, <3>1, <1>10
      <4> QED BY <1>5, <4>1
    <3>2. CASE g.x > pos.x
      <4>1. g.x \in g.x .. g.x + g.mw - 1 /\ g.x \in pos.x .. pos.x + mw - 1
        BY SMTT(30), <1>3, <1>5, <1>6, <1>8, <3>2, <1>10
      <4> QED BY <1>6, <4>1
    <3> QED BY SMTT(30), <1>5, <1>6, <3>1, <3>2
  <2>2. g.id \in 1 .. Len(textures) /\ g.y + g.mh <= textures[g.id].offsets[k]
    BY <2>1 DEF LiesIn
  <2>3. pos.textures[pos.index] = textures[g.id]
    BY <1>5, <1>8, <2>2 DEF Extends
  <2>4. textures[g.id].offsets[k] <= pos.y
    BY <1>5, <2>1, <2>3 DEF Fits
  <2>5. textures[g.id].offsets[k] \in Nat
    <3>1. pos.x + mw <= textures[g.id].texture_size
      BY <1>5, <2>3 DEF Fits
    <3>2. textures[g.id] \in Texture
      BY <2>2
    <3>3. textures[g.id].texture_size \in TextureSizes
      BY <3>2 DEF Texture
    <3>4. k \in Columns
      BY <1>3, <1>5, <2>1, <3>1, <3>3, TextureSizesAreBounded, LargestIsPositive DEF Columns
    <3> QED BY <2>2, <3>4, OffsetsAreNatural
  <2>6. g.y + g.mh <= pos.y
    BY SMTT(30), <1>5, <1>6, <2>2, <2>4, <2>5
  <2> QED BY <1>4, <2>6 DEF Apart
<1>9. CASE g.x + g.mw <= pos.x \/ pos.x + mw <= g.x
  BY <1>4, <1>9 DEF Apart
<1> QED BY <1>7, <1>8, <1>9

(* A texture with pixels is one there was, or the one the new glyph lies   *)
(* in, with the flags of the moment.                                       *)
LEMMA TexturesWithPixels ==
    ASSUME NEW textures \in Seq(Texture), NEW bitmap \in Rendered, NEW flagsWanted \in Nat,
           NEW wanted \in Nat, NEW new \in BitmapToGlyph(textures, bitmap, flagsWanted, wanted),
           NEW i \in 1 .. Len(new.textures), new.textures[i].format # Blank
    PROVE  \/ i \in 1 .. Len(textures) /\ new.textures[i] = textures[i]
           \/ new.glyph.valid /\ new.glyph.id = i /\ new.textures[i].flags = flagsWanted
<1>1. CASE Unplaced(new, textures)
  BY <1>1 DEF Unplaced
<1>2. CASE \E pos : /\ WellPlaced(pos, textures, bitmap)
                    /\ Unsupported(new, pos) \/ Copied(new, pos, bitmap, flagsWanted)
  <2>1. PICK pos : /\ WellPlaced(pos, textures, bitmap)
                   /\ Unsupported(new, pos) \/ Copied(new, pos, bitmap, flagsWanted)
    BY <1>2
  <2> DEFINE before == pos.textures
  <2>2. before \in Seq(Texture) /\ Extends(before, textures) /\ pos.index \in 1 .. Len(before)
    BY <2>1 DEF WellPlaced
  <2>3. ASSUME i \in 1 .. Len(before), new.textures[i] = before[i]
        PROVE  i \in 1 .. Len(textures) /\ new.textures[i] = textures[i]
    BY <2>2, <2>3 DEF Extends
  <2>4. CASE Unsupported(new, pos)
    <3>1. new.textures = before
      BY <2>4 DEF Unsupported
    <3> QED BY <2>3, <3>1
  <2>5. CASE Copied(new, pos, bitmap, flagsWanted)
    <3> DEFINE raised == Written(before[pos.index], pos, bitmap, flagsWanted)
    <3>1. new.glyph.valid /\ new.glyph.id = pos.index
      BY <2>5 DEF Copied, GlyphAt
    <3>2. raised.flags = flagsWanted
      <4>1. before[pos.index] \in Texture
        BY <2>2
      <4> DEFINE tex == before[pos.index]
      <4> HIDE DEF tex
      <4>2. Written(tex, pos, bitmap, flagsWanted).flags = flagsWanted
        BY <4>1, WrittenFields DEF tex
      <4> QED BY <4>2 DEF tex
    <3>3. new.textures = [before EXCEPT ![pos.index] = raised]
      BY <2>5 DEF Copied
    <3> HIDE DEF raised
    <3>4. i \in 1 .. Len(before)
      BY <2>2, <3>3
    <3>5. CASE i = pos.index
      BY <2>2, <3>1, <3>2, <3>3, <3>5
    <3>6. CASE i # pos.index
      <4>1. new.textures[i] = before[i]
        BY <2>2, <3>3, <3>4, <3>6
      <4> QED BY <2>3, <3>4, <4>1
    <3> QED BY <3>5, <3>6
  <2> QED BY <2>1, <2>4, <2>5
<1> QED BY <1>1, <1>2, BitmapEnds

-----------------------------------------------------------------------------
(* The inductive invariant.                                                *)

GlyphsLie(at) == \A key \in Shown(at) : LiesIn(at.texture_cache, Place(at, key))

GlyphsApart(at) ==
    \A key, other \in Shown(at) : key # other => Apart(Place(at, key), Place(at, other))

TextureUsed(at, i) == \E key \in Shown(at) : Place(at, key).id = i
AllUsed(at) ==
    \A i \in 1 .. Len(at.texture_cache) :
        at.texture_cache[i].format # Blank => TextureUsed(at, i)

WellMade(at) == at \in Atlas /\ GlyphsLie(at) /\ GlyphsApart(at) /\ AllUsed(at)

(* An object has the settings of the face, and so has what it cached.      *)
HasSettings(at, f, h, t, o) ==
    at.font = f /\ at.hinting = h /\ at.txt_flags = t /\ at.oversampling = o
GlyphsFresh(at) ==
    \A key \in CachedKeys(at) :
        /\ at.glyph_cache[key].hinting = at.hinting
        /\ at.glyph_cache[key].oversampling = at.oversampling
TexturesFresh(at) ==
    \A i \in 1 .. Len(at.texture_cache) :
        at.texture_cache[i].format # Blank => at.texture_cache[i].flags = at.txt_flags

UpToDate(at, f, h, t, o) == HasSettings(at, f, h, t, o) /\ GlyphsFresh(at) /\ TexturesFresh(at)

SettingsOK ==
    /\ font \in Fonts \cup {NoFont} /\ hinting \in Hintings /\ txt_flags \in Flags
    /\ oversampling \in Oversamplings

SizesOK ==
    /\ DOMAIN sizes \subseteq Sizes /\ sizes = [s \in DOMAIN sizes |-> sizes[s]]
    /\ \A s \in DOMAIN sizes :
        WellMade(sizes[s]) /\ UpToDate(sizes[s], font, hinting, txt_flags, oversampling)

IInv == SettingsOK /\ SizesOK

-----------------------------------------------------------------------------
(* One object.                                                             *)

LEMMA AtlasFields ==
    ASSUME NEW at \in Atlas
    PROVE  /\ at.font \in Fonts /\ at.hinting \in Hintings /\ at.txt_flags \in Flags
           /\ at.oversampling \in Oversamplings /\ at.pixel_size \in Nat
           /\ at.texture_cache \in Seq(Texture)
           /\ at.glyph_cache \in [Keys -> CachedGlyphs \cup {NotCached}]
BY DEF Atlas

LEMMA ShownIsGlyph ==
    ASSUME NEW at \in Atlas, NEW key \in Shown(at)
    PROVE  Place(at, key) \in ValidGlyph /\ key \in Keys /\ at.glyph_cache[key] # NotCached
<1>1. key \in Keys /\ at.glyph_cache[key] # NotCached /\ at.glyph_cache[key].shown.valid
  BY DEF Shown, CachedKeys
<1>2. at.glyph_cache[key] \in CachedGlyphs
  BY <1>1, AtlasFields
<1>3. at.glyph_cache[key].shown \in ValidGlyph \cup {NoGlyph}
  BY <1>2 DEF CachedGlyphs
<1>4. at.glyph_cache[key].shown # NoGlyph
  BY <1>1 DEF NoGlyph
<1> QED BY <1>1, <1>3, <1>4 DEF Place

(* An object without cached glyphs and textures.                           *)
LEMMA EmptyIsRight ==
    ASSUME NEW at \in Atlas, at.texture_cache = <<>>, at.glyph_cache = NothingCached
    PROVE  WellMade(at) /\ GlyphsFresh(at) /\ TexturesFresh(at)
<1>1. CachedKeys(at) = {}
  BY DEF CachedKeys, NothingCached
<1>2. Shown(at) = {}
  BY <1>1 DEF Shown
<1>3. Len(at.texture_cache) = 0
  OBVIOUS
<1> QED BY <1>1, <1>2, <1>3
    DEF WellMade, GlyphsLie, GlyphsApart, AllUsed, GlyphsFresh, TexturesFresh

LEMMA NothingCachedType == NothingCached \in [Keys -> CachedGlyphs \cup {NotCached}]
BY DEF NothingCached

LEMMA LoadedIsRight ==
    ASSUME NEW size \in Sizes, SettingsOK, font # NoFont
    PROVE  WellMade(Loaded(size)) /\ UpToDate(Loaded(size), font, hinting, txt_flags, oversampling)
<1>1. size * oversampling \in Nat
  BY SettingsAssumption DEF SettingsOK
<1>2. <<>> \in Seq(Texture)
  OBVIOUS
<1> DEFINE scaled == size * oversampling
<1> HIDE DEF scaled
<1>3. Loaded(size) = [font |-> font, hinting |-> hinting, txt_flags |-> txt_flags,
                      oversampling |-> oversampling, pixel_size |-> scaled,
                      texture_cache |-> <<>>, glyph_cache |-> NothingCached]
  BY DEF Loaded, scaled
<1>4. Loaded(size) \in Atlas
  BY <1>1, <1>2, <1>3, NothingCachedType DEF Atlas, SettingsOK, scaled
<1> QED BY <1>3, <1>4, EmptyIsRight DEF UpToDate, HasSettings

LEMMA ClearedIsRight ==
    ASSUME NEW at \in Atlas
    PROVE  /\ WellMade(ClearCache(at))
           /\ UpToDate(ClearCache(at), at.font, at.hinting, at.txt_flags, at.oversampling)
<1>1. <<>> \in Seq(Texture)
  OBVIOUS
<1>2. ClearCache(at) = [font |-> at.font, hinting |-> at.hinting, txt_flags |-> at.txt_flags,
                        oversampling |-> at.oversampling, pixel_size |-> at.pixel_size,
                        texture_cache |-> <<>>, glyph_cache |-> NothingCached]
  BY DEF ClearCache, WithCaches
<1>3. ClearCache(at) \in Atlas
  BY <1>1, <1>2, AtlasFields, NothingCachedType DEF Atlas
<1> QED BY <1>2, <1>3, EmptyIsRight DEF UpToDate, HasSettings

-----------------------------------------------------------------------------
(* A glyph that is drawn.                                                  *)

Drawn(at, key, new) ==
    /\ key \in Keys /\ at.glyph_cache[key] = NotCached
    /\ \E bitmap \in Bitmaps, wanted \in Nat :
        new \in BitmapToGlyph(at.texture_cache, bitmap, at.txt_flags, wanted)

CachedGlyph(at, new) ==
    [shown |-> new.glyph, hinting |-> at.hinting, oversampling |-> at.oversampling]

LEMMA DrawnTextures ==
    ASSUME NEW at \in Atlas, NEW key, NEW new, Drawn(at, key, new)
    PROVE  /\ new.textures \in Seq(Texture) /\ Rises(new.textures, at.texture_cache)
           /\ new.glyph \in ValidGlyph \cup {NoGlyph}
<1>1. PICK bitmap \in Bitmaps, wanted \in Nat :
        new \in BitmapToGlyph(at.texture_cache, bitmap, at.txt_flags, wanted)
  BY DEF Drawn
<1>2. bitmap \in Rendered /\ at.txt_flags \in Nat /\ at.texture_cache \in Seq(Texture)
  BY AtlasFields, BitmapsAssumption, FlagsAssumption DEF Rendered
<1> QED BY <1>1, <1>2, BitmapToGlyphType, BitmapToGlyphRises

LEMMA CachedFields ==
    ASSUME NEW at \in Atlas, NEW key, NEW new, Drawn(at, key, new)
    PROVE  /\ Cached(at, key, new) \in Atlas
           /\ Cached(at, key, new).font = at.font
           /\ Cached(at, key, new).hinting = at.hinting
           /\ Cached(at, key, new).txt_flags = at.txt_flags
           /\ Cached(at, key, new).oversampling = at.oversampling
           /\ Cached(at, key, new).texture_cache = new.textures
<1> DEFINE glyph == CachedGlyph(at, new)
           glyphs == [at.glyph_cache EXCEPT ![key] = glyph]
<1>1. glyph \in CachedGlyphs
  BY AtlasFields, DrawnTextures DEF CachedGlyph, CachedGlyphs
<1>2. key \in Keys
  BY DEF Drawn
<1>3. Cached(at, key, new) =
        [font |-> at.font, hinting |-> at.hinting, txt_flags |-> at.txt_flags,
         oversampling |-> at.oversampling, pixel_size |-> at.pixel_size,
         texture_cache |-> new.textures, glyph_cache |-> glyphs]
  BY DEF Cached, WithCaches, CachedGlyph
<1> HIDE DEF glyph
<1>4. glyphs \in [Keys -> CachedGlyphs \cup {NotCached}]
  BY <1>1, <1>2, AtlasFields
<1> HIDE DEF glyphs
<1>5. Cached(at, key, new) \in Atlas
  BY <1>3, <1>4, AtlasFields, DrawnTextures DEF Atlas
<1> QED BY <1>3, <1>5 DEF glyphs, glyph

LEMMA CachedGlyphCache ==
    ASSUME NEW at, NEW key, NEW new
    PROVE  Cached(at, key, new).glyph_cache = [at.glyph_cache EXCEPT ![key] = CachedGlyph(at, new)]
BY DEF Cached, WithCaches, CachedGlyph

(* The other glyphs are shown as they were, the new one as it was made.    *)
LEMMA CachedShown ==
    ASSUME NEW at \in Atlas, NEW key, NEW new, Drawn(at, key, new)
    PROVE  LET after == Cached(at, key, new)
           IN  /\ key \notin Shown(at)
               /\ \A other \in Shown(at) :
                    other \in Shown(after) /\ Place(after, other) = Place(at, other)
               /\ new.glyph.valid => key \in Shown(after)
               /\ \A other \in Shown(after) : other # key => other \in Shown(at)
               /\ key \in Shown(after) => new.glyph.valid
               /\ Place(after, key) = new.glyph
<1> DEFINE after == Cached(at, key, new)
           glyph == CachedGlyph(at, new)
<1>1. /\ at.glyph_cache \in [Keys -> CachedGlyphs \cup {NotCached}] /\ key \in Keys
      /\ at.glyph_cache[key] = NotCached
  BY AtlasFields DEF Drawn
<1>2. after.glyph_cache = [at.glyph_cache EXCEPT ![key] = glyph]
  BY CachedGlyphCache
<1>3. glyph # NotCached
  <2>1. glyph \in CachedGlyphs
    BY AtlasFields, DrawnTextures DEF CachedGlyph, CachedGlyphs
  <2> QED BY <2>1, NotCachedAssumption
<1>4. glyph.shown = new.glyph
  BY DEF CachedGlyph
<1> HIDE DEF after, glyph
<1>5. after.glyph_cache[key] = glyph
  BY <1>1, <1>2
<1>6. \A other \in Keys : other # key => after.glyph_cache[other] = at.glyph_cache[other]
  BY <1>1, <1>2
<1>7. key \notin Shown(at)
  BY <1>1 DEF Shown, CachedKeys
<1>8. \A other \in Shown(at) :
        other \in Shown(after) /\ Place(after, other) = Place(at, other)
  BY <1>6, <1>7 DEF Shown, CachedKeys, Place
<1>9. new.glyph.valid => key \in Shown(after)
  BY <1>1, <1>3, <1>4, <1>5 DEF Shown, CachedKeys
<1>10. \A other \in Shown(after) : other # key => other \in Shown(at)
  BY <1>6 DEF Shown, CachedKeys
<1>11. key \in Shown(after) => new.glyph.valid
  BY <1>4, <1>5 DEF Shown
<1>12. Place(after, key) = new.glyph
  BY <1>4, <1>5 DEF Place
<1> QED BY <1>7, <1>8, <1>9, <1>10, <1>11, <1>12 DEF after

LEMMA CachedGlyphsLie ==
    ASSUME NEW at \in Atlas, NEW key, NEW new, Drawn(at, key, new), GlyphsLie(at)
    PROVE  GlyphsLie(Cached(at, key, new))
<1> DEFINE after == Cached(at, key, new)
<1>1. after \in Atlas /\ after.texture_cache = new.textures
  BY CachedFields
<1>2. /\ \A other \in Shown(after) : other # key =>
            other \in Shown(at) /\ Place(after, other) = Place(at, other)
      /\ key \in Shown(after) => new.glyph.valid
      /\ Place(after, key) = new.glyph
  BY CachedShown
<1> HIDE DEF after
<1> SUFFICES ASSUME NEW other \in Shown(after)
             PROVE  LiesIn(new.textures, Place(after, other))
  BY <1>1 DEF GlyphsLie, after
<1>3. CASE other = key
  <2>1. PICK bitmap \in Bitmaps, wanted \in Nat :
          new \in BitmapToGlyph(at.texture_cache, bitmap, at.txt_flags, wanted)
    BY DEF Drawn
  <2>2. bitmap \in Rendered /\ at.txt_flags \in Nat /\ at.texture_cache \in Seq(Texture)
    BY AtlasFields, BitmapsAssumption, FlagsAssumption DEF Rendered
  <2>3. new.glyph.valid
    BY <1>2, <1>3
  <2>4. LiesIn(new.textures, new.glyph)
    BY <2>1, <2>2, <2>3, NewGlyphLies
  <2> QED BY <1>2, <1>3, <2>4
<1>4. CASE other # key
  <2>1. other \in Shown(at) /\ Place(after, other) = Place(at, other)
    BY <1>2, <1>4
  <2>2. Place(at, other) \in ValidGlyph /\ LiesIn(at.texture_cache, Place(at, other))
    BY <2>1, ShownIsGlyph DEF GlyphsLie
  <2>3. /\ at.texture_cache \in Seq(Texture) /\ new.textures \in Seq(Texture)
        /\ Rises(new.textures, at.texture_cache)
    BY AtlasFields, DrawnTextures
  <2> QED BY <2>1, <2>2, <2>3, GlyphsStay
<1> QED BY <1>3, <1>4

LEMMA CachedGlyphsApart ==
    ASSUME NEW at \in Atlas, NEW key, NEW new, Drawn(at, key, new), GlyphsLie(at), GlyphsApart(at)
    PROVE  GlyphsApart(Cached(at, key, new))
<1> DEFINE after == Cached(at, key, new)
<1>1. /\ \A other \in Shown(after) : other # key =>
            other \in Shown(at) /\ Place(after, other) = Place(at, other)
      /\ key \in Shown(after) => new.glyph.valid
      /\ Place(after, key) = new.glyph
  BY CachedShown
<1>2. ASSUME NEW other \in Shown(at), new.glyph.valid
      PROVE  Apart(new.glyph, Place(at, other)) /\ Apart(Place(at, other), new.glyph)
  <2>1. PICK bitmap \in Bitmaps, wanted \in Nat :
          new \in BitmapToGlyph(at.texture_cache, bitmap, at.txt_flags, wanted)
    BY DEF Drawn
  <2>2. bitmap \in Rendered /\ at.txt_flags \in Nat /\ at.texture_cache \in Seq(Texture)
    BY AtlasFields, BitmapsAssumption, FlagsAssumption DEF Rendered
  <2>3. Place(at, other) \in ValidGlyph /\ LiesIn(at.texture_cache, Place(at, other))
    BY ShownIsGlyph DEF GlyphsLie
  <2> QED BY <1>2, <2>1, <2>2, <2>3, NewGlyphIsApart
<1> HIDE DEF after
<1> SUFFICES ASSUME NEW one \in Shown(after), NEW other \in Shown(after), one # other
             PROVE  Apart(Place(after, one), Place(after, other))
  BY DEF GlyphsApart, after
<1>3. CASE one = key
  BY <1>1, <1>2, <1>3
<1>4. CASE other = key
  BY <1>1, <1>2, <1>4
<1>5. CASE one # key /\ other # key
  <2>1. /\ one \in Shown(at) /\ Place(after, one) = Place(at, one)
        /\ other \in Shown(at) /\ Place(after, other) = Place(at, other)
    BY <1>1, <1>5
  <2> QED BY <2>1 DEF GlyphsApart
<1> QED BY <1>3, <1>4, <1>5

(* A texture that has pixels afterwards.                                   *)
LEMMA DrawnTexturesWithPixels ==
    ASSUME NEW at \in Atlas, NEW key, NEW new, Drawn(at, key, new),
           NEW i \in 1 .. Len(new.textures), new.textures[i].format # Blank
    PROVE  \/ i \in 1 .. Len(at.texture_cache) /\ new.textures[i] = at.texture_cache[i]
           \/ new.glyph.valid /\ new.glyph.id = i /\ new.textures[i].flags = at.txt_flags
<1>1. PICK bitmap \in Bitmaps, wanted \in Nat :
        new \in BitmapToGlyph(at.texture_cache, bitmap, at.txt_flags, wanted)
  BY DEF Drawn
<1>2. bitmap \in Rendered /\ at.txt_flags \in Nat /\ at.texture_cache \in Seq(Texture)
  BY AtlasFields, BitmapsAssumption, FlagsAssumption DEF Rendered
<1> QED BY <1>1, <1>2, TexturesWithPixels

LEMMA CachedAllUsed ==
    ASSUME NEW at \in Atlas, NEW key, NEW new, Drawn(at, key, new), AllUsed(at)
    PROVE  AllUsed(Cached(at, key, new))
<1> DEFINE after == Cached(at, key, new)
<1>1. after.texture_cache = new.textures
  BY CachedFields
<1>2. /\ \A other \in Shown(at) :
            other \in Shown(after) /\ Place(after, other) = Place(at, other)
      /\ new.glyph.valid => key \in Shown(after)
      /\ Place(after, key) = new.glyph
  BY CachedShown
<1> HIDE DEF after
<1> SUFFICES ASSUME NEW i \in 1 .. Len(new.textures), new.textures[i].format # Blank
             PROVE  TextureUsed(after, i)
  BY <1>1 DEF AllUsed, after
<1>3. CASE i \in 1 .. Len(at.texture_cache) /\ new.textures[i] = at.texture_cache[i]
  <2>1. TextureUsed(at, i)
    BY <1>3 DEF AllUsed
  <2> QED BY <1>2, <2>1 DEF TextureUsed
<1>4. CASE new.glyph.valid /\ new.glyph.id = i
  BY <1>2, <1>4 DEF TextureUsed
<1> QED BY <1>3, <1>4, DrawnTexturesWithPixels

LEMMA CachedFresh ==
    ASSUME NEW at \in Atlas, NEW key, NEW new, Drawn(at, key, new),
           GlyphsFresh(at), TexturesFresh(at)
    PROVE  GlyphsFresh(Cached(at, key, new)) /\ TexturesFresh(Cached(at, key, new))
<1> DEFINE after == Cached(at, key, new)
           glyph == CachedGlyph(at, new)
<1>1. /\ after.texture_cache = new.textures /\ after.hinting = at.hinting
      /\ after.txt_flags = at.txt_flags /\ after.oversampling = at.oversampling
  BY CachedFields
<1>2. after.glyph_cache = [at.glyph_cache EXCEPT ![key] = glyph]
  BY CachedGlyphCache
<1>3. at.glyph_cache \in [Keys -> CachedGlyphs \cup {NotCached}] /\ key \in Keys
  BY AtlasFields DEF Drawn
<1>4. glyph.hinting = at.hinting /\ glyph.oversampling = at.oversampling
  BY DEF CachedGlyph
<1> HIDE DEF after, glyph
<1>5. GlyphsFresh(after)
  <2> SUFFICES ASSUME NEW other \in CachedKeys(after)
               PROVE  /\ after.glyph_cache[other].hinting = at.hinting
                      /\ after.glyph_cache[other].oversampling = at.oversampling
    BY <1>1 DEF GlyphsFresh
  <2>1. CASE other = key
    BY <1>2, <1>3, <1>4, <2>1
  <2>2. CASE other # key
    <3>1. after.glyph_cache[other] = at.glyph_cache[other] /\ other \in CachedKeys(at)
      BY <1>2, <1>3, <2>2 DEF CachedKeys
    <3> QED BY <3>1 DEF GlyphsFresh
  <2> QED BY <2>1, <2>2
<1>6. TexturesFresh(after)
  <2> SUFFICES ASSUME NEW i \in 1 .. Len(new.textures), new.textures[i].format # Blank
               PROVE  new.textures[i].flags = at.txt_flags
    BY <1>1 DEF TexturesFresh
  <2>1. CASE i \in 1 .. Len(at.texture_cache) /\ new.textures[i] = at.texture_cache[i]
    BY <2>1 DEF TexturesFresh
  <2>2. CASE new.textures[i].flags = at.txt_flags
    BY <2>2
  <2> QED BY <2>1, <2>2, DrawnTexturesWithPixels
<1> QED BY <1>5, <1>6 DEF after

-----------------------------------------------------------------------------
(* New flags for the textures there are.                                   *)

LEMMA FlaggedTexture ==
    ASSUME NEW tex \in Texture, NEW f \in Flags
    PROVE  /\ [tex EXCEPT !.flags = f] \in Texture
           /\ [tex EXCEPT !.flags = f].format = tex.format
           /\ [tex EXCEPT !.flags = f].flags = f
           /\ [tex EXCEPT !.flags = f].texture_size = tex.texture_size
           /\ [tex EXCEPT !.flags = f].offsets = tex.offsets
<1>1. f \in Nat
  BY FlagsAssumption
<1> QED BY <1>1 DEF Texture

FlaggedTextures(at, f) ==
    [i \in DOMAIN at.texture_cache |-> [at.texture_cache[i] EXCEPT !.flags = f]]

LEMMA FlaggedTexturesAgree ==
    ASSUME NEW at \in Atlas, NEW f \in Flags
    PROVE  /\ FlaggedTextures(at, f) \in Seq(Texture)
           /\ Len(FlaggedTextures(at, f)) = Len(at.texture_cache)
           /\ \A i \in 1 .. Len(at.texture_cache) :
                /\ FlaggedTextures(at, f)[i].format = at.texture_cache[i].format
                /\ FlaggedTextures(at, f)[i].flags = f
           /\ Rises(FlaggedTextures(at, f), at.texture_cache)
<1> DEFINE before == at.texture_cache
           after == FlaggedTextures(at, f)
<1>1. before \in Seq(Texture)
  BY AtlasFields
<1>2. \A i \in 1 .. Len(before) : before[i] \in Texture
  BY <1>1
<1> HIDE DEF before
<1>3. DOMAIN before = 1 .. Len(before) /\ Len(before) \in Nat
  BY <1>1
<1>4. after = [i \in 1 .. Len(before) |-> [before[i] EXCEPT !.flags = f]]
  BY <1>3 DEF before, FlaggedTextures
<1> HIDE DEF after
<1>5. ASSUME NEW i \in 1 .. Len(before)
      PROVE  /\ after[i] \in Texture /\ after[i].format = before[i].format /\ after[i].flags = f
             /\ after[i].texture_size = before[i].texture_size /\ after[i].offsets = before[i].offsets
  <2>1. after[i] = [before[i] EXCEPT !.flags = f]
    BY <1>4
  <2> QED BY <1>2, <2>1, FlaggedTexture
<1>6. after \in [1 .. Len(before) -> Texture]
  BY <1>4, <1>5
<1>7. after \in Seq(Texture) /\ Len(after) = Len(before)
  BY <1>3, <1>6
<1>8. ASSUME NEW i \in 1 .. Len(before), NEW k \in Columns
      PROVE  before[i].offsets[k] <= after[i].offsets[k]
  <2>1. before[i].offsets[k] \in Nat /\ after[i].offsets = before[i].offsets
    BY <1>1, <1>5, OffsetsAreNatural
  <2> QED BY <2>1
<1>9. Rises(after, before)
  BY <1>3, <1>5, <1>7, <1>8 DEF Rises
<1> QED BY <1>5, <1>7, <1>9 DEF before, after

LEMMA FlaggedFields ==
    ASSUME NEW at \in Atlas, NEW f \in Flags
    PROVE  Flagged(at, f) =
             [font |-> at.font, hinting |-> at.hinting, txt_flags |-> f,
              oversampling |-> at.oversampling, pixel_size |-> at.pixel_size,
              texture_cache |-> FlaggedTextures(at, f), glyph_cache |-> at.glyph_cache]
<1> DEFINE flagged == [at EXCEPT !.txt_flags = f]
<1>1. /\ flagged.font = at.font /\ flagged.hinting = at.hinting /\ flagged.txt_flags = f
      /\ flagged.oversampling = at.oversampling /\ flagged.pixel_size = at.pixel_size
  BY DEF Atlas
<1>2. Flagged(at, f) = WithCaches(flagged, FlaggedTextures(at, f), at.glyph_cache)
  BY DEF Flagged, FlaggedTextures
<1> HIDE DEF flagged
<1> QED BY <1>1, <1>2 DEF WithCaches

LEMMA FlaggedIsRight ==
    ASSUME NEW at, WellMade(at), GlyphsFresh(at), NEW f \in Flags
    PROVE  /\ WellMade(Flagged(at, f))
           /\ UpToDate(Flagged(at, f), at.font, at.hinting, f, at.oversampling)
<1> DEFINE after == Flagged(at, f)
           before == at.texture_cache
           textures == FlaggedTextures(at, f)
<1>1. at \in Atlas /\ GlyphsLie(at) /\ GlyphsApart(at) /\ AllUsed(at)
  BY DEF WellMade
<1>2. /\ before \in Seq(Texture) /\ textures \in Seq(Texture) /\ Len(textures) = Len(before)
      /\ Rises(textures, before)
      /\ \A i \in 1 .. Len(before) :
            textures[i].format = before[i].format /\ textures[i].flags = f
  BY <1>1, AtlasFields, FlaggedTexturesAgree
<1>3. after = [font |-> at.font, hinting |-> at.hinting, txt_flags |-> f,
               oversampling |-> at.oversampling, pixel_size |-> at.pixel_size,
               texture_cache |-> textures, glyph_cache |-> at.glyph_cache]
  BY <1>1, FlaggedFields
<1> HIDE DEF after, before, textures
<1>4. after \in Atlas
  BY <1>1, <1>2, <1>3, AtlasFields DEF Atlas
<1>5. Shown(after) = Shown(at) /\ \A key : Place(after, key) = Place(at, key)
  BY <1>3 DEF Shown, CachedKeys, Place
<1>6. GlyphsLie(after)
  <2> SUFFICES ASSUME NEW key \in Shown(at)
               PROVE  LiesIn(textures, Place(at, key))
    BY <1>3, <1>5 DEF GlyphsLie
  <2>1. Place(at, key) \in ValidGlyph /\ LiesIn(before, Place(at, key))
    BY <1>1, ShownIsGlyph DEF GlyphsLie, before
  <2> QED BY <1>2, <2>1, GlyphsStay
<1>7. GlyphsApart(after)
  BY <1>1, <1>5 DEF GlyphsApart
<1>8. AllUsed(after)
  <2> SUFFICES ASSUME NEW i \in 1 .. Len(textures), textures[i].format # Blank
               PROVE  TextureUsed(after, i)
    BY <1>3 DEF AllUsed
  <2>1. TextureUsed(at, i)
    BY <1>1, <1>2 DEF AllUsed, before
  <2> QED BY <1>5, <2>1 DEF TextureUsed
<1>9. GlyphsFresh(after)
  BY <1>3 DEF GlyphsFresh, CachedKeys
<1>10. TexturesFresh(after)
  BY <1>2, <1>3 DEF TexturesFresh
<1> QED BY <1>3, <1>4, <1>6, <1>7, <1>8, <1>9, <1>10 DEF WellMade, UpToDate, HasSettings, after

-----------------------------------------------------------------------------
(* The face.                                                               *)

LEMMA AtSizeIsRight ==
    ASSUME IInv, NEW size \in Sizes, NEW at \in AtSize(size)
    PROVE  WellMade(at) /\ UpToDate(at, font, hinting, txt_flags, oversampling)
<1>1. CASE size \in DOMAIN sizes
  BY <1>1 DEF AtSize, IInv, SizesOK
<1>2. CASE size \notin DOMAIN sizes
  BY <1>2, LoadedIsRight DEF AtSize, IInv
<1> QED BY <1>1, <1>2

LEMMA WithSizeIsRight ==
    ASSUME IInv, NEW size \in Sizes, NEW at, UNCHANGED settings, sizes' = WithSize(size, at),
           WellMade(at), UpToDate(at, font, hinting, txt_flags, oversampling)
    PROVE  IInv'
<1>1. SettingsOK'
  BY DEF IInv, SettingsOK, settings
<1>2. DOMAIN sizes' \subseteq Sizes /\ sizes' = [s \in DOMAIN sizes' |-> sizes'[s]]
  BY DEF IInv, SizesOK, WithSize
<1>3. ASSUME NEW s \in DOMAIN sizes'
      PROVE  WellMade(sizes'[s]) /\ UpToDate(sizes'[s], font, hinting, txt_flags, oversampling)
  BY DEF IInv, SizesOK, WithSize
<1>4. SizesOK'
  BY <1>2, <1>3 DEF SizesOK, settings, WellMade, GlyphsLie, GlyphsApart, AllUsed, UpToDate
<1> QED BY <1>1, <1>4 DEF IInv

LEMMA UseStep ==
    ASSUME IInv, NEW size \in Sizes, Use(size)
    PROVE  IInv'
<1>1. PICK at \in AtSize(size) : sizes' = WithSize(size, at)
  BY DEF Use
<1>2. UNCHANGED settings
  BY DEF Use
<1> QED BY <1>1, <1>2, AtSizeIsRight, WithSizeIsRight

LEMMA DrawStep ==
    ASSUME IInv, NEW size \in Sizes, NEW kind \in Kinds, NEW codepoint \in Codepoints,
           NEW bitmap \in Bitmaps, Draw(size, kind, codepoint, bitmap)
    PROVE  IInv'
<1> DEFINE key == <<kind, codepoint>>
<1>1. PICK at \in AtSize(size) :
        /\ at.glyph_cache[key] = NotCached
        /\ \E new \in BitmapToGlyph(at.texture_cache, bitmap, at.txt_flags,
                                    size * at.oversampling * PerRow) :
            sizes' = WithSize(size, Cached(at, key, new))
  BY DEF Draw
<1> DEFINE wanted == size * at.oversampling * PerRow
<1>2. PICK new \in BitmapToGlyph(at.texture_cache, bitmap, at.txt_flags, wanted) :
        sizes' = WithSize(size, Cached(at, key, new))
  BY <1>1
<1>3. WellMade(at) /\ UpToDate(at, font, hinting, txt_flags, oversampling)
  BY AtSizeIsRight
<1>4. at \in Atlas
  BY <1>3 DEF WellMade
<1>5. wanted \in Nat
  <2>1. size \in Nat /\ at.oversampling \in Nat /\ PerRow \in Nat
    BY <1>4, AtlasFields, SettingsAssumption, SizesAssumption
  <2>2. size * at.oversampling \in Nat
    BY <2>1
  <2> QED BY <2>1, <2>2
<1> HIDE DEF wanted
<1>6. Drawn(at, key, new)
  BY <1>1, <1>5 DEF Drawn, Keys
<1> HIDE DEF key
<1>7. WellMade(Cached(at, key, new))
  BY <1>3, <1>6, CachedFields, CachedGlyphsLie, CachedGlyphsApart, CachedAllUsed DEF WellMade
<1>8. UpToDate(Cached(at, key, new), font, hinting, txt_flags, oversampling)
  BY <1>3, <1>4, <1>6, CachedFields, CachedFresh DEF UpToDate, HasSettings
<1>9. UNCHANGED settings
  BY DEF Draw
<1> QED BY <1>2, <1>7, <1>8, <1>9, WithSizeIsRight

(* The setters change every open size, and leave those alone that have the *)
(* setting already.                                                        *)
LEMMA SetHintingStep ==
    ASSUME IInv, NEW h \in Hintings, SetHinting(h)
    PROVE  IInv'
<1>1. SettingsOK'
  BY DEF IInv, SettingsOK, SetHinting
<1>2. DOMAIN sizes' = DOMAIN sizes /\ sizes' = [s \in DOMAIN sizes' |-> sizes'[s]]
  BY DEF SetHinting
<1>3. ASSUME NEW s \in DOMAIN sizes
      PROVE  WellMade(sizes'[s]) /\ UpToDate(sizes'[s], font, h, txt_flags, oversampling)
  <2> DEFINE at == sizes[s]
             changed == [at EXCEPT !.hinting = h]
  <2>1. WellMade(at) /\ UpToDate(at, font, hinting, txt_flags, oversampling) /\ hinting # h
    BY DEF IInv, SizesOK, SetHinting
  <2>2. at \in Atlas /\ at.font = font /\ at.hinting = hinting
        /\ at.txt_flags = txt_flags /\ at.oversampling = oversampling
    BY <2>1 DEF WellMade, UpToDate, HasSettings
  <2>3. sizes'[s] = ClearCache(changed)
    BY <2>1, <2>2 DEF SetHinting
  <2> HIDE DEF at
  <2>4. /\ changed \in Atlas /\ changed.font = at.font /\ changed.hinting = h
        /\ changed.txt_flags = at.txt_flags /\ changed.oversampling = at.oversampling
    BY <2>2 DEF Atlas
  <2> HIDE DEF changed
  <2> QED BY <2>2, <2>3, <2>4, ClearedIsRight
<1>4. SizesOK'
  BY <1>2, <1>3 DEF IInv, SizesOK, SetHinting
<1> QED BY <1>1, <1>4 DEF IInv

LEMMA SetOversamplingStep ==
    ASSUME IInv, NEW o \in Oversamplings, SetOversampling(o)
    PROVE  IInv'
<1>1. SettingsOK'
  BY DEF IInv, SettingsOK, SetOversampling
<1>2. DOMAIN sizes' = DOMAIN sizes /\ sizes' = [s \in DOMAIN sizes' |-> sizes'[s]]
  BY DEF SetOversampling
<1>3. ASSUME NEW s \in DOMAIN sizes
      PROVE  WellMade(sizes'[s]) /\ UpToDate(sizes'[s], font, hinting, txt_flags, o)
  <2> DEFINE at == sizes[s]
             changed == [at EXCEPT !.oversampling = o]
  <2>1. WellMade(at) /\ UpToDate(at, font, hinting, txt_flags, oversampling) /\ oversampling # o
    BY DEF IInv, SizesOK, SetOversampling
  <2>2. at \in Atlas /\ at.font = font /\ at.hinting = hinting
        /\ at.txt_flags = txt_flags /\ at.oversampling = oversampling
    BY <2>1 DEF WellMade, UpToDate, HasSettings
  <2>3. sizes'[s] = ClearCache(changed)
    BY <2>1, <2>2 DEF SetOversampling, Rescaled
  <2> HIDE DEF at
  <2>4. /\ changed \in Atlas /\ changed.font = at.font /\ changed.hinting = at.hinting
        /\ changed.txt_flags = at.txt_flags /\ changed.oversampling = o
    BY <2>2 DEF Atlas
  <2> HIDE DEF changed
  <2> QED BY <2>2, <2>3, <2>4, ClearedIsRight
<1>4. SizesOK'
  BY <1>2, <1>3 DEF IInv, SizesOK, SetOversampling
<1> QED BY <1>1, <1>4 DEF IInv

LEMMA SetTextureFlagsStep ==
    ASSUME IInv, NEW f \in Flags, SetTextureFlags(f)
    PROVE  IInv'
<1>1. SettingsOK'
  BY DEF IInv, SettingsOK, SetTextureFlags
<1>2. DOMAIN sizes' = DOMAIN sizes /\ sizes' = [s \in DOMAIN sizes' |-> sizes'[s]]
  BY DEF SetTextureFlags
<1>3. ASSUME NEW s \in DOMAIN sizes
      PROVE  WellMade(sizes'[s]) /\ UpToDate(sizes'[s], font, hinting, f, oversampling)
  <2> DEFINE at == sizes[s]
  <2>1. WellMade(at) /\ UpToDate(at, font, hinting, txt_flags, oversampling) /\ txt_flags # f
    BY DEF IInv, SizesOK, SetTextureFlags
  <2>2. /\ GlyphsFresh(at) /\ at.font = font /\ at.hinting = hinting
        /\ at.txt_flags = txt_flags /\ at.oversampling = oversampling
    BY <2>1 DEF UpToDate, HasSettings
  <2>3. sizes'[s] = Flagged(at, f)
    BY <2>1, <2>2 DEF SetTextureFlags
  <2> HIDE DEF at
  <2> QED BY <2>1, <2>2, <2>3, FlaggedIsRight
<1>4. SizesOK'
  BY <1>2, <1>3 DEF IInv, SizesOK, SetTextureFlags
<1> QED BY <1>1, <1>4 DEF IInv

LEMMA LoadStep ==
    ASSUME IInv, NEW f \in Fonts \cup {NoFont}, Load(f)
    PROVE  IInv'
<1>1. SettingsOK'
  BY DEF IInv, SettingsOK, Load
<1>2. DOMAIN sizes' = {} /\ sizes' = [s \in DOMAIN sizes' |-> sizes'[s]]
  BY DEF Load
<1>3. SizesOK'
  BY <1>2 DEF SizesOK
<1> QED BY <1>1, <1>3 DEF IInv

LEMMA InitRight == Init => IInv
<1> SUFFICES ASSUME Init PROVE IInv
  OBVIOUS
<1>1. SettingsOK
  BY SettingsAssumption DEF Init, SettingsOK
<1>2. DOMAIN sizes = {} /\ sizes = [s \in DOMAIN sizes |-> sizes[s]]
  BY DEF Init
<1> QED BY <1>1, <1>2 DEF IInv, SizesOK

LEMMA NextRight == IInv /\ [Next]_vars => IInv'
<1> SUFFICES ASSUME IInv, [Next]_vars PROVE IInv'
  OBVIOUS
<1>1. ASSUME NEW size \in Sizes, Use(size) PROVE IInv'
  BY <1>1, UseStep
<1>2. ASSUME NEW size \in Sizes, NEW kind \in Kinds, NEW codepoint \in Codepoints,
             NEW bitmap \in Bitmaps, Draw(size, kind, codepoint, bitmap)
      PROVE  IInv'
  BY <1>2, DrawStep
<1>3. ASSUME NEW h \in Hintings, SetHinting(h) PROVE IInv'
  BY <1>3, SetHintingStep
<1>4. ASSUME NEW o \in Oversamplings, SetOversampling(o) PROVE IInv'
  BY <1>4, SetOversamplingStep
<1>5. ASSUME NEW f \in Flags, SetTextureFlags(f) PROVE IInv'
  BY <1>5, SetTextureFlagsStep
<1>6. ASSUME NEW f \in Fonts \cup {NoFont}, Load(f) PROVE IInv'
  BY <1>6, LoadStep
<1>7. CASE UNCHANGED vars
  BY <1>7 DEF vars, settings, IInv, SettingsOK, SizesOK
<1> QED BY <1>1, <1>2, <1>3, <1>4, <1>5, <1>6, <1>7 DEF Next

LEMMA IInvHolds == Spec => []IInv
BY InitRight, NextRight, PTL DEF Spec

-----------------------------------------------------------------------------
(* The properties.                                                         *)

(* The face keeps its settings, and one well-formed object for each size   *)
(* that was used (get_for_size and the setters of TLDynamicFontFace).      *)
THEOREM TypeCorrect == Spec => []TypeOK
<1>1. IInv => TypeOK
  BY DEF IInv, SettingsOK, SizesOK, WellMade, TypeOK
<1> QED BY <1>1, IInvHolds, PTL

(* Every glyph that is drawn lies, with its margin, inside of a texture    *)
(* that exists (find_texture_pos_for_glyph, bitmap_to_glyph).              *)
THEOREM GlyphsLieInside == Spec => []GlyphsLieInTheirTexture
<1>1. IInv => GlyphsLieInTheirTexture
  BY DEF IInv, SizesOK, WellMade, GlyphsLie, GlyphsLieInTheirTexture
<1> QED BY <1>1, IInvHolds, PTL

(* No two glyphs of an object share a pixel, margins included, whatever    *)
(* bitmaps are drawn in whatever order (find_texture_pos_for_glyph, the    *)
(* height array of bitmap_to_glyph).                                       *)
THEOREM GlyphsNeverOverlap == Spec => []GlyphsDoNotOverlap
<1>1. IInv => GlyphsDoNotOverlap
  BY DEF IInv, SizesOK, WellMade, GlyphsApart, GlyphsDoNotOverlap
<1> QED BY <1>1, IInvHolds, PTL

(* What is cached was made for the font and the settings in force, however *)
(* they changed (set_hinting, set_oversampling, set_texture_flags, load).  *)
THEOREM CachesStayFresh == Spec => []CachesAreFresh
<1>1. IInv => CachesAreFresh
  BY DEF IInv, SizesOK, UpToDate, HasSettings, GlyphsFresh, TexturesFresh, CachesAreFresh
<1> QED BY <1>1, IInvHolds, PTL

(* A texture with pixels shows a glyph: the caches are cleared together    *)
(* (clear_cache).                                                          *)
THEOREM TexturesStayUsed == Spec => []TexturesAreUsed
<1>1. IInv => TexturesAreUsed
  BY DEF IInv, SizesOK, WellMade, AllUsed, TextureUsed, TexturesAreUsed
<1> QED BY <1>1, IInvHolds, PTL
=============================================================================
