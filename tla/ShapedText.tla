----------------------------- MODULE ShapedText -----------------------------
(***************************************************************************)
(* The text that TLShapedString shapes, and the clusters it is shaped to.  *)
(* A request is a text with all that decides how it is shaped and laid     *)
(* out: per position the faces that have a glyph for the character, the    *)
(* positions that are joined with the one before (one grapheme), and the   *)
(* pieces _shape_bidi_run cuts it to.  HarfBuzz and FreeType are external: *)
(* a face covers a character or not, and gives clusters that are whole     *)
(* graphemes.                                                              *)
(***************************************************************************)
EXTENDS FontChains

CONSTANTS
    Requests,  \* texts to lay out
    Hex        \* drawn by no face, as a box with its codepoint

ASSUME HexAssumption == Hex \notin Faces

Positions(r) == 0 .. r.size - 1

(* The order of a run in a text that reads left to right or right to left. *)
FirstOf(rtl, from, to) == IF rtl THEN to - 1 ELSE from
IsPast(rtl, from, to, p) == IF rtl THEN p < from ELSE p >= to
Behind(rtl, cluster) == IF rtl THEN cluster.start - 1 ELSE cluster.end + 1

(* The cluster at p when from .. to - 1 is shaped: ends are inclusive.     *)
StartsAt(r, from, p) == p = from \/ p \notin r.joined
ClusterStart(r, from, p) ==
    CHOOSE s \in from .. p :
        StartsAt(r, from, s) /\ \A q \in s + 1 .. p : ~StartsAt(r, from, q)
ClusterEnd(r, to, p) ==
    CHOOSE e \in p .. to - 1 :
        (e + 1 = to \/ e + 1 \notin r.joined) /\ \A q \in p + 1 .. e : q \in r.joined
ClusterAt(r, from, to, p) ==
    [start |-> ClusterStart(r, from, p), end |-> ClusterEnd(r, to, p)]

(* A cluster is valid when none of its glyphs is the missing glyph.        *)
Covers(r, face, cluster) ==
    \A p \in cluster.start .. cluster.end : p \in r.covers[face]

Cluster(start, end, face) == [start |-> start, end |-> end, face |-> face]

(* The faces of a piece: linked to the language of the text, if there are  *)
(* such, or to the script of the piece.  The family of a font attribute is *)
(* only asked for the script.                                              *)
TagOf(r, piece) ==
    IF ~r.attributed /\ LinkedChain(r.data, r.language) # <<>>
    THEN r.language ELSE piece.script

(* The sum of the first n of widths: how far n of them reach.              *)
SumOf(widths, n) ==
    LET sum[k \in 0 .. Len(widths)] == IF k = 0 THEN 0 ELSE sum[k - 1] + widths[k]
    IN  sum[n]

-----------------------------------------------------------------------------
(* _shape_bidi_run: the script ranges of the text that meet a bidi run, in *)
(* the order of the run, cut to it.                                        *)
PiecesOf(run, ranges) ==
    LET Meets(range) == range.start < run.to /\ range.end > run.from
        Cut(range) == [rtl |-> run.rtl, script |-> range.script,
                       from |-> IF range.start > run.from THEN range.start ELSE run.from,
                       to |-> IF range.end < run.to THEN range.end ELSE run.to,
                       run_from |-> run.from, run_to |-> run.to]
        met == SelectSeq(ranges, Meets)
        n == Len(met)
    IN  [k \in 1 .. n |-> Cut(met[IF run.rtl THEN n + 1 - k ELSE k])]

Piece ==
    [rtl : BOOLEAN, script : Tags, from : Nat, to : Nat, run_from : Nat, run_to : Nat]

(* Pieces are not empty and a style is well-formed.  A font attribute is   *)
(* on all of the text, and its family has a face for every script of it:   *)
(* without one the code tries the first face of the font below.            *)
ASSUME RequestsAssumption ==
    \A r \in Requests :
        /\ IsStyle(r.data) /\ {r.font, r.attributed} \subseteq BOOLEAN
        /\ r.pieces \in Seq(Piece)
        /\ \A k \in DOMAIN r.pieces : r.pieces[k].from < r.pieces[k].to
        /\ r.attributed =>
               r.font /\ \A k \in DOMAIN r.pieces : IsValid(FaceFor(r.data, r.pieces[k].script))

(* ICU's bidi runs and the script ranges cut the text to its pieces; a     *)
(* text that is empty is not shaped.                                       *)
Holds(piece, p) == piece.from <= p /\ p < piece.to
ASSUME PiecesAssumption ==
    \A r \in Requests :
        /\ r.size \in Nat \ {0}
        /\ \A k \in DOMAIN r.pieces : r.pieces[k].to <= r.size
        /\ \A p \in Positions(r) : \E k \in DOMAIN r.pieces : Holds(r.pieces[k], p)
        /\ \A j, k \in DOMAIN r.pieces : \A p \in Positions(r) :
               Holds(r.pieces[j], p) /\ Holds(r.pieces[k], p) => j = k
=============================================================================
