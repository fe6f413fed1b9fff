----------------------------- MODULE HitTesting -----------------------------
(***************************************************************************)
(* Carets, clicks and highlights on a line of clusters in visual order.    *)
(* The characters of a cluster share its width evenly, so an offset is     *)
(* counted in characters from the left end of the line; every offset here  *)
(* is an edge of a character, to which a click between edges is rounded.   *)
(***************************************************************************)
EXTENDS FontFallback

CharsIn(c) == c.end + 1 - c.start
IsRtl(c) ==
    \E k \in DOMAIN req.pieces :
        LET p == req.pieces[k] IN p.rtl /\ p.from <= c.start /\ c.start < p.to

LeftEdge(k) == SumOf([j \in DOMAIN visual |-> CharsIn(visual[j])], k - 1)
RightEdge(k) == LeftEdge(k) + CharsIn(visual[k])
LeadingEdge(k) == IF IsRtl(visual[k]) THEN LeftEdge(k) ELSE RightEdge(k)
TrailingEdge(k) == IF IsRtl(visual[k]) THEN RightEdge(k) ELSE LeftEdge(k)
LineEnd == RightEdge(Len(visual))

(* get_cursor_positions of a position in the text, without their order:    *)
(* behind the cluster before it, before the cluster at it, or inside one.  *)
CursorPositions(p) ==
    LET leading == {k \in DOMAIN visual : visual[k].end = p - 1}
        trailing == {k \in DOMAIN visual : visual[k].start = p}
        mid == {k \in DOMAIN visual : visual[k].start < p /\ p <= visual[k].end}
        Inside(k) == IF IsRtl(visual[k])
                     THEN TrailingEdge(k) - (p - visual[k].start)
                     ELSE TrailingEdge(k) + (p - visual[k].start)
    IN  {LeadingEdge(k) : k \in leading} \cup {TrailingEdge(k) : k \in trailing}
            \cup {Inside(k) : k \in mid}

(* hit_test: the first cluster that reaches to the offset; a click outside *)
(* of the line counts at the nearer end.                                   *)
OnLine(x) == IF x < 0 THEN 0 ELSE IF x > LineEnd THEN LineEnd ELSE x
HitCluster(x) ==
    CHOOSE k \in DOMAIN visual :
        x <= RightEdge(k) /\ \A j \in 1 .. k - 1 : RightEdge(j) < x

(* Slip: a click in a cluster counts from the left in either direction.    *)
HitTestFromLeft(x) ==
    LET k == HitCluster(OnLine(x)) IN visual[k].start + (OnLine(x) - LeftEdge(k))

HitTest(x) ==
    LET k == HitCluster(OnLine(x))
        ofs == OnLine(x) - LeftEdge(k)
    IN  IF IsRtl(visual[k]) THEN visual[k].end + 1 - ofs ELSE visual[k].start + ofs

(* get_highlight_shapes of s .. e - 1: a rectangle is the characters it    *)
(* lies on, from the left.  A cluster is inside of the range, holds all of *)
(* it, its start or its end.                                               *)
IsHighlighted(c, ofs, s, e) ==
    \/ s <= c.start /\ c.end < e
    \/ c.start < s /\ e <= c.end /\ ofs \in s - c.start .. e - c.start - 1
    \/ /\ c.start < s /\ s <= c.end /\ c.end < e
       /\ IF IsRtl(c) THEN ofs < s - c.start ELSE ofs >= s - c.start
    \/ /\ s <= c.start /\ c.start < e /\ e <= c.end
       /\ IF IsRtl(c) THEN ofs >= e - c.start ELSE ofs < e - c.start

(* Slip: the cluster behind the range is highlighted as well.              *)
HighlightToEnd(s, e) ==
    UNION {{LeftEdge(k) + ofs :
                ofs \in {j \in 0 .. CharsIn(visual[k]) - 1 :
                            IsHighlighted(visual[k], j, s, e + 1)}} :
              k \in DOMAIN visual}

Highlight(s, e) ==
    UNION {{LeftEdge(k) + ofs :
                ofs \in {j \in 0 .. CharsIn(visual[k]) - 1 :
                            IsHighlighted(visual[k], j, s, e)}} :
              k \in DOMAIN visual}

-----------------------------------------------------------------------------
HasLine == valid /\ visual # <<>> /\ BoxedOnce(req)

(* A caret appears where the text was clicked, and every position of the   *)
(* text has a caret, one or two: where runs of opposite directions meet,   *)
(* hit_test and get_cursor_positions must choose the same side.            *)
CaretComesBack ==
    HasLine =>
        /\ \A x \in -1 .. LineEnd + 1 : OnLine(x) \in CursorPositions(HitTest(x))
        /\ \A p \in 0 .. req.size :
               CursorPositions(p) # {} /\ \A x, y, z \in CursorPositions(p) : z \in {x, y} \/ x = y

(* Where a character lies, from the left.                                  *)
CellOf(p) ==
    LET k == CHOOSE k \in DOMAIN visual : p \in visual[k].start .. visual[k].end
    IN  IF IsRtl(visual[k])
        THEN LeftEdge(k) + (visual[k].end - p)
        ELSE LeftEdge(k) + (p - visual[k].start)

(* The highlight of a range is where its characters lie, in whichever      *)
(* direction and order.  Not of a range that cuts a cluster of a           *)
(* right-to-left run: there the code measures from the wrong side          *)
(* (tl_shaped_string.cpp:1716, 1721, 1729).                                  *)
HighlightIsTheRange ==
    HasLine =>
        \A s, e \in 0 .. req.size :
            s <= e /\ (\A k \in DOMAIN visual :
                          IsRtl(visual[k]) =>
                              \A p \in {s, e} : p <= visual[k].start \/ visual[k].end < p) =>
                Highlight(s, e) = {CellOf(p) : p \in s .. e - 1}
=============================================================================
