---------------------------- MODULE FontFallback ----------------------------
(***************************************************************************)
(* _shape_full_string: shaping a text with the faces of its font family.   *)
(* A piece is shaped with the first face of the style; a run of clusters   *)
(* the face lacks is shaped again, on its own, with the next face, and     *)
(* with boxes behind the last.  The calls nest, so the state is the stack  *)
(* of the calls that are not done; a step is one call, one cluster or one  *)
(* return.                                                                 *)
(***************************************************************************)
EXTENDS ShapedText

VARIABLES
    req,     \* the text, its font and its attributes
    valid,   \* the text is shaped
    piece,   \* the piece that was entered last, 0 before the first
    stack,   \* the calls of _shape_bidi_script_run and _shape_hex_run
    visual   \* the clusters, in visual order

shapeVars == <<req, valid, piece, stack, visual>>

Iterator(r, p) == IF r.font THEN FaceFor(r.data, TagOf(r, p)) ELSE Ended


Here == req.pieces[piece]

-----------------------------------------------------------------------------
(* The calls.  at is the next cluster, failed_start and failed_end the     *)
(* failed sub-run so far; hex calls have no face.                          *)

Call(it, p, from, to) ==
    [it |-> it, from |-> from, to |-> to, at |-> FirstOf(p.rtl, from, to),
     failed_start |-> to + 1, failed_end |-> from]

Top == stack[Len(stack)]
Below == SubSeq(stack, 1, Len(stack) - 1)
Running == stack # <<>>

IsHexCall(call) == ~IsValid(call.it)
Face == Value(req.data, TagOf(req, Here), Top.it)
Loaded == Face \in req.loads
TopCluster == ClusterAt(req, Top.from, Top.to, Top.at)
TopIsPast == IsPast(Here.rtl, Top.from, Top.to, Top.at)
TopShapes == Running /\ ~IsHexCall(Top) /\ Loaded
HasFailed == Top.failed_start # Top.to + 1

(* A call that has come to `at`, with the failed sub-run start .. end.     *)
MovedTo(call, at, start, end) ==
    [it |-> call.it, from |-> call.from, to |-> call.to, at |-> at,
     failed_start |-> start, failed_end |-> end]
AllPast(call) ==
    MovedTo(call, IF Here.rtl THEN call.from - 1 ELSE call.to,
            call.failed_start, call.failed_end)

(* The iterator that the next call starts with.  A run with a font         *)
(* attribute looks its family up again unless the call overrides that.     *)
NextIterator(overridden) ==
    LET next == NextFace(req.data, TagOf(req, Here), Top.it)
    IN  IF req.attributed /\ IsValid(next) /\ ~overridden
        THEN FaceFor(req.data, Here.script)
        ELSE next

-----------------------------------------------------------------------------
ShapeInit ==
    /\ req \in Requests
    /\ valid = FALSE
    /\ piece = 0
    /\ stack = <<>>
    /\ visual = <<>>

(* _shape_bidi_run for the next piece that has a face.                     *)
ShapePiece ==
    /\ ~valid /\ ~Running /\ piece < Len(req.pieces)
    /\ LET p == req.pieces[piece + 1]
       IN  /\ IsValid(Iterator(req, p))
           /\ stack' = <<Call(Iterator(req, p), p, p.from, p.to)>>
    /\ piece' = piece + 1
    /\ UNCHANGED <<req, valid, visual>>

(* The same without a face: the bidi run becomes boxes; the rest of its    *)
(* pieces is skipped if there is a font.                                   *)
ShapeBoxes ==
    /\ ~valid /\ ~Running /\ piece < Len(req.pieces)
    /\ LET p == req.pieces[piece + 1]
           ofRun == {k \in DOMAIN req.pieces : req.pieces[k].run_from = p.run_from}
       IN  /\ ~IsValid(Iterator(req, p))
           /\ stack' = <<Call(Ended, p, p.run_from, p.run_to)>>
           /\ IF req.font
              THEN piece' \in ofRun /\ \A k \in ofRun : k <= piece'
              ELSE piece' = piece + 1
    /\ UNCHANGED <<req, valid, visual>>

(* get_hb_font fails: the next face, or boxes, and nothing else.           *)
SkipFace ==
    /\ Running /\ ~IsHexCall(Top) /\ ~Loaded
    /\ ~TopIsPast
    /\ stack' = Append(Append(Below, AllPast(Top)),
                       Call(NextIterator(FALSE), Here, Top.from, Top.to))
    /\ UNCHANGED <<req, valid, piece, visual>>

(* A cluster with all its glyphs, behind no failed one.                    *)
TakeCluster ==
    /\ TopShapes /\ ~TopIsPast /\ ~HasFailed
    /\ Covers(req, Face, TopCluster)
    /\ visual' = Append(visual, Cluster(TopCluster.start, TopCluster.end, Face))
    /\ stack' = Append(Below, MovedTo(Top, Behind(Here.rtl, TopCluster),
                                      Top.failed_start, Top.failed_end))
    /\ UNCHANGED <<req, valid, piece>>

(* The failed sub-run with one more cluster.                               *)
FailedStart ==
    IF Top.failed_start >= TopCluster.start THEN TopCluster.start ELSE Top.failed_start
FailedEnd ==
    IF Top.failed_end <= TopCluster.end THEN TopCluster.end ELSE Top.failed_end

(* Slip: only a good cluster moves the loop on.                            *)
FailClusterAgain ==
    /\ TopShapes /\ ~TopIsPast
    /\ ~Covers(req, Face, TopCluster)
    /\ stack' = Append(Below, MovedTo(Top, Top.at, FailedStart, FailedEnd))
    /\ UNCHANGED <<req, valid, piece, visual>>

(* A cluster with a missing glyph joins the failed sub-run.                *)
FailCluster ==
    /\ TopShapes /\ ~TopIsPast
    /\ ~Covers(req, Face, TopCluster)
    /\ stack' = Append(Below, MovedTo(Top, Behind(Here.rtl, TopCluster),
                                      FailedStart, FailedEnd))
    /\ UNCHANGED <<req, valid, piece, visual>>

(* The failed sub-run ends, at a good cluster or with the run: the call    *)
(* with the next face.  Only the one behind the loop overrides the font.   *)
Reshape ==
    /\ TopShapes /\ HasFailed
    /\ ~TopIsPast => Covers(req, Face, TopCluster)
    /\ stack' = Append(
           Append(Below, MovedTo(Top, Top.at, Top.to + 1, Top.from)),
           Call(NextIterator(TopIsPast), Here, Top.failed_start, Top.failed_end + 1))
    /\ UNCHANGED <<req, valid, piece, visual>>

(* One character of _shape_hex_run.                                        *)
HexChar ==
    /\ Running /\ IsHexCall(Top) /\ ~TopIsPast
    /\ LET box == Cluster(Top.at, Top.at, Hex)
       IN  /\ visual' = Append(visual, box)
           /\ stack' = Append(Below, MovedTo(Top, Behind(Here.rtl, box),
                                             Top.failed_start, Top.failed_end))
    /\ UNCHANGED <<req, valid, piece>>

Return ==
    /\ Running /\ TopIsPast
    /\ HasFailed => IsHexCall(Top)
    /\ stack' = Below
    /\ UNCHANGED <<req, valid, piece, visual>>

Shaped ==
    /\ ~valid /\ ~Running /\ piece = Len(req.pieces)
    /\ valid' = TRUE
    /\ UNCHANGED <<req, piece, stack, visual>>

ShapeStep ==
    \/ ShapePiece \/ ShapeBoxes \/ SkipFace \/ TakeCluster \/ FailCluster
    \/ Reshape \/ HexChar \/ Return \/ Shaped

ShapeSpec == ShapeInit /\ [][ShapeStep]_shapeVars

-----------------------------------------------------------------------------
(* How far the text is drawn: up to the failed sub-run of the innermost    *)
(* call, if there is one, and to its next cluster otherwise.               *)
DrawnPiece == IF Running THEN piece ELSE piece + 1
DrawnAt ==
    IF ~Running
    THEN IF piece = Len(req.pieces) THEN 0
         ELSE LET p == req.pieces[piece + 1] IN FirstOf(p.rtl, p.from, p.to)
    ELSE IF HasFailed
         THEN IF Here.rtl THEN Top.failed_end ELSE Top.failed_start
         ELSE Top.at

Promise == INSTANCE FirstCovering WITH piece <- DrawnPiece, at <- DrawnAt

(* Where the code does what is documented.  Without a face _shape_bidi_run *)
(* draws the whole bidi run as boxes, once for every piece when there is   *)
(* no font, and behind the pieces it has shaped when a later one has no    *)
(* face (tl_shaped_string.cpp:615-631): characters are drawn once when     *)
(* such a piece is its run.  And the chain of a language is followed by    *)
(* the main chain (tl_font_family.cpp:94), not by that of the script, nor  *)
(* asked for in the family of a font attribute.                            *)
BoxedOnce(r) ==
    \A k \in DOMAIN r.pieces :
        LET p == r.pieces[k]
        IN  ~IsValid(Iterator(r, p)) =>
                /\ p.from = p.run_from /\ p.to = p.run_to
                /\ \A j \in DOMAIN r.pieces : r.pieces[j].run_from = p.run_from => j = k
OneLink(r) ==
    LinkedChain(r.data, r.language) # <<>> =>
        /\ ~r.attributed
        /\ \A k \in DOMAIN r.pieces : LinkedChain(r.data, r.pieces[k].script) = <<>>

(* A text is drawn as FirstCovering says, each character once, in its      *)
(* order, each cluster in the first documented face that has it, if its    *)
(* boxes are drawn once and its faces are linked to the language or to     *)
(* scripts.  The nested calls, the sentinels of the failed sub-run and the *)
(* iterator must all be right.                                             *)
DrawsFirstCovering ==
    Promise!Init /\ [][BoxedOnce(req) /\ OneLink(req) => Promise!Next]_(Promise!vars)

(* A call that reshapes what another failed to shape uses a face further   *)
(* along the chain (tl_shaped_attributed_string.cpp:575).                  *)
FallbackMakesProgress ==
    \A j, k \in DOMAIN stack :
        j < k /\ IsValid(stack[k].it) =>
            LET placeOf(call) == Place(req.data, TagOf(req, Here), call.it)
            IN  placeOf(stack[j]) < placeOf(stack[k])
=============================================================================
