--------------------------- MODULE FirstCovering ----------------------------
(***************************************************************************)
(* What font fallback promises: a text is drawn from its first piece to    *)
(* its last, each in its own direction, every character once, and a        *)
(* cluster in the first face that can be loaded and has all of it, of the  *)
(* substitution lists in the order the documentation gives: "`Language`,   *)
(* `Script`, `Main List`" (font_substitution.rst:12).  Only what no face   *)
(* of these has is drawn as boxes, character by character.                 *)
(***************************************************************************)
EXTENDS ShapedText

VARIABLES
    req,     \* the text
    visual,  \* the clusters, in visual order
    piece,   \* the piece being drawn
    at       \* the position to draw next

vars == <<req, visual, piece, at>>

StartOf(r, k) ==
    IF k > Len(r.pieces) THEN 0
    ELSE FirstOf(r.pieces[k].rtl, r.pieces[k].from, r.pieces[k].to)

Init ==
    /\ req \in Requests
    /\ visual = <<>>
    /\ piece = 1
    /\ at = StartOf(req, 1)

Here == req.pieces[piece]
IsIn(p) == piece <= Len(req.pieces) /\ ~IsPast(Here.rtl, Here.from, Here.to, p)

Showing(face, cluster) == face \in req.loads /\ Covers(req, face, cluster)
Candidates ==
    IF req.font
    THEN LinkedChain(req.data, req.language) \o LinkedChain(req.data, Here.script)
             \o req.data[Main]
    ELSE <<>>

(* Draw the cluster at `at` in the first of the faces that has it, or the  *)
(* one character there if none has.                                        *)
ShowIn(faces) ==
    /\ IsIn(at)
    /\ LET cluster == ClusterAt(req, Here.from, Here.to, at)
           fit == {k \in DOMAIN faces : Showing(faces[k], cluster)}
       IN  \/ \E k \in fit :
                /\ \A j \in fit : k <= j
                /\ visual' = Append(visual, Cluster(cluster.start, cluster.end, faces[k]))
                /\ at' = Behind(Here.rtl, cluster)
           \/ /\ fit = {}
              /\ visual' = Append(visual, Cluster(at, at, Hex))
              /\ at' = Behind(Here.rtl, Cluster(at, at, Hex))
    /\ UNCHANGED <<req, piece>>

Show == ShowIn(Candidates)

NextPiece ==
    /\ piece <= Len(req.pieces)
    /\ ~IsIn(at)
    /\ piece' = piece + 1
    /\ at' = StartOf(req, piece + 1)
    /\ UNCHANGED <<req, visual>>

Next == Show \/ NextPiece

Spec == Init /\ [][Next]_vars
=============================================================================
