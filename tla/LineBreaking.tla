---------------------------- MODULE LineBreaking ----------------------------
(***************************************************************************)
(* break_lines: the text is shaped, and the ends of its lines are found in *)
(* one pass over the clusters in logical order, with a step back to the    *)
(* last break opportunity when a line is full.  The end of a cluster is    *)
(* its last position, a bound is where the next line starts.               *)
(***************************************************************************)
EXTENDS FontFallback

VARIABLES
    logical,                \* the clusters in logical order
    i,                      \* the cluster to place next, 0 before the first pass
    b,                      \* the next break opportunity
    width,                  \* of the clusters counted for the line
    line_start,
    last_safe_brk,          \* the last opportunity passed, 0 if there is none
    last_safe_brk_cluster,  \* and its cluster
    bounds,                 \* what break_lines returns
    returned

lineVars ==
    <<logical, i, b, width, line_start, last_safe_brk, last_safe_brk_cluster,
      bounds, returned>>
vars == <<shapeVars, lineVars>>

BreakModes == {"NONE", "MANDATORY", "WORD_BOUND", "ANYWHERE"}

(* Where a line may and where it must break comes from ICU, which breaks   *)
(* no cluster; hard opportunities are behind a line feed.                  *)
Opportunity == [position : Nat, hard : BOOLEAN]
ASSUME OpportunitiesAssumption ==
    \A r \in Requests :
        /\ r.ops \in Seq(Opportunity)
        /\ \A k \in DOMAIN r.ops :
             r.ops[k].position \in 1 .. r.size /\ r.ops[k].position \notin r.joined
        /\ \A j, k \in DOMAIN r.ops : j < k => r.ops[j].position < r.ops[k].position

(* No character takes width away.                                          *)
ASSUME WidthsAssumption ==
    \A r \in Requests : r.advance \in [Positions(r) -> Nat] /\ r.width \in Int

Ops == req.ops
WidthBefore(r, p) == SumOf([k \in 1 .. r.size |-> r.advance[k - 1]], p)
WidthOf(r, from, to) == WidthBefore(r, to) - WidthBefore(r, from)

(* std::sort with ClusterCompare, which leaves clusters that begin at the  *)
(* same position in any order.                                             *)
ClusterCompare(c, d) == c.start < d.start
SortedClusters(clusters) ==
    LET places == DOMAIN clusters
        Sorts(order) ==
            \A j, k \in places :
                /\ order[j] = order[k] => j = k
                /\ j < k => ~ClusterCompare(clusters[order[k]], clusters[order[j]])
    IN  {[k \in places |-> clusters[order[k]]] : order \in {o \in [places -> places] : Sorts(o)}}

-----------------------------------------------------------------------------
LineInit ==
    /\ logical = <<>>
    /\ i = 0
    /\ b = 1
    /\ width = 0
    /\ line_start = 0
    /\ last_safe_brk = 0
    /\ last_safe_brk_cluster = 0
    /\ bounds = <<>>
    /\ returned = FALSE

Init == ShapeInit /\ LineInit

BreaksNothing ==
    /\ valid /\ i = 0 /\ ~returned
    /\ req.flags = "NONE"
    /\ bounds' = <<req.size>>
    /\ returned' = TRUE
    /\ UNCHANGED <<shapeVars, logical, i, b, width, line_start, last_safe_brk,
                   last_safe_brk_cluster>>

Begin ==
    /\ valid /\ i = 0 /\ ~returned
    /\ req.flags # "NONE"
    /\ logical' \in SortedClusters(visual)
    /\ i' = 1
    /\ UNCHANGED <<shapeVars, b, width, line_start, last_safe_brk,
                   last_safe_brk_cluster, bounds, returned>>

(* One round of the loop over the clusters.                                *)
Placing == i \in DOMAIN logical
PassesBreak == b <= Len(Ops) /\ Ops[b].position <= logical[i].start
SafeBreak == IF PassesBreak THEN b ELSE last_safe_brk
SafeCluster == IF PassesBreak THEN i ELSE last_safe_brk_cluster
NewWidth == width + WidthOf(req, logical[i].start, logical[i].end + 1)
IsFull == req.width > 0 /\ NewWidth >= req.width

(* Slips: the width, or the last opportunity, of the line before is kept.  *)
StartLineKeepingWidth(from) ==
    /\ width' = width
    /\ line_start' = from
    /\ last_safe_brk' = 0
    /\ last_safe_brk_cluster' = 0
StartLineKeepingBreak(from) ==
    /\ width' = 0
    /\ line_start' = from
    /\ UNCHANGED <<last_safe_brk, last_safe_brk_cluster>>

StartLine(from) ==
    /\ width' = 0
    /\ line_start' = from
    /\ last_safe_brk' = 0
    /\ last_safe_brk_cluster' = 0

MustBreak == PassesBreak /\ Ops[b].hard
MayBreak ==
    req.flags = "WORD_BOUND" /\ SafeBreak # 0 /\ Ops[SafeBreak].position # line_start

(* The cluster behind the line feed starts the line and is not counted.    *)
HardBreak ==
    /\ Placing /\ MustBreak
    /\ bounds' = Append(bounds, logical[i].start)
    /\ StartLine(logical[i].end)
    /\ i' = i + 1
    /\ b' = b + 1
    /\ UNCHANGED <<shapeVars, logical, returned>>

SoftBreak ==
    /\ Placing /\ ~MustBreak /\ IsFull /\ MayBreak
    /\ bounds' = Append(bounds, Ops[SafeBreak].position)
    /\ StartLine(Ops[SafeBreak].position)
    /\ i' = SafeCluster
    /\ b' = IF PassesBreak THEN b + 1 ELSE b
    /\ UNCHANGED <<shapeVars, logical, returned>>

(* The full cluster is neither in the line nor counted for the next one.   *)
AnywhereBreak ==
    /\ Placing /\ ~MustBreak /\ IsFull
    /\ req.flags = "ANYWHERE"
    /\ bounds' = Append(bounds, logical[i].end)
    /\ StartLine(logical[i].end)
    /\ i' = i + 1
    /\ b' = IF PassesBreak THEN b + 1 ELSE b
    /\ UNCHANGED <<shapeVars, logical, returned>>

(* Slip: every cluster passes an opportunity.                              *)
PlaceClusterCounting ==
    /\ Placing /\ ~MustBreak
    /\ IsFull => req.flags # "ANYWHERE" /\ ~MayBreak
    /\ width' = NewWidth
    /\ last_safe_brk' = SafeBreak
    /\ last_safe_brk_cluster' = SafeCluster
    /\ i' = i + 1
    /\ b' = b + 1
    /\ UNCHANGED <<shapeVars, logical, line_start, bounds, returned>>

PlaceCluster ==
    /\ Placing /\ ~MustBreak
    /\ IsFull => req.flags # "ANYWHERE" /\ ~MayBreak
    /\ width' = NewWidth
    /\ last_safe_brk' = SafeBreak
    /\ last_safe_brk_cluster' = SafeCluster
    /\ i' = i + 1
    /\ b' = IF PassesBreak THEN b + 1 ELSE b
    /\ UNCHANGED <<shapeVars, logical, line_start, bounds, returned>>

(* A line feed at the end of the text leaves an empty last line.           *)
Finish ==
    /\ i = Len(logical) + 1 /\ ~returned
    /\ LET feeds == \E k \in b .. Len(Ops) : Ops[k].position = req.size /\ Ops[k].hard
       IN  bounds' = bounds \o (IF feeds THEN <<req.size>> ELSE <<>>)
                            \o (IF line_start < req.size THEN <<req.size>> ELSE <<>>)
    /\ returned' = TRUE
    /\ UNCHANGED <<shapeVars, logical, i, b, width, line_start, last_safe_brk,
                   last_safe_brk_cluster>>

LineStep ==
    \/ BreaksNothing \/ Begin \/ HardBreak \/ SoftBreak \/ AnywhereBreak
    \/ PlaceCluster \/ Finish

Next == (ShapeStep /\ UNCHANGED lineVars) \/ LineStep

(* One call runs on one thread until it returns.                           *)
Spec == Init /\ [][Next]_vars /\ WF_vars(Next)

-----------------------------------------------------------------------------
Clusters == [start : Nat, end : Nat, face : Faces \cup {Hex}]
Calls ==
    [it : Iterators, from : Nat, to : Nat, at : Nat \cup {-1},
     failed_start : Nat, failed_end : Nat]

(* The types, and the stretches of the text that the fields name.          *)
TypeOK ==
    /\ req \in Requests
    /\ valid \in BOOLEAN /\ returned \in BOOLEAN
    /\ piece \in 0 .. Len(req.pieces)
    /\ stack \in Seq(Calls)
    /\ visual \in Seq(Clusters) /\ logical \in Seq(Clusters)
    /\ i \in 0 .. Len(logical) + 1
    /\ b \in 1 .. Len(Ops) + 1
    /\ width \in Nat
    /\ line_start \in 0 .. req.size
    /\ last_safe_brk \in 0 .. b - 1
    /\ last_safe_brk_cluster \in 0 .. Len(logical)
    /\ bounds \in Seq(0 .. req.size)

(* break_lines returns for every text, font and width: the fallback runs   *)
(* out of faces, and the step back to a break opportunity is taken once.   *)
Terminates == <>returned

(* The bounds cut the text to lines: they do not decrease, the last is the *)
(* end of the text, and every line feed ends a line, unless boxes are      *)
(* drawn twice.                                                            *)
LineBounds ==
    returned /\ BoxedOnce(req) =>
        /\ \A k \in 2 .. Len(bounds) : bounds[k - 1] <= bounds[k]
        /\ bounds # <<>> /\ bounds[Len(bounds)] = req.size
        /\ req.flags # "NONE" =>
               \A k \in DOMAIN Ops : Ops[k].hard =>
                   \E l \in DOMAIN bounds : bounds[l] = Ops[k].position

LineStart(k) == IF k = 1 THEN 0 ELSE bounds[k - 1]
IsHard(p) == \E j \in DOMAIN Ops : Ops[j].hard /\ Ops[j].position = p
LaterOps(p) == {q \in 1 .. req.size : q > p /\ \E j \in DOMAIN Ops : Ops[j].position = q}
CouldBreak(k) == \E q \in LaterOps(LineStart(k)) : q < bounds[k]
BrokeAtWords ==
    returned /\ BoxedOnce(req) /\ req.flags = "WORD_BOUND" /\ req.width > 0

(* Lines broken at words are as long as they may be: one with an           *)
(* opportunity inside is narrower than the width, unless it starts behind  *)
(* a line feed, and the word behind a soft break would have filled it      *)
(* (width, last_safe_brk and the step back).  A line behind a line feed    *)
(* can be too wide, which LinesFitTheWidth finds.                          *)
LinesAreGreedy ==
    BrokeAtWords =>
        \A k \in DOMAIN bounds :
            /\ CouldBreak(k) /\ ~IsHard(LineStart(k)) =>
                   WidthOf(req, LineStart(k), bounds[k]) < req.width
            /\ \A j \in DOMAIN Ops :
                   ~Ops[j].hard /\ Ops[j].position = bounds[k] /\ bounds[k] < req.size =>
                       \A next \in LaterOps(bounds[k]) \cup {req.size} :
                           WidthOf(req, LineStart(k), next) >= req.width

(* What the documentation of break_lines says ("Breaks text into lines     *)
(* that fit within a specified width."): no line is wider that could have  *)
(* been broken.  A line feed at the end of a line need not fit, so lines   *)
(* that end with one are left out.                                         *)
LinesFitTheWidth ==
    BrokeAtWords =>
        \A k \in DOMAIN bounds :
            CouldBreak(k) /\ ~IsHard(bounds[k]) =>
                WidthOf(req, LineStart(k), bounds[k]) <= req.width
=============================================================================
