-------------------------- MODULE SequenceAlignment --------------------------
(***************************************************************************)
(* umd.alignment.align: the correspondence of two sequences of units, by   *)
(* elastic dynamic time warping over their timecodes or embeddings, or by  *)
(* shared scenes, and the Aligned events a plan is appended as.            *)
(*                                                                         *)
(* A unit is its midpoint, its scene, its embedding ("" is none) and       *)
(* whether its ref ends in its sequence number; units and pairs are named  *)
(* by position.  Confidences are left out.                                 *)
(***************************************************************************)
EXTENDS Integers, SequencesExt

CONSTANTS
    Units,          \* [mid, scene, emb, numbered] : the units to align
    MaxUnits,       \* bound: units of a side
    MaxAppends      \* bound: calls of append_plan

Methods == {"timecode-dtw", "scene-order-dtw", "embedding"}
Assumptions == {"PARALLEL_MONOTONE", "ADAPTATION", "TEMPORAL"}
Unplanned == [status |-> "none", pairs |-> <<>>]
Failed == [status |-> "IndexError", pairs |-> <<>>]

VARIABLES
    left, right,    \* the sequences
    plan,           \* what align_many_to_many returned
    appended        \* Aligned events of the ledger, one sequence per append

alignVars == <<left, right, plan, appended>>

\* In percent; a missing embedding is similar to nothing, not even itself.
CosineSimilarity(a, b) ==
    IF "" \in {a.emb, b.emb} THEN 0 ELSE IF a.emb = b.emb THEN 100 ELSE -20

TimecodeDistance(a, b) == IF a.mid > b.mid THEN a.mid - b.mid ELSE b.mid - a.mid
EmbeddingDistance(a, b) == 100 - CosineSimilarity(a, b)

Distance(method, i, j) ==
    IF method = "embedding" THEN EmbeddingDistance(left[i], right[j])
    ELSE TimecodeDistance(left[i], right[j])

\* The accumulated cost.  The border belongs to the first unit of the other
\* side: it accumulates the distances to it.
Cost(method) ==
    LET cost[c \in (0..Len(left)) \X (0..Len(right))] ==
          LET i == c[1]
              j == c[2]
          IN CASE c = <<0, 0>> -> 0
               [] j = 0 /\ i > 0 -> cost[<<i - 1, 0>>] + Distance(method, i, 1)
               [] i = 0 /\ j > 0 -> cost[<<0, j - 1>>] + Distance(method, 1, j)
               [] OTHER -> Distance(method, i, j)
                           + Min({cost[<<i - 1, j - 1>>], cost[<<i - 1, j>>],
                                  cost[<<i, j - 1>>]})
    IN cost

\* Mutant: ties, and more, go up.
UpFirst(cost, i, j) ==
    LET diagonal == cost[<<i - 1, j - 1>>]
        up == cost[<<i - 1, j>>]
        sideways == cost[<<i, j - 1>>]
    IN IF up <= diagonal /\ up <= sideways THEN <<i - 1, j>>
       ELSE IF diagonal <= sideways THEN <<i - 1, j - 1>> ELSE <<i, j - 1>>

\* Where the path came from: the diagonal if none is cheaper, then up, then left.
Previous(cost, i, j) ==
    LET diagonal == cost[<<i - 1, j - 1>>]
        up == cost[<<i - 1, j>>]
        sideways == cost[<<i, j - 1>>]
    IN IF diagonal <= up /\ diagonal <= sideways THEN <<i - 1, j - 1>>
       ELSE IF up <= sideways THEN <<i - 1, j>> ELSE <<i, j - 1>>

\* One turn of the three loops: through the table, then along its border.
Back(cost, c) ==
    IF c[1] > 0 /\ c[2] > 0 THEN Previous(cost, c[1], c[2])
    ELSE IF c[1] > 0 THEN <<c[1] - 1, 0>>
    ELSE IF c[2] > 0 THEN <<0, c[2] - 1>> ELSE c

\* A cell of the border pairs its unit with the first one of the other side.
Paired(c) == IF c[2] = 0 THEN <<c[1], 1>> ELSE IF c[1] = 0 THEN <<1, c[2]>> ELSE c

\* The path: the cells from the last to the first, and then reversed.
DtwPath(method) ==
    LET cost == Cost(method)
        cell[k \in 0..(Len(left) + Len(right))] ==
          IF k = 0 THEN <<Len(left), Len(right)>> ELSE Back(cost, cell[k - 1])
        steps == Min({k \in 0..(Len(left) + Len(right)) : cell[k] = <<0, 0>>})
    IN [m \in 1..steps |-> Paired(cell[steps - m])]

\* Every pair of a shared scene, left unit by left unit.
ScenePath ==
    FlattenSeq([i \in DOMAIN left |->
        FlattenSeq([j \in DOMAIN right |->
            IF left[i].scene = right[j].scene THEN <<<<i, j>>>> ELSE <<>>])])

\* The number a ref ends in; units are handed over in their order.
SeqNumbered(side, i) == side[i].numbered

\* Some two pairs, of numbered refs only, whose sides are not in one order.
\* Two pairs that share a unit on one side only count as well.
DetectReordering(pairs) ==
    \E x, y \in DOMAIN pairs :
        LET a == pairs[x]
            b == pairs[y]
        IN /\ x < y
           /\ \A c \in {a, b} : SeqNumbered(left, c[1]) /\ SeqNumbered(right, c[2])
           /\ (a[1] < b[1]) # (a[2] < b[2])

BuildPlan(path, method, assumption, threshold) ==
    [status |-> "plan", pairs |-> path, method |-> method, assumption |-> assumption,
     omissions |-> {j \in DOMAIN right : \A k \in DOMAIN path : path[k][2] # j},
     additions |-> {i \in DOMAIN left : \A k \in DOMAIN path : path[k][1] # i},
     contradictions |-> {c \in ToSet(path) :
                            /\ left[c[1]].emb # ""
                            /\ CosineSimilarity(left[c[1]], right[c[2]]) < threshold},
     reordering |-> DetectReordering(path)]

\* An empty side has no first unit for the border of the other.
DtwPlan(distance, method, assumption, threshold) ==
    IF (left = <<>>) # (right = <<>>) THEN Failed
    ELSE BuildPlan(DtwPath(distance), method, assumption, threshold)

AlignMonotoneParallel ==
    DtwPlan("timecode-dtw", "timecode-dtw", "PARALLEL_MONOTONE", 0)
AlignSceneOrder(assumption) == BuildPlan(ScenePath, "scene-order-dtw", assumption, 0)
AlignEmbeddings(assumption) == DtwPlan("embedding", "embedding", assumption, 35)
AlignTimecode(assumption) == DtwPlan("timecode-dtw", "timecode-dtw", assumption, 0)

AlignManyToMany(method, assumption) ==
    IF assumption = "PARALLEL_MONOTONE" THEN AlignMonotoneParallel
    ELSE CASE method = "scene-order-dtw" -> AlignSceneOrder(assumption)
           [] method = "embedding" -> AlignEmbeddings(assumption)
           [] OTHER -> AlignTimecode(assumption)

AlignInit ==
    /\ left \in UNION {[1..n -> Units] : n \in 0..MaxUnits}
    /\ right \in UNION {[1..n -> Units] : n \in 0..MaxUnits}
    /\ plan = Unplanned /\ appended = <<>>

Align(method, assumption) ==
    /\ plan = Unplanned
    /\ plan' = AlignManyToMany(method, assumption)
    /\ UNCHANGED <<left, right, appended>>

\* What one Aligned event says of its pair and of the plan around it; the
\* contradictions of a plan stay behind.
AlignedEvents ==
    [k \in DOMAIN plan.pairs |->
        [left |-> plan.pairs[k][1], right |-> plan.pairs[k][2], method |-> plan.method,
         assumption |-> plan.assumption, reordering |-> plan.reordering,
         omissions |-> plan.omissions, additions |-> plan.additions]]

\* append_plan: one transaction without an idempotency key.  A caller whose
\* answer was lost sends the plan again.
AppendPlan ==
    /\ plan.status = "plan" /\ Len(appended) < MaxAppends
    /\ appended' = Append(appended, AlignedEvents)
    /\ UNCHANGED <<left, right, plan>>

AlignNext ==
    \/ \E method \in Methods, assumption \in Assumptions : Align(method, assumption)
    \/ AppendPlan

AlignSpec == AlignInit /\ [][AlignNext]_alignVars

-----------------------------------------------------------------------------
\* The reference: a warping path is a chain of cells from the first to the last
\* in which every step advances a side, or both, by one.
WarpingPaths(cells, last) ==
    {path \in SUBSET cells :
        /\ {<<1, 1>>, last} \subseteq path
        /\ \A c \in path \ {last} :
              Cardinality({d \in path :
                  d \in {<<c[1] + 1, c[2]>>, <<c[1], c[2] + 1>>, <<c[1] + 1, c[2] + 1>>}}) = 1
        /\ \A c, d \in path : (c[1] < d[1]) => (c[2] <= d[2])}

AllWarpingPaths ==
    [s \in (1..MaxUnits) \X (1..MaxUnits) |-> WarpingPaths((1..s[1]) \X (1..s[2]), s)]

PathCost(method, path) == FoldSet(LAMBDA c, sum : sum + Distance(method, c[1], c[2]), 0, path)

\* The correspondence dynamic time warping reports is a warping path, it repeats
\* no pair although the trace may run along the border of the cost table, and no
\* warping path costs less: the path read back is the one the costs were of.
PathIsBest ==
    \/ plan.status # "plan" \/ left = <<>>
    \/ plan.method = "scene-order-dtw"
    \/ LET chosen == ToSet(plan.pairs)
           warping == AllWarpingPaths[<<Len(left), Len(right)>>]
       IN /\ Len(plan.pairs) = Cardinality(chosen) /\ chosen \in warping
          /\ \A path \in warping :
                PathCost(plan.method, chosen) <= PathCost(plan.method, path)

Crossing(a, b) == (a[1] < b[1] /\ a[2] > b[2]) \/ (a[1] > b[1] /\ a[2] < b[2])

\* A plan announces a reordering whenever two of its pairs, however far apart,
\* cross and their refs are numbered, and never for a strictly monotone
\* one-to-one correspondence.
ReorderingTellsCrossings ==
    \/ plan.status # "plan"
    \/ LET pairs == {c \in ToSet(plan.pairs) :
                        SeqNumbered(left, c[1]) /\ SeqNumbered(right, c[2])}
       IN /\ (\E a, b \in pairs : Crossing(a, b)) => plan.reordering
          /\ (\A a, b \in pairs : a # b => (a[1] < b[1] /\ a[2] < b[2])
                                           \/ (a[1] > b[1] /\ a[2] > b[2]))
             => ~plan.reordering

\* No pair of events that were appended under PARALLEL_MONOTONE crosses,
\* whichever method the caller asked for.
MonotoneLabelHonest ==
    \A n \in DOMAIN appended :
        \A e, f \in ToSet(appended[n]) :
            e.assumption = "PARALLEL_MONOTONE" =>
                ~Crossing(<<e.left, e.right>>, <<f.left, f.right>>)

\* An alignment reports a cheapest path, announces the crossings it has, and
\* labels as parallel and monotone only what is.
AlignmentIsHonest ==
    /\ PathIsBest
    /\ ReorderingTellsCrossings
    /\ MonotoneLabelHonest
==============================================================================
