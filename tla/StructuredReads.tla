---------------------------- MODULE StructuredReads ----------------------------
(***************************************************************************)
(* The read side of POST /v1/query: structured queries and questions       *)
(* (projections/query.py, projections/question.py, api/routers/query.py).  *)
(* A request waits at one freshness guard, is compiled to one operation,   *)
(* and the operation reads the store it is about, under the scope it can   *)
(* map.  current_state is written by every append and by the rebuilds of   *)
(* current_tier1; the other projections by their rebuilds alone.  Appends  *)
(* commit in the order of their seqs here.  A traversal is a machine of    *)
(* its own, one step per level it reads.                                   *)
(***************************************************************************)
EXTENDS Integers, FiniteSets

CONSTANTS
  Requests,     \* structured requests: [kind, scope]
  Questions,    \* what the patterns find in a question:
                \* [utterance, contradiction, unresolved, evidence, relation, entity]
  Rows,         \* stored rows: [continuity, from, to, place], Null where unknown
  Graphs,       \* current_state as edges: [subject, predicate, object]
  Null,
  MaxHead,      \* bound: ledger length
  LevelLimit,   \* rows a level of a traversal reads (500)
  PageShapes    \* [offset, limit] of a traversal's page

ASSUME QueryConstants == LevelLimit \in Nat

VARIABLES
  head,         \* ledger head
  content,      \* content[p]: the store of p reflects the events up to here
  checkpoint,   \* checkpoint[p]: the applied_seq its guard looks at
  rebuilding,   \* ledger position a rebuild of current_tier1 has loaded, or Null
  request,      \* [pc, question, asked, kind, scope, token, answer, at, hybridAt]
  graph,        \* the edges of this instance
  traversal     \* [pc, start, depth, d, hits, frontier, cut, page]

requestVars == <<head, content, checkpoint, rebuilding, request>>
traversalVars == <<graph, traversal>>
queryVars == <<requestVars, traversalVars>>

\* current: current_tier1 over current_state; edges: semantic_edges.
Stores == {"current", "edges"}

Anywhere == [continuity |-> Null, from |-> Null, to |-> Null, place |-> Null]
NoQuestion == [utterance |-> FALSE, contradiction |-> FALSE, unresolved |-> FALSE,
               evidence |-> FALSE, relation |-> FALSE, entity |-> FALSE]
NoRequest == [pc |-> "idle", question |-> NoQuestion, asked |-> FALSE, kind |-> "none",
              scope |-> Anywhere, token |-> 0, answer |-> {}, at |-> 0, hybridAt |-> 0]
NoTraversal == [pc |-> "idle", start |-> Null, depth |-> 0, d |-> 0, hits |-> {},
                frontier |-> {}, cut |-> FALSE, page |-> {}]

QueryInit ==
  /\ head = 0 /\ content = [p \in Stores |-> 0] /\ checkpoint = [p \in Stores |-> 0]
  /\ rebuilding = Null /\ request = NoRequest
  /\ graph \in Graphs /\ traversal = NoTraversal

-----------------------------------------------------------------------------
(* Scopes. *)

\* _scope: what each operation declares it can map.
Mappable(kind) ==
  CASE kind = "SCENE"              -> {"continuity", "temporal", "spatial"}
    [] kind = "RELATIONSHIP_EDGES" -> {"temporal", "spatial"}
    [] kind \in {"EVIDENCE", "UNRESOLVED_ALIASES"} -> {"continuity"}
    [] OTHER -> {}

AskedDims(scope) ==
  (IF scope.continuity # Null THEN {"continuity"} ELSE {})
    \cup (IF scope.from # Null \/ scope.to # Null THEN {"temporal"} ELSE {})
    \cup (IF scope.place # Null THEN {"spatial"} ELSE {})

Unmappable(kind, scope) == ~(AskedDims(scope) \subseteq Mappable(kind))

\* The predicates; a row whose bound is unknown fails a comparison with it.
ContinuityPred(row, scope) == scope.continuity # Null => row.continuity = scope.continuity
TemporalPred(row, scope) ==
  /\ scope.from # Null => row.to # Null /\ row.to >= scope.from
  /\ scope.to # Null => row.from # Null /\ row.from <= scope.to
SpatialPred(row, scope) == scope.place # Null => row.place = scope.place

SceneRows(scope) ==
  {r \in Rows : ContinuityPred(r, scope) /\ TemporalPred(r, scope) /\ SpatialPred(r, scope)}
EdgeRows(scope) == {r \in Rows : TemporalPred(r, scope) /\ SpatialPred(r, scope)}
EvidenceRows(scope) == {r \in Rows : ContinuityPred(r, scope)}
MentionRows(scope) == {r \in Rows : ContinuityPred(r, scope)}

-----------------------------------------------------------------------------
(* Questions. *)

\* answer: the first pattern that applies decides the operation.
CompiledOp(q) ==
  IF q.utterance /\ q.entity THEN "UTTERANCE"
  ELSE IF q.contradiction /\ q.entity THEN "CONTRADICTIONS"
  ELSE IF q.unresolved THEN "UNRESOLVED_ALIASES"
  ELSE IF q.evidence THEN "EVIDENCE"
  ELSE IF q.relation THEN "RELATIONSHIP_EDGES"
  ELSE IF q.entity THEN "ENTITY"
  ELSE "none"

\* Mutant: the patterns of the other operations are taken to win always.
GuardWhenAlone(q) == q.relation /\ ~q.utterance /\ ~q.contradiction
\* requires_edge_guard.
RequiresEdgeGuard(q) == q.relation

\* The store an operation reads; the others are tables of the extractors.
StoreOf(kind) ==
  IF kind = "RELATIONSHIP_EDGES" THEN "edges"
  ELSE IF kind \in {"UTTERANCE", "CONTRADICTIONS", "ENTITY"} THEN "current"
  ELSE "tables"

AnswerOf(kind, scope) ==
  CASE kind = "SCENE"              -> SceneRows(scope)
    [] kind = "RELATIONSHIP_EDGES" -> EdgeRows(scope)
    [] kind = "EVIDENCE"           -> EvidenceRows(scope)
    [] kind = "UNRESOLVED_ALIASES" -> MentionRows(scope)
    [] kind = "none"               -> {}
    [] OTHER                       -> Rows

-----------------------------------------------------------------------------
(* The ledger and the projections. *)

\* The append folds its event into current_state; what a rebuild lost stays lost.
Commits ==
  /\ head < MaxHead /\ head' = head + 1
  /\ content' = [content EXCEPT !["current"] = IF @ = head THEN head + 1 ELSE @]
  /\ UNCHANGED <<checkpoint, rebuilding, request>>

\* What a run that reached n saves: with nothing to apply, what its driver remembers.
Saves(p, n) ==
  \E saved \in 0..n :
    /\ n > checkpoint[p] => saved = n
    /\ checkpoint' = [checkpoint EXCEPT ![p] = saved]

\* A run of semantic_edges; an event committed after its load is left for the next.
ProjectsEdges ==
  /\ \E n \in checkpoint["edges"]..head :
       /\ Saves("edges", n)
       /\ content' = [content EXCEPT !["edges"] = IF n > @ THEN n ELSE @]
  /\ UNCHANGED <<head, rebuilding, request>>

\* A run of current_tier1 loads the ledger under its lock, and writes every row.
LoadsLedger ==
  /\ rebuilding = Null /\ rebuilding' = head
  /\ UNCHANGED <<head, content, checkpoint, request>>

\* It knows no append committed since the load, and may have written over its rows.
WritesCurrentState ==
  /\ rebuilding # Null /\ rebuilding' = Null
  /\ Saves("current", rebuilding)
  /\ \E n \in rebuilding..head : content' = [content EXCEPT !["current"] = n]
  /\ UNCHANGED <<head, request>>

-----------------------------------------------------------------------------
(* Requests. *)

\* structured_query and semantic_query, up to the guard.
Asks(kind, scope, question, asked) ==
  /\ request.pc = "idle"
  /\ \E token \in 0..head :
       request' = [NoRequest EXCEPT !.pc = "guard", !.kind = kind, !.scope = scope,
                     !.question = question, !.asked = asked, !.token = token]
  /\ UNCHANGED <<head, content, checkpoint, rebuilding>>

EdgeDerived == IF request.asked THEN RequiresEdgeGuard(request.question)
               ELSE request.kind = "RELATIONSHIP_EDGES"

\* _freshness_guard: the edges or current_state, never both.
Guarded == IF EdgeDerived THEN "edges" ELSE "current"

GuardPasses ==
  /\ request.pc = "guard"
  /\ checkpoint[Guarded] >= request.token
  /\ request' = [request EXCEPT !.pc = "read"]
  /\ UNCHANGED <<head, content, checkpoint, rebuilding>>

\* The guard's bounded wait ends: 503.
GuardTimesOut ==
  /\ request.pc = "guard" /\ request' = NoRequest
  /\ UNCHANGED <<head, content, checkpoint, rebuilding>>

Operation == IF request.asked THEN CompiledOp(request.question) ELSE request.kind

\* A question carries a continuity, and answer hands none to its operation.
OperationScope == IF request.asked THEN Anywhere ELSE request.scope

\* A conflicting row has no column `state` to report: 500.
ContradictionFails ==
  /\ request.pc = "read" /\ Operation = "CONTRADICTIONS"
  /\ ~ Unmappable(Operation, OperationScope)
  /\ request' = [request EXCEPT !.pc = "failed"]
  /\ UNCHANGED <<head, content, checkpoint, rebuilding>>

\* The rows are those before the page is cut.  An entity question is also put to the
\* hybrid search, which no guard waited for: its hits are the alternatives.
Reads ==
  /\ request.pc = "read"
  /\ IF Unmappable(Operation, OperationScope) THEN request' = [request EXCEPT !.pc = "refused"]
     ELSE \E searched \in IF request.asked /\ Operation = "ENTITY" THEN 0..head ELSE {0} :
       request' =
         [request EXCEPT !.pc = "answered", !.kind = Operation, !.hybridAt = searched,
            !.answer = IF Operation = "CONTRADICTIONS" THEN {}
                       ELSE AnswerOf(Operation, OperationScope),
            !.at = IF StoreOf(Operation) = "tables" THEN head ELSE content[StoreOf(Operation)]]
  /\ UNCHANGED <<head, content, checkpoint, rebuilding>>

Done ==
  /\ request.pc \in {"answered", "refused", "failed"} /\ request' = NoRequest
  /\ UNCHANGED <<head, content, checkpoint, rebuilding>>

\* The scopes of the requests that a question can carry too.
QuestionScopes ==
  {s \in {r.scope : r \in Requests} \cup {Anywhere} : s = [Anywhere EXCEPT !.continuity = s.continuity]}

RequestNext ==
  \/ Commits \/ ProjectsEdges \/ LoadsLedger \/ WritesCurrentState
  \/ \E r \in Requests : Asks(r.kind, r.scope, NoQuestion, FALSE)
  \/ \E q \in Questions, scope \in QuestionScopes : Asks("none", scope, q, TRUE)
  \/ GuardPasses \/ GuardTimesOut \/ ContradictionFails \/ Reads \/ Done

-----------------------------------------------------------------------------
(* Traversal: breadth first over the rows, remembering the edges seen. *)

DepthCap == 4

TraversalDepth(depth) == IF depth > DepthCap THEN DepthCap ELSE depth

\* A row is known by its object and its predicate, one without object by its subject.
SeenKey(row) == IF row.object = Null THEN <<row.subject, row.predicate>>
                ELSE <<row.object, row.predicate>>

Seen(hits) == {h.key : h \in hits}

TraversalStarts(start, depth) ==
  /\ traversal.pc = "idle"
  /\ traversal' = [NoTraversal EXCEPT !.pc = "levels", !.start = start,
                     !.depth = TraversalDepth(depth), !.frontier = {start}]
  /\ UNCHANGED graph

Matching == {r \in graph : r.subject \in traversal.frontier}

\* The LIMIT of a level's SELECT: without ORDER BY, any rows of that number.
Scans(rows) ==
  /\ rows \subseteq Matching
  /\ IF Cardinality(Matching) <= LevelLimit THEN rows = Matching
     ELSE Cardinality(rows) = LevelLimit

\* One level; one with an empty frontier adds nothing, where the code breaks off.
Level(rows) ==
  /\ traversal.pc = "levels" /\ traversal.d < traversal.depth
  /\ Scans(rows)
  /\ LET new == {r \in rows : SeenKey(r) \notin Seen(traversal.hits)}
     IN  traversal' = [traversal EXCEPT !.d = @ + 1, !.cut = @ \/ rows # Matching,
                        !.hits = @ \cup {[key |-> SeenKey(r), depth |-> traversal.d + 1] : r \in new},
                        !.frontier = {r.object : r \in new} \ {Null}]
  /\ UNCHANGED graph

Least(a, b) == IF a < b THEN a ELSE b

\* results[offset : offset + limit]: the levels in order, in any order inside one.
PageOf(hits, shape, page) ==
  \E before \in SUBSET hits :
    /\ page \subseteq hits \ before
    /\ Cardinality(before) = Least(shape.offset, Cardinality(hits))
    /\ Cardinality(page) = Least(shape.limit, Cardinality(hits) - Cardinality(before))
    /\ \A h \in before, i \in hits \ before : h.depth <= i.depth
    /\ \A h \in page, i \in hits \ (before \cup page) : h.depth <= i.depth

TraversalEnds ==
  /\ traversal.pc = "levels" /\ traversal.d = traversal.depth
  /\ \E shape \in PageShapes, page \in SUBSET traversal.hits :
       /\ PageOf(traversal.hits, shape, page)
       /\ traversal' = [traversal EXCEPT !.pc = "done", !.page = page]
  /\ UNCHANGED graph

TraversalLeaves ==
  /\ traversal.pc = "done" /\ traversal' = NoTraversal
  /\ UNCHANGED graph

TraversalNext ==
  \/ \E start \in {r.subject : r \in graph}, depth \in 0..DepthCap + 1 :
       TraversalStarts(start, depth)
  \/ \E rows \in SUBSET Matching : Level(rows)
  \/ TraversalEnds \/ TraversalLeaves

QueryNext ==
  \/ RequestNext /\ UNCHANGED traversalVars
  \/ TraversalNext /\ UNCHANGED requestVars

QuerySpec == QueryInit /\ [][QueryNext]_queryVars

-----------------------------------------------------------------------------
\* An answer from the edges, and one from current_state to a request that names
\* no relation, reflects the token of the caller: whatever a question compiles to,
\* an operation on the edges waited for them, and a rebuild that writes over later
\* appends takes back nothing a guard has let through.
AnswersReachToken ==
  /\ request.pc = "answered"
  /\ StoreOf(request.kind) = "current" => ~ request.question.relation
  => request.at >= request.token

\* The scope of a structured request is honoured or refused, never ignored: every
\* row of an answer lies in the continuity asked for, overlaps the time asked for
\* and is at the place.
ScopeNeverIgnored ==
  request.pc = "answered" /\ ~ request.asked =>
    \A r \in request.answer :
      /\ request.scope.continuity \in {Null, r.continuity}
      /\ request.scope.place \in {Null, r.place}
      /\ \/ request.scope.from = Null
         \/ r.to # Null /\ r.to >= request.scope.from
      /\ \/ request.scope.to = Null
         \/ r.from # Null /\ r.from <= request.scope.to

\* The refs within n steps of a ref in a graph, by definition, and their edges.
Within(arcs, start, n) ==
  LET reach[k \in 0..n] ==
        IF k = 0 THEN {start}
        ELSE reach[k - 1] \cup ({r.object : r \in {x \in arcs : x.subject \in reach[k - 1]}} \ {Null})
  IN  reach[n]

EdgesOf(arcs, refs) == {SeenKey(r) : r \in {x \in arcs : x.subject \in refs}}

\* A traversal reports edges of refs before the depth it read, none deeper than the
\* cap; and while no level was cut, all of them, each at its distance from the
\* start, cycles and rows met twice included.
TraversalIsBoundedReach ==
  /\ traversal.page \subseteq traversal.hits
  /\ traversal.d <= DepthCap
  /\ \A h \in traversal.hits :
       /\ h.depth \in 1..traversal.d
       /\ h.key \in EdgesOf(graph, Within(graph, traversal.start, h.depth - 1))
  /\ ~ traversal.cut =>
       \A k \in 1..traversal.d :
         EdgesOf(graph, Within(graph, traversal.start, k - 1)) =
           Seen({h \in traversal.hits : h.depth <= k})

\* An answer is as fresh as the caller's token, inside the scope asked for, and
\* a traversal is the reach of its start within the depth.
AnswersHonoured ==
    /\ AnswersReachToken
    /\ ScopeNeverIgnored
    /\ TraversalIsBoundedReach
================================================================================
