----------------------------- MODULE ActiveEdges -----------------------------
(***************************************************************************)
(* The multi-edge read side: ActiveSemanticEdgeProjectionBuilder folds the *)
(* ledger into active_semantic_edge, one row per fact.  A run of the       *)
(* replay driver folds every event into a fresh canonical state (here its  *)
(* lock map and rows, by Tier0Reducer) and applies to the edges those      *)
(* behind the checkpoint, or all of them after a wipe.                     *)
(*                                                                         *)
(* Confidence, support, derivation and the state of an assertion are       *)
(* carried along and decide nothing; the relationship type and the scope   *)
(* do.                                                                     *)
(***************************************************************************)
EXTENDS Tier0Reducer, Sequences

CONSTANTS
  RelTypes,     \* relationship types, beside None for untyped facts
  MaxEdgeEvents \* bound: events in the ledger

\* None stands for "no predicate" in an event.
ASSUME NoneIsNoPredicate == None \notin Predicates

VARIABLES
  history,      \* the ledger: events, the index is the seq
  edges,        \* rows of active_semantic_edge
  edgeSeq,      \* applied_seq of the semantic_edges checkpoint
  tier0Rows     \* current_state, which every append folds inline

edgeVars == <<history, edges, edgeSeq, tier0Rows>>

Scopes == {"GLOBAL", "SOURCE"}

\* An event: the reducer's fields and what the edges read beyond them.  Only
\* an assertion has a scope of its own; a correction may name a prior value.
Command(type, ent, pred, val, auth, rel, scope, prior) ==
  [type |-> type, ent |-> ent, pred |-> pred, val |-> val, auth |-> auth,
   st |-> IF type = "SemanticAsserted" THEN "PROBABLE" ELSE None,
   rel |-> rel, scope |-> scope, prior |-> prior]

\* _assertion_fact_id and _override_fact_id: authority and seq are no part.
FactId(ev) ==
  IF ev.type = "SemanticAsserted"
  THEN <<ev.type, ev.ent, ev.pred, ev.val, ev.rel, ev.scope>>
  ELSE <<ev.type, ev.ent, ev.pred, ev.val, ev.rel>>

Objects == Values \cup {None}
Types == RelTypes \cup {None}

\* The reconciler asserts in the scope of its source, an operator in any.
Assertions ==
  {Command("SemanticAsserted", e, p, v, a[1], r, a[2], None) :
     e \in Entities, p \in Predicates, v \in Objects, r \in Types,
     a \in {<<"machine", "SOURCE">>} \cup ({"operator"} \X Scopes)}

Overrides ==
  {Command("OverrideApplied", e, p, v, "USER_OVERRIDE", r, "GLOBAL", None) :
     e \in Entities, p \in Predicates, v \in Objects, r \in Types}

Corrections(priors) ==
  {Command("CorrectionApplied", e, p, v, "USER_OVERRIDE", r, "GLOBAL", q) :
     e \in Entities, p \in Predicates, v \in Objects, r \in Types, q \in priors}

\* A job invalidates all types, a claim's invalidation names a predicate.
Invalidations ==
  {Command("Invalidated", e, x[1], None, None, x[2], s, None) :
     e \in Entities, s \in Scopes, x \in {<<None, None>>} \cup (Predicates \X Types)}

FactIds == {FactId(ev) : ev \in Assertions \cup Overrides \cup Corrections({None})}

\* What SemanticCommandService appends.  The prior of a correction is an
\* object or the id of a fact.
Commands ==
  Assertions \cup Overrides \cup Corrections(Objects \cup FactIds) \cup Invalidations
  \cup {Command("ContradictionRecorded", e, p, None, None, r, "GLOBAL", None) :
     e \in Entities, p \in Predicates, r \in Types}
  \cup {Command(t, e, None, None, None, None, "GLOBAL", None) :
     t \in LockTypes, e \in Entities}

Edge(ev, n) ==
  [fact |-> FactId(ev), ent |-> ev.ent, pred |-> ev.pred, val |-> ev.val,
   rel |-> ev.rel, scope |-> ev.scope,
   auth |-> IF ev.type = "SemanticAsserted" THEN ev.auth ELSE "USER_OVERRIDE",
   state |-> IF ev.type = "SemanticAsserted" THEN ev.st ELSE "USER_CONFIRMED",
   active |-> TRUE, seq |-> n]

\* _upsert: the row of a fact is rewritten, active again.
Upsert(rows, edge) == {e \in rows : e.fact # edge.fact} \cup {edge}

Deactivate(rows, hits, n) ==
  {IF e.active /\ e \in hits THEN [e EXCEPT !.active = FALSE, !.seq = n] ELSE e : e \in rows}

\* A typed command touches the edges of its relationship type only.
SameType(ev, e) == ev.rel = None \/ e.rel = ev.rel

\* Mutant: a decision supersedes what was asserted, not what the user decided.
SupersedeMachine(rows, ev, n) ==
  LET hits == {e \in rows : /\ e.ent = ev.ent /\ e.pred = ev.pred
                            /\ SameType(ev, e) /\ e.auth # "USER_OVERRIDE"}
  IN Deactivate(rows, hits, n)

Supersede(rows, ev, n) ==
  LET hits == {e \in rows : /\ e.ent = ev.ent /\ e.pred = ev.pred /\ SameType(ev, e)
                            /\ ev.prior \in {None, e.val, e.fact}}
  IN Deactivate(rows, hits, n)

InvalidateEdges(rows, ev, n) ==
  LET hits == {e \in rows : /\ e.ent = ev.ent /\ (ev.pred = None \/ e.pred = ev.pred)
                            /\ e.scope = ev.scope /\ SameType(ev, e)}
  IN Deactivate(rows, hits, n)

MarkConflicting(rows, ev, n) ==
  {IF e.active /\ e.ent = ev.ent /\ e.pred = ev.pred /\ SameType(ev, e)
   THEN [e EXCEPT !.state = "CONFLICTING", !.seq = n] ELSE e : e \in rows}

\* apply: one event, under the lock map the driver has folded up to it.  Only
\* assertions, overrides and corrections consult the locks.
ApplyEdge(rows, ev, n, locks) ==
  CASE ev.type = "SemanticAsserted" /\ ~locks[ev.ent] -> Upsert(rows, Edge(ev, n))
    [] ev.type \in {"OverrideApplied", "CorrectionApplied"} /\ ~locks[ev.ent] ->
         LET rest == Supersede(rows, ev, n)
         IN IF ev.val = None THEN rest ELSE Upsert(rest, Edge(ev, n))
    [] ev.type = "Invalidated" -> InvalidateEdges(rows, ev, n)
    [] ev.type = "ContradictionRecorded" -> MarkConflicting(rows, ev, n)
    [] OTHER -> rows

\* Mutant: a run folds only the events it applies, as its checkpoint suggests.
FoldBehindCheckpoint(events, from) == from
\* The canonical fold starts from an empty state in every run.
FoldFrom(events, from) == 0

\* The loop body of _run_locked: reduce, then apply when behind the checkpoint.
EdgeStep(acc, events, n, from) ==
  LET s == IF n > FoldFrom(events, from) THEN Reduce(acc.state, events[n], n) ELSE acc.state
  IN [state |-> s,
      rows  |-> IF n > from THEN ApplyEdge(acc.rows, events[n], n, s.locks) ELSE acc.rows]

\* What a run over the ledger goes through, event by event.
EdgeFold(events, rows, from) ==
  LET fold[n \in 0..Len(events)] ==
        IF n = 0 THEN [state |-> EmptyState, rows |-> rows]
        ELSE EdgeStep(fold[n - 1], events, n, from)
  IN fold

Rebuild(events, rows, from) == EdgeFold(events, rows, from)[Len(events)].rows

EdgeInit == history = <<>> /\ edges = {} /\ edgeSeq = 0 /\ tier0Rows = EmptyState

\* A correction aims at everything, or at an object or a fact of the ledger.
HasAim(ev) ==
  \/ ev.prior = None
  \/ \E n \in DOMAIN history : ev.prior = history[n].val \/ ev.prior = FactId(history[n])

\* One append of a command, with its inline fold (module SemanticLedger).
AppendCommand(ev) ==
  /\ Len(history) < MaxEdgeEvents
  /\ HasAim(ev)
  /\ history' = Append(history, ev)
  /\ tier0Rows' = Reduce(tier0Rows, ev, Len(history'))
  /\ UNCHANGED <<edges, edgeSeq>>

\* A run of the driver: wipe and apply all, or apply behind the checkpoint.
RunEdges(wipe) ==
  /\ edgeSeq < Len(history) \/ wipe
  /\ edges' = IF wipe THEN Rebuild(history, {}, 0) ELSE Rebuild(history, edges, edgeSeq)
  /\ edgeSeq' = Len(history)
  /\ UNCHANGED <<history, tier0Rows>>

EdgeNext == (\E ev \in Commands : AppendCommand(ev)) \/ (\E wipe \in BOOLEAN : RunEdges(wipe))

EdgeSpec == EdgeInit /\ [][EdgeNext]_edgeVars

-----------------------------------------------------------------------------

\* The edges are a function of the ledger up to their checkpoint, however the
\* runs were cut and whether any of them wiped: an incremental run sees the
\* locks that were taken before its checkpoint.
EdgesAreReplay == edges = Rebuild(SubSeq(history, 1, edgeSeq), {}, 0)

\* The two read sides agree on what the user decided: the value of a Tier-0
\* row that an override or a correction won is among the active edges with
\* the user's authority, unless the entity was invalidated after it (Tier-0
\* keeps a user's winner then, the edges do not).
UserWinnerIsActive ==
  edgeSeq = Len(history) =>
    \A k \in RowKeys : LET row == tier0Rows.rows[k] IN
      row # NoRow /\ row.authority = "USER_OVERRIDE" /\ row.object # None =>
        \/ \E e \in edges : /\ e.ent = k[1] /\ e.pred = k[2] /\ e.val = row.object
                            /\ e.active /\ e.auth = "USER_OVERRIDE"
        \/ \E n \in DOMAIN history :
             n > row.seq /\ history[n].type = "Invalidated" /\ history[n].ent = k[1]

\* A user decision replaces the one before it: without corrections aimed at
\* one value or fact, one entity, predicate and relationship type has at most one
\* active user edge.
OneUserEdge ==
  \/ \E n \in DOMAIN history : history[n].prior # None
  \/ \A e, f \in {e \in edges : e.active /\ e.auth = "USER_OVERRIDE"} :
       <<e.ent, e.pred, e.rel>> = <<f.ent, f.pred, f.rel>> => e = f

\* An invalidation reaches every edge of its scope and type: one that stays
\* active was asserted, or decided, after it.
InvalidatedStaysDown ==
  \A n \in 1..edgeSeq : LET ev == history[n] IN
    ev.type = "Invalidated" =>
      \A e \in edges :
        /\ e.active /\ e.ent = ev.ent /\ ev.pred \in {None, e.pred}
        /\ e.scope = ev.scope /\ ev.rel \in {None, e.rel}
        => e.seq > n

\* The active edges of a fact follow the decisions about it: the user's last
\* value is there alone, and an invalidated edge comes back only by a new
\* assertion.
EdgesFollowDecisions ==
    /\ UserWinnerIsActive
    /\ OneUserEdge
    /\ InvalidatedStaysDown
==============================================================================
