----------------------------- MODULE Reconciliation -----------------------------
(***************************************************************************)
(* SEMANTIC_RECONCILIATION: the typed observations of one source, mapped   *)
(* onto the identities ENTITY_RESOLUTION has committed, become assertions. *)
(* The mapping (reconciliation/reconciler.py) is pure; the stage appends   *)
(* its events one transaction each and without an idempotency key, so a    *)
(* retried stage appends them all again.                                   *)
(*                                                                         *)
(* An observation is [kind, subject, object, conf, st, rel]: surfaces are   *)
(* names, confidences are in tenths.                                       *)
(***************************************************************************)
EXTENDS Integers, Sequences, FiniteSets, SequencesExt

CONSTANTS
  Analyses,       \* committed analyses: sequences of observations
  Canonicals,     \* canonical refs, in the order their rows are read
  Labels,         \* [Canonicals -> display label]
  AliasNames,     \* [Canonicals -> sequence of aliases]
  MaxReconRuns,   \* bound: stage runs
  MaxIdentitySteps\* bound: changes of identities and user decisions

ObservationKinds == {"trait", "mention", "alias", "speech", "relation"}

ASSUME ReconConstants ==
  /\ Canonicals \in Seq(Range(Canonicals))
  /\ \A r \in Range(Canonicals) : AliasNames[r] \in Seq(Range(AliasNames[r]))
  /\ \A a \in Analyses : a \in Seq(Range(a)) /\ \A obs \in Range(a) : obs.kind \in ObservationKinds

VARIABLES
  observed,     \* the observations of the source
  canon,        \* CANONICAL_IDENTITY rows: ref -> metadata and row columns
  pending,      \* events the running stage has still to append
  ran,          \* "idle", "running"
  asserted,     \* what the completed or current run has appended
  fresh,        \* ghost: nothing but the latest run has touched the facts
  factRows,     \* Tier-0 rows: <<subject, predicate>> -> row
  reconRuns, identitySteps

reconVars == <<observed, canon, pending, ran, asserted, fresh, factRows, reconRuns,
               identitySteps>>

NoRel == "untyped"
Known(ref) == ref \in DOMAIN canon

ReconInit ==
  /\ observed \in Analyses /\ canon = <<>> /\ pending = <<>> /\ ran = "idle"
  /\ asserted = {} /\ fresh = FALSE /\ factRows = <<>> /\ reconRuns = 0 /\ identitySteps = 0

-----------------------------------------------------------------------------
(* The committed resolution, read from the rows' metadata. *)

Active(r) == Known(r) /\ canon[r].state # "INVALIDATED"
Committed == {r \in Range(Canonicals) : Active(r)}

\* The one whose row is read first.
FirstRead(refs) == Canonicals[Min({i \in DOMAIN Canonicals : Canonicals[i] \in refs})]

\* Labels before aliases; the first identity that claims a surface has it.  A
\* surface nobody claims stands for itself.
RefOfSurface(s) ==
  LET byLabel == {r \in Committed : Labels[r] = s}
      byAlias == {r \in Committed : s \in Range(AliasNames[r])}
  IN  IF byLabel # {} THEN FirstRead(byLabel)
      ELSE IF byAlias # {} THEN FirstRead(byAlias) ELSE s

\* _build_ceiling_refs.
CeilingRefs ==
  {r \in Committed : canon[r].class # "accepted" /\ canon[r].metaState # "USER_CONFIRMED"}

Promote(conf, st) ==
  IF st \in {"AMBIGUOUS", "CONFLICTING"} THEN st
  ELSE IF conf >= 8 THEN "CONFIRMED"
  ELSE IF conf >= 5 THEN "PROBABLE"
  ELSE "UNKNOWN"

\* _state_for: the certainty of an identity caps what is said about it.
StateFor(e) ==
  LET st == Promote(e.conf, e.st)
  IN  IF e.subject \in CeilingRefs /\ st = "CONFIRMED" THEN "PROBABLE" ELSE st

-----------------------------------------------------------------------------
(* What each observation says. *)

Registered == {"RELATED_TO", "SIBLING_OF", "HAS_EMOTION"}   \* PREDICATE_VOCABULARY
WellFormed == Registered \cup {"MENTOR_OF", "RIVAL_OF"}      \* the syntax gate

\* _relationship_target: predicate and type, or <<>> for evidence only.
RelationshipTarget(pred, rel) ==
  LET type == IF rel \in WellFormed THEN rel ELSE NoRel
  IN  CASE pred = "RELATED_TO" -> IF type = NoRel THEN <<>> ELSE <<"RELATED_TO", type>>
        [] pred = "SIBLING_OF" -> IF type \in {NoRel, "SIBLING_OF"}
                                  THEN <<"SIBLING_OF", NoRel>> ELSE <<>>
        [] pred \in Registered \ {"RELATED_TO", "SIBLING_OF"} -> <<pred, NoRel>>
        [] pred \notin Registered ->
             IF type # NoRel THEN <<"RELATED_TO", type>>
             ELSE IF pred \in WellFormed THEN <<"RELATED_TO", pred>> ELSE <<>>

Says(pred, subject, object, obs, rel) ==
  [pred |-> pred, subject |-> subject, object |-> object, rel |-> rel,
   conf |-> obs.conf, st |-> obs.st]

Utterance(obs) == "utterance@" \o obs.object

Emits(obs) ==
  LET subject == RefOfSurface(obs.subject)
  IN CASE obs.kind = "trait"    -> <<Says("HAS_TRAIT", subject, obs.object, obs, NoRel)>>
       [] obs.kind = "mention"  -> <<Says("MENTIONED_IN", subject, obs.object, obs, NoRel)>>
       [] obs.kind = "alias"    ->
            <<Says("ALIAS_OF", RefOfSurface(obs.object), subject, obs, NoRel),
              Says("KNOWN_AS", subject, obs.object, obs, NoRel)>>
       [] obs.kind = "speech"   ->
            (IF obs.subject = "" THEN <<>>
             ELSE <<Says("SPEAKS", subject, Utterance(obs), obs, NoRel)>>)
            \o <<Says("UTTERED_IN", Utterance(obs), obs.object, obs, NoRel)>>
       [] obs.kind = "relation" ->
            LET target == RelationshipTarget(obs.pred, obs.rel)
            IN  IF target = <<>> THEN <<>>
                ELSE <<Says(target[1], subject, RefOfSurface(obs.object), obs, target[2])>>

\* The emissions of one alias: an alias has a ref of its own.
AliasEmits(r, j) ==
  LET said == [conf |-> canon[r].conf, st |-> "PROBABLE"]
  IN  <<Says("ALIAS_OF", r \o ":alias:" \o ToString(j), r, said, NoRel),
        Says("KNOWN_AS", r, AliasNames[r][j], said, NoRel)>>

\* _emit_resolution: the aliases of the committed identities.
ResolutionEmits ==
  FlattenSeq([i \in DOMAIN Canonicals |->
    IF Active(Canonicals[i])
    THEN FlattenSeq([j \in DOMAIN AliasNames[Canonicals[i]] |-> AliasEmits(Canonicals[i], j)])
    ELSE <<>>])

\* Mutant: two relationships of one pair are one assertion.
UntypedKey(e) == <<e.pred, e.subject, e.object>>
EmitKey(e) == <<e.pred, e.subject, e.object, e.rel>>

\* The first of each key, in order.
FirstOfEach(all) ==
  LET kept[n \in 0..Len(all)] ==
        IF n = 0 THEN <<>>
        ELSE IF \E e \in Range(kept[n - 1]) : EmitKey(e) = EmitKey(all[n]) THEN kept[n - 1]
        ELSE Append(kept[n - 1], all[n])
  IN  kept[Len(all)]

ObservationEmits == FlattenSeq([i \in DOMAIN observed |-> Emits(observed[i])])

\* reconcile.
Reconcile ==
  LET kept == FirstOfEach(ResolutionEmits \o ObservationEmits)
  IN  [i \in DOMAIN kept |->
         [pred |-> kept[i].pred, subject |-> kept[i].subject, object |-> kept[i].object,
          rel |-> kept[i].rel, state |-> StateFor(kept[i])]]

-----------------------------------------------------------------------------
(* The stage. *)

BeginReconciliation ==
  /\ ran = "idle" /\ reconRuns < MaxReconRuns
  /\ ran' = "running" /\ reconRuns' = reconRuns + 1
  /\ pending' = Reconcile /\ asserted' = {} /\ fresh' = TRUE
  /\ UNCHANGED <<observed, canon, factRows, identitySteps>>

FactKey(ev) == <<ev.subject, ev.pred>>
UserFact(k) == k \in DOMAIN factRows /\ factRows[k].authority = "USER_OVERRIDE"
SetFact(k, object, state, authority) ==
  [x \in DOMAIN factRows \cup {k} |->
     IF x = k THEN [object |-> object, state |-> state, authority |-> authority]
     ELSE factRows[x]]

\* The inline fold of a machine assertion (module Tier0Reducer).
FoldAssertion(ev) ==
  IF UserFact(FactKey(ev)) THEN factRows ELSE SetFact(FactKey(ev), ev.object, ev.state, "machine")

AppendNext ==
  /\ ran = "running" /\ pending # <<>>
  /\ factRows' = FoldAssertion(Head(pending))
  /\ asserted' = asserted \cup {Head(pending)}
  /\ pending' = Tail(pending)
  /\ UNCHANGED <<observed, canon, ran, fresh, reconRuns, identitySteps>>

FinishReconciliation ==
  /\ ran = "running" /\ pending = <<>> /\ ran' = "idle"
  /\ UNCHANGED <<observed, canon, pending, asserted, fresh, factRows, reconRuns, identitySteps>>

\* The worker dies; the stage is retried from the start.
ReconciliationDies ==
  /\ ran = "running" /\ pending # <<>>
  /\ ran' = "idle" /\ pending' = <<>> /\ fresh' = FALSE
  /\ UNCHANGED <<observed, canon, asserted, factRows, reconRuns, identitySteps>>

-----------------------------------------------------------------------------
(* Meanwhile. *)

IdentityStep == identitySteps < MaxIdentitySteps /\ identitySteps' = identitySteps + 1

SetCanon(r, row) == [x \in DOMAIN canon \cup {r} |-> IF x = r THEN row ELSE canon[x]]

\* An ESTABLISH of ENTITY_RESOLUTION: probable when new, accepted when seeded.
ResolutionCommits(r) ==
  /\ IdentityStep
  /\ Known(r) => canon[r].authority # "USER_OVERRIDE"
  /\ canon' = SetCanon(r, [class |-> IF Active(r) THEN "accepted" ELSE "probable",
                           metaState |-> IF Active(r) THEN "CONFIRMED" ELSE "PROBABLE",
                           state |-> IF Active(r) THEN "CONFIRMED" ELSE "PROBABLE",
                           authority |-> "machine", conf |-> 9])
  /\ fresh' = FALSE
  /\ UNCHANGED <<observed, pending, ran, asserted, factRows, reconRuns>>

\* POST /v1/entities: the metadata of an operator's identity.
OperatorCreates(r) ==
  /\ IdentityStep /\ ~Known(r)
  /\ canon' = SetCanon(r, [class |-> "ACCEPTED", metaState |-> "CONFIRMED",
                           state |-> "CONFIRMED", authority |-> "human", conf |-> 10])
  /\ fresh' = FALSE
  /\ UNCHANGED <<observed, pending, ran, asserted, factRows, reconRuns>>

\* An override of the identity that restates its metadata: the row is the
\* user's, the metadata keep their classification and state.
HumanConfirms(r) ==
  /\ IdentityStep /\ Known(r)
  /\ canon' = [canon EXCEPT ![r].authority = "USER_OVERRIDE", ![r].state = "USER_CONFIRMED"]
  /\ fresh' = FALSE
  /\ UNCHANGED <<observed, pending, ran, asserted, factRows, reconRuns>>

IdentityInvalidated(r) ==
  /\ IdentityStep /\ Known(r) /\ canon[r].authority # "USER_OVERRIDE"
  /\ canon' = [canon EXCEPT ![r].state = "INVALIDATED"]
  /\ fresh' = FALSE
  /\ UNCHANGED <<observed, pending, ran, asserted, factRows, reconRuns>>

\* A user overrides a value.
FactOverridden(k) ==
  /\ IdentityStep /\ k \in DOMAIN factRows /\ ~UserFact(k)
  /\ factRows' = SetFact(k, "by user", "USER_CONFIRMED", "USER_OVERRIDE")
  /\ UNCHANGED <<observed, canon, pending, ran, asserted, fresh, reconRuns>>

ReconNext ==
  \/ BeginReconciliation \/ AppendNext \/ FinishReconciliation \/ ReconciliationDies
  \/ \E r \in Range(Canonicals) : \/ ResolutionCommits(r) \/ OperatorCreates(r)
                                  \/ HumanConfirms(r) \/ IdentityInvalidated(r)
  \/ \E k \in DOMAIN factRows : FactOverridden(k)

ReconSpec == ReconInit /\ [][ReconNext]_reconVars

-----------------------------------------------------------------------------
Completed == ran = "idle" /\ fresh

\* An uncertain identity never carries a confirmed assertion: after a run that
\* no change of an identity overlapped, none of the rows it asserts with a
\* machine's value about a probable identity reads CONFIRMED, whatever earlier
\* runs had written there.  (A row it no longer asserts, of an identity that
\* lost its surface to another, stays as it was.)
UncertainNeverConfirmed ==
  Completed => \A k \in {FactKey(a) : a \in asserted} :
    /\ Known(k[1]) /\ canon[k[1]].class = "probable" /\ canon[k[1]].metaState = "PROBABLE"
    /\ canon[k[1]].state # "INVALIDATED" /\ factRows[k].authority = "machine"
    => factRows[k].state # "CONFIRMED"

\* A completed run has asserted every admissible observation, under the ref the
\* identities give its surfaces now; two relationships of one pair are both
\* there.
EveryObservationAsserted ==
  Completed => \A i \in DOMAIN observed : \A e \in Range(Emits(observed[i])) :
    \E a \in asserted : /\ a.pred = e.pred /\ a.subject = e.subject
                        /\ a.object = e.object /\ a.rel = e.rel

\* A completed run repairs what a run that died in the middle left behind: each
\* Tier-0 row it writes holds the last value of the run, unless a user decided.
LastValueWins ==
  Completed => \A i \in DOMAIN Reconcile : LET a == Reconcile[i] IN
    /\ ~UserFact(FactKey(a))
    /\ \A j \in i + 1..Len(Reconcile) : FactKey(Reconcile[j]) # FactKey(a)
    => factRows[FactKey(a)].object = a.object /\ factRows[FactKey(a)].state = a.state

\* The facts are the observations: none lost in deduplication, none confirmed
\* over an uncertain identity, and the last run decides their value.
ReconciliationFaithful ==
    /\ UncertainNeverConfirmed
    /\ EveryObservationAsserted
    /\ LastValueWins
==============================================================================
