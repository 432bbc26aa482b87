-------------------------- MODULE ProjectionReplay --------------------------
(***************************************************************************)
(* The Tier-1 replay driver (projections/base.py), its checkpoints, the    *)
(* poison policy and the fixed-order projection pass that production jobs  *)
(* run (jobs/production.py): semantic_edges first, then search, which      *)
(* reads the edge store and refuses to publish over a lagging one.         *)
(*                                                                         *)
(* An event is its seq and what the poison classifier makes of it; a       *)
(* projection store is the set of seqs applied to it.  One rebuild is one  *)
(* transaction under the projection's advisory lock, so it is three steps: *)
(* LockRun (lock, checkpoint), LoadEvents (the one SELECT of the ledger)   *)
(* and FinishRun (apply, finalize, save, COMMIT).  Appends are seen here   *)
(* as SemanticLedger leaves them: a seq is drawn at the insert and becomes *)
(* visible at the commit, so seqs may become visible out of order.         *)
(***************************************************************************)
EXTENDS Naturals, Sequences, FiniteSets

CONSTANTS
  Drivers,      \* ReplayDriver instances, one rebuild at a time each
  Plans,        \* the passes a driver may be asked for, as sequences of runs
  MaxAttempts,  \* bound on attempts of one pass (3 in the code)
  MaxSeq,       \* bound: seqs the ledger hands out
  MaxInFlight   \* bound: appends with a seq that are not committed yet

Projections == {"semantic_edges", "search"}

(* claim: applied; noise: anchored to a quarantined locator; authority:    *)
(* an override, correction, lock, merge, split or invalidation.            *)
Kinds == {"claim", "noise", "authority"}

LedgerEvent == [seq: 1..MaxSeq, kind: Kinds]

Run == [proj: Projections, wipe: BOOLEAN, force: BOOLEAN]

ASSUME ReplayConstants ==
  /\ MaxSeq \in Nat /\ MaxInFlight \in Nat /\ MaxAttempts \in Nat \ {0}
  /\ Plans \subseteq Seq(Run) \ {<<>>}

VARIABLES
  nextSeq,     \* the semantic_event sequence
  inflight,    \* events inserted by uncommitted appends
  ledger,      \* committed events
  checkpoint,  \* checkpoint[p]: the projection_checkpoint row of p
  store,       \* store[p]: the seqs p's tables reflect
  edgeDocs,    \* the edge events the search store's edge documents reflect
  memory,      \* memory[d]: the driver's applied_seq field
  pass         \* pass[d]: the pass driver d is in

appends == <<nextSeq, inflight, ledger>>
stores == <<checkpoint, store, edgeDocs>>
vars == <<appends, stores, memory, pass>>

Checkpoint == [exists: BOOLEAN, applied: 0..MaxSeq, paused: BOOLEAN]

NoPass == [phase |-> "idle", plan |-> <<>>, step |-> 0, attempt |-> 0,
           from |-> 0, events |-> {}]

TypeOK ==
  /\ nextSeq \in 1..(MaxSeq + 1)
  /\ inflight \subseteq LedgerEvent
  /\ ledger \subseteq LedgerEvent
  /\ checkpoint \in [Projections -> Checkpoint]
  /\ store \in [Projections -> SUBSET (1..MaxSeq)]
  /\ edgeDocs \subseteq 1..MaxSeq
  /\ memory \in [Drivers -> 0..MaxSeq]
  /\ pass \in [Drivers -> [phase: {"idle", "lock", "load", "finish"},
                           plan: Plans \cup {<<>>}, step: Nat,
                           attempt: 0..MaxAttempts, from: 0..MaxSeq,
                           events: SUBSET LedgerEvent]]

Init ==
  /\ nextSeq = 1 /\ inflight = {} /\ ledger = {}
  /\ checkpoint = [p \in Projections |->
                     [exists |-> FALSE, applied |-> 0, paused |-> FALSE]]
  /\ store = [p \in Projections |-> {}]
  /\ edgeDocs = {}
  /\ memory = [d \in Drivers |-> 0]
  /\ pass = [d \in Drivers |-> NoPass]

Seqs(events) == {e.seq : e \in events}

Last(seqs) == CHOOSE n \in seqs : \A m \in seqs : m <= n

-----------------------------------------------------------------------------
(* Appends, as the driver sees them. *)

InsertEvent ==
  /\ nextSeq <= MaxSeq
  /\ Cardinality(inflight) < MaxInFlight
  /\ \E kind \in Kinds : inflight' = inflight \cup {[seq |-> nextSeq, kind |-> kind]}
  /\ nextSeq' = nextSeq + 1
  /\ UNCHANGED <<ledger, stores, memory, pass>>

CommitEvent ==
  \E e \in inflight :
    /\ inflight' = inflight \ {e}
    /\ ledger' = ledger \cup {e}
    /\ UNCHANGED <<nextSeq, stores, memory, pass>>

AbortEvent ==
  \E e \in inflight :
    /\ inflight' = inflight \ {e}
    /\ UNCHANGED <<nextSeq, ledger, stores, memory, pass>>

-----------------------------------------------------------------------------
(* What a run makes of the events it loaded. *)

Job(d) == pass[d].plan[pass[d].step]

Rebuilds(run) == run.wipe \/ run.force

(* current_tier1 and semantic_edges are built without the poison policy;   *)
(* a forced run goes through the event that paused the projection.         *)
PoisonEnabled(run) == run.proj = "search" /\ ~run.force

(* Mutant: the event right after the checkpoint is skipped. *)
TodoPastNext(d) == {e \in pass[d].events : e.seq > pass[d].from + 1}

Todo(d) == {e \in pass[d].events : e.seq > pass[d].from}

Stops(d) ==
  IF PoisonEnabled(Job(d)) THEN {e \in Todo(d) : e.kind = "authority"} ELSE {}

Seen(d) == {e \in Todo(d) : \A stop \in Stops(d) : e.seq <= stop.seq}

Applied(d) ==
  IF PoisonEnabled(Job(d)) THEN {e \in Seen(d) : e.kind = "claim"} ELSE Seen(d)

(* The driver's applied_seq when the loop ends; with nothing to see it is  *)
(* whatever the driver object held before.                                 *)
Target(d) == IF Seen(d) = {} THEN memory[d] ELSE Last(Seqs(Seen(d)))

-----------------------------------------------------------------------------
(* The advisory lock, held from LockRun to the end of the transaction. *)

Holds(d, p) == pass[d].phase \in {"load", "finish"} /\ Job(d).proj = p

(* Mutant: rebuilds of one projection are not serialized. *)
AlwaysFree(d, p) == d \in Drivers

LockFree(d, p) == \A other \in Drivers \ {d} : ~Holds(other, p)

NextStep(d) ==
  pass' = [pass EXCEPT ![d] =
    IF @.step < Len(@.plan)
    THEN [@ EXCEPT !.phase = "lock", !.step = pass[d].step + 1, !.from = 0, !.events = {}]
    ELSE NoPass]

BeginPass(d) ==
  /\ pass[d].phase = "idle"
  /\ \E plan \in Plans :
       pass' = [pass EXCEPT ![d] = [NoPass EXCEPT
                  !.phase = "lock", !.plan = plan, !.step = 1, !.attempt = 1]]
  /\ UNCHANGED <<appends, stores, memory>>

(* Mutant: a paused projection is resumed by any run. *)
LockAnyRun(d) ==
  /\ pass[d].phase = "lock"
  /\ LockFree(d, Job(d).proj)
  /\ pass' = [pass EXCEPT ![d].phase = "load",
       ![d].from = IF Rebuilds(Job(d)) THEN 0 ELSE checkpoint[Job(d).proj].applied]
  /\ UNCHANGED <<appends, stores, memory>>

(* A paused projection stays paused until a forced run. *)
LockRun(d) ==
  LET cp == checkpoint[Job(d).proj] IN
  /\ pass[d].phase = "lock"
  /\ LockFree(d, Job(d).proj)
  /\ \/ /\ cp.paused /\ ~Job(d).force
        /\ memory' = [memory EXCEPT ![d] = cp.applied]
        /\ NextStep(d)
     \/ /\ ~cp.paused \/ Job(d).force
        /\ pass' = [pass EXCEPT ![d].phase = "load",
             ![d].from = IF Rebuilds(Job(d)) THEN 0 ELSE cp.applied]
        /\ UNCHANGED memory
  /\ UNCHANGED <<appends, stores>>

LoadEvents(d) ==
  /\ pass[d].phase = "load"
  /\ pass' = [pass EXCEPT ![d].phase = "finish", ![d].events = ledger]
  /\ UNCHANGED <<appends, stores, memory>>

(* Mutant: search publishes over whatever edge store it finds. *)
EdgesNeverLag(d) == d \notin Drivers

(* The search finalize: the edge checkpoint trails what search replayed.   *)
EdgesLag(d) ==
  /\ Job(d).proj = "search" /\ Stops(d) = {}
  /\ checkpoint["semantic_edges"].exists
  /\ checkpoint["semantic_edges"].applied < Target(d)

(* Mutant: finalize waits for every rebuild in flight, not only edges. *)
FinalizeAlone(d) ==
  /\ pass[d].phase = "finish"
  /\ \A p \in Projections : LockFree(d, p)

FinalizeReady(d) ==
  /\ pass[d].phase = "finish"
  /\ Job(d).proj = "search" => LockFree(d, "semantic_edges")

FinishRun(d) ==
  LET p == Job(d).proj IN
  /\ FinalizeReady(d) /\ ~EdgesLag(d)
  /\ checkpoint' = [checkpoint EXCEPT ![p] =
       [exists |-> TRUE, applied |-> Target(d), paused |-> Stops(d) # {}]]
  /\ store' = [store EXCEPT ![p] =
       (IF Rebuilds(Job(d)) THEN {} ELSE @) \cup Seqs(Applied(d))]
  /\ edgeDocs' = IF p = "search" THEN store["semantic_edges"] ELSE edgeDocs
  /\ memory' = [memory EXCEPT ![d] = Target(d)]
  /\ NextStep(d)
  /\ UNCHANGED appends

(* EdgeProjectionLagError rolls the run back; the pass starts over, at most *)
(* MaxAttempts times.                                                       *)
RetryPass(d) ==
  /\ FinalizeReady(d) /\ EdgesLag(d)
  /\ memory' = [memory EXCEPT ![d] = Target(d)]
  /\ pass' = [pass EXCEPT ![d] =
       IF Len(@.plan) > 1 /\ @.attempt < MaxAttempts
       THEN [@ EXCEPT !.phase = "lock", !.step = 1, !.attempt = pass[d].attempt + 1,
                      !.from = 0, !.events = {}]
       ELSE NoPass]
  /\ UNCHANGED <<appends, stores>>

(* A database error rolls the run back and ends the pass. *)
FailRun(d) ==
  /\ pass[d].phase = "finish"
  /\ memory' \in {memory, [memory EXCEPT ![d] = Target(d)]}
  /\ pass' = [pass EXCEPT ![d] = NoPass]
  /\ UNCHANGED <<appends, stores>>

(* The process dies; its successor has a new driver. *)
Crash(d) ==
  /\ pass[d].phase # "idle"
  /\ memory' = [memory EXCEPT ![d] = 0]
  /\ pass' = [pass EXCEPT ![d] = NoPass]
  /\ UNCHANGED <<appends, stores>>

-----------------------------------------------------------------------------
DriverStep(d) == LockRun(d) \/ LoadEvents(d) \/ FinishRun(d) \/ RetryPass(d)

AppendStep == InsertEvent \/ CommitEvent \/ AbortEvent

Next ==
  \/ AppendStep
  \/ \E d \in Drivers : BeginPass(d) \/ DriverStep(d) \/ FailRun(d) \/ Crash(d)

Spec == Init /\ [][Next]_vars

(* A driver in a pass keeps executing it.  Fairness is strong because       *)
(* PostgreSQL queues the waiters of an advisory lock in arrival order: a    *)
(* run that waits is granted the lock ahead of later rebuilds.              *)
FairSpec == Spec /\ \A d \in Drivers : SF_vars(DriverStep(d))

-----------------------------------------------------------------------------
(* A checkpoint covers what it claims: every committed event up to it is in *)
(* the store, save the noise the policy skips and, while the projection is  *)
(* paused, the authority events.                                            *)
CheckpointCovered ==
  \A p \in Projections : \A e \in ledger :
    /\ checkpoint[p].exists /\ e.seq <= checkpoint[p].applied
    /\ \/ p = "semantic_edges"
       \/ e.kind = "claim"
       \/ e.kind = "authority" /\ ~checkpoint[p].paused
    => e.seq \in store[p]

(* A rebuild that pauses its projection has applied neither the event that  *)
(* paused it nor anything after it.                                         *)
StopsAtAuthority ==
  [][\A d \in Drivers, p \in Projections :
       /\ Holds(d, p) /\ Rebuilds(Job(d))
       /\ checkpoint'[p] # checkpoint[p] /\ checkpoint'[p].paused
       => \A n \in store'[p] : n < checkpoint'[p].applied]_stores

(* Only a forced run takes a projection out of its pause.                   *)
PausedUntilForced ==
  [][\A p \in Projections : checkpoint[p].paused /\ ~checkpoint'[p].paused =>
       \E d \in Drivers : Holds(d, p) /\ Job(d).force]_checkpoint

(* A rebuild that pauses stops short of the event it pauses at, and nothing *)
(* but a forced run ends the pause.                                         *)
AuthorityPauses ==
  /\ StopsAtAuthority
  /\ PausedUntilForced

(* A checkpoint never moves backwards ("an older rebuild may finish later   *)
(* and regress the checkpoint").                                            *)
CheckpointNeverRegresses ==
  [][\A p \in Projections : checkpoint[p].applied <= checkpoint'[p].applied]_checkpoint

(* The search store never shows edge documents older than its checkpoint:   *)
(* every event it claims to reflect had reached the edge store it read.     *)
EdgeDocsCoverCheckpoint ==
  checkpoint["search"].exists /\ ~checkpoint["search"].paused =>
    \A e \in ledger : e.seq <= checkpoint["search"].applied => e.seq \in edgeDocs

(* The production pass keeps its bookkeeping well formed, and search never  *)
(* publishes documents over edges that lag behind them.                     *)
ReplaySafe ==
  /\ TypeOK
  /\ EdgeDocsCoverCheckpoint

(* Every pass ends, whatever locks it waits for and however often the edge  *)
(* store lags.                                                              *)
PassEnds == \A d \in Drivers : pass[d].phase # "idle" ~> pass[d].phase = "idle"
=============================================================================
