------------------------ MODULE ProjectionReplayProofs ------------------------
(***************************************************************************)
(* Proofs about ProjectionReplay for any number of drivers, any passes and *)
(* any number of appends: the bookkeeping of the passes, the advisory      *)
(* lock, the pause at authority events, the monotone checkpoint of wiping  *)
(* passes, and, when seqs become visible in order, that checkpoints and    *)
(* edge documents cover what they claim.                                   *)
(*                                                                         *)
(* Then about ReadYourWrites, for any number of readers and guards' slots: *)
(* no exit of the guard loses a slot, and an admitted read sees the write  *)
(* whose token it carries, as long as seqs become visible in order.  A     *)
(* step of a reader stutters in ProjectionReplay, whose facts carry over.  *)
(***************************************************************************)
EXTENDS ReadYourWrites, FiniteSetTheorems, WellFoundedInduction, TLAPS

(* A driver in a pass is at one of the runs of its plan.                   *)
PassInPlan ==
  \A d \in Drivers : pass[d].phase # "idle" =>
    pass[d].plan \in Plans /\ pass[d].step \in 1..Len(pass[d].plan)

(* The advisory lock: one driver at a time is inside a run of a projection. *)
OneHolder ==
  \A d1, d2 \in Drivers, p \in Projections :
    Holds(d1, p) /\ Holds(d2, p) => d1 = d2

(* A seq names one event, and none is drawn twice.                         *)
SeqsDistinct ==
  /\ \A e \in ledger \cup inflight : e.seq < nextSeq
  /\ \A e, f \in ledger \cup inflight : e.seq = f.seq => e = f
  /\ ledger \cap inflight = {}

Inside(d) == pass[d].phase \in {"load", "finish"}

(* What a run decided under the lock still holds when it commits: nobody    *)
(* else has moved its checkpoint.                                           *)
StartHolds ==
  \A d \in Drivers : Inside(d) =>
    /\ pass[d].from = IF Rebuilds(Job(d)) THEN 0 ELSE checkpoint[Job(d).proj].applied
    /\ checkpoint[Job(d).proj].paused => Job(d).force

Known(n, events) == n = 0 \/ \E e \in events : e.seq = n

(* Checkpoints and the drivers' fields name committed seqs only, and a run  *)
(* has loaded those that its checkpoint and its driver named.               *)
NamesCommitted ==
  /\ \A p \in Projections : Known(checkpoint[p].applied, ledger)
  /\ \A p \in Projections : ~checkpoint[p].exists => checkpoint[p].applied = 0
  /\ \A d \in Drivers : Known(memory[d], ledger)
  /\ \A d \in Drivers : pass[d].phase = "finish" =>
       /\ pass[d].events \subseteq ledger
       /\ Known(memory[d], pass[d].events)
       /\ Known(checkpoint[Job(d).proj].applied, pass[d].events)

ReplayInv ==
  /\ TypeOK
  /\ PassInPlan
  /\ OneHolder
  /\ SeqsDistinct
  /\ StartHolds
  /\ NamesCommitted

(* Seqs become visible in the order they were drawn.  PostgreSQL does not   *)
(* promise it of two overlapping appends.                                   *)
AppendsInOrder == \A e \in inflight, f \in ledger : f.seq < e.seq

(* What a run has not loaded is newer than all it has.                      *)
LoadedPrefix ==
  \A d \in Drivers : pass[d].phase = "finish" =>
    \A e \in ledger \ pass[d].events, f \in pass[d].events : f.seq < e.seq

CoverInv == LoadedPrefix /\ CheckpointCovered

(* Every pass that publishes search has been through the edges before.      *)
EdgesFirst ==
  \A plan \in Plans : \A i \in DOMAIN plan :
    plan[i].proj = "search" => \E j \in 1..(i - 1) : plan[j].proj = "semantic_edges"

EdgesDone ==
  /\ ~checkpoint["semantic_edges"].paused
  /\ \A d \in Drivers : pass[d].phase # "idle" =>
       \A j \in 1..(pass[d].step - 1) :
         pass[d].plan[j].proj = "semantic_edges" => checkpoint["semantic_edges"].exists

(* Every run of every pass starts from nothing and ignores the policy, as   *)
(* the runs of the production pass do.                                      *)
WipingPlans ==
  \A plan \in Plans : \A i \in DOMAIN plan : Rebuilds(plan[i]) /\ ~PoisonEnabled(plan[i])

(* At most one append is in flight.                                         *)
Serial == \A e, f \in inflight : e = f

-----------------------------------------------------------------------------
(* The greatest and the least of a non-empty bounded set of seqs.          *)
LEMMA LeastSeq ==
  ASSUME NEW S \in SUBSET Nat, S # {}
  PROVE  \E i \in S : \A j \in S : i <= j
<1>1. IsWellFoundedOn(OpToRel(<, Nat), Nat)
  BY NatLessThanWellFounded
<1>2. PICK x \in S : \A y \in S : ~ (<<y, x>> \in OpToRel(<, Nat))
  BY <1>1, WFMin
<1>3. \A y \in S : ~ (y < x)
  BY <1>2 DEF OpToRel
<1>4. QED
  BY <1>3

LEMMA LastSeq ==
  ASSUME NEW n \in Nat, NEW S \in SUBSET (1..n), S # {}
  PROVE  Last(S) \in S /\ \A j \in S : j <= Last(S)
<1> DEFINE T == {n - i : i \in S}
<1>1. T \subseteq Nat /\ T # {}
  <2>1. \A i \in S : n - i \in Nat
    OBVIOUS
  <2>2. PICK i \in S : TRUE
    OBVIOUS
  <2>3. n - i \in T
    BY <2>2
  <2>4. QED
    BY <2>1, <2>3
<1>2. PICK x \in T : \A y \in T : x <= y
  BY <1>1, LeastSeq
<1>3. PICK i \in S : x = n - i
  OBVIOUS
<1>4. \A j \in S : j <= i
  BY <1>2, <1>3
<1>5. i \in S
  OBVIOUS
<1> HIDE DEF T
<1>6. \E k \in S : \A j \in S : j <= k
  BY <1>4, <1>5
<1>7. QED
  BY <1>6 DEF Last

-----------------------------------------------------------------------------
(* Where an action leaves the pass of its driver.                          *)
PassRecord == [phase: {"idle", "lock", "load", "finish"},
               plan: Plans \cup {<<>>}, step: Nat,
               attempt: 0..MaxAttempts, from: 0..MaxSeq,
               events: SUBSET LedgerEvent]

OthersKeep(d) == \A other \in Drivers \ {d} : pass'[other] = pass[other]

(* Between runs: the pass is over, or waits for the lock of its first or    *)
(* its next run.                                                            *)
Rests(d) ==
  /\ OthersKeep(d)
  /\ pass' \in [Drivers -> PassRecord]
  /\ \/ pass'[d].phase = "idle"
     \/ /\ pass'[d].phase = "lock"
        /\ pass'[d].plan \in Plans /\ pass'[d].step \in 1..Len(pass'[d].plan)
        /\ \/ pass'[d].step = 1
           \/ /\ pass[d].phase # "idle"
              /\ pass'[d].plan = pass[d].plan /\ pass'[d].step = pass[d].step + 1

LEMMA JobType ==
  ASSUME TypeOK, PassInPlan, NEW d \in Drivers, pass[d].phase # "idle"
  PROVE  /\ pass[d] \in PassRecord /\ pass[d].plan \in Seq(Run)
         /\ Len(pass[d].plan) \in Nat
         /\ Job(d) \in Run /\ Job(d).proj \in Projections
         /\ Job(d).wipe \in BOOLEAN /\ Job(d).force \in BOOLEAN
<1>1. pass[d] \in PassRecord
  BY DEF TypeOK, PassRecord
<1>2. pass[d].plan \in Seq(Run) /\ pass[d].step \in 1..Len(pass[d].plan)
  BY ReplayConstants DEF PassInPlan
<1>3. Job(d) \in Run
  BY <1>2 DEF Job
<1>4. QED
  BY <1>1, <1>2, <1>3 DEF Run

LEMMA NoPassType == NoPass \in PassRecord /\ NoPass.phase = "idle"
BY ReplayConstants DEF NoPass, PassRecord

LEMMA NextStepRests ==
  ASSUME TypeOK, PassInPlan, NEW d \in Drivers, pass[d].phase # "idle", NextStep(d)
  PROVE  Rests(d)
<1>1. pass[d] \in PassRecord /\ Len(pass[d].plan) \in Nat
  BY JobType
<1>2. CASE pass[d].step < Len(pass[d].plan)
  <2> DEFINE next == [pass[d] EXCEPT !.phase = "lock", !.step = pass[d].step + 1,
                                     !.from = 0, !.events = {}]
  <2>1. next \in PassRecord
    <3>1. pass[d].step + 1 \in Nat /\ 0 \in 0..MaxSeq /\ {} \in SUBSET LedgerEvent
      BY <1>1, ReplayConstants DEF PassRecord
    <3>2. QED
      BY <1>1, <3>1 DEF PassRecord
  <2>2. pass' = [pass EXCEPT ![d] = next]
    BY <1>2 DEF NextStep
  <2>3. next.phase = "lock" /\ next.plan = pass[d].plan /\ next.step = pass[d].step + 1
    BY <1>1 DEF PassRecord
  <2>4. next.plan \in Plans /\ next.step \in 1..Len(next.plan)
    BY <1>1, <1>2, <2>3 DEF PassInPlan, PassRecord
  <2>5. pass \in [Drivers -> PassRecord]
    BY DEF TypeOK, PassRecord
  <2> HIDE DEF next
  <2>6. QED
    BY <2>1, <2>2, <2>3, <2>4, <2>5 DEF Rests, OthersKeep
<1>3. CASE ~(pass[d].step < Len(pass[d].plan))
  <2>1. pass' = [pass EXCEPT ![d] = NoPass]
    BY <1>3 DEF NextStep
  <2>2. pass \in [Drivers -> PassRecord]
    BY DEF TypeOK, PassRecord
  <2>3. QED
    BY <2>1, <2>2, NoPassType DEF Rests, OthersKeep
<1>4. QED
  BY <1>2, <1>3

LEMMA BeginPassRests ==
  ASSUME TypeOK, NEW d \in Drivers, BeginPass(d)
  PROVE  Rests(d) /\ pass'[d].step = 1
<1>1. PICK plan \in Plans : pass' = [pass EXCEPT ![d] = [NoPass EXCEPT
                !.phase = "lock", !.plan = plan, !.step = 1, !.attempt = 1]]
  BY DEF BeginPass
<1> DEFINE next == [NoPass EXCEPT !.phase = "lock", !.plan = plan, !.step = 1, !.attempt = 1]
<1>2. 1 \in 0..MaxAttempts
  BY ReplayConstants
<1>3. next \in PassRecord
  BY <1>2, NoPassType DEF PassRecord
<1>4. next.phase = "lock" /\ next.plan = plan /\ next.step = 1
  BY NoPassType DEF PassRecord
<1>5. 1 \in 1..Len(plan)
  BY ReplayConstants
<1>6. pass \in [Drivers -> PassRecord]
  BY DEF TypeOK, PassRecord
<1>7. pass' = [pass EXCEPT ![d] = next]
  BY <1>1
<1> HIDE DEF next
<1>8. QED
  BY <1>3, <1>4, <1>5, <1>6, <1>7 DEF Rests, OthersKeep

LEMMA EndPassRests ==
  ASSUME TypeOK, NEW d \in Drivers, pass' = [pass EXCEPT ![d] = NoPass]
  PROVE  Rests(d) /\ pass'[d].phase = "idle"
<1>1. pass \in [Drivers -> PassRecord]
  BY DEF TypeOK, PassRecord
<1>2. QED
  BY <1>1, NoPassType DEF Rests, OthersKeep

LEMMA RetryPassRests ==
  ASSUME TypeOK, PassInPlan, NEW d \in Drivers, RetryPass(d)
  PROVE  Rests(d) /\ (pass'[d].phase = "idle" \/ pass'[d].step = 1)
<1>1. pass[d].phase = "finish"
  BY DEF RetryPass, FinalizeReady
<1>2. pass[d] \in PassRecord /\ Len(pass[d].plan) \in Nat
  BY <1>1, JobType
<1>3. CASE Len(pass[d].plan) > 1 /\ pass[d].attempt < MaxAttempts
  <2> DEFINE next == [pass[d] EXCEPT !.phase = "lock", !.step = 1,
                     !.attempt = pass[d].attempt + 1, !.from = 0, !.events = {}]
  <2>1. next \in PassRecord
    <3>1. /\ 1 \in Nat /\ pass[d].attempt + 1 \in 0..MaxAttempts
          /\ 0 \in 0..MaxSeq /\ {} \in SUBSET LedgerEvent
      BY <1>2, <1>3, ReplayConstants DEF PassRecord
    <3>2. QED
      BY <1>2, <3>1 DEF PassRecord
  <2>2. pass' = [pass EXCEPT ![d] = next]
    BY <1>3 DEF RetryPass
  <2>3. next.phase = "lock" /\ next.plan = pass[d].plan /\ next.step = 1
    BY <1>2 DEF PassRecord
  <2>4. next.plan \in Plans /\ next.step \in 1..Len(next.plan)
    BY <1>1, <1>2, <1>3, <2>3 DEF PassInPlan
  <2>5. pass \in [Drivers -> PassRecord]
    BY DEF TypeOK, PassRecord
  <2> HIDE DEF next
  <2>6. QED
    BY <2>1, <2>2, <2>3, <2>4, <2>5 DEF Rests, OthersKeep
<1>4. CASE ~(Len(pass[d].plan) > 1 /\ pass[d].attempt < MaxAttempts)
  BY <1>4, EndPassRests DEF RetryPass
<1>5. QED
  BY <1>3, <1>4

(* What a step does to the pass of its driver: it leaves it between two     *)
(* runs, enters a run, or loads the events of the run it is in.            *)
Enters(d) ==
  /\ pass[d].phase = "lock" /\ LockFree(d, Job(d).proj)
  /\ ~checkpoint[Job(d).proj].paused \/ Job(d).force
  /\ pass' = [pass EXCEPT ![d].phase = "load",
       ![d].from = IF Rebuilds(Job(d)) THEN 0 ELSE checkpoint[Job(d).proj].applied]
  /\ UNCHANGED <<appends, stores, memory>>

DriverNext(d) == BeginPass(d) \/ DriverStep(d) \/ FailRun(d) \/ Crash(d)

LEMMA DriverCases ==
  ASSUME TypeOK, PassInPlan, NEW d \in Drivers, DriverNext(d)
  PROVE  /\ UNCHANGED appends
         /\ \/ Rests(d) /\ (UNCHANGED stores \/ FinishRun(d))
            \/ Enters(d)
            \/ LoadEvents(d)
<1>1. CASE BeginPass(d)
  BY <1>1, BeginPassRests DEF BeginPass
<1>2. CASE LockRun(d)
  <2>1. pass[d].phase = "lock"
    BY <1>2 DEF LockRun
  <2>2. CASE NextStep(d)
    BY <1>2, <2>1, <2>2, NextStepRests DEF LockRun
  <2>3. CASE ~NextStep(d)
    BY <1>2, <2>3 DEF LockRun, Enters
  <2>4. QED
    BY <2>2, <2>3
<1>3. CASE LoadEvents(d)
  BY <1>3 DEF LoadEvents
<1>4. CASE FinishRun(d)
  BY <1>4, NextStepRests DEF FinishRun, FinalizeReady
<1>5. CASE RetryPass(d)
  BY <1>5, RetryPassRests DEF RetryPass
<1>6. CASE FailRun(d)
  BY <1>6, EndPassRests DEF FailRun
<1>7. CASE Crash(d)
  BY <1>7, EndPassRests DEF Crash
<1>8. QED
  BY <1>1, <1>2, <1>3, <1>4, <1>5, <1>6, <1>7 DEF DriverNext, DriverStep

LEMMA NextCases ==
  ASSUME [Next]_vars
  PROVE  \/ UNCHANGED vars
         \/ AppendStep /\ UNCHANGED <<stores, memory, pass>>
         \/ \E d \in Drivers : DriverNext(d)
BY DEF Next, AppendStep, InsertEvent, CommitEvent, AbortEvent, DriverNext

LEMMA DriverKeepsAppends ==
  ASSUME NEW d \in Drivers, DriverNext(d)
  PROVE  UNCHANGED appends
BY DEF DriverNext, BeginPass, DriverStep, LockRun, LoadEvents, FinishRun, RetryPass, FailRun,
   Crash

(* The pass and the job of a driver are those of its own record.           *)
LEMMA SamePass ==
  ASSUME NEW d \in Drivers, pass'[d] = pass[d]
  PROVE  /\ Job(d)' = Job(d) /\ Inside(d)' = Inside(d)
         /\ \A p \in Projections : Holds(d, p)' = Holds(d, p)
BY DEF Job, Inside, Holds

LEMMA HoldsInside ==
  ASSUME NEW d \in Drivers
  PROVE  \A p \in Projections : Holds(d, p) <=> Inside(d) /\ Job(d).proj = p
BY DEF Holds, Inside

(* Entering a run keeps its plan and its step.                             *)
LEMMA EntersPass ==
  ASSUME TypeOK, PassInPlan, NEW d \in Drivers, Enters(d)
  PROVE  /\ OthersKeep(d)
         /\ pass' \in [Drivers -> PassRecord]
         /\ pass'[d].phase = "load"
         /\ pass'[d].plan = pass[d].plan /\ pass'[d].step = pass[d].step
         /\ pass'[d].from = IF Rebuilds(Job(d)) THEN 0 ELSE checkpoint[Job(d).proj].applied
         /\ Job(d)' = Job(d)
<1>1. pass[d] \in PassRecord /\ Job(d).proj \in Projections
  BY JobType DEF Enters
<1>2. pass \in [Drivers -> PassRecord]
  BY DEF TypeOK, PassRecord
<1> DEFINE from == IF Rebuilds(Job(d)) THEN 0 ELSE checkpoint[Job(d).proj].applied
<1>3. from \in 0..MaxSeq
  BY <1>1, ReplayConstants DEF TypeOK, Checkpoint
<1> DEFINE next == [pass[d] EXCEPT !.phase = "load", !.from = from]
<1>4. next \in PassRecord
  BY <1>1, <1>3 DEF PassRecord
<1>5. pass' = [pass EXCEPT ![d] = next]
  BY <1>2 DEF Enters
<1>6. next.phase = "load" /\ next.plan = pass[d].plan /\ next.step = pass[d].step /\ next.from = from
  BY <1>1 DEF PassRecord
<1> HIDE DEF next, from
<1>7. pass'[d] = next
  BY <1>2, <1>5
<1>8. Job(d)' = Job(d)
  BY <1>6, <1>7 DEF Job
<1>9. OthersKeep(d)
  BY <1>2, <1>5 DEF OthersKeep
<1>10. pass' \in [Drivers -> PassRecord]
  BY <1>2, <1>4, <1>5
<1>11. QED
  BY <1>6, <1>7, <1>8, <1>9, <1>10 DEF from

LEMMA LoadsPass ==
  ASSUME TypeOK, PassInPlan, NEW d \in Drivers, LoadEvents(d)
  PROVE  /\ OthersKeep(d)
         /\ pass' \in [Drivers -> PassRecord]
         /\ pass[d].phase = "load" /\ pass'[d].phase = "finish"
         /\ pass'[d].plan = pass[d].plan /\ pass'[d].step = pass[d].step
         /\ pass'[d].from = pass[d].from /\ pass'[d].events = ledger
         /\ Job(d)' = Job(d)
<1>1. pass[d] \in PassRecord
  BY JobType DEF LoadEvents
<1>2. pass \in [Drivers -> PassRecord] /\ ledger \in SUBSET LedgerEvent
  BY DEF TypeOK, PassRecord
<1> DEFINE next == [pass[d] EXCEPT !.phase = "finish", !.events = ledger]
<1>3. next \in PassRecord
  BY <1>1, <1>2 DEF PassRecord
<1>4. pass' = [pass EXCEPT ![d] = next]
  BY <1>2 DEF LoadEvents
<1>5. /\ next.phase = "finish" /\ next.plan = pass[d].plan /\ next.step = pass[d].step
      /\ next.from = pass[d].from /\ next.events = ledger
  BY <1>1 DEF PassRecord
<1> HIDE DEF next
<1>6. pass'[d] = next
  BY <1>2, <1>4
<1>7. Job(d)' = Job(d)
  BY <1>5, <1>6 DEF Job
<1>8. OthersKeep(d)
  BY <1>2, <1>4 DEF OthersKeep
<1>9. pass' \in [Drivers -> PassRecord]
  BY <1>2, <1>3, <1>4
<1>10. pass[d].phase = "load"
  BY DEF LoadEvents
<1>11. QED
  BY <1>5, <1>6, <1>7, <1>8, <1>9, <1>10

(* A driver inside a run was inside it before the step, or enters it.       *)
LEMMA PassInPlanStep ==
  ASSUME TypeOK, PassInPlan, [Next]_vars
  PROVE  PassInPlan' /\ pass' \in [Drivers -> PassRecord]
<1>1. CASE UNCHANGED pass
  BY <1>1 DEF PassInPlan, TypeOK, PassRecord
<1>2. ASSUME NEW d \in Drivers, DriverNext(d)
      PROVE  PassInPlan' /\ pass' \in [Drivers -> PassRecord]
  <2>1. CASE Rests(d)
    BY <2>1 DEF Rests, OthersKeep, PassInPlan
  <2>2. CASE Enters(d)
    <3>1. pass[d].phase # "idle"
      BY <2>2 DEF Enters
    <3>2. QED
      BY <2>2, <3>1, EntersPass DEF OthersKeep, PassInPlan
  <2>3. CASE LoadEvents(d)
    BY <2>3, LoadsPass DEF OthersKeep, PassInPlan
  <2>4. QED
    BY <1>2, <2>1, <2>2, <2>3, DriverCases
<1>3. QED
  BY <1>1, <1>2, NextCases DEF vars

-----------------------------------------------------------------------------
(* What a run makes of the events it loaded: it stops at the first stop,    *)
(* and saves the last seq it has seen.                                     *)
LEMMA TodoType ==
  ASSUME TypeOK, NEW d \in Drivers
  PROVE  /\ pass[d].events \subseteq LedgerEvent
         /\ Todo(d) \subseteq pass[d].events /\ Stops(d) \subseteq Todo(d)
         /\ Seen(d) \subseteq Todo(d) /\ Applied(d) \subseteq Seen(d)
         /\ \A e \in pass[d].events : e.seq \in 1..MaxSeq
BY DEF TypeOK, Todo, Stops, Seen, Applied, LedgerEvent

LEMMA FirstStop ==
  ASSUME TypeOK, NEW d \in Drivers, Stops(d) # {}
  PROVE  \E stop \in Stops(d) :
           stop \in Seen(d) /\ \A e \in Seen(d) : e.seq <= stop.seq
<1> DEFINE S == Seqs(Stops(d))
<1>1. S \subseteq Nat /\ S # {}
  BY TodoType DEF Seqs
<1>2. PICK n \in S : \A m \in S : n <= m
  BY <1>1, LeastSeq
<1>3. PICK stop \in Stops(d) : stop.seq = n
  BY <1>2 DEF Seqs
<1>4. \A other \in Stops(d) : stop.seq <= other.seq
  BY <1>2, <1>3 DEF Seqs
<1>5. stop \in Seen(d)
  BY <1>4, TodoType DEF Seen
<1>6. QED
  BY <1>5 DEF Seen

LEMMA SeesSomething ==
  ASSUME TypeOK, NEW d \in Drivers, Todo(d) # {}
  PROVE  Seen(d) # {}
<1>1. CASE Stops(d) = {}
  BY <1>1 DEF Seen
<1>2. CASE Stops(d) # {}
  BY <1>2, FirstStop
<1>3. QED
  BY <1>1, <1>2

LEMMA TargetIsLast ==
  ASSUME TypeOK, NEW d \in Drivers, Seen(d) # {}
  PROVE  /\ \E e \in Seen(d) : e.seq = Target(d)
         /\ \A e \in Seen(d) : e.seq <= Target(d)
<1>1. Seqs(Seen(d)) \in SUBSET (1..MaxSeq) /\ Seqs(Seen(d)) # {}
  BY TodoType DEF Seqs
<1>2. Target(d) \in Seqs(Seen(d)) /\ \A n \in Seqs(Seen(d)) : n <= Target(d)
  BY <1>1, LastSeq, ReplayConstants DEF Target
<1>3. QED
  BY <1>2 DEF Seqs

LEMMA TargetType ==
  ASSUME TypeOK, NEW d \in Drivers
  PROVE  Target(d) \in 0..MaxSeq
<1>1. CASE Seen(d) = {}
  BY <1>1 DEF Target, TypeOK
<1>2. CASE Seen(d) # {}
  BY <1>2, TargetIsLast, TodoType
<1>3. QED
  BY <1>1, <1>2

LEMMA AppliedSeqs ==
  ASSUME TypeOK, NEW d \in Drivers
  PROVE  Seqs(Applied(d)) \subseteq 1..MaxSeq
BY TodoType DEF Seqs

LEMMA FinishType ==
  ASSUME TypeOK, PassInPlan, NEW d \in Drivers, FinishRun(d)
  PROVE  /\ checkpoint' \in [Projections -> Checkpoint]
         /\ store' \in [Projections -> SUBSET (1..MaxSeq)]
         /\ edgeDocs' \subseteq 1..MaxSeq
<1>1. pass[d].phase = "finish" /\ Job(d).proj \in Projections
  BY JobType DEF FinishRun, FinalizeReady
<1>2. [exists |-> TRUE, applied |-> Target(d), paused |-> Stops(d) # {}] \in Checkpoint
  BY TargetType DEF Checkpoint
<1>3. (IF Rebuilds(Job(d)) THEN {} ELSE store[Job(d).proj]) \cup Seqs(Applied(d))
        \in SUBSET (1..MaxSeq)
  BY <1>1, AppliedSeqs DEF TypeOK
<1>4. edgeDocs' \subseteq 1..MaxSeq
  BY DEF FinishRun, TypeOK, Projections
<1>5. QED
  BY <1>2, <1>3, <1>4 DEF FinishRun, TypeOK

LEMMA MemoryStep ==
  ASSUME TypeOK, PassInPlan, NEW d \in Drivers, DriverNext(d)
  PROVE  /\ \A other \in Drivers \ {d} : memory'[other] = memory[other]
         /\ memory' \in [Drivers -> 0..MaxSeq]
         /\ \/ memory'[d] = memory[d]
            \/ memory'[d] = 0
            \/ pass[d].phase = "lock" /\ memory'[d] = checkpoint[Job(d).proj].applied
            \/ pass[d].phase = "finish" /\ memory'[d] = Target(d)
<1>1. memory \in [Drivers -> 0..MaxSeq] /\ Target(d) \in 0..MaxSeq /\ 0 \in 0..MaxSeq
  BY TargetType, ReplayConstants DEF TypeOK
<1>2. CASE memory' = memory
  BY <1>1, <1>2
<1>3. CASE LockRun(d)
  <2>1. pass[d].phase = "lock" /\ Job(d).proj \in Projections
    BY <1>3, JobType DEF LockRun
  <2>2. checkpoint[Job(d).proj].applied \in 0..MaxSeq
    BY <2>1 DEF TypeOK, Checkpoint
  <2>3. QED
    BY <1>1, <1>3, <2>1, <2>2 DEF LockRun
<1>4. CASE FinishRun(d)
  BY <1>1, <1>4 DEF FinishRun, FinalizeReady
<1>5. CASE RetryPass(d)
  BY <1>1, <1>5 DEF RetryPass, FinalizeReady
<1>6. CASE FailRun(d)
  BY <1>1, <1>6 DEF FailRun
<1>7. CASE Crash(d)
  BY <1>1, <1>7 DEF Crash
<1>8. QED
  BY <1>2, <1>3, <1>4, <1>5, <1>6, <1>7 DEF DriverNext, DriverStep, BeginPass, LoadEvents

LEMMA AppendsType ==
  ASSUME TypeOK, AppendStep
  PROVE  /\ nextSeq' \in 1..(MaxSeq + 1)
         /\ inflight' \subseteq LedgerEvent /\ ledger' \subseteq LedgerEvent
<1>1. CASE InsertEvent
  <2>1. \A kind \in Kinds : [seq |-> nextSeq, kind |-> kind] \in LedgerEvent
    BY <1>1, ReplayConstants DEF InsertEvent, TypeOK, LedgerEvent
  <2>2. QED
    BY <1>1, <2>1, ReplayConstants DEF InsertEvent, TypeOK
<1>2. CASE CommitEvent \/ AbortEvent
  BY <1>2 DEF CommitEvent, AbortEvent, TypeOK
<1>3. QED
  BY <1>1, <1>2 DEF AppendStep

LEMMA TypeStep ==
  ASSUME TypeOK, PassInPlan, [Next]_vars
  PROVE  TypeOK'
<1>1. pass' \in [Drivers -> PassRecord]
  BY PassInPlanStep
<1>2. CASE UNCHANGED vars
  BY <1>2 DEF vars, appends, stores, TypeOK
<1>3. CASE AppendStep /\ UNCHANGED <<stores, memory, pass>>
  BY <1>3, AppendsType DEF TypeOK, stores
<1>4. ASSUME NEW d \in Drivers, DriverNext(d) PROVE TypeOK'
  <2>1. UNCHANGED appends /\ (UNCHANGED stores \/ FinishRun(d))
    BY <1>4, DriverCases DEF Enters, LoadEvents
  <2>2. memory' \in [Drivers -> 0..MaxSeq]
    BY <1>4, MemoryStep
  <2>3. CASE UNCHANGED stores
    BY <1>1, <2>1, <2>2, <2>3 DEF TypeOK, appends, stores, PassRecord
  <2>4. CASE FinishRun(d)
    BY <1>1, <2>1, <2>2, <2>4, FinishType DEF TypeOK, appends, PassRecord
  <2>5. QED
    BY <2>1, <2>3, <2>4
<1>5. QED
  BY <1>2, <1>3, <1>4, NextCases

-----------------------------------------------------------------------------
(* The advisory lock.                                                      *)
LEMMA OneHolderStep ==
  ASSUME TypeOK, PassInPlan, OneHolder, [Next]_vars
  PROVE  OneHolder'
<1>1. CASE UNCHANGED pass
  BY <1>1 DEF OneHolder, Holds, Job
<1>2. ASSUME NEW d \in Drivers, DriverNext(d) PROVE OneHolder'
  <2>1. CASE Rests(d)
    <3>1. \A p \in Projections : ~Holds(d, p)'
      BY <2>1 DEF Rests, Holds
    <3>2. \A other \in Drivers \ {d}, p \in Projections : Holds(other, p)' = Holds(other, p)
      BY <2>1, SamePass DEF Rests, OthersKeep
    <3>3. QED
      BY <3>1, <3>2 DEF OneHolder
  <2>2. CASE Enters(d)
    <3>1. \A other \in Drivers \ {d}, p \in Projections : Holds(other, p)' = Holds(other, p)
      BY <2>2, EntersPass, SamePass DEF OthersKeep
    <3>2. \A p \in Projections : Holds(d, p)' => p = Job(d).proj
      BY <2>2, EntersPass DEF Holds
    <3>3. \A other \in Drivers \ {d} : ~Holds(other, Job(d).proj)
      BY <2>2 DEF Enters, LockFree
    <3>4. QED
      BY <3>1, <3>2, <3>3 DEF OneHolder
  <2>3. CASE LoadEvents(d)
    <3>1. \A other \in Drivers \ {d}, p \in Projections : Holds(other, p)' = Holds(other, p)
      BY <2>3, LoadsPass, SamePass DEF OthersKeep
    <3>2. \A p \in Projections : Holds(d, p)' = Holds(d, p)
      BY <2>3, LoadsPass DEF Holds
    <3>3. QED
      BY <3>1, <3>2 DEF OneHolder
  <2>4. QED
    BY <1>2, <2>1, <2>2, <2>3, DriverCases
<1>3. QED
  BY <1>1, <1>2, NextCases DEF vars

LEMMA SeqsDistinctStep ==
  ASSUME TypeOK, SeqsDistinct, [Next]_vars
  PROVE  SeqsDistinct'
<1>1. CASE UNCHANGED appends
  BY <1>1 DEF appends, SeqsDistinct
<1>2. CASE InsertEvent
  <2>1. PICK kind \in Kinds : inflight' = inflight \cup {[seq |-> nextSeq, kind |-> kind]}
    BY <1>2 DEF InsertEvent
  <2> DEFINE new == [seq |-> nextSeq, kind |-> kind]
  <2>2. new.seq = nextSeq /\ nextSeq \in Nat
    BY DEF TypeOK
  <2>3. \A e \in ledger \cup inflight : e.seq \in Nat /\ e.seq < nextSeq
    BY DEF TypeOK, LedgerEvent, SeqsDistinct
  <2>4. new \notin ledger \cup inflight
    BY <2>2, <2>3
  <2>5. ledger' = ledger /\ nextSeq' = nextSeq + 1
    BY <1>2 DEF InsertEvent
  <2> HIDE DEF new
  <2>6. QED
    BY <2>1, <2>2, <2>3, <2>4, <2>5 DEF SeqsDistinct, new
<1>3. CASE CommitEvent \/ AbortEvent
  BY <1>3 DEF CommitEvent, AbortEvent, SeqsDistinct
<1>4. QED
  BY <1>1, <1>2, <1>3, NextCases, DriverKeepsAppends DEF AppendStep, vars

LEMMA LedgerGrows == ASSUME [Next]_vars PROVE ledger \subseteq ledger'
BY DriverKeepsAppends, NextCases DEF vars, AppendStep, appends, InsertEvent, CommitEvent,
   AbortEvent

(* A checkpoint and a store change only by the commit of the driver that    *)
(* holds the lock.                                                         *)
LEMMA StoresStep ==
  ASSUME TypeOK, PassInPlan, [Next]_vars
  PROVE  \/ UNCHANGED stores
         \/ \E d \in Drivers : FinishRun(d) /\ Rests(d) /\ UNCHANGED appends
<1>1. ASSUME NEW d \in Drivers, DriverNext(d)
      PROVE  UNCHANGED stores \/ (FinishRun(d) /\ Rests(d) /\ UNCHANGED appends)
  <2>1. CASE FinishRun(d)
    <3>1. Rests(d)
      BY <2>1, NextStepRests DEF FinishRun, FinalizeReady
    <3>2. QED
      BY <2>1, <3>1 DEF FinishRun
  <2>2. CASE ~FinishRun(d)
    BY <1>1, <2>2, DriverCases DEF Enters, LoadEvents
  <2>3. QED
    BY <2>1, <2>2
<1>2. QED
  BY <1>1, NextCases DEF vars

LEMMA FinishHolds ==
  ASSUME TypeOK, PassInPlan, NEW d \in Drivers, FinishRun(d)
  PROVE  /\ pass[d].phase = "finish" /\ Inside(d)
         /\ Job(d).proj \in Projections /\ Holds(d, Job(d).proj)
         /\ \A p \in Projections \ {Job(d).proj} :
              checkpoint'[p] = checkpoint[p] /\ store'[p] = store[p]
         /\ checkpoint'[Job(d).proj] =
              [exists |-> TRUE, applied |-> Target(d), paused |-> Stops(d) # {}]
         /\ store'[Job(d).proj] =
              (IF Rebuilds(Job(d)) THEN {} ELSE store[Job(d).proj]) \cup Seqs(Applied(d))
<1>1. pass[d].phase = "finish" /\ Inside(d)
  BY DEF FinishRun, FinalizeReady, Inside
<1>2. Job(d).proj \in Projections
  BY <1>1, JobType
<1>3. QED
  BY <1>1, <1>2 DEF FinishRun, Holds, TypeOK

(* While a driver stays inside a run its projection is its own.            *)
LEMMA InsideKeeps ==
  ASSUME TypeOK, PassInPlan, OneHolder, [Next]_vars,
         NEW d \in Drivers, Inside(d), pass'[d] = pass[d]
  PROVE  checkpoint'[Job(d).proj] = checkpoint[Job(d).proj]
<1>1. CASE UNCHANGED stores
  BY <1>1 DEF stores
<1>2. ASSUME NEW o \in Drivers, FinishRun(o), Rests(o)
      PROVE  checkpoint'[Job(d).proj] = checkpoint[Job(d).proj]
  <2>1. Job(d).proj \in Projections /\ Holds(d, Job(d).proj)
    BY JobType DEF Inside, Holds
  <2>2. o # d
    BY <1>2 DEF Inside, Rests
  <2>3. Job(o).proj # Job(d).proj
    BY <1>2, <2>1, <2>2, FinishHolds DEF OneHolder
  <2>4. QED
    BY <1>2, <2>1, <2>3, FinishHolds
<1>3. QED
  BY <1>1, <1>2, StoresStep

(* How a driver comes to be inside a run.                                  *)
LEMMA InsideCases ==
  ASSUME TypeOK, PassInPlan, [Next]_vars, NEW d \in Drivers, Inside(d)'
  PROVE  \/ Inside(d) /\ pass'[d] = pass[d]
         \/ Enters(d)
         \/ LoadEvents(d)
<1>1. CASE UNCHANGED pass
  BY <1>1 DEF Inside
<1>2. ASSUME NEW o \in Drivers, DriverNext(o), o # d
      PROVE  Inside(d) /\ pass'[d] = pass[d]
  BY <1>2, DriverCases, EntersPass, LoadsPass DEF Rests, OthersKeep, Inside
<1>3. CASE DriverNext(d)
  BY <1>3, DriverCases DEF Rests, Inside
<1>4. QED
  BY <1>1, <1>2, <1>3, NextCases DEF vars

LEMMA StartHoldsStep ==
  ASSUME TypeOK, PassInPlan, OneHolder, StartHolds, [Next]_vars
  PROVE  StartHolds'
<1> SUFFICES ASSUME NEW d \in Drivers, Inside(d)'
             PROVE  /\ pass'[d].from = IF Rebuilds(Job(d)') THEN 0
                                       ELSE checkpoint'[Job(d)'.proj].applied
                    /\ checkpoint'[Job(d)'.proj].paused => Job(d)'.force
  BY DEF StartHolds, Rebuilds
<1>1. CASE Inside(d) /\ pass'[d] = pass[d]
  <2>1. Job(d)' = Job(d)
    BY <1>1, SamePass
  <2>2. checkpoint'[Job(d).proj] = checkpoint[Job(d).proj]
    BY <1>1, InsideKeeps
  <2>3. QED
    BY <1>1, <2>1, <2>2 DEF StartHolds
<1>2. CASE Enters(d)
  <2>1. checkpoint' = checkpoint
    BY <1>2 DEF Enters, stores
  <2>2. QED
    BY <1>2, <2>1, EntersPass DEF Enters
<1>3. CASE LoadEvents(d)
  <2>1. checkpoint' = checkpoint /\ Inside(d)
    BY <1>3 DEF LoadEvents, stores, Inside
  <2>2. QED
    BY <1>3, <2>1, LoadsPass DEF StartHolds
<1>4. QED
  BY <1>1, <1>2, <1>3, InsideCases

LEMMA KnownGrows ==
  ASSUME NEW n, NEW S, NEW T, S \subseteq T, Known(n, S)
  PROVE  Known(n, T)
BY DEF Known

(* What a run saves is a seq it has loaded, or what its driver held.       *)
LEMMA TargetKnown ==
  ASSUME TypeOK, NamesCommitted, NEW d \in Drivers, pass[d].phase = "finish"
  PROVE  Known(Target(d), pass[d].events) /\ Known(Target(d), ledger)
<1>1. CASE Seen(d) = {}
  BY <1>1, KnownGrows DEF NamesCommitted, Target
<1>2. CASE Seen(d) # {}
  BY <1>2, TargetIsLast, TodoType, KnownGrows DEF Known, NamesCommitted
<1>3. QED
  BY <1>1, <1>2

LEMMA CheckpointsKnownStep ==
  ASSUME TypeOK, PassInPlan, NamesCommitted, [Next]_vars
  PROVE  \A p \in Projections : /\ Known(checkpoint'[p].applied, ledger')
                                /\ ~checkpoint'[p].exists => checkpoint'[p].applied = 0
<1>1. CASE UNCHANGED stores
  BY <1>1, LedgerGrows, KnownGrows DEF stores, NamesCommitted
<1>2. ASSUME NEW d \in Drivers, FinishRun(d), NEW p \in Projections
      PROVE  /\ Known(checkpoint'[p].applied, ledger')
             /\ ~checkpoint'[p].exists => checkpoint'[p].applied = 0
  <2>1. CASE p = Job(d).proj
    <3>1. pass[d].phase = "finish" /\ checkpoint'[p] =
            [exists |-> TRUE, applied |-> Target(d), paused |-> Stops(d) # {}]
      BY <1>2, <2>1, FinishHolds
    <3>2. checkpoint'[p].exists /\ checkpoint'[p].applied = Target(d)
      BY <3>1
    <3>3. Known(Target(d), ledger)
      BY <3>1, TargetKnown
    <3>4. QED
      BY <3>2, <3>3, LedgerGrows, KnownGrows
  <2>2. CASE p # Job(d).proj
    <3>1. checkpoint'[p] = checkpoint[p]
      BY <1>2, <2>2, FinishHolds
    <3>2. QED
      BY <3>1, LedgerGrows, KnownGrows DEF NamesCommitted
  <2>3. QED
    BY <2>1, <2>2
<1>3. QED
  BY <1>1, <1>2, StoresStep

LEMMA MemoryKnownStep ==
  ASSUME TypeOK, PassInPlan, NamesCommitted, [Next]_vars, NEW d \in Drivers
  PROVE  Known(memory'[d], ledger')
<1>1. CASE memory'[d] = memory[d]
  BY <1>1, LedgerGrows, KnownGrows DEF NamesCommitted
<1>2. CASE DriverNext(d)
  <2>1. Known(0, ledger)
    BY DEF Known
  <2>2. ASSUME pass[d].phase = "lock" PROVE Known(checkpoint[Job(d).proj].applied, ledger)
    BY <2>2, JobType DEF NamesCommitted
  <2>3. ASSUME pass[d].phase = "finish" PROVE Known(Target(d), ledger)
    BY <2>3, TargetKnown
  <2>4. Known(memory'[d], ledger)
    BY <1>2, <2>1, <2>2, <2>3, MemoryStep DEF NamesCommitted
  <2>5. QED
    BY <2>4, LedgerGrows, KnownGrows
<1>3. QED
  BY <1>1, <1>2, NextCases, MemoryStep DEF vars

LEMMA LoadedKnownStep ==
  ASSUME TypeOK, PassInPlan, OneHolder, NamesCommitted, [Next]_vars,
         NEW d \in Drivers, pass'[d].phase = "finish"
  PROVE  /\ pass'[d].events \subseteq ledger'
         /\ Known(memory'[d], pass'[d].events)
         /\ Known(checkpoint'[Job(d)'.proj].applied, pass'[d].events)
<1>1. CASE Inside(d) /\ pass'[d] = pass[d]
  <2>1. Job(d)' = Job(d) /\ checkpoint'[Job(d).proj] = checkpoint[Job(d).proj]
    BY <1>1, SamePass, InsideKeeps
  <2>2. memory'[d] = memory[d]
    <3>1. ~DriverNext(d) \/ UNCHANGED memory
      BY <1>1, DriverCases, LoadsPass DEF Rests, Enters, LoadEvents, Inside
    <3>2. QED
      BY <3>1, NextCases, MemoryStep DEF vars
  <2>3. QED
    BY <1>1, <2>1, <2>2, LedgerGrows DEF NamesCommitted
<1>2. CASE Enters(d)
  BY <1>2, EntersPass
<1>3. CASE LoadEvents(d)
  <2>1. pass'[d].events = ledger /\ Job(d)' = Job(d) /\ Job(d).proj \in Projections
    BY <1>3, LoadsPass, JobType DEF LoadEvents
  <2>2. UNCHANGED <<appends, stores, memory>>
    BY <1>3 DEF LoadEvents
  <2>3. QED
    BY <2>1, <2>2 DEF NamesCommitted, appends, stores
<1>4. QED
  BY <1>1, <1>2, <1>3, InsideCases DEF Inside

LEMMA NamesCommittedStep ==
  ASSUME TypeOK, PassInPlan, OneHolder, NamesCommitted, [Next]_vars
  PROVE  NamesCommitted'
BY CheckpointsKnownStep, MemoryKnownStep, LoadedKnownStep DEF NamesCommitted

-----------------------------------------------------------------------------
LEMMA ReplayInit == Init => ReplayInv
<1> SUFFICES ASSUME Init PROVE ReplayInv
  OBVIOUS
<1>1. \A d \in Drivers : pass[d] = NoPass /\ pass[d].phase = "idle"
  BY NoPassType DEF Init
<1>2. TypeOK
  <2>1. pass \in [Drivers -> PassRecord]
    BY NoPassType DEF Init
  <2>2. QED
    BY <2>1, ReplayConstants DEF Init, TypeOK, PassRecord, Checkpoint, Projections
<1>3. PassInPlan /\ OneHolder /\ StartHolds
  BY <1>1 DEF PassInPlan, OneHolder, StartHolds, Holds, Inside
<1>4. SeqsDistinct
  BY DEF Init, SeqsDistinct
<1>5. NamesCommitted
  BY <1>1 DEF Init, NamesCommitted, Known
<1>6. QED
  BY <1>2, <1>3, <1>4, <1>5 DEF ReplayInv

LEMMA ReplayStep == ReplayInv /\ [Next]_vars => ReplayInv'
BY TypeStep, PassInPlanStep, OneHolderStep, SeqsDistinctStep, StartHoldsStep,
   NamesCommittedStep DEF ReplayInv

(* In every reachable state the passes are at a run of their plan, each     *)
(* projection has one holder of its lock, and every checkpoint names a      *)
(* committed seq.                                                          *)
THEOREM ReplayInvAlways == Spec => []ReplayInv
BY ReplayInit, ReplayStep, PTL DEF Spec

(* The state of the driver keeps its types.                                *)
THEOREM ReplayTypeSafe == Spec => []TypeOK
BY ReplayInvAlways, PTL DEF ReplayInv

-----------------------------------------------------------------------------
(* The pause at authority events.                                          *)

(* Whose commit moved a checkpoint.                                        *)
LEMMA CheckpointMoves ==
  ASSUME ReplayInv, [Next]_vars, NEW p \in Projections, checkpoint'[p] # checkpoint[p]
  PROVE  \E d \in Drivers : FinishRun(d) /\ Job(d).proj = p /\ Holds(d, p)
<1>1. PICK d \in Drivers : FinishRun(d)
  BY StoresStep DEF ReplayInv, stores
<1>2. p = Job(d).proj
  BY <1>1, FinishHolds DEF ReplayInv
<1>3. QED
  BY <1>1, <1>2, FinishHolds DEF ReplayInv

LEMMA StopsAtAuthorityStep ==
  ASSUME ReplayInv, [Next]_vars, NEW d \in Drivers, NEW p \in Projections,
         Holds(d, p), Rebuilds(Job(d)),
         checkpoint'[p] # checkpoint[p], checkpoint'[p].paused
  PROVE  \A n \in store'[p] : n < checkpoint'[p].applied
<1>1. FinishRun(d) /\ Job(d).proj = p
  BY CheckpointMoves DEF ReplayInv, OneHolder
<1>2. /\ pass[d].phase = "finish"
      /\ checkpoint'[p] = [exists |-> TRUE, applied |-> Target(d), paused |-> Stops(d) # {}]
      /\ store'[p] = Seqs(Applied(d))
  BY <1>1, FinishHolds DEF ReplayInv
<1>3. Stops(d) # {} /\ checkpoint'[p].applied = Target(d)
  <2>1. checkpoint'[p].applied = Target(d)
    BY <1>2
  <2>2. ASSUME NEW c, NEW b, c = [exists |-> TRUE, applied |-> Target(d), paused |-> b]
        PROVE  c.paused = b
    BY <2>2
  <2>3. Stops(d) # {}
    BY <1>2, <2>2, Zenon
  <2>4. QED
    BY <2>1, <2>3
<1>4. PICK stop \in Stops(d) : stop \in Seen(d) /\ \A e \in Seen(d) : e.seq <= stop.seq
  BY <1>3, FirstStop DEF ReplayInv
<1>5. Target(d) = stop.seq
  <2>1. stop.seq <= Target(d)
    BY <1>4, TargetIsLast DEF ReplayInv
  <2>2. PICK e \in Seen(d) : e.seq = Target(d)
    BY <1>4, TargetIsLast DEF ReplayInv
  <2>3. Target(d) \in Nat /\ stop.seq \in Nat
    BY <1>4, TargetType, TodoType DEF ReplayInv
  <2>4. QED
    BY <1>4, <2>1, <2>2, <2>3
<1>6. ASSUME NEW e \in Applied(d) PROVE e.seq < stop.seq
  <2>1. e \in Seen(d) /\ e.kind = "claim" /\ stop.kind = "authority"
    BY <1>3 DEF Applied, Stops
  <2>2. e \in ledger /\ stop \in ledger /\ e.seq \in Nat /\ stop.seq \in Nat
    BY <1>2, <1>4, <2>1, TodoType DEF ReplayInv, NamesCommitted
  <2>3. e.seq # stop.seq
    BY <2>1, <2>2 DEF ReplayInv, SeqsDistinct
  <2>4. QED
    BY <1>4, <2>1, <2>2, <2>3
<1>7. QED
  BY <1>2, <1>3, <1>5, <1>6 DEF Seqs

LEMMA PausedUntilForcedStep ==
  ASSUME ReplayInv, [Next]_vars, NEW p \in Projections,
         checkpoint[p].paused, ~checkpoint'[p].paused
  PROVE  \E d \in Drivers : Holds(d, p) /\ Job(d).force
<1>1. PICK d \in Drivers : FinishRun(d) /\ Job(d).proj = p /\ Holds(d, p)
  BY CheckpointMoves
<1>2. Job(d).force
  BY <1>1 DEF ReplayInv, StartHolds, Holds, Inside
<1>3. QED
  BY <1>1, <1>2

(* A rebuild that ends paused has applied neither the event it paused at    *)
(* nor anything behind it, and only a forced run ends a pause, whatever     *)
(* drivers and passes there are.  (Forced runs, and runs of semantic_edges, *)
(* do apply authority events: they do not pause.)                          *)
THEOREM PausesAtAuthority == Spec => AuthorityPauses
<1>1. ReplayInv /\ [Next]_vars =>
        [\A d \in Drivers, p \in Projections :
           /\ Holds(d, p) /\ Rebuilds(Job(d))
           /\ checkpoint'[p] # checkpoint[p] /\ checkpoint'[p].paused
           => \A n \in store'[p] : n < checkpoint'[p].applied]_stores
  BY StopsAtAuthorityStep
<1>2. ReplayInv /\ [Next]_vars =>
        [\A p \in Projections : checkpoint[p].paused /\ ~checkpoint'[p].paused =>
           \E d \in Drivers : Holds(d, p) /\ Job(d).force]_checkpoint
  BY PausedUntilForcedStep
<1>3. QED
  BY <1>1, <1>2, ReplayInvAlways, PTL DEF Spec, AuthorityPauses, StopsAtAuthority,
     PausedUntilForced

-----------------------------------------------------------------------------
(* A wiping run reads the whole ledger, which names all its checkpoint did. *)
LEMMA WipeReachesCheckpoint ==
  ASSUME WipingPlans, ReplayInv, NEW d \in Drivers, pass[d].phase = "finish"
  PROVE  checkpoint[Job(d).proj].applied <= Target(d)
<1>1. Rebuilds(Job(d)) /\ ~PoisonEnabled(Job(d))
  <2>1. pass[d].plan \in Plans /\ pass[d].step \in 1..Len(pass[d].plan)
    BY DEF ReplayInv, PassInPlan
  <2>2. pass[d].plan \in Seq(Run)
    BY <2>1, ReplayConstants
  <2>3. QED
    BY <2>1, <2>2 DEF WipingPlans, Job
<1>2. pass[d].from = 0
  BY <1>1 DEF ReplayInv, StartHolds, Inside
<1>3. Seen(d) = pass[d].events
  <2>1. \A e \in pass[d].events : e.seq > 0
    BY TodoType DEF ReplayInv
  <2>2. QED
    BY <1>1, <1>2, <2>1 DEF Seen, Todo, Stops
<1>4. Known(checkpoint[Job(d).proj].applied, pass[d].events)
  BY DEF ReplayInv, NamesCommitted
<1>5. CASE checkpoint[Job(d).proj].applied = 0
  BY <1>5, TargetType DEF ReplayInv
<1>6. CASE \E e \in pass[d].events : e.seq = checkpoint[Job(d).proj].applied
  BY <1>3, <1>6, TargetIsLast DEF ReplayInv
<1>7. QED
  BY <1>4, <1>5, <1>6 DEF Known

(* The checkpoint of a projection whose passes all rebuild it from nothing  *)
(* never moves backwards, whichever pass commits last.                     *)
THEOREM CheckpointsOnlyAdvance ==
  ASSUME WipingPlans
  PROVE  Spec => CheckpointNeverRegresses
<1>1. ReplayInv /\ [Next]_vars =>
        \A p \in Projections : checkpoint[p].applied <= checkpoint'[p].applied
  <2> SUFFICES ASSUME ReplayInv, [Next]_vars, NEW p \in Projections
               PROVE  checkpoint[p].applied <= checkpoint'[p].applied
    OBVIOUS
  <2>1. CASE checkpoint'[p] = checkpoint[p]
    BY <2>1 DEF ReplayInv, TypeOK, Checkpoint
  <2>2. CASE checkpoint'[p] # checkpoint[p]
    <3>1. PICK d \in Drivers : FinishRun(d) /\ Job(d).proj = p
      BY <2>2, CheckpointMoves
    <3>2. pass[d].phase = "finish" /\ checkpoint'[p] =
            [exists |-> TRUE, applied |-> Target(d), paused |-> Stops(d) # {}]
      BY <3>1, FinishHolds DEF ReplayInv
    <3>3. checkpoint'[p].applied = Target(d)
      BY <3>2
    <3>4. QED
      BY <3>1, <3>2, <3>3, WipeReachesCheckpoint
  <2>3. QED
    BY <2>1, <2>2
<1>2. QED
  BY <1>1, ReplayInvAlways, PTL DEF Spec, CheckpointNeverRegresses

-----------------------------------------------------------------------------
(* Appends that become visible in order.                                   *)
LEMMA NewlyCommitted ==
  ASSUME [Next]_vars, NEW e \in ledger', e \notin ledger
  PROVE  e \in inflight /\ UNCHANGED <<stores, memory, pass>>
BY DriverKeepsAppends, NextCases DEF vars, AppendStep, appends, InsertEvent, CommitEvent,
   AbortEvent

LEMMA NewerThanKnown ==
  ASSUME TypeOK, AppendsInOrder, NEW e \in inflight, NEW n, Known(n, ledger)
  PROVE  n < e.seq
BY DEF AppendsInOrder, Known, TypeOK, LedgerEvent

LEMMA SerialStep ==
  ASSUME TypeOK, SeqsDistinct, Serial, AppendsInOrder, MaxInFlight <= 1, [Next]_vars
  PROVE  Serial' /\ AppendsInOrder'
<1>1. CASE UNCHANGED appends
  BY <1>1 DEF appends, Serial, AppendsInOrder
<1>2. CASE InsertEvent
  <2>1. inflight = {}
    <3> SUFFICES ASSUME NEW x \in inflight PROVE FALSE
      OBVIOUS
    <3>1. inflight = {x}
      BY DEF Serial
    <3>2. Cardinality(inflight) = 1
      BY <3>1, FS_Singleton
    <3>3. QED
      BY <1>2, <3>2, ReplayConstants DEF InsertEvent
  <2>2. PICK kind \in Kinds : inflight' = {[seq |-> nextSeq, kind |-> kind]}
    BY <1>2, <2>1 DEF InsertEvent
  <2>3. \A f \in ledger : f.seq < nextSeq
    BY DEF SeqsDistinct
  <2>4. ledger' = ledger
    BY <1>2 DEF InsertEvent
  <2>5. QED
    BY <2>2, <2>3, <2>4 DEF Serial, AppendsInOrder
<1>3. CASE CommitEvent \/ AbortEvent
  BY <1>3 DEF CommitEvent, AbortEvent, Serial, AppendsInOrder
<1>4. QED
  BY <1>1, <1>2, <1>3, NextCases, DriverKeepsAppends DEF AppendStep, vars

(* Where the hypothesis of the theorems below is met: an append that runs   *)
(* alone becomes visible in the order of its seq.                          *)
LEMMA SerialAppendsInOrder ==
  ASSUME MaxInFlight <= 1
  PROVE  Spec => []AppendsInOrder
<1>1. Init => Serial /\ AppendsInOrder
  BY DEF Init, Serial, AppendsInOrder
<1>2. ReplayInv /\ Serial /\ AppendsInOrder /\ [Next]_vars => (Serial /\ AppendsInOrder)'
  BY SerialStep DEF ReplayInv
<1>3. QED
  BY <1>1, <1>2, ReplayInvAlways, PTL DEF Spec

-----------------------------------------------------------------------------
(* Checkpoints cover what they claim.                                      *)
LEMMA LoadedPrefixStep ==
  ASSUME ReplayInv, AppendsInOrder, LoadedPrefix, [Next]_vars
  PROVE  LoadedPrefix'
<1> SUFFICES ASSUME NEW d \in Drivers, pass'[d].phase = "finish",
                    NEW e \in ledger' \ pass'[d].events, NEW f \in pass'[d].events
             PROVE  f.seq < e.seq
  BY DEF LoadedPrefix
<1>1. CASE Inside(d) /\ pass'[d] = pass[d]
  <2>1. CASE e \in ledger
    BY <1>1, <2>1 DEF LoadedPrefix
  <2>2. CASE e \notin ledger
    <3>1. e \in inflight
      BY <2>2, NewlyCommitted
    <3>2. f \in ledger
      BY <1>1 DEF ReplayInv, NamesCommitted
    <3>3. QED
      BY <3>1, <3>2 DEF AppendsInOrder
  <2>3. QED
    BY <2>1, <2>2
<1>2. CASE Enters(d)
  BY <1>2, EntersPass DEF ReplayInv
<1>3. CASE LoadEvents(d)
  <2>1. pass'[d].events = ledger
    BY <1>3, LoadsPass DEF ReplayInv
  <2>2. ledger' = ledger
    BY <1>3 DEF LoadEvents, appends
  <2>3. QED
    BY <2>1, <2>2
<1>4. QED
  BY <1>1, <1>2, <1>3, InsideCases DEF ReplayInv, Inside

(* What a run claims to have reached, it has loaded.                       *)
LEMMA ClaimedIsLoaded ==
  ASSUME ReplayInv, LoadedPrefix, NEW d \in Drivers, pass[d].phase = "finish",
         NEW e \in ledger, e.seq <= Target(d)
  PROVE  e \in pass[d].events
<1>1. e.seq \in 1..MaxSeq /\ Target(d) \in 0..MaxSeq
  BY TargetType DEF ReplayInv, TypeOK, LedgerEvent
<1>2. PICK f \in pass[d].events : f.seq = Target(d)
  BY <1>1, TargetKnown DEF ReplayInv, Known
<1>3. QED
  BY <1>1, <1>2 DEF LoadedPrefix

(* ... and, unless it is noise or a stop, applied.                         *)
LEMMA ClaimedIsApplied ==
  ASSUME ReplayInv, NEW d \in Drivers, NEW e \in Todo(d), e.seq <= Target(d),
         \/ ~PoisonEnabled(Job(d))
         \/ e.kind = "claim"
         \/ e.kind = "authority" /\ Stops(d) = {}
  PROVE  e \in Applied(d)
<1>1. Seen(d) # {}
  BY SeesSomething DEF ReplayInv
<1>2. PICK last \in Seen(d) : last.seq = Target(d)
  BY <1>1, TargetIsLast DEF ReplayInv
<1>3. \A stop \in Stops(d) : e.seq <= stop.seq
  <2> SUFFICES ASSUME NEW stop \in Stops(d) PROVE e.seq <= stop.seq
    OBVIOUS
  <2>1. e.seq \in Nat /\ stop.seq \in Nat /\ last.seq \in Nat
    BY TodoType DEF ReplayInv
  <2>2. last.seq <= stop.seq
    BY DEF Seen
  <2>3. QED
    BY <1>2, <2>1, <2>2
<1>4. e \in Seen(d)
  BY <1>3 DEF Seen
<1>5. PoisonEnabled(Job(d)) => ~(e.kind = "authority" /\ Stops(d) = {})
  BY DEF Stops
<1>6. QED
  BY <1>4, <1>5 DEF Applied

LEMMA FinishCovers ==
  ASSUME ReplayInv, CoverInv, NEW d \in Drivers, FinishRun(d), NEW e \in ledger,
         e.seq <= Target(d),
         \/ Job(d).proj = "semantic_edges"
         \/ e.kind = "claim"
         \/ e.kind = "authority" /\ Stops(d) = {}
  PROVE  e.seq \in store'[Job(d).proj]
<1> DEFINE p == Job(d).proj
<1>1. /\ pass[d].phase = "finish" /\ Inside(d) /\ p \in Projections
      /\ store'[p] = (IF Rebuilds(Job(d)) THEN {} ELSE store[p]) \cup Seqs(Applied(d))
  BY FinishHolds DEF ReplayInv
<1>2. e \in pass[d].events
  BY <1>1, ClaimedIsLoaded DEF CoverInv
<1>3. e.seq \in 1..MaxSeq
  BY DEF ReplayInv, TypeOK, LedgerEvent
<1>4. CASE e \in Todo(d)
  <2>1. e \in Applied(d)
    BY <1>4, ClaimedIsApplied DEF PoisonEnabled
  <2>2. QED
    BY <1>1, <2>1 DEF Seqs
<1>5. CASE e \notin Todo(d)
  <2>1. ~(e.seq > pass[d].from)
    BY <1>2, <1>5 DEF Todo
  <2>2. ~Rebuilds(Job(d)) /\ pass[d].from = checkpoint[p].applied
    BY <1>1, <1>3, <2>1 DEF ReplayInv, StartHolds
  <2>3. checkpoint[p].applied \in 0..MaxSeq
    BY <1>1 DEF ReplayInv, TypeOK, Checkpoint
  <2>4. e.seq <= checkpoint[p].applied
    BY <1>3, <2>1, <2>2, <2>3
  <2>5. checkpoint[p].exists
    BY <1>1, <1>3, <2>4 DEF ReplayInv, NamesCommitted
  <2>6. ~checkpoint[p].paused
    BY <1>1, <2>2 DEF ReplayInv, StartHolds, Rebuilds
  <2>7. e.seq \in store[p]
    BY <1>1, <2>4, <2>5, <2>6 DEF CoverInv, CheckpointCovered
  <2>8. QED
    BY <1>1, <2>2, <2>7
<1>6. QED
  BY <1>4, <1>5

LEMMA CheckpointCoveredStep ==
  ASSUME ReplayInv, AppendsInOrder, CoverInv, [Next]_vars
  PROVE  CheckpointCovered'
<1> SUFFICES ASSUME NEW p \in Projections, NEW e \in ledger',
                    checkpoint'[p].exists, e.seq <= checkpoint'[p].applied,
                    \/ p = "semantic_edges"
                    \/ e.kind = "claim"
                    \/ e.kind = "authority" /\ ~checkpoint'[p].paused
             PROVE  e.seq \in store'[p]
  BY DEF CheckpointCovered
<1>1. CASE e \notin ledger
  <2>1. e \in inflight /\ UNCHANGED stores
    BY <1>1, NewlyCommitted
  <2>2. Known(checkpoint[p].applied, ledger)
    BY DEF ReplayInv, NamesCommitted
  <2>3. checkpoint[p].applied < e.seq
    BY <2>1, <2>2, NewerThanKnown DEF ReplayInv
  <2>4. e.seq \in Nat /\ checkpoint[p].applied \in Nat
    BY <2>1 DEF ReplayInv, TypeOK, LedgerEvent, Checkpoint
  <2>5. QED
    BY <2>1, <2>3, <2>4 DEF stores
<1>2. CASE e \in ledger /\ UNCHANGED stores
  BY <1>2 DEF CoverInv, CheckpointCovered, stores
<1>3. ASSUME e \in ledger, NEW d \in Drivers, FinishRun(d) PROVE e.seq \in store'[p]
  <2>1. CASE p # Job(d).proj
    <3>1. checkpoint'[p] = checkpoint[p] /\ store'[p] = store[p]
      BY <1>3, <2>1, FinishHolds DEF ReplayInv
    <3>2. QED
      BY <1>3, <3>1 DEF CoverInv, CheckpointCovered
  <2>2. CASE p = Job(d).proj
    <3>1. checkpoint'[p] =
            [exists |-> TRUE, applied |-> Target(d), paused |-> Stops(d) # {}]
      BY <1>3, <2>2, FinishHolds DEF ReplayInv
    <3>2. checkpoint'[p].applied = Target(d)
      BY <3>1
    <3>3. ASSUME NEW c, NEW b, c = [exists |-> TRUE, applied |-> Target(d), paused |-> b]
          PROVE  c.paused = b
      BY <3>3
    <3>4. ~checkpoint'[p].paused => Stops(d) = {}
      BY <3>1, <3>3, Zenon
    <3>5. QED
      BY <1>3, <2>2, <3>2, <3>4, FinishCovers
  <2>3. QED
    BY <2>1, <2>2
<1>4. QED
  BY <1>1, <1>2, <1>3, StoresStep DEF ReplayInv

LEMMA CoverAlways == Spec /\ []AppendsInOrder => []CoverInv
<1>1. Init => CoverInv
  <2> SUFFICES ASSUME Init PROVE CoverInv
    OBVIOUS
  <2>1. \A d \in Drivers : pass[d].phase = "idle"
    BY NoPassType DEF Init
  <2>2. QED
    BY <2>1 DEF Init, CoverInv, LoadedPrefix, CheckpointCovered
<1>2. ReplayInv /\ AppendsInOrder /\ CoverInv /\ [Next]_vars => CoverInv'
  BY LoadedPrefixStep, CheckpointCoveredStep DEF CoverInv
<1>3. QED
  BY <1>1, <1>2, ReplayInvAlways, PTL DEF Spec

(* While seqs become visible in order, every committed event up to a        *)
(* checkpoint is in the store, save the noise and, while paused, the        *)
(* authority events.                                                       *)
THEOREM CheckpointsCover == Spec /\ []AppendsInOrder => []CheckpointCovered
<1>1. CoverInv => CheckpointCovered
  BY DEF CoverInv
<1>2. QED
  BY <1>1, CoverAlways, PTL

-----------------------------------------------------------------------------
(* Search never publishes over edges that lag.                             *)

(* A pass gets to its next run when it has committed the one before, or     *)
(* found its projection paused.                                            *)
LEMMA NextMoves ==
  ASSUME TypeOK, PassInPlan, NEW d \in Drivers, DriverNext(d),
         pass'[d].phase # "idle", pass'[d].step # 1
  PROVE  /\ pass[d].phase # "idle" /\ pass'[d].plan = pass[d].plan
         /\ \/ pass'[d].step = pass[d].step
            \/ /\ pass'[d].step = pass[d].step + 1
               /\ FinishRun(d) \/ checkpoint[Job(d).proj].paused
<1>1. CASE BeginPass(d)
  BY <1>1, BeginPassRests
<1>2. CASE LockRun(d)
  <2>1. pass[d].phase = "lock"
    BY <1>2 DEF LockRun
  <2>2. CASE checkpoint[Job(d).proj].paused /\ NextStep(d)
    BY <2>1, <2>2, NextStepRests DEF Rests
  <2>3. CASE Enters(d)
    BY <2>1, <2>3, EntersPass
  <2>4. QED
    BY <1>2, <2>2, <2>3 DEF LockRun, Enters
<1>3. CASE LoadEvents(d)
  BY <1>3, LoadsPass
<1>4. CASE FinishRun(d)
  <2>1. Rests(d)
    BY <1>4, NextStepRests DEF FinishRun, FinalizeReady
  <2>2. QED
    BY <1>4, <2>1 DEF Rests
<1>5. CASE RetryPass(d)
  BY <1>5, RetryPassRests
<1>6. CASE FailRun(d)
  BY <1>6, EndPassRests DEF FailRun
<1>7. CASE Crash(d)
  BY <1>7, EndPassRests DEF Crash
<1>8. QED
  BY <1>1, <1>2, <1>3, <1>4, <1>5, <1>6, <1>7 DEF DriverNext, DriverStep

(* No rebuild pauses the edges, and none drops a checkpoint.               *)
LEMMA EdgesNeverPaused ==
  ASSUME ReplayInv, ~checkpoint["semantic_edges"].paused, [Next]_vars
  PROVE  /\ ~checkpoint'["semantic_edges"].paused
         /\ checkpoint["semantic_edges"].exists => checkpoint'["semantic_edges"].exists
<1> DEFINE p == "semantic_edges"
<1>1. CASE checkpoint'[p] = checkpoint[p]
  BY <1>1
<1>2. CASE checkpoint'[p] # checkpoint[p]
  <2>1. PICK d \in Drivers : FinishRun(d) /\ Job(d).proj = p
    BY <1>2, CheckpointMoves DEF Projections
  <2>2. checkpoint'[p] = [exists |-> TRUE, applied |-> Target(d), paused |-> Stops(d) # {}]
    BY <2>1, FinishHolds DEF ReplayInv
  <2>3. Stops(d) = {}
    BY <2>1 DEF Stops, PoisonEnabled
  <2>4. ASSUME NEW c, NEW b, c = [exists |-> TRUE, applied |-> Target(d), paused |-> b]
        PROVE  c.paused = b /\ c.exists
    BY <2>4
  <2>5. QED
    BY <2>2, <2>3, <2>4, Zenon
<1>3. QED
  BY <1>1, <1>2

LEMMA EdgesDoneStep ==
  ASSUME ReplayInv, EdgesDone, [Next]_vars
  PROVE  EdgesDone'
<1> DEFINE edges == "semantic_edges"
<1>1. /\ ~checkpoint'[edges].paused
      /\ checkpoint[edges].exists => checkpoint'[edges].exists
  BY EdgesNeverPaused DEF EdgesDone
<1>2. ASSUME NEW d \in Drivers, pass'[d].phase # "idle",
             NEW j \in 1..(pass'[d].step - 1), pass'[d].plan[j].proj = edges
      PROVE  checkpoint'[edges].exists
  <2>1. CASE pass'[d] = pass[d]
    BY <1>1, <1>2, <2>1 DEF EdgesDone
  <2>2. CASE DriverNext(d)
    <3>1. pass'[d].step # 1
      OBVIOUS
    <3>2. /\ pass[d].phase # "idle" /\ pass'[d].plan = pass[d].plan
          /\ \/ pass'[d].step = pass[d].step
             \/ /\ pass'[d].step = pass[d].step + 1
                /\ FinishRun(d) \/ checkpoint[Job(d).proj].paused
      BY <1>2, <2>2, <3>1, NextMoves DEF ReplayInv
    <3>3. pass[d].step \in Nat
      BY <3>2 DEF ReplayInv, TypeOK
    <3>4. CASE j \in 1..(pass[d].step - 1)
      BY <1>1, <1>2, <3>2, <3>4 DEF EdgesDone
    <3>5. CASE j = pass[d].step /\ pass'[d].step = pass[d].step + 1
      <4>1. Job(d).proj = edges
        BY <1>2, <3>2, <3>5 DEF Job
      <4>2. FinishRun(d)
        BY <3>2, <3>5, <4>1 DEF EdgesDone
      <4>3. checkpoint'[edges] =
              [exists |-> TRUE, applied |-> Target(d), paused |-> Stops(d) # {}]
        BY <4>1, <4>2, FinishHolds DEF ReplayInv
      <4>4. QED
        BY <4>3
    <3>6. QED
      BY <3>2, <3>3, <3>4, <3>5
  <2>3. QED
    <3>1. pass'[d] = pass[d] \/ DriverNext(d)
      <4>1. ASSUME NEW o \in Drivers, DriverNext(o), o # d PROVE pass'[d] = pass[d]
        BY <4>1, DriverCases, EntersPass, LoadsPass DEF ReplayInv, Rests, OthersKeep
      <4>2. QED
        BY <4>1, NextCases DEF vars
    <3>2. QED
      BY <2>1, <2>2, <3>1
<1>3. QED
  BY <1>1, <1>2 DEF EdgesDone

(* A run that publishes search found an edge checkpoint, no older than what *)
(* it saves.                                                               *)
LEMMA EdgesReach ==
  ASSUME EdgesFirst, ReplayInv, EdgesDone, NEW d \in Drivers, FinishRun(d),
         Job(d).proj = "search", Stops(d) = {}
  PROVE  /\ checkpoint["semantic_edges"].exists
         /\ Target(d) <= checkpoint["semantic_edges"].applied
<1>1. pass[d].phase = "finish"
  BY DEF FinishRun, FinalizeReady
<1>2. pass[d].plan \in Plans /\ pass[d].step \in 1..Len(pass[d].plan)
  BY <1>1 DEF ReplayInv, PassInPlan
<1>3. pass[d].plan \in Seq(Run)
  BY <1>2, ReplayConstants
<1>4. pass[d].step \in DOMAIN pass[d].plan
  BY <1>2, <1>3
<1>5. PICK j \in 1..(pass[d].step - 1) : pass[d].plan[j].proj = "semantic_edges"
  BY <1>2, <1>4 DEF EdgesFirst, Job
<1>6. checkpoint["semantic_edges"].exists
  BY <1>1, <1>5 DEF EdgesDone
<1>7. ~(checkpoint["semantic_edges"].applied < Target(d))
  BY <1>6 DEF FinishRun, EdgesLag
<1>8. checkpoint["semantic_edges"].applied \in 0..MaxSeq /\ Target(d) \in 0..MaxSeq
  BY TargetType DEF ReplayInv, TypeOK, Checkpoint, Projections
<1>9. QED
  BY <1>6, <1>7, <1>8

LEMMA EdgeDocsStep ==
  ASSUME EdgesFirst, ReplayInv, AppendsInOrder, CoverInv, EdgesDone,
         EdgeDocsCoverCheckpoint, [Next]_vars
  PROVE  EdgeDocsCoverCheckpoint'
<1> SUFFICES ASSUME checkpoint'["search"].exists, ~checkpoint'["search"].paused,
                    NEW e \in ledger', e.seq <= checkpoint'["search"].applied
             PROVE  e.seq \in edgeDocs'
  BY DEF EdgeDocsCoverCheckpoint
<1>1. CASE e \notin ledger
  <2>1. e \in inflight /\ UNCHANGED stores
    BY <1>1, NewlyCommitted
  <2>2. Known(checkpoint["search"].applied, ledger)
    BY DEF ReplayInv, NamesCommitted, Projections
  <2>3. checkpoint["search"].applied < e.seq
    BY <2>1, <2>2, NewerThanKnown DEF ReplayInv
  <2>4. e.seq \in Nat /\ checkpoint["search"].applied \in Nat
    BY <2>1 DEF ReplayInv, TypeOK, LedgerEvent, Checkpoint, Projections
  <2>5. QED
    BY <2>1, <2>3, <2>4 DEF stores
<1>2. CASE e \in ledger /\ UNCHANGED stores
  BY <1>2 DEF EdgeDocsCoverCheckpoint, stores
<1>3. ASSUME e \in ledger, NEW d \in Drivers, FinishRun(d) PROVE e.seq \in edgeDocs'
  <2>1. CASE Job(d).proj # "search"
    <3>1. checkpoint'["search"] = checkpoint["search"]
      BY <1>3, <2>1, FinishHolds DEF ReplayInv, Projections
    <3>2. edgeDocs' = edgeDocs
      BY <1>3, <2>1 DEF FinishRun
    <3>3. QED
      BY <1>3, <3>1, <3>2 DEF EdgeDocsCoverCheckpoint
  <2>2. CASE Job(d).proj = "search"
    <3>1. checkpoint'["search"] =
            [exists |-> TRUE, applied |-> Target(d), paused |-> Stops(d) # {}]
      BY <1>3, <2>2, FinishHolds DEF ReplayInv
    <3>2. checkpoint'["search"].applied = Target(d)
      BY <3>1
    <3>3. ASSUME NEW c, NEW b, c = [exists |-> TRUE, applied |-> Target(d), paused |-> b]
          PROVE  c.paused = b
      BY <3>3
    <3>4. Stops(d) = {}
      BY <3>1, <3>3, Zenon
    <3>5. /\ checkpoint["semantic_edges"].exists
          /\ Target(d) <= checkpoint["semantic_edges"].applied
      BY <1>3, <2>2, <3>4, EdgesReach
    <3>6. e.seq \in Nat /\ Target(d) \in Nat /\ checkpoint["semantic_edges"].applied \in Nat
      BY <1>3, TargetType DEF ReplayInv, TypeOK, LedgerEvent, Checkpoint, Projections
    <3>7. e.seq <= checkpoint["semantic_edges"].applied
      BY <3>2, <3>5, <3>6
    <3>8. e.seq \in store["semantic_edges"]
      BY <1>3, <3>5, <3>7 DEF CoverInv, CheckpointCovered, Projections
    <3>9. QED
      BY <1>3, <2>2, <3>8 DEF FinishRun
  <2>3. QED
    BY <2>1, <2>2
<1>4. QED
  BY <1>1, <1>2, <1>3, StoresStep DEF ReplayInv

(* A pass that goes through the edges before it publishes search never      *)
(* shows edge documents older than the search checkpoint.                  *)
THEOREM EdgeDocsKeepUp ==
  ASSUME EdgesFirst
  PROVE  Spec /\ []AppendsInOrder => []ReplaySafe
<1>1. Init => CoverInv /\ EdgesDone /\ EdgeDocsCoverCheckpoint
  <2> SUFFICES ASSUME Init PROVE CoverInv /\ EdgesDone /\ EdgeDocsCoverCheckpoint
    OBVIOUS
  <2>1. \A d \in Drivers : pass[d].phase = "idle"
    BY NoPassType DEF Init
  <2>2. \A p \in Projections : ~checkpoint[p].exists /\ ~checkpoint[p].paused
    BY DEF Init
  <2>3. QED
    BY <2>1, <2>2 DEF Init, CoverInv, LoadedPrefix, CheckpointCovered, EdgesDone,
       EdgeDocsCoverCheckpoint, Projections
<1>2. /\ ReplayInv /\ AppendsInOrder
      /\ CoverInv /\ EdgesDone /\ EdgeDocsCoverCheckpoint /\ [Next]_vars
      => (CoverInv /\ EdgesDone /\ EdgeDocsCoverCheckpoint)'
  BY LoadedPrefixStep, CheckpointCoveredStep, EdgesDoneStep, EdgeDocsStep DEF CoverInv
<1>3. ReplayInv /\ EdgeDocsCoverCheckpoint => ReplaySafe
  BY DEF ReplayInv, ReplaySafe
<1>4. QED
  BY <1>1, <1>2, <1>3, ReplayInvAlways, PTL DEF Spec

-----------------------------------------------------------------------------
(* The guard in front of the reads                                         *)

(* The checkpoint the reader saw covers its token: the event is in the      *)
(* store unless the projection is paused or the policy skips it, and every  *)
(* rebuild about to commit has loaded it.                                  *)
Reached(p, n) ==
  /\ \A e \in ledger : e.seq = n /\ e.kind # "noise" /\ ~checkpoint[p].paused =>
       n \in store[p]
  /\ \A d \in Drivers : pass[d].phase = "finish" /\ Job(d).proj = p =>
       n \in Seqs(pass[d].events)

TokensReached ==
  \A r \in Readers : read[r].phase # "idle" =>
    /\ read[r].token \in Seqs(ledger)
    /\ read[r].phase = "answer" => read[r].applied >= read[r].token
    /\ read[r].applied >= read[r].token => Reached(read[r].proj, read[r].token)

ReadRecord == [phase: {"idle", "queue", "pause", "lag", "answer"},
               token: 0..MaxSeq, proj: Projections,
               applied: 0..MaxSeq, paused: BOOLEAN]

Waiting(p) == {r \in Readers : read[r].phase \in {"pause", "lag"} /\ read[r].proj = p}

ReaderNext(r) == Ask(r) \/ PollPause(r) \/ PollLag(r) \/ ReadStep(r)

(* Where a step takes its reader.                                          *)
Reads(r) ==
  /\ \A other \in Readers \ {r} : read'[other] = read[other]
  /\ read' \in [Readers -> ReadRecord]
  /\ \/ read'[r].phase = "idle"
     \/ /\ read[r].phase = "idle" /\ read'[r].phase = "queue"
        /\ read'[r].token \in Seqs(ledger) /\ read'[r].applied = 0
     \/ /\ read[r].phase # "idle"
        /\ read'[r].token = read[r].token /\ read'[r].proj = read[r].proj
        /\ \/ read'[r].applied = read[r].applied
           \/ read'[r].applied = checkpoint[read[r].proj].applied
        /\ read'[r].phase = "answer" =>
             \/ read[r].phase = "answer" /\ read'[r].applied = read[r].applied
             \/ read'[r].applied >= read'[r].token

LEMMA ReadTypes ==
  ASSUME ReadTypeOK, NEW r \in Readers
  PROVE  /\ TypeOK /\ read \in [Readers -> ReadRecord] /\ read[r] \in ReadRecord
         /\ read[r].proj \in Projections
         /\ checkpoint[read[r].proj].applied \in 0..MaxSeq
         /\ checkpoint[read[r].proj].paused \in BOOLEAN
BY DEF ReadTypeOK, ReadRecord, TypeOK, Checkpoint

LEMMA NoReadType == NoRead \in ReadRecord /\ NoRead.phase = "idle" /\ NoRead.applied = 0
BY ReplayConstants DEF NoRead, ReadRecord, Projections

LEMMA SnapshotType ==
  ASSUME ReadTypeOK, NEW r \in Readers
  PROVE  /\ Snapshot(r) \in ReadRecord
         /\ Snapshot(r).phase = read[r].phase
         /\ Snapshot(r).token = read[r].token /\ Snapshot(r).proj = read[r].proj
         /\ Snapshot(r).applied = checkpoint[read[r].proj].applied
BY ReadTypes DEF Snapshot, ReadRecord

LEMMA ReaderMoves ==
  ASSUME ReadTypeOK, NEW r \in Readers, ReaderNext(r)
  PROVE  Reads(r)
<1>1. read \in [Readers -> ReadRecord] /\ read[r] \in ReadRecord /\ TypeOK
  BY ReadTypes
<1>2. CASE Ask(r)
  <2>1. PICK e \in ledger, p \in Projections :
          read' = [read EXCEPT ![r] =
                     [NoRead EXCEPT !.phase = "queue", !.token = e.seq, !.proj = p]]
    BY <1>2 DEF Ask
  <2> DEFINE next == [NoRead EXCEPT !.phase = "queue", !.token = e.seq, !.proj = p]
  <2>2. e.seq \in 0..MaxSeq /\ e.seq \in Seqs(ledger)
    BY <1>1 DEF TypeOK, LedgerEvent, Seqs
  <2>3. /\ next \in ReadRecord /\ next.phase = "queue"
        /\ next.token = e.seq /\ next.applied = 0
    BY <2>2, NoReadType DEF ReadRecord
  <2>4. read' = [read EXCEPT ![r] = next]
    BY <2>1
  <2> HIDE DEF next
  <2>5. QED
    BY <1>1, <1>2, <2>2, <2>3, <2>4 DEF Reads, Ask
<1>3. CASE Enter(r)
  <2> DEFINE next == [Snapshot(r) EXCEPT !.phase = "pause"]
  <2>1. /\ next \in ReadRecord /\ next.phase = "pause" /\ next.token = read[r].token
        /\ next.proj = read[r].proj /\ next.applied = checkpoint[read[r].proj].applied
    BY SnapshotType DEF ReadRecord
  <2>2. read' = [read EXCEPT ![r] = next] /\ read[r].phase = "queue"
    BY <1>3 DEF Enter
  <2> HIDE DEF next
  <2>3. QED
    BY <1>1, <2>1, <2>2 DEF Reads
<1>4. CASE PollPause(r) \/ PollLag(r)
  <2>1. read' = [read EXCEPT ![r] = Snapshot(r)] /\ read[r].phase \in {"pause", "lag"}
    BY <1>4 DEF PollPause, PollLag
  <2>2. QED
    BY <1>1, <2>1, SnapshotType DEF Reads
<1>5. CASE PauseOver(r)
  <2> DEFINE next == [read[r] EXCEPT !.phase = "lag"]
  <2>1. /\ next \in ReadRecord /\ next.phase = "lag" /\ next.token = read[r].token
        /\ next.proj = read[r].proj /\ next.applied = read[r].applied
    BY <1>1 DEF ReadRecord
  <2>2. read' = [read EXCEPT ![r] = next] /\ read[r].phase = "pause"
    BY <1>1, <1>5 DEF PauseOver
  <2> HIDE DEF next
  <2>3. QED
    BY <1>1, <2>1, <2>2 DEF Reads
<1>6. CASE CaughtUp(r)
  <2> DEFINE next == [read[r] EXCEPT !.phase = "answer"]
  <2>1. /\ next \in ReadRecord /\ next.phase = "answer" /\ next.token = read[r].token
        /\ next.proj = read[r].proj /\ next.applied = read[r].applied
    BY <1>1 DEF ReadRecord
  <2>2. /\ read' = [read EXCEPT ![r] = next] /\ read[r].phase = "lag"
        /\ read[r].applied >= read[r].token
    BY <1>1, <1>6 DEF CaughtUp
  <2> HIDE DEF next
  <2>3. QED
    BY <1>1, <2>1, <2>2 DEF Reads
<1>7. CASE GiveUp(r) \/ Answer(r)
  <2>1. read' = [read EXCEPT ![r] = NoRead]
    BY <1>7 DEF GiveUp, Answer
  <2>2. QED
    BY <1>1, <2>1, NoReadType DEF Reads
<1>8. QED
  BY <1>2, <1>3, <1>4, <1>5, <1>6, <1>7 DEF ReaderNext, ReadStep

-----------------------------------------------------------------------------
(* Readers leave the drivers alone: a step of theirs stutters there.       *)
LEMMA ReadSpecIsSpec == ReadSpec => Spec
<1>1. ReadInit => Init
  BY DEF ReadInit
<1>2. [ReadNext]_allVars => [Next]_vars
  BY DEF ReadNext, allVars
<1>3. QED
  BY <1>1, <1>2, PTL DEF ReadSpec, Spec

LEMMA ReadCases ==
  ASSUME [ReadNext]_allVars
  PROVE  \/ [Next]_vars /\ UNCHANGED <<read, slots>>
         \/ UNCHANGED vars /\ \E r \in Readers : ReaderNext(r)
BY DEF ReadNext, allVars, ReaderNext

(* Slots.                                                                  *)
LEMMA WaitingFinite ==
  ASSUME NEW p
  PROVE  /\ IsFiniteSet(Waiting(p)) /\ Cardinality(Waiting(p)) \in Nat
<1>1. Waiting(p) \subseteq Readers
  BY DEF Waiting
<1>2. QED
  BY <1>1, ReadConstants, FS_Subset, FS_CardinalityType

LEMMA SlotsReader ==
  ASSUME ReadTypeOK, SlotsAccounted, NEW r \in Readers, ReaderNext(r)
  PROVE  SlotsAccounted' /\ slots' \in [Projections -> 0..MaxWaiters]
<1> DEFINE Balanced(s) ==
             /\ s \in [Projections -> Nat]
             /\ \A p \in Projections : s[p] + Cardinality(Waiting(p)') = MaxWaiters
<1>1. /\ slots \in [Projections -> 0..MaxWaiters] /\ read \in [Readers -> ReadRecord]
  BY ReadTypes DEF ReadTypeOK
<1>4. PICK q \in Projections : q = read[r].proj
  BY ReadTypes
<1>2. \A p \in Projections : slots[p] + Cardinality(Waiting(p)) = MaxWaiters
  BY DEF SlotsAccounted, Waiting
<1>3. \A other \in Readers \ {r} : read'[other] = read[other]
  BY ReaderMoves DEF Reads
<1>5. ASSUME Ask(r) \/ PollPause(r) \/ PauseOver(r) \/ PollLag(r) \/ Answer(r)
      PROVE  Balanced(slots')
  <2>1. slots' = slots
    BY <1>5 DEF Ask, PollPause, PauseOver, PollLag, Answer
  <2>2. /\ read'[r].phase \in {"pause", "lag"} <=> read[r].phase \in {"pause", "lag"}
        /\ read[r].phase \in {"pause", "lag"} => read'[r].proj = read[r].proj
    <3>1. CASE Ask(r) \/ Answer(r)
      <4>1. read[r].phase \notin {"pause", "lag"}
        BY <3>1 DEF Ask, Answer
      <4>2. CASE Ask(r)
        <5>1. PICK e \in ledger, p \in Projections :
                read' = [read EXCEPT ![r] =
                          [NoRead EXCEPT !.phase = "queue", !.token = e.seq, !.proj = p]]
          BY <4>2 DEF Ask
        <5>2. read'[r].phase = "queue"
          BY <1>1, <5>1, NoReadType DEF ReadRecord
        <5>3. QED
          BY <4>1, <5>2
      <4>3. CASE Answer(r)
        BY <1>1, <4>1, <4>3, NoReadType DEF Answer
      <4>4. QED
        BY <3>1, <4>2, <4>3
    <3>2. CASE PollPause(r) \/ PollLag(r)
      BY <1>1, <3>2, SnapshotType DEF PollPause, PollLag
    <3>3. CASE PauseOver(r)
      BY <1>1, <3>3 DEF PauseOver, ReadRecord
    <3>4. QED
      BY <1>5, <3>1, <3>2, <3>3
  <2>3. \A p \in Projections : Waiting(p)' = Waiting(p)
    BY <1>3, <2>2 DEF Waiting
  <2>4. QED
    BY <1>1, <1>2, <2>1, <2>3
<1>6. ASSUME Enter(r) PROVE Balanced(slots')
  <2>1. /\ slots' = [slots EXCEPT ![q] = slots[q] - 1] /\ slots[q] > 0
        /\ read[r].phase = "queue"
        /\ read'[r].phase = "pause" /\ read'[r].proj = q
    BY <1>1, <1>4, <1>6, SnapshotType DEF Enter, ReadRecord
  <2>2. Waiting(q)' = Waiting(q) \cup {r} /\ r \notin Waiting(q)
    BY <1>3, <1>4, <2>1 DEF Waiting
  <2>3. \A p \in Projections \ {q} : Waiting(p)' = Waiting(p)
    BY <1>3, <1>4, <2>1 DEF Waiting
  <2>4. Cardinality(Waiting(q)') = Cardinality(Waiting(q)) + 1
    BY <2>2, WaitingFinite, FS_AddElement
  <2>5. \A p \in Projections : slots'[p] = IF p = q THEN slots[p] - 1 ELSE slots[p]
    BY <1>1, <2>1
  <2>6. QED
    BY <1>1, <1>2, <2>1, <2>3, <2>4, <2>5, WaitingFinite
<1>7. ASSUME GiveUp(r) \/ CaughtUp(r) PROVE Balanced(slots')
  <2>1. /\ slots' = [slots EXCEPT ![q] = slots[q] + 1] /\ read[r].phase \in {"pause", "lag"}
        /\ read'[r].phase \in {"idle", "answer"}
    BY <1>1, <1>4, <1>7, NoReadType DEF GiveUp, CaughtUp, Leave, ReadRecord
  <2>2. Waiting(q)' = Waiting(q) \ {r} /\ r \in Waiting(q)
    BY <1>3, <1>4, <2>1 DEF Waiting
  <2>3. \A p \in Projections \ {q} : Waiting(p)' = Waiting(p)
    BY <1>3, <1>4, <2>1 DEF Waiting
  <2>4. Cardinality(Waiting(q)') = Cardinality(Waiting(q)) - 1
    BY <2>2, WaitingFinite, FS_RemoveElement
  <2>5. \A p \in Projections : slots'[p] = IF p = q THEN slots[p] + 1 ELSE slots[p]
    BY <1>1, <2>1
  <2>6. QED
    BY <1>1, <1>2, <2>1, <2>3, <2>4, <2>5, WaitingFinite
<1>8. Balanced(slots')
  BY <1>5, <1>6, <1>7 DEF ReaderNext, ReadStep
<1>9. SlotsAccounted'
  BY <1>8 DEF SlotsAccounted, Waiting
<1>10. \A p \in Projections : Cardinality(Waiting(p)') \in Nat
  <2> SUFFICES ASSUME NEW p \in Projections PROVE Cardinality(Waiting(p)') \in Nat
    OBVIOUS
  <2>1. Waiting(p)' \subseteq Readers
    BY DEF Waiting
  <2>2. QED
    BY <2>1, ReadConstants, FS_Subset, FS_CardinalityType
<1>11. \A p \in Projections : slots'[p] \in 0..MaxWaiters
  <2> SUFFICES ASSUME NEW p \in Projections PROVE slots'[p] \in 0..MaxWaiters
    OBVIOUS
  <2>1. PICK n \in Nat : n = Cardinality(Waiting(p)')
    BY <1>10
  <2>2. slots'[p] \in Nat /\ slots'[p] + n = MaxWaiters
    BY <1>8, <2>1
  <2>3. QED
    BY <2>2, ReadConstants
<1>12. QED
  BY <1>8, <1>9, <1>11

LEMMA ReadInitHolds == ReadInit => ReadTypeOK /\ SlotsAccounted
<1> SUFFICES ASSUME ReadInit PROVE ReadTypeOK /\ SlotsAccounted
  OBVIOUS
<1>1. TypeOK
  BY ReplayInit DEF ReadInit, ReplayInv
<1>2. read \in [Readers -> ReadRecord] /\ slots \in [Projections -> 0..MaxWaiters]
  BY NoReadType, ReadConstants DEF ReadInit
<1>3. SlotsAccounted
  <2>1. \A p \in Projections : {r \in Readers : /\ read[r].phase \in {"pause", "lag"}
                                                /\ read[r].proj = p} = {}
    BY NoReadType DEF ReadInit
  <2>2. Cardinality({}) = 0
    BY FS_EmptySet
  <2>3. \A p \in Projections : slots[p] = MaxWaiters
    BY DEF ReadInit
  <2>4. QED
    BY <2>1, <2>2, <2>3, ReadConstants DEF SlotsAccounted
<1>4. QED
  BY <1>1, <1>2, <1>3 DEF ReadTypeOK, ReadRecord

LEMMA ReadSafeStep ==
  ASSUME ReadTypeOK, SlotsAccounted, TypeOK', [ReadNext]_allVars
  PROVE  ReadTypeOK' /\ SlotsAccounted'
<1>1. CASE UNCHANGED <<read, slots>>
  BY <1>1 DEF ReadTypeOK, SlotsAccounted
<1>2. ASSUME NEW r \in Readers, ReaderNext(r) PROVE ReadTypeOK' /\ SlotsAccounted'
  <2>1. read' \in [Readers -> ReadRecord]
    BY <1>2, ReaderMoves DEF Reads
  <2>2. SlotsAccounted' /\ slots' \in [Projections -> 0..MaxWaiters]
    BY <1>2, SlotsReader
  <2>3. QED
    BY <2>1, <2>2 DEF ReadTypeOK, ReadRecord
<1>3. QED
  BY <1>1, <1>2, ReadCases

(* No exit of the guard keeps its slot or gives it back twice, whatever the *)
(* projections do.                                                         *)
THEOREM SlotsNeverLeak == ReadSpec => [](ReadTypeOK /\ SlotsAccounted)
<1>1. ReplayInv => TypeOK
  BY DEF ReplayInv
<1>2. ReadTypeOK /\ SlotsAccounted /\ TypeOK' /\ [ReadNext]_allVars
        => (ReadTypeOK /\ SlotsAccounted)'
  BY ReadSafeStep
<1>3. QED
  BY <1>1, <1>2, ReadInitHolds, ReadSpecIsSpec, ReplayInvAlways, PTL DEF ReadSpec

-----------------------------------------------------------------------------
(* Tokens.                                                                 *)

(* A checkpoint that has reached a committed seq has its event.            *)
LEMMA CheckpointReaches ==
  ASSUME ReplayInv, CoverInv, NEW p \in Projections, NEW n \in Seqs(ledger),
         checkpoint[p].applied >= n
  PROVE  Reached(p, n)
<1>1. n \in 1..MaxSeq /\ checkpoint[p].applied \in 0..MaxSeq
  BY DEF ReplayInv, TypeOK, LedgerEvent, Checkpoint, Seqs
<1>2. ASSUME NEW e \in ledger, e.seq = n, e.kind # "noise", ~checkpoint[p].paused
      PROVE  n \in store[p]
  <2>1. checkpoint[p].exists
    BY <1>1 DEF ReplayInv, NamesCommitted
  <2>2. e.kind \in {"claim", "authority"}
    BY <1>2 DEF ReplayInv, TypeOK, LedgerEvent, Kinds
  <2>3. e.seq <= checkpoint[p].applied
    BY <1>1, <1>2
  <2>4. QED
    BY <1>2, <2>1, <2>2, <2>3 DEF CoverInv, CheckpointCovered
<1>3. ASSUME NEW d \in Drivers, pass[d].phase = "finish", Job(d).proj = p
      PROVE  n \in Seqs(pass[d].events)
  <2>1. PICK f \in pass[d].events : f.seq = checkpoint[p].applied
    BY <1>1, <1>3 DEF ReplayInv, NamesCommitted, Known
  <2>2. PICK e \in ledger : e.seq = n
    BY DEF Seqs
  <2>3. ~(f.seq < e.seq)
    BY <1>1, <2>1, <2>2
  <2>4. e \in pass[d].events
    BY <1>3, <2>1, <2>3 DEF CoverInv, LoadedPrefix
  <2>5. QED
    BY <2>2, <2>4 DEF Seqs
<1>4. QED
  BY <1>2, <1>3 DEF Reached

(* What a projection has reached it keeps: a rebuild that commits has       *)
(* loaded it.                                                              *)
LEMMA FinishKeepsReached ==
  ASSUME ReplayInv, NEW d \in Drivers, FinishRun(d), NEW n, Reached(Job(d).proj, n),
         NEW e \in ledger, e.seq = n, e.kind # "noise", ~checkpoint'[Job(d).proj].paused
  PROVE  n \in store'[Job(d).proj]
<1> DEFINE p == Job(d).proj
<1>1. /\ pass[d].phase = "finish" /\ Inside(d) /\ p \in Projections
      /\ checkpoint'[p] = [exists |-> TRUE, applied |-> Target(d), paused |-> Stops(d) # {}]
      /\ store'[p] = (IF Rebuilds(Job(d)) THEN {} ELSE store[p]) \cup Seqs(Applied(d))
  BY FinishHolds DEF ReplayInv
<1>2. CASE Rebuilds(Job(d))
  <2>1. PICK f \in pass[d].events : f.seq = n
    BY <1>1 DEF Reached, Seqs
  <2>2. f = e
    BY <1>1, <2>1 DEF ReplayInv, NamesCommitted, SeqsDistinct
  <2>3. pass[d].from = 0
    BY <1>1, <1>2 DEF ReplayInv, StartHolds
  <2>4. e \in Todo(d) /\ e.kind \in Kinds
    BY <2>1, <2>2, <2>3, TodoType DEF ReplayInv, TypeOK, LedgerEvent, Todo
  <2>5. ASSUME NEW c, NEW b, c = [exists |-> TRUE, applied |-> Target(d), paused |-> b]
        PROVE  c.paused = b
    BY <2>5
  <2>6. Stops(d) = {}
    BY <1>1, <2>5, Zenon
  <2>7. e \in Applied(d)
    BY <2>4, <2>6 DEF Applied, Seen, Stops, Kinds
  <2>8. QED
    BY <1>1, <2>7 DEF Seqs
<1>3. CASE ~Rebuilds(Job(d))
  <2>1. ~checkpoint[p].paused
    BY <1>1, <1>3 DEF ReplayInv, StartHolds, Rebuilds
  <2>2. n \in store[p]
    BY <2>1 DEF Reached
  <2>3. QED
    BY <1>1, <1>3, <2>2
<1>4. QED
  BY <1>2, <1>3

LEMMA ReachedStep ==
  ASSUME ReplayInv, SeqsDistinct', [Next]_vars, NEW p \in Projections,
         NEW n \in Seqs(ledger), Reached(p, n)
  PROVE  Reached(p, n)'
<1>1. ASSUME NEW e \in ledger', e.seq = n, e.kind # "noise", ~checkpoint'[p].paused
      PROVE  n \in store'[p]
  <2>1. e \in ledger
    <3>1. PICK f \in ledger : f.seq = n
      BY DEF Seqs
    <3>2. f \in ledger'
      BY LedgerGrows
    <3>3. QED
      BY <1>1, <3>1, <3>2 DEF SeqsDistinct
  <2>2. CASE UNCHANGED stores
    BY <1>1, <2>1, <2>2 DEF Reached, stores
  <2>3. ASSUME NEW d \in Drivers, FinishRun(d) PROVE n \in store'[p]
    <3>1. CASE p = Job(d).proj
      BY <1>1, <2>1, <2>3, <3>1, FinishKeepsReached
    <3>2. CASE p # Job(d).proj
      <4>1. checkpoint'[p] = checkpoint[p] /\ store'[p] = store[p]
        BY <2>3, <3>2, FinishHolds DEF ReplayInv
      <4>2. QED
        BY <1>1, <2>1, <4>1 DEF Reached
    <3>3. QED
      BY <3>1, <3>2
  <2>4. QED
    BY <2>2, <2>3, StoresStep DEF ReplayInv
<1>2. ASSUME NEW d \in Drivers, pass'[d].phase = "finish", Job(d)'.proj = p
      PROVE  n \in Seqs(pass'[d].events)
  <2>1. CASE Inside(d) /\ pass'[d] = pass[d]
    BY <1>2, <2>1, SamePass DEF Reached
  <2>2. CASE Enters(d)
    BY <1>2, <2>2, EntersPass DEF ReplayInv
  <2>3. CASE LoadEvents(d)
    BY <2>3, LoadsPass DEF ReplayInv
  <2>4. QED
    BY <1>2, <2>1, <2>2, <2>3, InsideCases DEF ReplayInv, Inside
<1>3. QED
  BY <1>1, <1>2 DEF Reached

LEMMA TokensReachedStep ==
  ASSUME ReplayInv, ReplayInv', CoverInv, ReadTypeOK, TokensReached, [ReadNext]_allVars
  PROVE  TokensReached'
<1>1. CASE [Next]_vars /\ UNCHANGED <<read, slots>>
  <2> SUFFICES ASSUME NEW r \in Readers, read[r].phase # "idle"
               PROVE  /\ read[r].token \in Seqs(ledger')
                      /\ read[r].phase = "answer" => read[r].applied >= read[r].token
                      /\ read[r].applied >= read[r].token =>
                           Reached(read[r].proj, read[r].token)'
    <3>1. read' = read
      BY <1>1
    <3>2. QED
      BY <3>1 DEF TokensReached, Reached, Job, Seqs
  <2>1. read[r].token \in Seqs(ledger)
    BY DEF TokensReached
  <2>2. PICK n \in Seqs(ledger), p \in Projections : n = read[r].token /\ p = read[r].proj
    BY <2>1, ReadTypes
  <2>3. Seqs(ledger) \subseteq Seqs(ledger')
    BY <1>1, LedgerGrows DEF Seqs
  <2>4. Reached(p, n) => Reached(p, n)'
    BY <1>1, ReachedStep DEF ReplayInv
  <2>5. read' = read
    BY <1>1
  <2>6. Reached(read[r].proj, read[r].token)' <=> Reached(p, n)'
    BY <2>2, <2>5 DEF Reached
  <2>7. QED
    BY <2>1, <2>2, <2>3, <2>4, <2>6 DEF TokensReached
<1>2. ASSUME UNCHANGED vars, NEW r \in Readers, ReaderNext(r) PROVE TokensReached'
  <2>1. Reads(r)
    BY <1>2, ReaderMoves
  <2>2. \A p, n : Reached(p, n)' <=> Reached(p, n)
    BY <1>2 DEF vars, appends, stores, Reached, Job
  <2> SUFFICES ASSUME NEW x \in Readers, read'[x].phase # "idle"
               PROVE  /\ read'[x].token \in Seqs(ledger)
                      /\ read'[x].phase = "answer" => read'[x].applied >= read'[x].token
                      /\ read'[x].applied >= read'[x].token =>
                           Reached(read'[x].proj, read'[x].token)
    <3>1. ledger' = ledger
      BY <1>2 DEF vars, appends
    <3>2. QED
      BY <1>2, <3>1 DEF TokensReached, Reached, Job, Seqs, vars, appends, stores
  <2>3. CASE x # r
    BY <2>1, <2>3 DEF Reads, TokensReached
  <2>4. CASE x = r
    <3>1. CASE read[r].phase = "idle"
      <4>1. read'[r].phase = "queue" /\ read'[r].token \in Seqs(ledger) /\ read'[r].applied = 0
        BY <2>1, <2>4, <3>1 DEF Reads
      <4>2. read'[r].token \in 1..MaxSeq
        BY <4>1 DEF ReplayInv, TypeOK, LedgerEvent, Seqs
      <4>3. ~(read'[r].applied >= read'[r].token)
        BY <4>1, <4>2
      <4>4. QED
        BY <2>4, <4>1, <4>3
    <3>2. CASE read[r].phase # "idle"
      <4>1. /\ read'[r].token = read[r].token /\ read'[r].proj = read[r].proj
            /\ \/ read'[r].applied = read[r].applied
               \/ read'[r].applied = checkpoint[read[r].proj].applied
            /\ read'[r].phase = "answer" =>
                 \/ read[r].phase = "answer" /\ read'[r].applied = read[r].applied
                 \/ read'[r].applied >= read'[r].token
        BY <2>1, <2>4, <3>2 DEF Reads
      <4>2. read[r].token \in Seqs(ledger)
        BY <3>2 DEF TokensReached
      <4>3. checkpoint[read[r].proj].applied >= read[r].token =>
              Reached(read[r].proj, read[r].token)
        BY <4>2, CheckpointReaches, ReadTypes
      <4>4. QED
        BY <2>4, <3>2, <4>1, <4>2, <4>3 DEF TokensReached
    <3>3. QED
      BY <3>1, <3>2
  <2>5. QED
    BY <2>3, <2>4
<1>3. QED
  BY <1>1, <1>2, ReadCases

LEMMA TokensAnswered == ReplayInv /\ ReadTypeOK /\ TokensReached => AnswersReflectToken
<1> SUFFICES ASSUME ReplayInv, ReadTypeOK, TokensReached, NEW r \in Readers,
                    read[r].phase = "answer", ~checkpoint[read[r].proj].paused,
                    NEW e \in ledger, e.seq = read[r].token, e.kind # "noise"
             PROVE  read[r].token \in store[read[r].proj]
  BY DEF AnswersReflectToken
<1>1. Reached(read[r].proj, read[r].token)
  BY DEF TokensReached
<1>2. QED
  BY <1>1 DEF Reached

(* The guard can be relied on while seqs become visible in order.          *)
THEOREM GuardIsSafe == ReadSpec /\ []AppendsInOrder => []GuardSafe
<1>1. ReadTypeOK /\ SlotsAccounted /\ CoverInv => GuardSafe
  BY DEF GuardSafe, CoverInv
<1>2. QED
  BY <1>1, SlotsNeverLeak, ReadSpecIsSpec, CoverAlways, PTL

(* An admitted read sees the write whose token it carries, while seqs       *)
(* become visible in order.                                                *)
THEOREM ReadsSeeTheirWrites == ReadSpec /\ []AppendsInOrder => []AnswersReflectToken
<1>1. ReadInit => TokensReached
  BY NoReadType DEF ReadInit, TokensReached
<1>2. ReplayInv /\ ReplayInv' /\ CoverInv /\ ReadTypeOK /\ TokensReached /\ [ReadNext]_allVars
        => TokensReached'
  BY TokensReachedStep
<1>3. QED
  BY <1>1, <1>2, TokensAnswered, SlotsNeverLeak, ReadSpecIsSpec, ReplayInvAlways, CoverAlways,
     PTL DEF ReadSpec
===============================================================================
