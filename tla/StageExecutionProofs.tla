------------------------ MODULE StageExecutionProofs ------------------------
(***************************************************************************)
(* Proofs about StageExecution for every set of workers, jobs, run keys    *)
(* and outputs: type correctness, completions with evidence, one canonical *)
(* completion per run, and observations that attribute committed work.     *)
(***************************************************************************)
EXTENDS StageExecution, TLAPS

LEMMA NoRunIsNoRow == NoRun \notin RunRow
<1>1. SUFFICES ASSUME NoRun \in RunRow PROVE FALSE
  OBVIOUS
<1>2. NoRun.status \in {"claimed", "complete", "failed", "quarantined"}
  BY <1>1 DEF RunRow
<1>3. QED
  BY <1>2 DEF NoRun

(* The invariant that proves them.  A worker past its claim has a row; one  *)
(* that replays a completion found it committed; one that observes it does  *)
(* not own the run, and a row never changes its owner.                      *)
PastClaimHasRow ==
  \A w \in Workers :
    task[w] # NoTask /\ task[w].phase # "claim" => runs[Key(w)] \in RunRow

ReplayIsCommitted ==
  \A w \in Workers :
    task[w].phase \in {"read", "observe"} => Canonical(Key(w)) # {}

ObserverIsNoOwner ==
  \A w \in Workers :
    task[w].phase = "observe" => runs[Key(w)].owner # task[w].job

ObservedRunHasRow == \A e \in completions : e.replayed => runs[e.key] \in RunRow

StageInv ==
  /\ StageTypeOK
  /\ PastClaimHasRow
  /\ ReplayIsCommitted
  /\ ObserverIsNoOwner
  /\ ObservedRunHasRow
  /\ CompletionHasEvidence
  /\ OneCompletion
  /\ ObservationsAttributeCommittedWork

-----------------------------------------------------------------------------
LEMMA StageInitType == StageInit => StageTypeOK
BY DEF StageInit, StageTypeOK

LEMMA InPhase ==
  ASSUME StageTypeOK, NEW w \in Workers, task[w] # NoTask
  PROVE  task[w] \in Task /\ Key(w) \in RunKeys /\ task[w].job \in Jobs
BY DEF StageTypeOK, Task, Key

LEMMA IdlePhase == ASSUME NEW w \in Workers, task[w] = NoTask PROVE task[w].phase = "idle"
BY DEF NoTask

LEMMA NoTaskIsNoTask == NoTask \notin Task
<1>1. SUFFICES ASSUME NoTask \in Task PROVE FALSE
  OBVIOUS
<1>2. NoTask.phase \in Running \cup {"done", "raised"}
  BY <1>1 DEF Task
<1>3. QED
  BY <1>2 DEF NoTask, Running

LEMMA GotoType ==
  ASSUME StageTypeOK, NEW w \in Workers, task[w] # NoTask,
         NEW phase \in Running \cup {"done", "raised"}, Goto(w, phase)
  PROVE  task' \in [Workers -> Task \cup {NoTask}]
<1>1. task[w] \in Task
  BY InPhase
<1>2. [task[w] EXCEPT !.phase = phase] \in Task
  BY <1>1 DEF Task
<1>3. QED
  BY <1>2 DEF Goto, StageTypeOK

LEMMA StageNextType ==
  ASSUME StageTypeOK, PastClaimHasRow, [StageNext]_stageVars
  PROVE  StageTypeOK'
<1>1. CASE UNCHANGED stageVars
  BY <1>1 DEF stageVars, StageTypeOK
<1>2. ASSUME NEW w \in Workers, NEW k \in RunKeys, NEW j \in Jobs, Submit(w, k, j)
      PROVE  StageTypeOK'
  <2>1. [phase |-> "claim", key |-> k, job |-> j, attempt |-> 1, output |-> None]
          \in Task
    BY StageConstants DEF Task, Running
  <2>2. QED
    BY <1>2, <2>1 DEF Submit, StageTypeOK
<1>3. ASSUME NEW w \in Workers, Execute(w) PROVE StageTypeOK'
  <2>1. task[w] # NoTask
    BY <1>3, IdlePhase DEF Execute, Claim, Check, ReadCommitted, Observe, Work, Complete,
       Quarantine, Fail
  <2>2. task[w] \in Task /\ Key(w) \in RunKeys /\ task[w].job \in Jobs
    BY <2>1, InPhase
  <2>3. CASE Claim(w)
    <3>1. CASE runs[Key(w)] = NoRun /\ runs' = [runs EXCEPT ![Key(w)] =
             [status |-> "claimed", owner |-> task[w].job, output |-> None]]
             /\ Goto(w, "work")
      <4>1. [status |-> "claimed", owner |-> task[w].job, output |-> None] \in RunRow
        BY <2>2 DEF RunRow
      <4>2. task' \in [Workers -> Task \cup {NoTask}]
        BY <3>1, <2>1, GotoType DEF Running
      <4>3. QED
        BY <2>3, <3>1, <4>1, <4>2 DEF Claim, StageTypeOK
    <3>2. CASE runs[Key(w)] # NoRun /\ Goto(w, "check") /\ UNCHANGED runs
      <4>1. task' \in [Workers -> Task \cup {NoTask}]
        BY <3>2, <2>1, GotoType DEF Running
      <4>2. QED
        BY <2>3, <3>2, <4>1 DEF Claim, StageTypeOK
    <3>3. QED
      BY <2>3, <3>1, <3>2 DEF Claim
  <2>4. CASE Check(w)
    <3>1. \E phase \in Running \cup {"done", "raised"} : Goto(w, phase)
      BY <2>4 DEF Check, Running
    <3>2. task' \in [Workers -> Task \cup {NoTask}]
      BY <3>1, <2>1, GotoType
    <3>3. QED
      BY <2>4, <3>2 DEF Check, StageTypeOK
  <2>5. CASE ReadCommitted(w)
    <3>1. runs[Key(w)] \in RunRow
      BY <2>1, <2>5 DEF PastClaimHasRow, ReadCommitted
    <3>2. \A phase \in {"done", "observe"} :
            [task[w] EXCEPT !.output = runs[Key(w)].output, !.phase = phase] \in Task
      BY <2>2, <3>1 DEF Task, Running, RunRow
    <3>3. QED
      BY <2>5, <3>2 DEF ReadCommitted, StageTypeOK
  <2>6. CASE Observe(w)
    <3>1. task' \in [Workers -> Task \cup {NoTask}]
      BY <2>6, <2>1, GotoType DEF Observe, Running
    <3>2. Event(w, TRUE) \in StageEvent
      BY <2>2 DEF Event, StageEvent, Task
    <3>3. QED
      BY <2>6, <3>1, <3>2 DEF Observe, StageTypeOK
  <2>7. CASE Work(w)
    <3>1. CASE \E phase \in Running : Goto(w, phase)
      <4>1. task' \in [Workers -> Task \cup {NoTask}]
        BY <3>1, <2>1, GotoType
      <4>2. QED
        BY <2>7, <4>1 DEF Work, StageTypeOK
    <3>2. ASSUME NEW output \in Outputs,
            task' = [task EXCEPT ![w].phase = "complete", ![w].output = output]
          PROVE  StageTypeOK'
      <4>1. [task[w] EXCEPT !.phase = "complete", !.output = output] \in Task
        BY <2>2 DEF Task, Running
      <4>2. QED
        BY <2>7, <3>2, <4>1 DEF Work, StageTypeOK
    <3>3. CASE task[w].attempt < MaxAttempts /\ task' = [task EXCEPT ![w].attempt = @ + 1]
      <4>1. [task[w] EXCEPT !.attempt = @ + 1] \in Task
        BY <2>2, <3>3, StageConstants DEF Task
      <4>2. QED
        BY <2>7, <3>3, <4>1 DEF Work, StageTypeOK
    <3>4. QED
      BY <2>7, <3>1, <3>2, <3>3 DEF Work, Running
  <2>8. CASE Complete(w)
    <3>1. [runs[Key(w)] EXCEPT !.status = "complete", !.output = task[w].output] \in RunRow
      BY <2>1, <2>2, <2>8 DEF PastClaimHasRow, Complete, RunRow, Task
    <3>2. Event(w, FALSE) \in StageEvent
      BY <2>2 DEF Event, StageEvent, Task
    <3>3. task' \in [Workers -> Task \cup {NoTask}]
      BY <2>8, <2>1, GotoType DEF Complete
    <3>4. runs' \in [RunKeys -> RunRow \cup {NoRun}]
      BY <2>8, <3>1 DEF Complete, StageTypeOK
    <3>5. completions' \subseteq StageEvent
      BY <2>8, <3>2 DEF Complete, StageTypeOK
    <3>6. QED
      BY <3>3, <3>4, <3>5 DEF StageTypeOK
  <2>9. CASE Quarantine(w)
    <3>1. [runs[Key(w)] EXCEPT !.status = "quarantined"] \in RunRow
      BY <2>1, <2>9 DEF PastClaimHasRow, Quarantine, RunRow
    <3>2. task' \in [Workers -> Task \cup {NoTask}]
      BY <2>9, <2>1, GotoType DEF Quarantine
    <3>3. QED
      BY <2>9, <3>1, <3>2 DEF Quarantine, StageTypeOK
  <2>10. CASE Fail(w)
    <3>1. [runs[Key(w)] EXCEPT !.status = "failed"] \in RunRow
      BY <2>1, <2>10 DEF PastClaimHasRow, Fail, RunRow
    <3>2. task' \in [Workers -> Task \cup {NoTask}]
      BY <2>10, <2>1, GotoType DEF Fail
    <3>3. QED
      BY <2>10, <3>1, <3>2 DEF Fail, StageTypeOK
  <2>11. QED
    BY <1>3, <2>3, <2>4, <2>5, <2>6, <2>7, <2>8, <2>9, <2>10 DEF Execute
<1>4. ASSUME NEW w \in Workers, Return(w) \/ Die(w) PROVE StageTypeOK'
  BY <1>4 DEF Return, Die, StageTypeOK
<1>5. QED
  BY <1>1, <1>2, <1>3, <1>4 DEF StageNext

-----------------------------------------------------------------------------
(* What every step preserves: the ledger grows, and a row keeps its owner.  *)
LEMMA StepMonotone ==
  ASSUME StageTypeOK, PastClaimHasRow, [StageNext]_stageVars
  PROVE  /\ completions \subseteq completions'
         /\ \A k \in RunKeys : runs[k] \in RunRow =>
              runs'[k] \in RunRow /\ runs'[k].owner = runs[k].owner
<1> DEFINE Keeps == \A k \in RunKeys : runs[k] \in RunRow =>
                      runs'[k] \in RunRow /\ runs'[k].owner = runs[k].owner
<1>1. ASSUME UNCHANGED <<runs, completions>> PROVE completions \subseteq completions' /\ Keeps
  BY <1>1
<1>2. ASSUME NEW w \in Workers, Claim(w)
      PROVE  completions \subseteq completions' /\ Keeps
  <2>1. CASE runs[Key(w)] = NoRun /\ runs' = [runs EXCEPT ![Key(w)] =
               [status |-> "claimed", owner |-> task[w].job, output |-> None]]
    BY <1>2, <2>1, NoRunIsNoRow DEF StageTypeOK, Claim
  <2>2. QED
    BY <1>2, <2>1 DEF Claim
<1>3. ASSUME NEW w \in Workers, Complete(w)
      PROVE  completions \subseteq completions' /\ Keeps
  <2>1. task[w] \in Task /\ runs[Key(w)] \in RunRow
    BY <1>3, IdlePhase, InPhase DEF Complete, PastClaimHasRow
  <2>2. Keeps
    BY <1>3, <2>1 DEF Complete, StageTypeOK, RunRow, Task
  <2>3. QED
    BY <1>3, <2>2 DEF Complete
<1>4. ASSUME NEW w \in Workers, Quarantine(w) \/ Fail(w)
      PROVE  completions \subseteq completions' /\ Keeps
  <2>1. Keeps
    BY <1>4 DEF Quarantine, Fail, StageTypeOK, RunRow
  <2>2. QED
    BY <1>4, <2>1 DEF Quarantine, Fail
<1>5. ASSUME NEW w \in Workers, Observe(w)
      PROVE  completions \subseteq completions' /\ Keeps
  BY <1>5 DEF Observe
<1>6. ASSUME NEW w \in Workers,
             \/ \E k \in RunKeys, j \in Jobs : Submit(w, k, j)
             \/ Check(w) \/ ReadCommitted(w) \/ Work(w) \/ Return(w) \/ Die(w)
      PROVE  UNCHANGED <<runs, completions>>
  BY <1>6 DEF Submit, Check, ReadCommitted, Work, Return, Die
<1>7. QED
  BY <1>1, <1>2, <1>3, <1>4, <1>5, <1>6 DEF StageNext, Execute, stageVars

LEMMA CanonicalGrows ==
  ASSUME completions \subseteq completions', NEW k, Canonical(k) # {}
  PROVE  Canonical(k)' # {}
BY DEF Canonical

(* One worker takes a step, the others keep their tasks.                    *)
WorkerStep(w) ==
  \/ \E k \in RunKeys, j \in Jobs : Submit(w, k, j)
  \/ Execute(w) \/ Return(w) \/ Die(w)

LEMMA OthersKeepTheirTask ==
  ASSUME StageTypeOK, NEW w \in Workers, WorkerStep(w), NEW v \in Workers \ {w}
  PROVE  task'[v] = task[v]
BY DEF StageTypeOK, WorkerStep, Execute, Submit, Claim, Check, ReadCommitted, Observe,
       Work, Complete, Quarantine, Fail, Return, Die, Goto

LEMMA GotoKeepsRun ==
  ASSUME StageTypeOK, NEW w \in Workers, NEW phase, Goto(w, phase), task[w] \in Task
  PROVE  Key(w)' = Key(w) /\ task'[w].job = task[w].job /\ task'[w].phase = phase
BY DEF Goto, Key, StageTypeOK, Task

LEMMA ExecuteKeepsRun ==
  ASSUME StageTypeOK, NEW w \in Workers, Execute(w)
  PROVE  /\ task[w] \in Task /\ Key(w) \in RunKeys
         /\ Key(w)' = Key(w) /\ task'[w].job = task[w].job
<1>1. task[w] \in Task /\ Key(w) \in RunKeys
  BY IdlePhase, InPhase DEF Execute, Claim, Check, ReadCommitted, Observe, Work,
     Complete, Quarantine, Fail
<1>2. ASSUME NEW phase, Goto(w, phase)
      PROVE  Key(w)' = Key(w) /\ task'[w].job = task[w].job
  BY <1>1, <1>2, GotoKeepsRun
<1>3. ASSUME ReadCommitted(w)
      PROVE  Key(w)' = Key(w) /\ task'[w].job = task[w].job
  BY <1>1, <1>3 DEF ReadCommitted, Key, StageTypeOK, Task
<1>4. ASSUME Work(w)
      PROVE  Key(w)' = Key(w) /\ task'[w].job = task[w].job
  <2>1. ASSUME NEW output \in Outputs,
               task' = [task EXCEPT ![w].phase = "complete", ![w].output = output]
        PROVE  Key(w)' = Key(w) /\ task'[w].job = task[w].job
    BY <1>1, <2>1 DEF Key, StageTypeOK, Task
  <2>2. ASSUME task' = [task EXCEPT ![w].attempt = @ + 1]
        PROVE  Key(w)' = Key(w) /\ task'[w].job = task[w].job
    BY <1>1, <2>2 DEF Key, StageTypeOK, Task
  <2>3. QED
    BY <1>2, <1>4, <2>1, <2>2 DEF Work
<1>5. ASSUME Claim(w) \/ Check(w) \/ Observe(w) \/ Complete(w) \/ Quarantine(w) \/ Fail(w)
      PROVE  \E phase : Goto(w, phase)
  BY <1>5 DEF Claim, Check, Observe, Complete, Quarantine, Fail
<1>6. QED
  BY <1>1, <1>2, <1>3, <1>4, <1>5 DEF Execute

LEMMA StageNextPastClaim ==
  ASSUME StageTypeOK, PastClaimHasRow, [StageNext]_stageVars
  PROVE  PastClaimHasRow'
<1>1. CASE UNCHANGED stageVars
  BY <1>1 DEF stageVars, PastClaimHasRow, Key
<1>2. ASSUME NEW w \in Workers, WorkerStep(w) PROVE PastClaimHasRow'
  <2>1. ASSUME NEW v \in Workers, task'[v] = task[v],
               task'[v] # NoTask, task'[v].phase # "claim"
        PROVE  runs'[Key(v)'] \in RunRow
    <3>1. Key(v)' = Key(v) /\ Key(v) \in RunKeys /\ runs[Key(v)] \in RunRow
      BY <2>1, InPhase DEF Key, PastClaimHasRow
    <3>2. QED
      BY <3>1, StepMonotone
  <2>2. ASSUME task'[w] # NoTask, task'[w].phase # "claim"
        PROVE  runs'[Key(w)'] \in RunRow
    <3>1. CASE \E k \in RunKeys, j \in Jobs : Submit(w, k, j)
      BY <2>2, <3>1 DEF Submit, StageTypeOK
    <3>2. CASE Claim(w)
      <4>1. task[w] \in Task /\ Key(w) \in RunKeys /\ Key(w)' = Key(w)
        BY <3>2, IdlePhase, InPhase DEF Claim, Goto, Key, StageTypeOK, Task
      <4>2. CASE runs[Key(w)] = NoRun /\ runs' = [runs EXCEPT ![Key(w)] =
               [status |-> "claimed", owner |-> task[w].job, output |-> None]]
        BY <4>1, <4>2 DEF StageTypeOK, RunRow, Task
      <4>3. CASE runs[Key(w)] # NoRun /\ UNCHANGED runs
        BY <4>1, <4>3 DEF StageTypeOK
      <4>4. QED
        BY <3>2, <4>2, <4>3 DEF Claim
    <3>3. CASE Execute(w) /\ ~Claim(w)
      <4>1. task[w] \in Task /\ Key(w) \in RunKeys /\ runs[Key(w)] \in RunRow
        BY <3>3, IdlePhase, InPhase DEF Execute, Check, ReadCommitted, Observe, Work,
           Complete, Quarantine, Fail, PastClaimHasRow
      <4>2. Key(w)' = Key(w)
        BY <3>3, ExecuteKeepsRun
      <4>3. QED
        BY <4>1, <4>2, StepMonotone
    <3>4. CASE Return(w) \/ Die(w)
      BY <2>2, <3>4 DEF Return, Die, StageTypeOK
    <3>5. QED
      BY <1>2, <3>1, <3>2, <3>3, <3>4 DEF WorkerStep
  <2>3. QED
    BY <1>2, <2>1, <2>2, OthersKeepTheirTask DEF PastClaimHasRow
<1>3. QED
  BY <1>1, <1>2 DEF StageNext, WorkerStep

-----------------------------------------------------------------------------
LEMMA EvidenceStep ==
  ASSUME StageInv, [StageNext]_stageVars, PastClaimHasRow', StageTypeOK'
  PROVE  CompletionHasEvidence'
<1> USE DEF StageInv
<1>1. ASSUME NEW k \in RunKeys, runs'[k].status = "complete", runs[k].status = "complete"
      PROVE  Canonical(k)' # {}
  BY <1>1, StepMonotone, CanonicalGrows DEF CompletionHasEvidence
<1>2. ASSUME NEW w \in Workers, Complete(w), NEW k \in RunKeys, k = Key(w)
      PROVE  Canonical(k)' # {}
  <2>1. CASE Canonical(k) # {}
    BY <2>1, StepMonotone, CanonicalGrows
  <2>2. CASE Canonical(k) = {}
    <3>1. Event(w, FALSE) \in completions'
      BY <1>2, <2>2 DEF Complete
    <3>2. Event(w, FALSE).key = k /\ Event(w, FALSE).replayed = FALSE
      BY <1>2 DEF Event
    <3>3. QED
      BY <3>1, <3>2 DEF Canonical
  <2>3. QED
    BY <2>1, <2>2
<1>3. ASSUME NEW k \in RunKeys, runs'[k].status = "complete", runs[k].status # "complete"
      PROVE  \E w \in Workers : Complete(w) /\ k = Key(w)
  <2>1. ASSUME UNCHANGED runs PROVE FALSE
    BY <1>3, <2>1
  <2>2. ASSUME NEW w \in Workers, Execute(w),
               Claim(w) \/ Quarantine(w) \/ Fail(w)
        PROVE  FALSE
    <3>1. task[w] \in Task /\ Key(w) \in RunKeys
      BY <2>2, ExecuteKeepsRun
    <3>2. CASE Claim(w)
      BY <1>3, <3>1, <3>2 DEF Claim, StageTypeOK
    <3>3. CASE Quarantine(w) \/ Fail(w)
      <4>1. runs[Key(w)] \in RunRow
        BY <3>1, <3>3, IdlePhase DEF Quarantine, Fail, PastClaimHasRow
      <4>2. QED
        BY <1>3, <3>1, <3>3, <4>1 DEF Quarantine, Fail, StageTypeOK, RunRow
    <3>4. QED
      BY <2>2, <3>2, <3>3
  <2>3. ASSUME NEW w \in Workers, Complete(w) PROVE k = Key(w)
    <3>1. Key(w) \in RunKeys
      BY <2>3, ExecuteKeepsRun DEF Execute
    <3>2. QED
      BY <1>3, <2>3, <3>1 DEF Complete, StageTypeOK
  <2>4. ASSUME NEW w \in Workers,
               \/ \E l \in RunKeys, j \in Jobs : Submit(w, l, j)
               \/ Check(w) \/ ReadCommitted(w) \/ Observe(w) \/ Work(w)
               \/ Return(w) \/ Die(w)
        PROVE  UNCHANGED runs
    BY <2>4 DEF Submit, Check, ReadCommitted, Observe, Work, Return, Die
  <2>5. QED
    BY <2>1, <2>2, <2>3, <2>4 DEF StageNext, Execute, stageVars
<1>4. QED
  BY <1>1, <1>2, <1>3 DEF CompletionHasEvidence

LEMMA ReplayStep ==
  ASSUME StageInv, [StageNext]_stageVars, StageTypeOK'
  PROVE  ReplayIsCommitted'
<1> USE DEF StageInv
<1>1. CASE UNCHANGED stageVars
  BY <1>1 DEF stageVars, ReplayIsCommitted, Key, Canonical
<1>2. ASSUME NEW w \in Workers, WorkerStep(w) PROVE ReplayIsCommitted'
  <2>1. ASSUME NEW v \in Workers, task[v].phase \in {"read", "observe"}, Key(v)' = Key(v)
        PROVE  Canonical(Key(v))' # {}
    BY <2>1, StepMonotone DEF ReplayIsCommitted, Canonical
  <2>2. ASSUME NEW v \in Workers, v # w, task'[v].phase \in {"read", "observe"}
        PROVE  Canonical(Key(v))' # {}
    BY <1>2, <2>1, <2>2, OthersKeepTheirTask DEF Key
  <2>3. ASSUME task'[w].phase \in {"read", "observe"}
        PROVE  Canonical(Key(w))' # {}
    <3>1. CASE Check(w)
      <4>1. runs[Key(w)].status = "complete" /\ Key(w) \in RunKeys /\ Key(w)' = Key(w)
        BY <2>3, <3>1, ExecuteKeepsRun, GotoKeepsRun DEF Check, Execute
      <4>2. QED
        BY <3>1, <4>1 DEF Check, CompletionHasEvidence, Canonical
    <3>2. CASE ReadCommitted(w) \/ Observe(w)
      BY <2>1, <3>2, ExecuteKeepsRun DEF Execute, ReadCommitted, Observe
    <3>3. ASSUME Claim(w) \/ Work(w) \/ Complete(w) \/ Quarantine(w) \/ Fail(w)
          PROVE  FALSE
      <4>1. task[w] \in Task
        BY <3>3, ExecuteKeepsRun DEF Execute
      <4>2. ASSUME Work(w) PROVE task'[w].phase \in {"complete", "quarantine", "work", "fail"}
        BY <4>1, <4>2 DEF Work, Goto, StageTypeOK, Task
      <4>3. ASSUME ~Work(w)
            PROVE  \E phase \in {"work", "check", "done", "raised"} : Goto(w, phase)
        BY <3>3, <4>3 DEF Claim, Complete, Quarantine, Fail
      <4>4. QED
        BY <2>3, <4>1, <4>2, <4>3, GotoKeepsRun
    <3>4. ASSUME \/ \E k \in RunKeys, j \in Jobs : Submit(w, k, j)
                 \/ Return(w) \/ Die(w)
          PROVE  FALSE
      BY <2>3, <3>4 DEF Submit, Return, Die, NoTask, StageTypeOK
    <3>5. QED
      BY <1>2, <3>1, <3>2, <3>3, <3>4 DEF WorkerStep, Execute
  <2>4. QED
    BY <2>2, <2>3 DEF ReplayIsCommitted
<1>3. QED
  BY <1>1, <1>2 DEF StageNext, WorkerStep

LEMMA ObserverStep ==
  ASSUME StageInv, [StageNext]_stageVars
  PROVE  ObserverIsNoOwner'
<1> USE DEF StageInv
<1>1. CASE UNCHANGED stageVars
  BY <1>1 DEF stageVars, ObserverIsNoOwner, Key
<1>2. ASSUME NEW w \in Workers, WorkerStep(w) PROVE ObserverIsNoOwner'
  <2>1. ASSUME NEW v \in Workers, v # w, task'[v].phase = "observe"
        PROVE  runs'[Key(v)'].owner # task'[v].job
    <3>1. task'[v] = task[v] /\ Key(v)' = Key(v)
      BY <1>2, <2>1, OthersKeepTheirTask DEF Key
    <3>2. Key(v) \in RunKeys /\ runs[Key(v)] \in RunRow
      BY <2>1, <3>1, IdlePhase, InPhase DEF PastClaimHasRow
    <3>3. QED
      BY <2>1, <3>1, <3>2, StepMonotone DEF ObserverIsNoOwner
  <2>2. ASSUME task'[w].phase = "observe"
        PROVE  runs'[Key(w)'].owner # task'[w].job
    <3>1. CASE ReadCommitted(w)
      <4>1. /\ task[w] \in Task /\ Key(w)' = Key(w)
            /\ task'[w].job = task[w].job /\ runs' = runs
        BY <3>1, ExecuteKeepsRun DEF Execute, ReadCommitted
      <4>2. runs[Key(w)].owner # task[w].job
        BY <2>2, <3>1, <4>1 DEF ReadCommitted, StageTypeOK, Task
      <4>3. QED
        BY <4>1, <4>2
    <3>2. ASSUME Execute(w), ~ReadCommitted(w) PROVE FALSE
      <4>1. task[w] \in Task
        BY <3>2, ExecuteKeepsRun
      <4>2. ASSUME Work(w) PROVE task'[w].phase \in {"complete", "quarantine", "work", "fail"}
        BY <4>1, <4>2 DEF Work, Goto, StageTypeOK, Task
      <4>3. ASSUME ~Work(w)
            PROVE  \E phase \in {"work", "check", "read", "done", "raised"} : Goto(w, phase)
        BY <3>2, <4>3 DEF Execute, Claim, Check, Observe, Complete, Quarantine, Fail
      <4>4. QED
        BY <2>2, <4>1, <4>2, <4>3, GotoKeepsRun
    <3>3. ASSUME \/ \E k \in RunKeys, j \in Jobs : Submit(w, k, j)
                 \/ Return(w) \/ Die(w)
          PROVE  FALSE
      BY <2>2, <3>3 DEF Submit, Return, Die, NoTask, StageTypeOK
    <3>4. QED
      BY <1>2, <3>1, <3>2, <3>3 DEF WorkerStep
  <2>3. QED
    BY <2>1, <2>2 DEF ObserverIsNoOwner
<1>3. QED
  BY <1>1, <1>2 DEF StageNext, WorkerStep

(* A new event is the canonical completion of a run that had none, or the   *)
(* one observation of a committed run by a job that does not own it.        *)
LEMMA NewEvent ==
  ASSUME StageInv, [StageNext]_stageVars, completions' # completions
  PROVE  \E w \in Workers, replayed \in BOOLEAN :
           /\ completions' = completions \cup {Event(w, replayed)}
           /\ ~replayed => Canonical(Key(w)) = {}
           /\ replayed =>
                /\ Observation(Key(w), task[w].job) = {}
                /\ Canonical(Key(w)) # {}
                /\ Key(w) \in RunKeys /\ runs[Key(w)] \in RunRow
                /\ runs[Key(w)].owner # task[w].job
<1> USE DEF StageInv
<1>1. ASSUME NEW w \in Workers, Observe(w)
      PROVE  /\ Canonical(Key(w)) # {}
             /\ Key(w) \in RunKeys /\ runs[Key(w)] \in RunRow
             /\ runs[Key(w)].owner # task[w].job
  <2>1. Key(w) \in RunKeys
    BY <1>1, ExecuteKeepsRun DEF Execute
  <2>2. task[w] # NoTask
    BY <1>1, IdlePhase DEF Observe
  <2>3. QED
    BY <1>1, <2>1, <2>2 DEF Observe, PastClaimHasRow, ReplayIsCommitted, ObserverIsNoOwner
<1>2. PICK w \in Workers : Complete(w) \/ Observe(w)
  BY DEF StageNext, Execute, Submit, Claim, Check, ReadCommitted, Work, Quarantine, Fail,
     Return, Die, stageVars
<1>3. CASE Complete(w)
  BY <1>3 DEF Complete
<1>4. CASE Observe(w)
  BY <1>1, <1>4 DEF Observe
<1>5. QED
  BY <1>2, <1>3, <1>4

LEMMA ObservationsStep ==
  ASSUME StageInv, [StageNext]_stageVars
  PROVE  ObservedRunHasRow' /\ ObservationsAttributeCommittedWork'
<1> USE DEF StageInv
<1>1. ASSUME NEW e \in completions', e.replayed
      PROVE  /\ e.key \in RunKeys /\ runs[e.key] \in RunRow
             /\ Canonical(e.key) # {} /\ runs[e.key].owner # e.job
  <2>1. CASE e \in completions
    BY <1>1, <2>1 DEF ObservedRunHasRow, ObservationsAttributeCommittedWork, StageTypeOK,
       StageEvent
  <2>2. CASE e \notin completions
    BY <1>1, <2>2, NewEvent DEF Event
  <2>3. QED
    BY <2>1, <2>2
<1>2. QED
  BY <1>1, StepMonotone, CanonicalGrows
     DEF ObservedRunHasRow, ObservationsAttributeCommittedWork

LEMMA OneCompletionStep ==
  ASSUME StageInv, [StageNext]_stageVars
  PROVE  OneCompletion'
<1> USE DEF StageInv
<1>1. CASE completions' = completions
  BY <1>1 DEF OneCompletion
<1>2. CASE completions' # completions
  <2>1. PICK w \in Workers, replayed \in BOOLEAN :
           /\ completions' = completions \cup {Event(w, replayed)}
           /\ ~replayed => Canonical(Key(w)) = {}
           /\ replayed => Observation(Key(w), task[w].job) = {}
    BY <1>2, NewEvent
  <2>2. ASSUME NEW c \in completions, c.key = Event(w, replayed).key,
               c.replayed = Event(w, replayed).replayed,
               c.replayed => c.job = Event(w, replayed).job
        PROVE  FALSE
    <3>1. c.key = Key(w) /\ c.replayed = replayed /\ (replayed => c.job = task[w].job)
      BY <2>2 DEF Event
    <3>2. QED
      BY <2>1, <3>1 DEF Canonical, Observation
  <2>3. QED
    BY <2>1, <2>2 DEF OneCompletion
<1>3. QED
  BY <1>1, <1>2

-----------------------------------------------------------------------------
LEMMA StageInvInit == StageInit => StageInv
BY StageInitType DEF StageInit, StageInv, NoTask, NoRun, PastClaimHasRow,
   ReplayIsCommitted, ObserverIsNoOwner, ObservedRunHasRow, CompletionHasEvidence,
   OneCompletion, ObservationsAttributeCommittedWork

LEMMA StageInvNext == StageInv /\ [StageNext]_stageVars => StageInv'
<1> SUFFICES ASSUME StageInv, [StageNext]_stageVars PROVE StageInv'
  OBVIOUS
<1>1. StageTypeOK' /\ PastClaimHasRow'
  BY StageNextType, StageNextPastClaim DEF StageInv
<1>2. QED
  BY <1>1, EvidenceStep, ReplayStep, ObserverStep, ObservationsStep, OneCompletionStep
     DEF StageInv

LEMMA StageInvAlways == StageSpec => []StageInv
BY StageInvInit, StageInvNext, PTL DEF StageSpec

(* What a completion commits: a row that says complete holds an output of   *)
(* the work, and so does the call that is about to commit one.              *)
OutputsKept ==
  /\ \A k \in RunKeys : runs[k].status = "complete" => runs[k].output \in Outputs
  /\ \A w \in Workers : task[w].phase = "complete" => task[w].output \in Outputs

LEMMA OutputsInit == StageInit => OutputsKept
BY DEF StageInit, OutputsKept, NoRun, NoTask

LEMMA OutputsStep ==
  ASSUME StageInv, OutputsKept, [StageNext]_stageVars
  PROVE  OutputsKept'
<1> USE DEF StageInv
<1>1. CASE UNCHANGED stageVars
  BY <1>1 DEF stageVars, OutputsKept
<1>2. ASSUME NEW w \in Workers, WorkerStep(w) PROVE OutputsKept'
  <2>1. ASSUME task'[w].phase = "complete" PROVE task'[w].output \in Outputs
    <3>1. ASSUME NEW phase, Goto(w, phase), task[w] \in Task PROVE phase = "complete"
      BY <2>1, <3>1, GotoKeepsRun
    <3>2. CASE Execute(w)
      <4>1. task[w] \in Task
        BY <3>2, ExecuteKeepsRun
      <4>2. CASE Work(w)
        <5>1. CASE \E output \in Outputs :
               task' = [task EXCEPT ![w].phase = "complete", ![w].output = output]
          BY <4>1, <5>1 DEF StageTypeOK, Task
        <5>2. CASE Goto(w, "quarantine") \/ Goto(w, "fail")
          BY <3>1, <4>1, <5>2
        <5>3. CASE task' = [task EXCEPT ![w].attempt = @ + 1]
          BY <2>1, <4>1, <4>2, <5>3 DEF Work, StageTypeOK, Task
        <5>4. QED
          BY <4>2, <5>1, <5>2, <5>3 DEF Work
      <4>3. CASE ReadCommitted(w)
        BY <2>1, <4>1, <4>3 DEF ReadCommitted, StageTypeOK, Task
      <4>4. CASE Claim(w) \/ Check(w) \/ Observe(w) \/ Complete(w) \/ Quarantine(w) \/ Fail(w)
        BY <3>1, <4>1, <4>4 DEF Claim, Check, Observe, Complete, Quarantine, Fail
      <4>5. QED
        BY <3>2, <4>2, <4>3, <4>4 DEF Execute
    <3>3. CASE ~Execute(w)
      BY <1>2, <2>1, <3>3 DEF WorkerStep, Submit, Return, Die, NoTask, StageTypeOK
    <3>4. QED
      BY <3>2, <3>3
  <2>2. ASSUME NEW k \in RunKeys, runs'[k].status = "complete"
        PROVE  runs'[k].output \in Outputs
    <3>1. CASE UNCHANGED runs
      BY <2>2, <3>1 DEF OutputsKept
    <3>2. CASE Claim(w) \/ Complete(w) \/ Quarantine(w) \/ Fail(w)
      <4>1. task[w] \in Task /\ Key(w) \in RunKeys
        BY <3>2, ExecuteKeepsRun DEF Execute
      <4>2. ASSUME task[w].phase # "claim" PROVE runs[Key(w)] \in RunRow
        BY <4>1, <4>2, NoTaskIsNoTask DEF PastClaimHasRow
      <4>3. CASE Claim(w)
        BY <2>2, <4>1, <4>3 DEF Claim, StageTypeOK, OutputsKept
      <4>4. CASE Complete(w)
        <5>1. runs[Key(w)] \in RunRow /\ task[w].output \in Outputs
          BY <4>2, <4>4 DEF Complete, OutputsKept
        <5>2. QED
          BY <2>2, <4>1, <4>4, <5>1 DEF Complete, StageTypeOK, OutputsKept, RunRow
      <4>5. CASE Quarantine(w) \/ Fail(w)
        <5>1. runs[Key(w)] \in RunRow
          BY <4>2, <4>5 DEF Quarantine, Fail
        <5>2. QED
          BY <2>2, <4>1, <4>5, <5>1 DEF Quarantine, Fail, StageTypeOK, OutputsKept, RunRow
      <4>6. QED
        BY <3>2, <4>3, <4>4, <4>5
    <3>3. QED
      BY <1>2, <3>1, <3>2 DEF WorkerStep, Execute, Submit, Check, ReadCommitted, Observe,
         Work, Return, Die
  <2>3. QED
    BY <1>2, <2>1, <2>2, OthersKeepTheirTask DEF OutputsKept
<1>3. QED
  BY <1>1, <1>2 DEF StageNext, WorkerStep

(* The executor's state is well typed: every stage_run row has one of the   *)
(* four statuses, no attempt exceeds RetryPolicy.max_attempts.              *)
THEOREM StageTypeCorrect == StageSpec => []StageTypeOK
<1>1. StageInv => StageTypeOK
  BY DEF StageInv
<1>2. QED
  BY <1>1, StageInvAlways, PTL

(* A row that says complete has its StageCompleted event in the ledger,     *)
(* wherever workers die between the executor's transactions.                *)
THEOREM CompletionEvidence == StageSpec => []CompletionHasEvidence
<1>1. StageInv => CompletionHasEvidence
  BY DEF StageInv
<1>2. QED
  BY <1>1, StageInvAlways, PTL

(* However many workers run a key and whatever they retry, the ledger holds *)
(* one canonical completion of it and one observation per observing job.    *)
THEOREM EffectiveOnce == StageSpec => []OneCompletion
<1>1. StageInv => OneCompletion
  BY DEF StageInv
<1>2. QED
  BY <1>1, StageInvAlways, PTL

(* A replay observation names a run that some other job owns and that has a *)
(* canonical completion.                                                    *)
THEOREM ObservationsHonest == StageSpec => []ObservationsAttributeCommittedWork
<1>1. StageInv => ObservationsAttributeCommittedWork
  BY DEF StageInv
<1>2. QED
  BY <1>1, StageInvAlways, PTL

(* A row that says complete names an output the stage's work produced, never *)
(* the empty output a fresh claim holds: evidence read from it is real.      *)
THEOREM CommittedOutputs ==
  StageSpec => [](\A k \in RunKeys : runs[k].status = "complete" => runs[k].output \in Outputs)
<1>1. StageInit => StageInv /\ OutputsKept
  BY StageInvInit, OutputsInit
<1>2. StageInv /\ OutputsKept /\ [StageNext]_stageVars => (StageInv /\ OutputsKept)'
  BY StageInvNext, OutputsStep
<1>3. OutputsKept =>
        \A k \in RunKeys : runs[k].status = "complete" => runs[k].output \in Outputs
  BY DEF OutputsKept
<1>4. QED
  BY <1>1, <1>2, <1>3, PTL DEF StageSpec
=============================================================================
