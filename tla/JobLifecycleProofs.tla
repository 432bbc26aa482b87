------------------------- MODULE JobLifecycleProofs -------------------------
(***************************************************************************)
(* Proofs about JobLifecycle for every DAG, set of jobs, clients, workers  *)
(* and causations: every step of the scheduler is a step of the executor   *)
(* of StageExecution, so what that promises holds under redeliveries,      *)
(* cancellations, retries and reruns; no stage starts before its upstream  *)
(* committed; and a complete status folded from stage rows is honest.      *)
(***************************************************************************)
EXTENDS JobLifecycle, StageExecutionProofs, WellFoundedInduction

Statuses == {"pending", "running", "complete", "failed", "cancelled"}

(* The newest of a nonempty set of positions exists.                        *)
LEMMA SmallestExists ==
  ASSUME NEW S \in SUBSET Nat, S # {}
  PROVE  \E i \in S : \A j \in S : i <= j
<1>1. IsWellFoundedOn(OpToRel(<, Nat), Nat)
  BY NatLessThanWellFounded
<1>2. PICK x \in S : \A y \in S : ~ (<<y, x>> \in OpToRel(<, Nat))
  BY <1>1, WFMin
<1>3. \A y \in S : ~ (y < x)
  BY <1>2 DEF OpToRel
<1>4. QED
  BY <1>3

LEMMA LargestExists ==
  ASSUME NEW n \in Nat, NEW S \in SUBSET (1..n), S # {}
  PROVE  \E i \in S : \A j \in S : j <= i
<1> DEFINE T == {n - i : i \in S}
<1>1. T \subseteq Nat /\ T # {}
  <2>1. \A i \in S : n - i \in Nat
    OBVIOUS
  <2>2. PICK i \in S : TRUE
    OBVIOUS
  <2>3. n - i \in T
    BY <2>2
  <2>4. QED
    BY <2>1, <2>3
<1>2. PICK x \in T : \A y \in T : x <= y
  BY <1>1, SmallestExists
<1>3. PICK i \in S : x = n - i
  OBVIOUS
<1>4. \A j \in S : j <= i
  BY <1>2, <1>3
<1>5. QED
  BY <1>4

-----------------------------------------------------------------------------
(* The types of the scheduler's state.  Commands name jobs that exist, for  *)
(* no action deletes one, and what a command is about to write is a status. *)
Command == [op: {"submit", "cancel", "retry", "rerun_source", "rerun_stage"},
            job: Jobs,
            phase: {"get", "start", "plan", "schedule", "fail", "refresh", "derive",
                    "write", "mark", "clear"},
            selected: SUBSET Stages, cause: Causes \cup {None},
            cancelled: SUBSET Stages, seen: JobRow \cup {NoJob},
            result: Statuses \cup {"none"}]

FlowRow == [job: Jobs, cause: Causes \cup {None}, selected: SUBSET Stages,
            node: [Stages -> {"waiting", "running", "done", "error"}]]

Callback == [phase: {"gate", "evidence", "run"}, flow: Nat, stage: Stages]

JobsTyped == job \in [Jobs -> JobRow \cup {NoJob}]

Sound(r, rows) ==
  /\ r \in Command
  /\ rows[r.job] \in JobRow
  /\ r.phase = "derive" => r.seen \in JobRow
  /\ r.phase = "write" => r.result \in Statuses

CommandsTyped ==
  /\ command \in [Clients -> Command \cup {NoCommand}]
  /\ \A c \in Clients : command[c] = NoCommand \/ Sound(command[c], job)

FlowsTyped == flows \in Seq(FlowRow)

CallbacksTyped ==
  /\ callback \in [Workers -> Callback \cup {Idle}]
  /\ \A w \in Workers : callback[w] # Idle => callback[w].flow \in DOMAIN flows

CreatedTyped == created \in Seq(RunKeys)

(* A delivery has reached the executor exactly while a call of run() is on. *)
TasksDelivered == \A w \in Workers : callback[w].phase = "run" <=> task[w] # NoTask

(* A stage of which the ledger holds a completion.                          *)
Committed(s) == \E e \in completions : e.key.stage = s /\ ~e.replayed

TasksBehindUpstream ==
  \A w \in Workers : task[w] # NoTask => \A u \in Upstream[Key(w).stage] : Committed(u)

RowsBehindUpstream ==
  \A k \in RunKeys : runs[k] # NoRun => \A u \in Upstream[k.stage] : Committed(u)

LifecycleInv ==
  /\ StageInv /\ OutputsKept
  /\ JobsTyped /\ CommandsTyped
  /\ FlowsTyped /\ CallbacksTyped /\ CreatedTyped
  /\ TasksDelivered
  /\ TasksBehindUpstream /\ RowsBehindUpstream

-----------------------------------------------------------------------------
LEMMA NoJobIsNoRow == NoJob \notin JobRow
<1>1. SUFFICES ASSUME NoJob \in JobRow PROVE FALSE
  OBVIOUS
<1>2. NoJob.status \in Statuses
  BY <1>1 DEF JobRow, Statuses
<1>3. QED
  BY <1>2 DEF NoJob, Statuses

LEMMA NoCommandIsNone == NoCommand.op = "none"
BY DEF NoCommand

LEMMA IdleIsNoPhase == Idle.phase = "idle"
BY DEF Idle

LEMMA RowTyped ==
  ASSUME JobsTyped, NEW j \in Jobs, job[j] # NoJob
  PROVE  job[j] \in JobRow
BY DEF JobsTyped

LEMMA AtSound ==
  ASSUME CommandsTyped, NEW c \in Clients, NEW phase, At(c, phase)
  PROVE  Sound(command[c], job) /\ command[c].phase = phase /\ command[c].job \in Jobs
<1>1. command[c] # NoCommand
  BY NoCommandIsNone DEF At
<1>2. QED
  BY <1>1 DEF CommandsTyped, Sound, Command, At

(* A job row is written over, never removed.                                *)
JobsKept(rows) ==
  /\ rows \in [Jobs -> JobRow \cup {NoJob}]
  /\ \A j \in Jobs : job[j] \in JobRow => rows[j] \in JobRow

LEMMA SetJobKeeps ==
  ASSUME JobsTyped, CommandsTyped, NEW c \in Clients, NEW phase, At(c, phase),
         NEW row \in JobRow, SetJob(c, row)
  PROVE  JobsKept(job')
BY AtSound DEF SetJob, JobsTyped, JobsKept

LEMMA JobsStay == ASSUME JobsTyped, UNCHANGED job PROVE JobsKept(job')
BY DEF JobsTyped, JobsKept

(* The other clients' commands stay sound, whatever rows were written.      *)
LEMMA SetCommandSound ==
  ASSUME CommandsTyped, JobsKept(job'), NEW c \in Clients, NEW r,
         r = NoCommand \/ Sound(r, job'),
         command' = [command EXCEPT ![c] = r]
  PROVE  JobsTyped' /\ CommandsTyped'
<1>1. r \in Command \cup {NoCommand}
  BY DEF Sound
<1>2. command' \in [Clients -> Command \cup {NoCommand}]
  BY <1>1 DEF CommandsTyped
<1>3. ASSUME NEW d \in Clients PROVE command'[d] = NoCommand \/ Sound(command'[d], job')
  <2>1. CASE d = c
    BY <2>1 DEF CommandsTyped
  <2>2. CASE d # c
    <3>1. command'[d] = command[d]
      BY <2>2 DEF CommandsTyped
    <3>2. CASE command[d] # NoCommand
      <4>1. Sound(command[d], job)
        BY <3>2 DEF CommandsTyped
      <4>2. QED
        BY <3>1, <4>1 DEF Sound, JobsKept, Command
    <3>3. QED
      BY <3>1, <3>2
  <2>3. QED
    BY <2>1, <2>2
<1>4. QED
  BY <1>2, <1>3 DEF CommandsTyped, JobsTyped, JobsKept

(* A command that moves to a phase where it has nothing to write yet.       *)
Phases == {"get", "start", "plan", "schedule", "fail", "refresh", "derive", "write",
           "mark", "clear"}

LEMMA StepSound ==
  ASSUME CommandsTyped, JobsKept(job'), NEW c \in Clients,
         NEW from, NEW to \in Phases \ {"derive", "write"}, Step(c, from, to)
  PROVE  JobsTyped' /\ CommandsTyped'
<1>1. Sound(command[c], job)
  BY AtSound DEF Step
<1>2. [command[c] EXCEPT !.phase = to] \in Command
  BY <1>1 DEF Sound, Command, Phases
<1>3. Sound([command[c] EXCEPT !.phase = to], job')
  BY <1>1, <1>2 DEF Sound, Command, Phases, JobsKept
<1>4. QED
  BY <1>3, SetCommandSound DEF Step, SetCommand

LEMMA EndSound ==
  ASSUME CommandsTyped, JobsKept(job'), NEW c \in Clients, End(c)
  PROVE  JobsTyped' /\ CommandsTyped'
BY SetCommandSound DEF End, SetCommand

(* A command that begins on a job that exists by then.                      *)
LEMMA BeginSound ==
  ASSUME CommandsTyped, JobsKept(job'), NEW c \in Clients,
         NEW r \in Command, r.phase \notin {"derive", "write"}, job'[r.job] \in JobRow,
         Begin(c, r)
  PROVE  JobsTyped' /\ CommandsTyped'
<1>1. Sound(r, job')
  BY DEF Sound
<1>2. QED
  BY <1>1, SetCommandSound DEF Begin

LEMMA NewCommandType ==
  ASSUME NEW op \in {"submit", "cancel", "retry", "rerun_source", "rerun_stage"},
         NEW j \in Jobs, NEW phase \in Phases, NEW selected \in SUBSET Stages,
         NEW cause \in Causes \cup {None}, NEW cancelled \in SUBSET Stages
  PROVE  /\ NewCommand(op, j, phase) \in Command
         /\ [NewCommand(op, j, phase) EXCEPT !.selected = selected] \in Command
         /\ [NewCommand(op, j, phase) EXCEPT !.cancelled = cancelled] \in Command
         /\ [NewCommand(op, j, phase) EXCEPT !.selected = selected, !.cause = cause]
              \in Command
         /\ [NewCommand(op, j, phase) EXCEPT !.selected = selected,
                                             !.cancelled = cancelled] \in Command
BY DEF NewCommand, Command, Phases

-----------------------------------------------------------------------------
(* What _derive_status returns of a job row is a status.                    *)
LEMMA DeriveType ==
  ASSUME NEW rec \in JobRow, NEW states
  PROVE  DeriveStatus(rec, states) \in Statuses
BY DEF DeriveStatus, JobRow, Statuses

(* What each command does to the job table and to its own state.            *)
LEMMA CommandStepTyped ==
  ASSUME JobsTyped, CommandsTyped, NEW c \in Clients, CommandStep(c)
  PROVE  JobsTyped' /\ CommandsTyped'
<1>1. CASE BeginSubmit(c)
  <2>1. PICK j \in Jobs :
          /\ Begin(c, NewCommand("submit", j, "get"))
          /\ job' = IF job[j] # NoJob THEN job
                    ELSE [job EXCEPT ![j] = [status |-> "pending", expected |-> Stages,
                                             cause |-> None, cancelled |-> {}]]
    BY <1>1 DEF BeginSubmit
  <2>2. [status |-> "pending", expected |-> Stages, cause |-> None, cancelled |-> {}]
          \in JobRow
    BY DEF JobRow
  <2>3. JobsKept(job') /\ job'[j] \in JobRow
    BY <2>1, <2>2, RowTyped DEF JobsTyped, JobsKept
  <2>4. NewCommand("submit", j, "get") \in Command
    BY NewCommandType DEF Phases
  <2>5. NewCommand("submit", j, "get").job = j /\ NewCommand("submit", j, "get").phase = "get"
    BY DEF NewCommand
  <2>6. QED
    BY <2>1, <2>3, <2>4, <2>5, BeginSound
<1>2. CASE Get(c)
  <2>1. JobsKept(job')
    BY <1>2, JobsStay DEF Get
  <2>2. QED
    BY <1>2, <2>1, StepSound, EndSound DEF Get, Phases
<1>3. CASE Start(c)
  <2>1. [JobOf(c) EXCEPT !.status = "running"] \in JobRow
    BY <1>3, AtSound DEF Start, Step, Sound, JobOf, JobRow
  <2>2. JobsKept(job')
    BY <1>3, <2>1, SetJobKeeps DEF Start, Step
  <2>3. QED
    BY <1>3, <2>2, StepSound DEF Start, Phases
<1>4. CASE Plan(c)
  <2>1. [JobOf(c) EXCEPT !.expected = command[c].selected, !.cause = command[c].cause]
          \in JobRow
    <3>1. Sound(command[c], job)
      BY <1>4, AtSound DEF Plan, Step
    <3>2. /\ JobOf(c) \in JobRow /\ command[c].selected \in SUBSET Stages
          /\ command[c].cause \in Causes \cup {None}
      BY <3>1 DEF Sound, JobOf, Command
    <3>3. QED
      BY <3>2 DEF JobRow
  <2>2. JobsKept(job')
    BY <1>4, <2>1, SetJobKeeps DEF Plan, Step
  <2>3. QED
    BY <1>4, <2>2, StepSound DEF Plan, Phases
<1>5. CASE Schedule(c) \/ ScheduleFails(c)
  <2>1. JobsKept(job')
    BY <1>5, JobsStay DEF Schedule, ScheduleFails
  <2>2. QED
    BY <1>5, <2>1, StepSound, EndSound DEF Schedule, ScheduleFails, Phases
<1>6. CASE FailSubmission(c)
  <2>1. [JobOf(c) EXCEPT !.status = "failed"] \in JobRow
    BY <1>6, AtSound DEF FailSubmission, Sound, JobOf, JobRow
  <2>2. JobsKept(job')
    BY <1>6, <2>1, SetJobKeeps DEF FailSubmission
  <2>3. QED
    BY <1>6, <2>2, EndSound DEF FailSubmission
<1>7. CASE ReadJob(c)
  <2>1. JobsKept(job')
    BY <1>7, JobsStay DEF ReadJob
  <2>2. Sound(command[c], job) /\ JobOf(c) \in JobRow
    BY <1>7, AtSound DEF ReadJob, Sound, JobOf
  <2>3. [command[c] EXCEPT !.phase = "derive", !.seen = JobOf(c)] \in Command
    BY <2>2 DEF Sound, Command
  <2>4. Sound([command[c] EXCEPT !.phase = "derive", !.seen = JobOf(c)], job')
    BY <2>1, <2>2, <2>3 DEF Sound, Command, JobsKept
  <2>5. QED
    BY <1>7, <2>1, <2>4, SetCommandSound DEF ReadJob, SetCommand
<1>8. CASE Derive(c)
  <2> DEFINE result == DeriveStatus(command[c].seen, StageStates(command[c].job))
  <2>1. JobsKept(job')
    BY <1>8, JobsStay DEF Derive
  <2>2. Sound(command[c], job) /\ command[c].seen \in JobRow
    BY <1>8, AtSound DEF Derive, Sound
  <2>3. result \in Statuses
    BY <2>2, DeriveType
  <2>4. command' = [command EXCEPT ![c] = [command[c] EXCEPT !.phase = "write",
                                                         !.result = result]]
    BY <1>8 DEF Derive, SetCommand
  <2> HIDE DEF result
  <2>5. [command[c] EXCEPT !.phase = "write", !.result = result] \in Command
    BY <2>2, <2>3 DEF Sound, Command
  <2>6. Sound([command[c] EXCEPT !.phase = "write", !.result = result], job')
    BY <2>1, <2>2, <2>3, <2>5 DEF Sound, Command, JobsKept
  <2>7. QED
    BY <2>1, <2>4, <2>6, SetCommandSound
<1>9. CASE Write(c)
  <2>1. [JobOf(c) EXCEPT !.status = command[c].result] \in JobRow
    BY <1>9, AtSound DEF Write, Sound, JobOf, JobRow, Statuses
  <2>2. JobsKept(job')
    BY <1>9, <2>1, SetJobKeeps DEF Write
  <2>3. QED
    BY <1>9, <2>2, EndSound DEF Write
<1>10. CASE Cancel(c)
  <2>1. PICK j \in Jobs : job[j] # NoJob /\ job' = [job EXCEPT ![j].status = "cancelled"]
    BY <1>10 DEF Cancel
  <2>2. job[j] \in JobRow
    BY <2>1, RowTyped
  <2>3. [job[j] EXCEPT !.status = "cancelled"] \in JobRow
    BY <2>2 DEF JobRow
  <2>4. JobsKept(job')
    BY <2>1, <2>3 DEF JobsTyped, JobsKept
  <2>5. UNCHANGED command
    BY <1>10 DEF Cancel
  <2>6. QED
    BY <2>4, <2>5 DEF CommandsTyped, JobsTyped, JobsKept, Sound, Command
<1>11. CASE BeginCancelStage(c)
  <2>1. PICK j \in Jobs, s \in Stages :
          /\ job[j] # NoJob
          /\ Begin(c, [NewCommand("cancel", j, "mark") EXCEPT
                         !.cancelled = job[j].cancelled \cup {s} \cup Descendants(s)])
    BY <1>11 DEF BeginCancelStage
  <2> DEFINE cancelled == job[j].cancelled \cup {s} \cup Descendants(s)
             r == [NewCommand("cancel", j, "mark") EXCEPT !.cancelled = cancelled]
  <2>2. job[j] \in JobRow /\ JobsKept(job') /\ UNCHANGED job
    BY <1>11, <2>1, RowTyped, JobsStay DEF BeginCancelStage
  <2>3. cancelled \in SUBSET Stages
    BY <2>2 DEF JobRow, Descendants
  <2>4. r \in Command /\ r.job = j /\ r.phase = "mark"
    <3> HIDE DEF cancelled
    <3>1. r \in Command
      BY <2>3, NewCommandType DEF Phases
    <3>2. r.job = j /\ r.phase = "mark"
      BY DEF NewCommand
    <3>3. QED
      BY <3>1, <3>2
  <2>5. Begin(c, r)
    BY <2>1
  <2> HIDE DEF r
  <2>6. QED
    BY <2>2, <2>4, <2>5, BeginSound
<1>12. CASE MarkCancelled(c)
  <2>1. [JobOf(c) EXCEPT !.cancelled = command[c].cancelled] \in JobRow
    BY <1>12, AtSound DEF MarkCancelled, Sound, JobOf, JobRow, Command
  <2>2. JobsKept(job')
    BY <1>12, <2>1, SetJobKeeps DEF MarkCancelled
  <2>3. QED
    BY <1>12, <2>2, EndSound DEF MarkCancelled
<1>13. CASE BeginRetry(c)
  <2>1. PICK j \in Jobs, selected \in SUBSET Stages, cancelled \in SUBSET Stages :
          /\ job[j] # NoJob
          /\ \/ Begin(c, [NewCommand("retry", j, "start") EXCEPT !.selected = selected])
             \/ Begin(c, [NewCommand("retry", j, "start") EXCEPT
                            !.selected = selected, !.cancelled = cancelled])
    <3>1. PICK j \in Jobs :
            /\ job[j] # NoJob
            /\ \/ Begin(c, [NewCommand("retry", j, "start") EXCEPT !.selected = Incomplete(j)])
               \/ \E s \in Stages :
                    Begin(c, [NewCommand("retry", j, "start") EXCEPT
                      !.selected = IF ({s} \cup Descendants(s)) \cap Incomplete(j) = {}
                                   THEN {s} \cup Descendants(s)
                                   ELSE ({s} \cup Descendants(s)) \cap Incomplete(j),
                      !.cancelled = job[j].cancelled \ ({s} \cup Descendants(s))])
      BY <1>13 DEF BeginRetry
    <3>2. Incomplete(j) \in SUBSET Stages
      BY DEF Incomplete
    <3>3. job[j].cancelled \in SUBSET Stages
      BY <3>1, RowTyped DEF JobRow
    <3>4. \A s \in Stages : {s} \cup Descendants(s) \in SUBSET Stages
      BY DEF Descendants
    <3>5. CASE Begin(c, [NewCommand("retry", j, "start") EXCEPT !.selected = Incomplete(j)])
      BY <3>1, <3>2, <3>5
    <3>6. ASSUME NEW s \in Stages,
            Begin(c, [NewCommand("retry", j, "start") EXCEPT
              !.selected = IF ({s} \cup Descendants(s)) \cap Incomplete(j) = {}
                           THEN {s} \cup Descendants(s)
                           ELSE ({s} \cup Descendants(s)) \cap Incomplete(j),
              !.cancelled = job[j].cancelled \ ({s} \cup Descendants(s))])
          PROVE  \E selected \in SUBSET Stages, cancelled \in SUBSET Stages :
                   Begin(c, [NewCommand("retry", j, "start") EXCEPT
                              !.selected = selected, !.cancelled = cancelled])
      <4> DEFINE closure == {s} \cup Descendants(s)
                 selected == IF closure \cap Incomplete(j) = {} THEN closure
                             ELSE closure \cap Incomplete(j)
                 cancelled == job[j].cancelled \ closure
      <4>1. selected \in SUBSET Stages /\ cancelled \in SUBSET Stages
        BY <3>2, <3>3, <3>4
      <4>2. Begin(c, [NewCommand("retry", j, "start") EXCEPT
                       !.selected = selected, !.cancelled = cancelled])
        BY <3>6
      <4> HIDE DEF selected, cancelled
      <4>3. QED
        BY <4>1, <4>2
    <3>7. QED
      BY <3>1, <3>5, <3>6
  <2>2. job[j] \in JobRow /\ JobsKept(job') /\ UNCHANGED job
    BY <1>13, <2>1, RowTyped, JobsStay DEF BeginRetry
  <2>3. ASSUME NEW r, Begin(c, r),
               r \in {[NewCommand("retry", j, "start") EXCEPT !.selected = selected],
                     [NewCommand("retry", j, "start") EXCEPT
                        !.selected = selected, !.cancelled = cancelled]}
        PROVE  JobsTyped' /\ CommandsTyped'
    <3>1. r \in Command
      <4>1. CASE r = [NewCommand("retry", j, "start") EXCEPT !.selected = selected]
        BY <4>1, NewCommandType DEF Phases
      <4>2. CASE r = [NewCommand("retry", j, "start") EXCEPT
                       !.selected = selected, !.cancelled = cancelled]
        BY <4>2, NewCommandType DEF Phases
      <4>3. QED
        BY <2>3, <4>1, <4>2
    <3>2. r.job = j /\ r.phase = "start"
      BY <2>3 DEF NewCommand
    <3>3. QED
      BY <2>2, <2>3, <3>1, <3>2, BeginSound
  <2>4. QED
    BY <2>1, <2>3
<1>14. CASE Clear(c)
  <2>1. [JobOf(c) EXCEPT !.cancelled = command[c].cancelled] \in JobRow
    BY <1>14, AtSound DEF Clear, Step, Sound, JobOf, JobRow, Command
  <2>2. JobsKept(job')
    BY <1>14, <2>1, SetJobKeeps DEF Clear, Step
  <2>3. QED
    BY <1>14, <2>2, StepSound DEF Clear, Phases
<1>15. CASE BeginRerun(c)
  <2>1. PICK j \in Jobs, cause \in Causes, s \in Stages,
             op \in {"rerun_source", "rerun_stage"}, phase \in {"refresh", "plan"} :
          /\ job[j] # NoJob
          /\ Begin(c, [NewCommand(op, j, phase) EXCEPT
                         !.selected = Descendants(s), !.cause = cause])
    BY <1>15 DEF BeginRerun
  <2> DEFINE r == [NewCommand(op, j, phase) EXCEPT
                     !.selected = Descendants(s), !.cause = cause]
  <2>2. job[j] \in JobRow /\ JobsKept(job') /\ UNCHANGED job
    BY <1>15, <2>1, RowTyped, JobsStay DEF BeginRerun
  <2>3. Descendants(s) \in SUBSET Stages
    BY DEF Descendants
  <2>4. r \in Command
    BY <2>3, NewCommandType DEF Phases
  <2>5. r.job = j /\ r.phase = phase
    BY DEF NewCommand
  <2>6. Begin(c, r)
    BY <2>1
  <2> HIDE DEF r
  <2>7. QED
    BY <2>1, <2>2, <2>4, <2>5, <2>6, BeginSound
<1>16. QED
  BY <1>1, <1>2, <1>3, <1>4, <1>5, <1>6, <1>7, <1>8, <1>9, <1>10, <1>11, <1>12,
     <1>13, <1>14, <1>15 DEF CommandStep

(* A command leaves the executor and the deliveries alone; it may submit a  *)
(* workflow run.                                                            *)
LEMMA CommandKeepsExecution ==
  ASSUME NEW c \in Clients, CommandStep(c)
  PROVE  /\ UNCHANGED <<stageVars, created, callback>>
         /\ flows' = flows \/ Schedule(c)
BY DEF CommandStep, BeginSubmit, Get, Start, Plan, Schedule, ScheduleFails, FailSubmission,
   ReadJob, Derive, Write, Cancel, BeginCancelStage, MarkCancelled, BeginRetry, Clear,
   BeginRerun, schedVars

LEMMA WorkflowType ==
  ASSUME CommandsTyped, NEW c \in Clients, Schedule(c)
  PROVE  Workflow(c) \in FlowRow
<1>1. Sound(command[c], job)
  BY AtSound DEF Schedule
<1>2. QED
  BY <1>1 DEF Sound, Command, Workflow, FlowRow

LEMMA ScheduleTyped ==
  ASSUME CommandsTyped, FlowsTyped, CallbacksTyped, NEW c \in Clients, Schedule(c)
  PROVE  FlowsTyped' /\ CallbacksTyped'
<1>1. Workflow(c) \in FlowRow
  BY WorkflowType
<1>2. flows' = Append(flows, Workflow(c)) /\ UNCHANGED callback
  BY DEF Schedule
<1>3. flows' \in Seq(FlowRow) /\ DOMAIN flows \subseteq DOMAIN flows'
  BY <1>1, <1>2 DEF FlowsTyped
<1>4. QED
  BY <1>2, <1>3 DEF FlowsTyped, CallbacksTyped

-----------------------------------------------------------------------------
(* The deliveries.                                                          *)
LEMMA DeliveryTyped ==
  ASSUME CallbacksTyped, FlowsTyped, NEW w \in Workers, callback[w] # Idle
  PROVE  /\ callback[w] \in Callback /\ callback[w].flow \in DOMAIN flows
         /\ FlowOf(w) \in FlowRow /\ callback[w].stage \in Stages
BY DEF CallbacksTyped, FlowsTyped, Callback, FlowOf

LEMMA InCallback ==
  ASSUME NEW w \in Workers, callback[w].phase \in {"gate", "evidence", "run"}
  PROVE  callback[w] # Idle
BY IdleIsNoPhase

LEMMA SetNodeTyped ==
  ASSUME FlowsTyped, NEW i \in DOMAIN flows, NEW s \in Stages,
         NEW state \in {"waiting", "running", "done", "error"}, SetNode(i, s, state)
  PROVE  FlowsTyped' /\ DOMAIN flows' = DOMAIN flows
<1>1. flows[i] \in FlowRow
  BY DEF FlowsTyped
<1>2. [flows[i] EXCEPT !.node[s] = state] \in FlowRow
  BY <1>1 DEF FlowRow
<1>3. flows' = [flows EXCEPT ![i] = [flows[i] EXCEPT !.node[s] = state]]
  BY DEF SetNode
<1>4. QED
  BY <1>2, <1>3 DEF FlowsTyped

LEMMA AckTyped ==
  ASSUME FlowsTyped, CallbacksTyped, NEW w \in Workers, callback[w] # Idle,
         NEW state \in {"waiting", "running", "done", "error"}, Ack(w, state)
  PROVE  FlowsTyped' /\ CallbacksTyped' /\ callback' = [callback EXCEPT ![w] = Idle]
<1>1. FlowsTyped' /\ DOMAIN flows' = DOMAIN flows
  BY DeliveryTyped, SetNodeTyped DEF Ack
<1>2. callback' = [callback EXCEPT ![w] = Idle]
  BY DEF Ack
<1>3. QED
  BY <1>1, <1>2 DEF CallbacksTyped

LEMMA PhaseTyped ==
  ASSUME FlowsTyped, CallbacksTyped, NEW w \in Workers, callback[w] # Idle,
         NEW phase \in {"gate", "evidence", "run"},
         callback' = [callback EXCEPT ![w].phase = phase], UNCHANGED flows
  PROVE  FlowsTyped' /\ CallbacksTyped'
<1>1. callback[w] \in Callback
  BY DeliveryTyped
<1>2. [callback[w] EXCEPT !.phase = phase] \in Callback
  BY <1>1 DEF Callback
<1>3. [callback[w] EXCEPT !.phase = phase].flow = callback[w].flow
  BY <1>1 DEF Callback
<1>4. QED
  BY <1>2, <1>3 DEF CallbacksTyped, FlowsTyped

(* The row a stage's evidence is read from is the newest complete one.      *)
LEMMA NewestComplete ==
  ASSUME CreatedTyped, NEW u \in Stages, CompleteRows(u) # {}
  PROVE  Newest(u) \in CompleteRows(u)
<1>1. CompleteRows(u) \in SUBSET (1..Len(created)) /\ Len(created) \in Nat
  BY DEF CompleteRows, CreatedTyped
<1>2. \E n \in CompleteRows(u) : \A m \in CompleteRows(u) : m <= n
  BY <1>1, LargestExists
<1>3. QED
  BY <1>2 DEF Newest

LEMMA EvidenceType ==
  ASSUME CreatedTyped, OutputsKept, NEW s \in Stages,
         \A u \in Upstream[s] : CompleteRows(u) # {}
  PROVE  Evidence(s) \in SUBSET Outputs
<1>1. ASSUME NEW u \in Upstream[s] PROVE runs[created[Newest(u)]].output \in Outputs
  <2>1. u \in Stages
    BY LifecycleConstants
  <2>2. Newest(u) \in CompleteRows(u)
    BY <2>1, NewestComplete
  <2>3. QED
    BY <2>2 DEF CompleteRows, CreatedTyped, OutputsKept
<1>2. QED
  BY <1>1 DEF Evidence

LEMMA KeyType ==
  ASSUME FlowsTyped, CallbacksTyped, NEW w \in Workers, callback[w] # Idle,
         NEW evidence \in SUBSET Outputs
  PROVE  KeyOf(w, evidence) \in RunKeys /\ FlowOf(w).job \in Jobs
         /\ KeyOf(w, evidence).stage = callback[w].stage
<1>1. FlowOf(w) \in FlowRow /\ callback[w].stage \in Stages
  BY DeliveryTyped
<1>2. QED
  BY <1>1, LifecycleConstants DEF FlowRow, KeyOf

(* The scheduler starts a run with a key of the executor and only behind    *)
(* committed upstream stages.                                               *)
Starts(w) ==
  \E k \in RunKeys, j \in Jobs :
    Submit(w, k, j) /\ \A u \in Upstream[k.stage] : Committed(u)

LEMMA ResolveCases ==
  ASSUME LifecycleInv, NEW w \in Workers, Resolve(w)
  PROVE  \/ Ack(w, "error") /\ UNCHANGED stageVars
         \/ /\ Starts(w)
            /\ callback' = [callback EXCEPT ![w].phase = "run"] /\ UNCHANGED flows
<1> USE DEF LifecycleInv
<1> DEFINE s == callback[w].stage
<1>1. callback[w] # Idle /\ s \in Stages
  BY InCallback, DeliveryTyped DEF Resolve
<1>2. ASSUME \A u \in Upstream[s] : CompleteRows(u) # {}, StartRun(w, Evidence(s))
      PROVE  Starts(w)
  <2>1. Evidence(s) \in SUBSET Outputs
    BY <1>1, <1>2, EvidenceType
  <2>2. /\ KeyOf(w, Evidence(s)) \in RunKeys /\ FlowOf(w).job \in Jobs
        /\ KeyOf(w, Evidence(s)).stage = s
    BY <1>1, <2>1, KeyType
  <2>3. ASSUME NEW u \in Upstream[s] PROVE Committed(u)
    <3>1. PICK n \in CompleteRows(u) : TRUE
      BY <1>2
    <3>2. /\ created[n] \in RunKeys /\ created[n].stage = u
          /\ runs[created[n]].status = "complete"
      BY <3>1 DEF CompleteRows, CreatedTyped
    <3>3. Canonical(created[n]) # {}
      BY <3>2 DEF StageInv, CompletionHasEvidence
    <3>4. QED
      BY <3>2, <3>3 DEF Canonical, Committed
  <2>4. Submit(w, KeyOf(w, Evidence(s)), FlowOf(w).job)
    BY <1>2 DEF StartRun
  <2>5. QED
    BY <2>2, <2>3, <2>4 DEF Starts
<1>3. QED
  BY <1>2 DEF Resolve, StartRun

LEMMA ExecuteKeepsTask ==
  ASSUME StageTypeOK, NEW w \in Workers, Execute(w)
  PROVE  task'[w] # NoTask
<1>1. task[w] \in Task
  BY ExecuteKeepsRun
<1>2. ASSUME NEW phase \in Running \cup {"done", "raised"}, Goto(w, phase)
      PROVE  task'[w].phase # "idle"
  BY <1>1, <1>2, GotoKeepsRun DEF Running
<1>3. task'[w].phase # "idle"
  <2>1. CASE ReadCommitted(w)
    BY <1>1, <2>1 DEF ReadCommitted, StageTypeOK, Task
  <2>2. CASE Work(w)
    <3>1. CASE \E output \in Outputs :
             task' = [task EXCEPT ![w].phase = "complete", ![w].output = output]
      BY <1>1, <3>1 DEF StageTypeOK, Task
    <3>2. CASE task' = [task EXCEPT ![w].attempt = @ + 1]
      BY <1>1, <2>2, <3>2 DEF Work, StageTypeOK, Task
    <3>3. QED
      BY <1>2, <2>2, <3>1, <3>2 DEF Work, Running
  <2>3. CASE Claim(w) \/ Check(w) \/ Observe(w) \/ Complete(w) \/ Quarantine(w) \/ Fail(w)
    <3>1. \E phase \in Running \cup {"done", "raised"} : Goto(w, phase)
      BY <2>3 DEF Claim, Check, Observe, Complete, Quarantine, Fail, Running
    <3>2. QED
      BY <1>2, <3>1
  <2>4. QED
    BY <2>1, <2>2, <2>3 DEF Execute
<1>4. QED
  BY <1>3, IdlePhase DEF NoTask

(* Every step of the scheduler, by what it does to the executor.            *)
LEMMA StepCases ==
  ASSUME LifecycleInv, [LifecycleNext]_lifecycleVars
  PROVE  \/ UNCHANGED stageVars
         \/ \E w \in Workers : Starts(w) \/ Execute(w) \/ Return(w) \/ Die(w)
<1>1. CASE UNCHANGED lifecycleVars
  BY <1>1 DEF lifecycleVars
<1>2. ASSUME NEW c \in Clients, CommandStep(c) PROVE UNCHANGED stageVars
  BY <1>2, CommandKeepsExecution
<1>3. ASSUME NEW w \in Workers, Deliver(w) \/ Gate(w) PROVE UNCHANGED stageVars
  BY <1>3 DEF Deliver, Gate
<1>4. ASSUME NEW w \in Workers, Resolve(w) PROVE UNCHANGED stageVars \/ Starts(w)
  BY <1>4, ResolveCases
<1>5. ASSUME NEW w \in Workers, Run(w) \/ Finish(w) \/ WorkerDies(w)
      PROVE  UNCHANGED stageVars \/ Execute(w) \/ Return(w) \/ Die(w)
  BY <1>5 DEF Run, Finish, WorkerDies
<1>6. QED
  BY <1>1, <1>2, <1>3, <1>4, <1>5 DEF LifecycleNext, CallbackStep

LEMMA ExecutorStep ==
  ASSUME LifecycleInv, [LifecycleNext]_lifecycleVars
  PROVE  [StageNext]_stageVars
BY StepCases DEF Starts, StageNext

-----------------------------------------------------------------------------
LEMMA DeliveryStep ==
  ASSUME LifecycleInv, [LifecycleNext]_lifecycleVars
  PROVE  FlowsTyped' /\ CallbacksTyped' /\ CreatedTyped' /\ TasksDelivered'
<1> USE DEF LifecycleInv
<1> DEFINE Typed == FlowsTyped' /\ CallbacksTyped' /\ CreatedTyped' /\ TasksDelivered'
<1>0. StageTypeOK
  BY DEF StageInv
<1>1. CASE UNCHANGED lifecycleVars
  BY <1>1 DEF lifecycleVars, stageVars, schedVars, FlowsTyped, CallbacksTyped, CreatedTyped,
     TasksDelivered
<1>2. ASSUME NEW c \in Clients, CommandStep(c) PROVE Typed
  <2>1. CreatedTyped' /\ TasksDelivered'
    BY <1>2, CommandKeepsExecution DEF CreatedTyped, TasksDelivered, stageVars
  <2>2. CASE UNCHANGED flows
    BY <1>2, <2>1, <2>2, CommandKeepsExecution DEF FlowsTyped, CallbacksTyped
  <2>3. CASE Schedule(c)
    BY <2>1, <2>3, ScheduleTyped
  <2>4. QED
    BY <1>2, <2>2, <2>3, CommandKeepsExecution
<1>3. ASSUME NEW w \in Workers, UNCHANGED created, callback[w] # Idle,
             NEW state \in {"waiting", "running", "done", "error"}, Ack(w, state),
             task'[w] = NoTask, \A v \in Workers \ {w} : task'[v] = task[v]
      PROVE  Typed
  <2>1. FlowsTyped' /\ CallbacksTyped' /\ callback' = [callback EXCEPT ![w] = Idle]
    BY <1>3, AckTyped
  <2>2. callback'[w].phase = "idle" /\ \A v \in Workers \ {w} : callback'[v] = callback[v]
    BY <2>1, IdleIsNoPhase DEF CallbacksTyped
  <2>3. TasksDelivered'
    BY <1>3, <2>2 DEF TasksDelivered
  <2>4. QED
    BY <1>3, <2>1, <2>3 DEF CreatedTyped
<1>4. ASSUME NEW w \in Workers, Deliver(w) PROVE Typed
  <2>1. PICK i \in DOMAIN flows, s \in Stages :
          /\ SetNode(i, s, "running")
          /\ callback' = [callback EXCEPT ![w] = [phase |-> "gate", flow |-> i, stage |-> s]]
    BY <1>4 DEF Deliver
  <2>2. FlowsTyped' /\ DOMAIN flows' = DOMAIN flows
    BY <2>1, SetNodeTyped
  <2>3. i \in Nat /\ [phase |-> "gate", flow |-> i, stage |-> s] \in Callback
    BY DEF FlowsTyped, Callback
  <2>4. CallbacksTyped'
    BY <2>1, <2>2, <2>3 DEF CallbacksTyped
  <2>5. UNCHANGED <<task, created>> /\ callback[w].phase = "idle"
    BY <1>4, IdleIsNoPhase DEF Deliver, stageVars
  <2>6. TasksDelivered'
    BY <2>1, <2>5 DEF TasksDelivered, CallbacksTyped
  <2>7. QED
    BY <2>2, <2>4, <2>5, <2>6 DEF CreatedTyped
<1>5. ASSUME NEW w \in Workers, Gate(w) PROVE Typed
  <2>1. callback[w] # Idle /\ callback[w].phase = "gate" /\ UNCHANGED <<task, created>>
    BY <1>5, InCallback DEF Gate, stageVars
  <2>2. task[w] = NoTask
    BY <2>1 DEF TasksDelivered
  <2>3. CASE Ack(w, "done")
    BY <2>1, <2>2, <2>3, <1>3
  <2>4. CASE callback' = [callback EXCEPT ![w].phase = "evidence"] /\ UNCHANGED flows
    <3>1. FlowsTyped' /\ CallbacksTyped'
      BY <2>1, <2>4, PhaseTyped
    <3>2. callback[w] \in Callback
      BY <2>1, DeliveryTyped
    <3>3. callback'[w].phase = "evidence" /\ \A v \in Workers \ {w} : callback'[v] = callback[v]
      BY <2>4, <3>2 DEF CallbacksTyped, Callback
    <3>4. TasksDelivered'
      BY <2>1, <2>2, <3>3 DEF TasksDelivered
    <3>5. QED
      BY <2>1, <3>1, <3>4 DEF CreatedTyped
  <2>5. QED
    BY <1>5, <2>3, <2>4 DEF Gate
<1>6. ASSUME NEW w \in Workers, Resolve(w) PROVE Typed
  <2>1. callback[w] # Idle /\ callback[w].phase = "evidence" /\ UNCHANGED created
    BY <1>6, InCallback DEF Resolve
  <2>2. task[w] = NoTask
    BY <2>1 DEF TasksDelivered
  <2>3. CASE Ack(w, "error") /\ UNCHANGED stageVars
    BY <2>1, <2>2, <2>3, <1>3 DEF stageVars
  <2>4. CASE /\ Starts(w)
             /\ callback' = [callback EXCEPT ![w].phase = "run"] /\ UNCHANGED flows
    <3>1. FlowsTyped' /\ CallbacksTyped'
      BY <2>1, <2>4, PhaseTyped
    <3>2. callback[w] \in Callback
      BY <2>1, DeliveryTyped
    <3>3. callback'[w].phase = "run" /\ \A v \in Workers \ {w} : callback'[v] = callback[v]
      BY <2>4, <3>2 DEF CallbacksTyped, Callback
    <3>4. task'[w].phase = "claim" /\ \A v \in Workers \ {w} : task'[v] = task[v]
      BY <1>0, <2>4 DEF Starts, Submit, StageTypeOK
    <3>5. TasksDelivered'
      BY <3>3, <3>4 DEF TasksDelivered, NoTask
    <3>6. QED
      BY <2>1, <3>1, <3>5 DEF CreatedTyped
  <2>5. QED
    BY <1>6, <2>3, <2>4, ResolveCases
<1>7. ASSUME NEW w \in Workers, Run(w) PROVE Typed
  <2>1. Key(w) \in RunKeys /\ task[w] # NoTask /\ task'[w] # NoTask
    BY <1>0, <1>7, ExecuteKeepsRun, ExecuteKeepsTask, NoTaskIsNoTask DEF Run
  <2>2. \A v \in Workers \ {w} : task'[v] = task[v]
    BY <1>0, <1>7, OthersKeepTheirTask DEF Run, WorkerStep
  <2>3. UNCHANGED <<flows, callback>>
    BY <1>7 DEF Run, schedVars
  <2>4. TasksDelivered'
    BY <2>1, <2>2, <2>3 DEF TasksDelivered
  <2>5. CreatedTyped'
    BY <1>7, <2>1 DEF Run, CreatedTyped
  <2>6. QED
    BY <2>3, <2>4, <2>5 DEF FlowsTyped, CallbacksTyped
<1>8. ASSUME NEW w \in Workers, Finish(w) PROVE Typed
  <2>1. callback[w] # Idle /\ UNCHANGED created
    BY <1>8, InCallback DEF Finish
  <2>2. task'[w] = NoTask /\ \A v \in Workers \ {w} : task'[v] = task[v]
    BY <1>0, <1>8 DEF Finish, Return, StageTypeOK
  <2>3. Ack(w, "done") \/ Ack(w, "error")
    BY <1>8 DEF Finish
  <2>4. QED
    BY <2>1, <2>2, <2>3, <1>3
<1>9. ASSUME NEW w \in Workers, WorkerDies(w) PROVE Typed
  <2>1. callback[w] # Idle /\ UNCHANGED created /\ Ack(w, "waiting")
    BY <1>9 DEF WorkerDies
  <2>2. task'[w] = NoTask /\ \A v \in Workers \ {w} : task'[v] = task[v]
    BY <1>0, <1>9 DEF WorkerDies, Die, StageTypeOK, stageVars
  <2>3. QED
    BY <2>1, <2>2, <1>3
<1>10. QED
  BY <1>1, <1>2, <1>4, <1>5, <1>6, <1>7, <1>8, <1>9 DEF LifecycleNext, CallbackStep

LEMMA CommandsStep ==
  ASSUME LifecycleInv, [LifecycleNext]_lifecycleVars
  PROVE  JobsTyped' /\ CommandsTyped'
<1> USE DEF LifecycleInv
<1>1. ASSUME NEW c \in Clients, CommandStep(c) PROVE JobsTyped' /\ CommandsTyped'
  BY <1>1, CommandStepTyped
<1>2. ASSUME NEW w \in Workers, Deliver(w) \/ CallbackStep(w) \/ WorkerDies(w)
      PROVE  UNCHANGED <<job, command>>
  BY <1>2 DEF Deliver, CallbackStep, Gate, Resolve, Run, Finish, WorkerDies, apiVars
<1>3. ASSUME UNCHANGED <<job, command>> PROVE JobsTyped' /\ CommandsTyped'
  BY <1>3 DEF JobsTyped, CommandsTyped
<1>4. QED
  BY <1>1, <1>2, <1>3 DEF LifecycleNext, lifecycleVars, apiVars

-----------------------------------------------------------------------------
LEMMA CommittedGrows ==
  ASSUME completions \subseteq completions', NEW s, Committed(s)
  PROVE  Committed(s)'
BY DEF Committed

(* A row that appears was claimed by a call of run() with its key.          *)
LEMMA NewRow ==
  ASSUME StageInv, [StageNext]_stageVars, NEW k \in RunKeys,
         runs[k] = NoRun, runs'[k] # NoRun
  PROVE  \E w \in Workers : task[w] # NoTask /\ Key(w) = k
<1> USE DEF StageInv
<1>1. PICK w \in Workers : Claim(w) \/ Complete(w) \/ Quarantine(w) \/ Fail(w)
  BY DEF StageNext, Execute, Submit, Check, ReadCommitted, Observe, Work, Return, Die,
     stageVars
<1>2. task[w] # NoTask
  BY <1>1, IdlePhase DEF Claim, Complete, Quarantine, Fail
<1>3. Key(w) = k
  BY <1>1 DEF Claim, Complete, Quarantine, Fail, StageTypeOK
<1>4. QED
  BY <1>2, <1>3

LEMMA UpstreamStep ==
  ASSUME LifecycleInv, [LifecycleNext]_lifecycleVars
  PROVE  TasksBehindUpstream' /\ RowsBehindUpstream'
<1> USE DEF LifecycleInv
<1>1. [StageNext]_stageVars /\ StageTypeOK
  BY ExecutorStep DEF StageInv
<1>2. completions \subseteq completions'
  BY <1>1, StepMonotone DEF StageInv
<1>3. ASSUME NEW k \in RunKeys, runs'[k] # NoRun, NEW u \in Upstream[k.stage]
      PROVE  Committed(u)'
  <2>1. CASE runs[k] # NoRun
    BY <1>2, <1>3, <2>1, CommittedGrows DEF RowsBehindUpstream
  <2>2. CASE runs[k] = NoRun
    BY <1>1, <1>2, <1>3, <2>2, NewRow, CommittedGrows DEF TasksBehindUpstream
  <2>3. QED
    BY <2>1, <2>2
<1>4. ASSUME NEW w \in Workers, task'[w] # NoTask, NEW u \in Upstream[Key(w)'.stage]
      PROVE  Committed(u)'
  <2>1. CASE task[w] # NoTask /\ Key(w)' = Key(w)
    BY <1>2, <1>4, <2>1, CommittedGrows DEF TasksBehindUpstream
  <2>2. CASE Starts(w)
    <3>1. PICK k \in RunKeys, j \in Jobs :
            Submit(w, k, j) /\ \A v \in Upstream[k.stage] : Committed(v)
      BY <2>2 DEF Starts
    <3>2. Key(w)' = k
      BY <1>1, <3>1 DEF Submit, Key, StageTypeOK
    <3>3. QED
      BY <1>2, <1>4, <3>1, <3>2, CommittedGrows
  <2>3. CASE Execute(w)
    BY <1>1, <2>1, <2>3, ExecuteKeepsRun, NoTaskIsNoTask
  <2>4. CASE Return(w) \/ Die(w)
    BY <1>1, <1>4, <2>4 DEF Return, Die, StageTypeOK
  <2>5. ASSUME NEW v \in Workers, v # w, Starts(v) \/ Execute(v) \/ Return(v) \/ Die(v)
        PROVE  Committed(u)'
    <3>1. WorkerStep(v)
      BY <2>5 DEF WorkerStep, Starts
    <3>2. task'[w] = task[w]
      BY <1>1, <2>5, <3>1, OthersKeepTheirTask
    <3>3. QED
      BY <1>4, <2>1, <3>2 DEF Key
  <2>6. CASE UNCHANGED stageVars
    BY <1>4, <2>1, <2>6 DEF stageVars, Key
  <2>7. QED
    BY <2>2, <2>3, <2>4, <2>5, <2>6, StepCases
<1>5. QED
  BY <1>3, <1>4 DEF TasksBehindUpstream, RowsBehindUpstream

-----------------------------------------------------------------------------
(* The status that stands for several rows of a stage is one of theirs.     *)
LEMMA BestIsFound ==
  ASSUME NEW found \in SUBSET {"complete", "quarantined", "claimed", "failed"}, found # {}
  PROVE  (CHOOSE st \in found : \A other \in found : Rank[other] <= Rank[st]) \in found
<1>1. /\ Rank["complete"] = 5 /\ Rank["quarantined"] = 4
      /\ Rank["claimed"] = 3 /\ Rank["failed"] = 0
  BY DEF Rank
<1>2. \E st \in found : \A other \in found : Rank[other] <= Rank[st]
  <2>1. CASE "complete" \in found
    BY <1>1, <2>1
  <2>2. CASE "complete" \notin found /\ "quarantined" \in found
    BY <1>1, <2>2
  <2>3. CASE "complete" \notin found /\ "quarantined" \notin found /\ "claimed" \in found
    BY <1>1, <2>3
  <2>4. CASE found = {"failed"}
    BY <1>1, <2>4
  <2>5. QED
    BY <2>1, <2>2, <2>3, <2>4
<1>3. QED
  BY <1>2

LEMMA StateIsOfARow ==
  ASSUME StageTypeOK, NEW j \in Jobs, NEW s \in DOMAIN StageStates(j)
  PROVE  \E k \in RowsOf(j) : k.stage = s /\ StageStates(j)[s] = runs[k].status
<1> DEFINE rows == RowsOf(j)
           found == {runs[k].status : k \in {r \in rows : r.stage = s}}
<1>1. s \in {k.stage : k \in rows}
  BY DEF StageStates
<1>2. \A k \in rows : runs[k] \in RunRow
  BY DEF RowsOf, StageTypeOK
<1>3. found \in SUBSET {"complete", "quarantined", "claimed", "failed"} /\ found # {}
  BY <1>1, <1>2 DEF RunRow
<1>4. StageStates(j)[s] =
        CHOOSE st \in found : \A other \in found : Rank[other] <= Rank[st]
  BY <1>1 DEF StageStates
<1>5. StageStates(j)[s] \in found
  <2> HIDE DEF found
  <2>1. QED
    BY <1>3, <1>4, BestIsFound
<1>6. QED
  BY <1>5

LEMMA DerivedComplete ==
  ASSUME NEW rec, NEW states, DeriveStatus(rec, states) = "complete",
         DOMAIN states # {}
  PROVE  \A s \in rec.expected : s \in DOMAIN states /\ states[s] = "complete"
<1> DEFINE statuses == {states[s] : s \in rec.expected \cap DOMAIN states}
<1>1. CASE rec.expected = {}
  BY <1>1
<1>2. CASE rec.expected # {}
  <2>1. /\ rec.status \notin {"cancelled", "failed"}
        /\ rec.expected \subseteq DOMAIN states
    BY <1>2 DEF DeriveStatus
  <2>2. statuses = {"complete"}
    BY <1>2, <2>1 DEF DeriveStatus
  <2>3. QED
    BY <2>1, <2>2
<1>3. QED
  BY <1>1, <1>2

LEMMA FoldedHonest == StageInv => FoldedCompleteIsHonest
<1> SUFFICES ASSUME StageInv, NEW j \in Jobs, DOMAIN StageStates(j) # {},
                    Status(j) = "complete", NEW s \in job[j].expected
             PROVE  \E e \in completions :
                      /\ e.key.stage = s /\ ~e.replayed
                      /\ job[j].cause # None => e.key.cause = job[j].cause
  BY DEF FoldedCompleteIsHonest, ExpectedCommitted
<1>1. s \in DOMAIN StageStates(j) /\ StageStates(j)[s] = "complete"
  BY DerivedComplete DEF Status
<1>2. PICK k \in RowsOf(j) : k.stage = s /\ runs[k].status = "complete"
  BY <1>1, StateIsOfARow DEF StageInv
<1>3. k \in RunKeys /\ (job[j].cause # None => k.cause = job[j].cause)
  BY <1>2 DEF RowsOf
<1>4. Canonical(k) # {}
  BY <1>2, <1>3 DEF StageInv, CompletionHasEvidence
<1>5. QED
  BY <1>2, <1>3, <1>4 DEF Canonical

-----------------------------------------------------------------------------
LEMMA LifecycleInitially == LifecycleInit => LifecycleInv
<1> SUFFICES ASSUME LifecycleInit PROVE LifecycleInv
  OBVIOUS
<1>1. StageInv /\ OutputsKept
  BY StageInvInit, OutputsInit DEF LifecycleInit
<1>2. JobsTyped /\ CommandsTyped /\ FlowsTyped /\ CallbacksTyped /\ CreatedTyped
  BY DEF LifecycleInit, JobsTyped, CommandsTyped, FlowsTyped, CallbacksTyped, CreatedTyped
<1>3. TasksDelivered /\ TasksBehindUpstream /\ RowsBehindUpstream
  BY IdleIsNoPhase DEF LifecycleInit, StageInit, TasksDelivered, TasksBehindUpstream,
     RowsBehindUpstream
<1>4. QED
  BY <1>1, <1>2, <1>3 DEF LifecycleInv

LEMMA LifecycleStep == LifecycleInv /\ [LifecycleNext]_lifecycleVars => LifecycleInv'
<1> SUFFICES ASSUME LifecycleInv, [LifecycleNext]_lifecycleVars PROVE LifecycleInv'
  OBVIOUS
<1>1. StageInv' /\ OutputsKept'
  BY ExecutorStep, StageInvNext, OutputsStep DEF LifecycleInv
<1>2. QED
  BY <1>1, CommandsStep, DeliveryStep, UpstreamStep DEF LifecycleInv

LEMMA LifecycleInvAlways == LifecycleSpec => []LifecycleInv
BY LifecycleInitially, LifecycleStep, PTL DEF LifecycleSpec

(* The scheduler implements the executor: whatever the API's commands and   *)
(* Hatchet's deliveries do, the calls of run() they cause, and only those,  *)
(* move the stage_run rows and the ledger, by the executor's own steps.     *)
THEOREM SchedulerImplementsExecutor == LifecycleSpec => StageSpec
<1>1. LifecycleInit => StageInit
  BY DEF LifecycleInit
<1>2. LifecycleInv /\ [LifecycleNext]_lifecycleVars => [StageNext]_stageVars
  BY ExecutorStep
<1>3. QED
  BY <1>1, <1>2, LifecycleInvAlways, PTL DEF LifecycleSpec, StageSpec

(* The scheduler is well formed: its state is well typed, no stage run      *)
(* exists before each of its upstream stages committed a completion, and a  *)
(* complete status folded from stage rows stands for committed completions  *)
(* of every expected stage under the job's causation.                       *)
THEOREM SchedulingIsSafe == LifecycleSpec => []LifecycleSafe
<1>1. LifecycleInv => LifecycleTypeOK
  <2> SUFFICES ASSUME LifecycleInv PROVE LifecycleTypeOK
    OBVIOUS
  <2> USE DEF LifecycleInv
  <2>1. \A i \in DOMAIN flows :
          flows[i].node \in [Stages -> {"waiting", "running", "done", "error"}]
    <3>1. \A i \in DOMAIN flows : flows[i] \in FlowRow
      BY DEF FlowsTyped
    <3>2. QED
      BY <3>1 DEF FlowRow
  <2>2. \A c \in Clients : command[c] # NoCommand => command[c].job \in Jobs
    BY DEF CommandsTyped, Sound, Command
  <2>3. \A n \in DOMAIN created : created[n] \in RunKeys
    BY DEF CreatedTyped
  <2>4. QED
    BY <2>1, <2>2, <2>3 DEF LifecycleTypeOK, StageInv, JobsTyped, TasksDelivered
<1>2. LifecycleInv => UpstreamCommittedFirst
  BY DEF LifecycleInv, RowsBehindUpstream, Committed, UpstreamCommittedFirst
<1>3. LifecycleInv => FoldedCompleteIsHonest
  BY FoldedHonest DEF LifecycleInv
<1>4. LifecycleInv => LifecycleSafe
  BY <1>1, <1>2, <1>3 DEF LifecycleSafe
<1>5. QED
  BY <1>4, LifecycleInvAlways, PTL

(* What the executor promises holds under the scheduler: one canonical      *)
(* completion per run key, rows that say complete only over committed       *)
(* events, and observations of committed runs of other jobs.                *)
THEOREM ScheduledRunsKeepTheirPromises ==
  LifecycleSpec => [](CompletionHasEvidence /\ OneCompletion
                      /\ ObservationsAttributeCommittedWork)
BY SchedulerImplementsExecutor, CompletionEvidence, EffectiveOnce, ObservationsHonest, PTL
=============================================================================
