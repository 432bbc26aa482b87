---------------------------- MODULE JobLifecycle ----------------------------
(***************************************************************************)
(* Jobs over the stage DAG: the API's command facade (application/jobs.py, *)
(* jobs/runner.py), the job table (storage/postgres/job_repository.py) and *)
(* the worker callbacks (jobs/hatchet.py) that Hatchet delivers along the  *)
(* DAG, composed with the executor of StageExecution.                      *)
(*                                                                         *)
(* All jobs decompose one source under one DAG universe, so they share     *)
(* lineage and keys.  A run key is the stage, the rerun causation and the  *)
(* upstream evidence (jobs/manifest.py).  The reads a command opens with   *)
(* are one action, and so is every later read and every UPDATE: callbacks  *)
(* and other commands interleave between them.                             *)
(***************************************************************************)
EXTENDS StageExecution, Sequences, FiniteSets

CONSTANTS
  Stages, Root,   \* STAGE_ORDER and its first stage
  Upstream,       \* Upstream[s]: STAGE_DEPENDENCIES
  Causes,         \* fresh rerun causations
  Clients,        \* concurrent API requests
  MaxCommands,    \* bound: commands the clients issue
  MaxFlows,       \* bound: workflow runs submitted
  MaxDeaths       \* bound: workers that die

ASSUME LifecycleConstants ==
  /\ Root \in Stages
  /\ Upstream \in [Stages -> SUBSET Stages]
  /\ None \notin Causes
  /\ RunKeys = [stage: Stages, cause: Causes \cup {None}, evidence: SUBSET Outputs]
  /\ MaxCommands \in Nat /\ MaxFlows \in Nat /\ MaxDeaths \in Nat

VARIABLES
  job,       \* job[j]: the row of the job table
  created,   \* the run keys in the order their stage_run rows were created
  flows,     \* the submitted Hatchet workflow runs
  callback,  \* callback[w]: the delivery worker w handles
  command,   \* command[c]: the API command client c executes
  issued,    \* commands issued so far
  deaths     \* workers that died so far

schedVars == <<flows, callback, deaths>>
apiVars == <<command, issued>>
lifecycleVars == <<stageVars, job, created, schedVars, apiVars>>

JobRow == [status: {"pending", "running", "complete", "failed", "cancelled"},
           expected: SUBSET Stages, cause: Causes \cup {None},
           cancelled: SUBSET Stages]

NoJob == [status |-> "none"]

NoCommand == [op |-> "none"]

Idle == [phase |-> "idle"]

(* InvalidationPlanner.plan: the transitive dependents of a stage, which is *)
(* what every set of stages closed under dependence that holds s contains.  *)
Closed(S) == \A t \in Stages : Upstream[t] \cap S # {} => t \in S

Descendants(s) ==
  {t \in Stages \ {s} : \A S \in SUBSET Stages : s \in S /\ Closed(S) => t \in S}

LifecycleInit ==
  /\ StageInit
  /\ job = [j \in Jobs |-> NoJob]
  /\ created = <<>>
  /\ flows = <<>>
  /\ callback = [w \in Workers |-> Idle]
  /\ command = [c \in Clients |-> NoCommand]
  /\ issued = 0
  /\ deaths = 0

-----------------------------------------------------------------------------
(* What the job table and stage_run say of a job. *)

(* stage_states: the rows the job owns, of the expected stages only those   *)
(* of the causation it executes.                                            *)
RowsOf(j) ==
  {k \in RunKeys :
     /\ runs[k] # NoRun /\ runs[k].owner = j
     /\ job[j].cause = None \/ k.stage \notin job[j].expected \/ k.cause = job[j].cause}

(* _STATUS_RANK: the status that stands for several rows of one stage.      *)
Rank == [complete |-> 5, quarantined |-> 4, claimed |-> 3, failed |-> 0]

StageStates(j) ==
  LET rows == RowsOf(j) IN
  [s \in {k.stage : k \in rows} |->
     LET found == {runs[k].status : k \in {r \in rows : r.stage = s}}
     IN  CHOOSE st \in found : \A other \in found : Rank[other] <= Rank[st]]

DeriveStatus(rec, states) ==
  LET statuses == {states[s] : s \in rec.expected \cap DOMAIN states} IN
  IF rec.status \in {"cancelled", "failed"} \/ DOMAIN states = {} \/ rec.expected = {}
  THEN rec.status
  ELSE IF ~(rec.expected \subseteq DOMAIN states) THEN "running"
  ELSE IF statuses \cap {"quarantined", "failed"} # {} THEN "failed"
  ELSE IF statuses = {"complete"} THEN "complete"
  ELSE "running"

Status(j) == DeriveStatus(job[j], StageStates(j))

-----------------------------------------------------------------------------
(* The API's commands. *)

At(c, phase) == command[c].op # "none" /\ command[c].phase = phase

SetCommand(c, r) == command' = [command EXCEPT ![c] = r] /\ UNCHANGED issued

Step(c, from, to) ==
  /\ At(c, from)
  /\ SetCommand(c, [command[c] EXCEPT !.phase = to])

End(c) == SetCommand(c, NoCommand)

SetJob(c, row) == job' = [job EXCEPT ![command[c].job] = row]

JobOf(c) == job[command[c].job]

NewCommand(op, j, phase) ==
  [op |-> op, job |-> j, phase |-> phase, selected |-> Stages, cause |-> None,
   cancelled |-> {}, seen |-> NoJob, result |-> "none"]

Issue(c) ==
  /\ command[c] = NoCommand
  /\ issued < MaxCommands
  /\ issued' = issued + 1

Begin(c, r) == Issue(c) /\ command' = [command EXCEPT ![c] = r]

(* submit: INSERT ... ON CONFLICT DO NOTHING, then read the row back. *)
BeginSubmit(c) ==
  /\ \E j \in Jobs :
       /\ Begin(c, NewCommand("submit", j, "get"))
       /\ job' = IF job[j] # NoJob THEN job
                 ELSE [job EXCEPT ![j] = [status |-> "pending", expected |-> Stages,
                                          cause |-> None, cancelled |-> {}]]
  /\ UNCHANGED <<stageVars, created, schedVars>>

Get(c) ==
  /\ At(c, "get")
  /\ IF JobOf(c).status = "pending" THEN Step(c, "get", "start") ELSE End(c)
  /\ UNCHANGED <<stageVars, job, created, schedVars>>

(* submit and retry: UPDATE status = running. *)
Start(c) ==
  /\ Step(c, "start", IF command[c].op = "submit" THEN "plan" ELSE "clear")
  /\ SetJob(c, [JobOf(c) EXCEPT !.status = "running"])
  /\ UNCHANGED <<stageVars, created, schedVars>>

(* set_execution *)
Plan(c) ==
  /\ Step(c, "plan", "schedule")
  /\ SetJob(c, [JobOf(c) EXCEPT !.expected = command[c].selected,
                                !.cause = command[c].cause])
  /\ UNCHANGED <<stageVars, created, schedVars>>

Workflow(c) ==
  [job |-> command[c].job, cause |-> command[c].cause,
   selected |-> command[c].selected, node |-> [s \in Stages |-> "waiting"]]

(* run_graph submits one workflow run of the whole DAG. *)
Schedule(c) ==
  /\ At(c, "schedule")
  /\ Len(flows) < MaxFlows
  /\ flows' = Append(flows, Workflow(c))
  /\ IF command[c].op = "rerun_source" THEN End(c) ELSE Step(c, "schedule", "refresh")
  /\ UNCHANGED <<stageVars, job, created, callback, deaths>>

(* The scheduler refuses: a submission is marked failed, others raise. *)
ScheduleFails(c) ==
  /\ At(c, "schedule")
  /\ IF command[c].op = "submit" THEN Step(c, "schedule", "fail") ELSE End(c)
  /\ UNCHANGED <<stageVars, job, created, schedVars>>

FailSubmission(c) ==
  /\ At(c, "fail")
  /\ SetJob(c, [JobOf(c) EXCEPT !.status = "failed"])
  /\ End(c)
  /\ UNCHANGED <<stageVars, created, schedVars>>

(* _refresh_status: read the job, read its stages, write what they say. *)
ReadJob(c) ==
  /\ At(c, "refresh")
  /\ SetCommand(c, [command[c] EXCEPT !.phase = "derive", !.seen = JobOf(c)])
  /\ UNCHANGED <<stageVars, job, created, schedVars>>

Derive(c) ==
  /\ At(c, "derive")
  /\ SetCommand(c, [command[c] EXCEPT !.phase = "write",
       !.result = DeriveStatus(command[c].seen, StageStates(command[c].job))])
  /\ UNCHANGED <<stageVars, job, created, schedVars>>

Write(c) ==
  /\ At(c, "write")
  /\ SetJob(c, [JobOf(c) EXCEPT !.status = command[c].result])
  /\ End(c)
  /\ UNCHANGED <<stageVars, created, schedVars>>

(* cancel of a whole job *)
Cancel(c) ==
  /\ Issue(c)
  /\ \E j \in Jobs : job[j] # NoJob /\ job' = [job EXCEPT ![j].status = "cancelled"]
  /\ UNCHANGED <<stageVars, created, schedVars, command>>

(* cancel of a stage and its dependents: read the set, write its union. *)
BeginCancelStage(c) ==
  /\ \E j \in Jobs, s \in Stages :
       /\ job[j] # NoJob
       /\ Begin(c, [NewCommand("cancel", j, "mark") EXCEPT
                      !.cancelled = job[j].cancelled \cup {s} \cup Descendants(s)])
  /\ UNCHANGED <<stageVars, job, created, schedVars>>

MarkCancelled(c) ==
  /\ At(c, "mark")
  /\ SetJob(c, [JobOf(c) EXCEPT !.cancelled = command[c].cancelled])
  /\ End(c)
  /\ UNCHANGED <<stageVars, created, schedVars>>

Incomplete(j) ==
  {s \in Stages : s \in DOMAIN StageStates(j) => StageStates(j)[s] # "complete"}

(* retry of a whole job or of a stage with its dependents *)
BeginRetry(c) ==
  /\ \E j \in Jobs :
       /\ job[j] # NoJob
       /\ \/ Begin(c, [NewCommand("retry", j, "start") EXCEPT !.selected = Incomplete(j)])
          \/ \E s \in Stages :
               LET closure == {s} \cup Descendants(s)
                   left == closure \cap Incomplete(j) IN
               Begin(c, [NewCommand("retry", j, "start") EXCEPT
                           !.selected = IF left = {} THEN closure ELSE left,
                           !.cancelled = job[j].cancelled \ closure])
  /\ UNCHANGED <<stageVars, job, created, schedVars>>

Clear(c) ==
  /\ Step(c, "clear", IF command[c].selected = {} THEN "refresh" ELSE "schedule")
  /\ SetJob(c, [JobOf(c) EXCEPT !.cancelled = command[c].cancelled])
  /\ UNCHANGED <<stageVars, created, schedVars>>

UsedCauses ==
  {flows[i].cause : i \in DOMAIN flows}
  \cup {command[c].cause : c \in {d \in Clients : command[d] # NoCommand}}

(* rerun_source and rerun_stage: the dependents under a fresh causation. *)
BeginRerun(c) ==
  /\ \E j \in Jobs, cause \in Causes \ UsedCauses, s \in Stages,
        op \in {"rerun_source", "rerun_stage"} :
       /\ job[j] # NoJob
       /\ op = "rerun_source" => s = Root
       /\ Begin(c, [NewCommand(op, j, IF Descendants(s) = {} THEN "refresh" ELSE "plan")
                      EXCEPT !.selected = Descendants(s), !.cause = cause])
  /\ UNCHANGED <<stageVars, job, created, schedVars>>

-----------------------------------------------------------------------------
(* The worker callbacks, delivered by Hatchet when a task's parents are done. *)

Node(i, s) == flows[i].node[s]

Deliverable(i, s) ==
  Node(i, s) = "waiting" /\ \A u \in Upstream[s] : Node(i, u) = "done"

SetNode(i, s, state) == flows' = [flows EXCEPT ![i].node[s] = state]

Deliver(w) ==
  /\ callback[w] = Idle
  /\ \E i \in DOMAIN flows, s \in Stages :
       /\ Deliverable(i, s)
       /\ SetNode(i, s, "running")
       /\ callback' = [callback EXCEPT ![w] = [phase |-> "gate", flow |-> i, stage |-> s]]
  /\ UNCHANGED <<stageVars, job, created, deaths, apiVars>>

FlowOf(w) == flows[callback[w].flow]

(* The callback ends; Hatchet records its acknowledgement or its exception. *)
Ack(w, state) ==
  /\ SetNode(callback[w].flow, callback[w].stage, state)
  /\ callback' = [callback EXCEPT ![w] = Idle]

(* A cancelled job or stage is acknowledged without work. *)
Gate(w) ==
  LET row == job[FlowOf(w).job] IN
  /\ callback[w].phase = "gate"
  /\ \/ /\ row.status = "cancelled" \/ callback[w].stage \in row.cancelled
        /\ Ack(w, "done")
     \/ /\ row.status # "cancelled" /\ callback[w].stage \notin row.cancelled
        /\ callback' = [callback EXCEPT ![w].phase = "evidence"]
        /\ UNCHANGED flows
  /\ UNCHANGED <<stageVars, job, created, deaths, apiVars>>

(* canonical_evidence_refs: of each upstream stage the newest complete row. *)
CompleteRows(s) ==
  {n \in DOMAIN created : created[n].stage = s /\ runs[created[n]].status = "complete"}

Newest(s) == CHOOSE n \in CompleteRows(s) : \A m \in CompleteRows(s) : m <= n

Evidence(s) == {runs[created[Newest(u)]].output : u \in Upstream[s]}

KeyOf(w, evidence) ==
  [stage |-> callback[w].stage, evidence |-> evidence,
   cause |-> IF callback[w].stage \in FlowOf(w).selected THEN FlowOf(w).cause ELSE None]

(* Mutant: the work starts before its key is claimed. *)
StartRunUnclaimed(w, evidence) ==
  /\ task' = [task EXCEPT ![w] =
       [phase |-> "work", key |-> KeyOf(w, evidence), job |-> FlowOf(w).job,
        attempt |-> 1, output |-> None]]
  /\ callback' = [callback EXCEPT ![w].phase = "run"]
  /\ UNCHANGED <<flows, runs, completions>>

StartRun(w, evidence) ==
  /\ Submit(w, KeyOf(w, evidence), FlowOf(w).job)
  /\ callback' = [callback EXCEPT ![w].phase = "run"]
  /\ UNCHANGED flows

(* Mutant: missing evidence degrades to none. *)
ResolveOpen(w) ==
  LET s == callback[w].stage
      missing == \E u \in Upstream[s] : CompleteRows(u) = {} IN
  /\ callback[w].phase = "evidence"
  /\ StartRun(w, IF missing THEN {} ELSE Evidence(s))
  /\ UNCHANGED <<job, created, deaths, apiVars>>

(* Missing evidence raises, so the task fails. *)
Resolve(w) ==
  LET s == callback[w].stage IN
  /\ callback[w].phase = "evidence"
  /\ \/ /\ \E u \in Upstream[s] : CompleteRows(u) = {}
        /\ Ack(w, "error")
        /\ UNCHANGED stageVars
     \/ /\ \A u \in Upstream[s] : CompleteRows(u) # {}
        /\ StartRun(w, Evidence(s))
  /\ UNCHANGED <<job, created, deaths, apiVars>>

(* A step of the executor; its claim may create the row. *)
Run(w) ==
  /\ callback[w].phase = "run"
  /\ Execute(w)
  /\ created' = IF runs[Key(w)] = NoRun THEN Append(created, Key(w)) ELSE created
  /\ UNCHANGED <<job, schedVars, apiVars>>

(* A record is acknowledged, failed ones too; an exception fails the task. *)
Finish(w) ==
  /\ callback[w].phase = "run"
  /\ Return(w)
  /\ Ack(w, IF task[w].phase = "done" THEN "done" ELSE "error")
  /\ UNCHANGED <<job, created, deaths, apiVars>>

(* The worker dies; Hatchet delivers the task to another. *)
WorkerDies(w) ==
  /\ callback[w] # Idle
  /\ deaths < MaxDeaths
  /\ deaths' = deaths + 1
  /\ IF task[w] = NoTask THEN UNCHANGED stageVars ELSE Die(w)
  /\ Ack(w, "waiting")
  /\ UNCHANGED <<job, created, apiVars>>

-----------------------------------------------------------------------------
CommandStep(c) ==
  \/ BeginSubmit(c) \/ Get(c) \/ Start(c) \/ Plan(c) \/ Schedule(c)
  \/ ScheduleFails(c) \/ FailSubmission(c) \/ ReadJob(c) \/ Derive(c)
  \/ Write(c) \/ Cancel(c) \/ BeginCancelStage(c) \/ MarkCancelled(c)
  \/ BeginRetry(c) \/ Clear(c) \/ BeginRerun(c)

CallbackStep(w) == Gate(w) \/ Resolve(w) \/ Run(w) \/ Finish(w)

LifecycleNext ==
  \/ \E c \in Clients : CommandStep(c)
  \/ \E w \in Workers : Deliver(w) \/ CallbackStep(w) \/ WorkerDies(w)

LifecycleSpec == LifecycleInit /\ [][LifecycleNext]_lifecycleVars

-----------------------------------------------------------------------------
LifecycleTypeOK ==
  /\ StageTypeOK
  /\ job \in [Jobs -> JobRow \cup {NoJob}]
  /\ \A n \in DOMAIN created : created[n] \in RunKeys
  /\ \A i \in DOMAIN flows : flows[i].node \in
       [Stages -> {"waiting", "running", "done", "error"}]
  /\ \A w \in Workers : callback[w].phase = "run" <=> task[w] # NoTask
  /\ \A c \in Clients : command[c] # NoCommand => command[c].job \in Jobs

(* No stage run exists before each of its upstream stages has committed a   *)
(* completion, whatever was cancelled, retried, rerun or redelivered.       *)
UpstreamCommittedFirst ==
  \A k \in RunKeys : runs[k] # NoRun =>
    \A u \in Upstream[k.stage] : \E e \in completions :
      e.key.stage = u /\ ~e.replayed

(* Every stage the job expects has a committed completion, under the        *)
(* causation the job executes.                                              *)
ExpectedCommitted(j) ==
  \A s \in job[j].expected : \E e \in completions :
    /\ e.key.stage = s /\ ~e.replayed
    /\ job[j].cause # None => e.key.cause = job[j].cause

(* "A job never reports completion without real durable stage output", as   *)
(* far as the stage rows say it: a complete status that _derive_status      *)
(* folds from rows stands for committed completions.                        *)
FoldedCompleteIsHonest ==
  \A j \in Jobs :
    job[j] # NoJob /\ DOMAIN StageStates(j) # {} /\ Status(j) = "complete"
    => ExpectedCommitted(j)

(* The same of every complete status, the stored one included that          *)
(* _derive_status returns when it finds no row.                             *)
CompleteIsHonest ==
  \A j \in Jobs :
    job[j] # NoJob /\ Status(j) = "complete" => ExpectedCommitted(j)

(* The scheduler is well formed: no stage starts before its upstream       *)
(* committed and no rows read complete over stages that did not run.       *)
LifecycleSafe ==
  /\ LifecycleTypeOK
  /\ UpstreamCommittedFirst
  /\ FoldedCompleteIsHonest

Settled(i) ==
  \A s \in Stages : Node(i, s) # "running" /\ ~Deliverable(i, s)

(* A stage that failed fails its job: when nothing of the job is executing  *)
(* any more and one of the stages it expects failed, its status says so.    *)
FailureReported ==
  \A j \in Jobs :
    /\ job[j] # NoJob /\ job[j].status # "cancelled"
    /\ \A i \in DOMAIN flows : flows[i].job = j => Settled(i)
    /\ \A c \in Clients : command[c] = NoCommand
    /\ \E s \in job[j].expected \cap DOMAIN StageStates(j) :
         StageStates(j)[s] \in {"failed", "quarantined"}
    => Status(j) = "failed"
=============================================================================
