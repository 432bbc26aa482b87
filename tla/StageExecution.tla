--------------------------- MODULE StageExecution ---------------------------
(***************************************************************************)
(* The durable stage executor (jobs/stage_execution.py) over the stage_run *)
(* table (storage/postgres/stage_repository.py): claim the run key, do the *)
(* work with bounded retries, then commit the row and the StageCompleted   *)
(* event in one ledger transaction.  Several workers may run one key at    *)
(* once: the scheduler redelivers, users retry, other jobs share the key.  *)
(* Every transaction of the executor is one action.                        *)
(*                                                                         *)
(* The ledger is the set of StageCompleted events; that an idempotency key *)
(* commits once is what SemanticLedger establishes (OneCommitPerKey).      *)
(***************************************************************************)
EXTENDS Naturals

CONSTANTS
  Workers,      \* worker processes, one stage at a time each
  Jobs,         \* job ids
  RunKeys,      \* idempotency keys of stage runs
  Outputs,      \* the artifact refs an execution of the work may produce
  MaxAttempts,  \* RetryPolicy.max_attempts
  None          \* no output

ASSUME StageConstants == MaxAttempts \in Nat \ {0} /\ None \notin Outputs

VARIABLES
  runs,         \* runs[k]: the stage_run row of key k
  completions,  \* committed StageCompleted events
  task          \* task[w]: the executor's run() call in worker w

stageVars == <<runs, completions, task>>

NoRun == [status |-> "none"]

RunRow == [status: {"claimed", "complete", "failed", "quarantined"},
           owner: Jobs, output: Outputs \cup {None}]

StageEvent == [key: RunKeys, job: Jobs, output: Outputs \cup {None},
               replayed: BOOLEAN]

NoTask == [phase |-> "idle"]

Running == {"claim", "check", "read", "observe", "work", "complete", "quarantine",
            "fail"}

Task == [phase: Running \cup {"done", "raised"}, key: RunKeys, job: Jobs,
         attempt: 1..MaxAttempts, output: Outputs \cup {None}]

StageTypeOK ==
  /\ runs \in [RunKeys -> RunRow \cup {NoRun}]
  /\ completions \subseteq StageEvent
  /\ task \in [Workers -> Task \cup {NoTask}]

StageInit ==
  /\ runs = [k \in RunKeys |-> NoRun]
  /\ completions = {}
  /\ task = [w \in Workers |-> NoTask]

-----------------------------------------------------------------------------
Key(w) == task[w].key

Goto(w, phase) == task' = [task EXCEPT ![w].phase = phase]

(* run(manifest, work) is called. *)
Submit(w, k, j) ==
  /\ task[w] = NoTask
  /\ task' = [task EXCEPT ![w] = [phase |-> "claim", key |-> k, job |-> j,
                                  attempt |-> 1, output |-> None]]
  /\ UNCHANGED <<runs, completions>>

(* INSERT ... ON CONFLICT DO NOTHING: one caller inserts the row. *)
Claim(w) ==
  /\ task[w].phase = "claim"
  /\ \/ /\ runs[Key(w)] = NoRun
        /\ runs' = [runs EXCEPT ![Key(w)] =
                      [status |-> "claimed", owner |-> task[w].job, output |-> None]]
        /\ Goto(w, "work")
     \/ /\ runs[Key(w)] # NoRun
        /\ Goto(w, "check")
        /\ UNCHANGED runs
  /\ UNCHANGED completions

(* Mutant: a failed row is replayed as if it had completed. *)
CheckFailedReplays(w) ==
  LET status == runs[Key(w)].status IN
  /\ task[w].phase = "check"
  /\ \/ status \in {"complete", "failed"} /\ Goto(w, "read")
     \/ status = "quarantined" /\ Goto(w, "done")
     \/ status = "claimed" /\ Goto(w, "work")
  /\ UNCHANGED <<runs, completions>>

(* A duplicate reads the committed status: complete is replayed, a         *)
(* quarantined run is left alone, claimed and failed runs are resumed.     *)
Check(w) ==
  LET status == runs[Key(w)].status IN
  /\ task[w].phase = "check"
  /\ \/ status = "complete" /\ Goto(w, "read")
     \/ status = "quarantined" /\ Goto(w, "done")
     \/ status \in {"claimed", "failed"} /\ Goto(w, "work")
  /\ UNCHANGED <<runs, completions>>

(* _replayed_complete reads the committed refs; a run that another job owns *)
(* is observed in the ledger.                                               *)
ReadCommitted(w) ==
  /\ task[w].phase = "read"
  /\ task' = [task EXCEPT ![w].output = runs[Key(w)].output,
       ![w].phase = IF runs[Key(w)].owner = task[w].job THEN "done" ELSE "observe"]
  /\ UNCHANGED <<runs, completions>>

Canonical(k) == {e \in completions : e.key = k /\ ~e.replayed}

Observation(k, j) == {e \in completions : e.key = k /\ e.job = j /\ e.replayed}

Event(w, replayed) ==
  [key |-> Key(w), job |-> task[w].job, output |-> task[w].output,
   replayed |-> replayed]

Observe(w) ==
  /\ task[w].phase = "observe"
  /\ completions' = IF Observation(Key(w), task[w].job) # {} THEN completions
                    ELSE completions \cup {Event(w, TRUE)}
  /\ Goto(w, "done")
  /\ UNCHANGED runs

(* One execution of the stage's work. *)
Work(w) ==
  /\ task[w].phase = "work"
  /\ \/ \E output \in Outputs :
          task' = [task EXCEPT ![w].phase = "complete", ![w].output = output]
     \/ Goto(w, "quarantine")
     \/ /\ task[w].attempt < MaxAttempts
        /\ task' = [task EXCEPT ![w].attempt = @ + 1]
     \/ task[w].attempt = MaxAttempts /\ Goto(w, "fail")
  /\ UNCHANGED <<runs, completions>>

(* Mutant: the row and the event are committed one after the other. *)
CompleteRowFirst(w) ==
  /\ task[w].phase = "complete"
  /\ IF runs[Key(w)].status # "complete"
     THEN /\ runs' = [runs EXCEPT ![Key(w)].status = "complete",
                                  ![Key(w)].output = task[w].output]
          /\ UNCHANGED <<completions, task>>
     ELSE /\ completions' = completions \cup {Event(w, FALSE)}
          /\ Goto(w, "done")
          /\ UNCHANGED runs

(* Mutant: the completion carries no idempotency key. *)
CompleteUnkeyed(w) ==
  /\ task[w].phase = "complete"
  /\ runs' = [runs EXCEPT ![Key(w)].status = "complete",
                          ![Key(w)].output = task[w].output]
  /\ completions' = completions \cup {Event(w, FALSE)}
  /\ Goto(w, "done")

(* complete_and_append: the row is updated whether or not the append was   *)
(* deduplicated; the event is the first completion's.                      *)
Complete(w) ==
  /\ task[w].phase = "complete"
  /\ runs' = [runs EXCEPT ![Key(w)].status = "complete",
                          ![Key(w)].output = task[w].output]
  /\ completions' = IF Canonical(Key(w)) # {} THEN completions
                    ELSE completions \cup {Event(w, FALSE)}
  /\ Goto(w, "done")

(* _mark_run updates the row whatever it says by now. *)
Quarantine(w) ==
  /\ task[w].phase = "quarantine"
  /\ runs' = [runs EXCEPT ![Key(w)].status = "quarantined"]
  /\ Goto(w, "raised")
  /\ UNCHANGED completions

Fail(w) ==
  /\ task[w].phase = "fail"
  /\ runs' = [runs EXCEPT ![Key(w)].status = "failed"]
  /\ Goto(w, "done")
  /\ UNCHANGED completions

(* run() has returned a record or raised. *)
Return(w) ==
  /\ task[w].phase \in {"done", "raised"}
  /\ task' = [task EXCEPT ![w] = NoTask]
  /\ UNCHANGED <<runs, completions>>

(* The worker dies between two transactions. *)
Die(w) ==
  /\ task[w] # NoTask
  /\ task' = [task EXCEPT ![w] = NoTask]
  /\ UNCHANGED <<runs, completions>>

Execute(w) ==
  \/ Claim(w) \/ Check(w) \/ ReadCommitted(w) \/ Observe(w) \/ Work(w)
  \/ Complete(w) \/ Quarantine(w) \/ Fail(w)

StageNext ==
  \E w \in Workers :
    \/ \E k \in RunKeys, j \in Jobs : Submit(w, k, j)
    \/ Execute(w) \/ Return(w) \/ Die(w)

StageSpec == StageInit /\ [][StageNext]_stageVars

-----------------------------------------------------------------------------
(* "A crash cannot commit a completion without its evidence": a row says    *)
(* complete only if the ledger holds the run's StageCompleted event.        *)
CompletionHasEvidence ==
  \A k \in RunKeys : runs[k].status = "complete" => Canonical(k) # {}

(* Effective-once completion: however many workers run a key, it has one    *)
(* canonical StageCompleted event and one observation per observing job.    *)
OneCompletion ==
  \A c1, c2 \in completions :
    /\ c1.key = c2.key /\ c1.replayed = c2.replayed
    /\ c1.replayed => c1.job = c2.job
    => c1 = c2

(* An observation attributes committed work: its run has a canonical        *)
(* completion, and the observing job does not own the run.                  *)
ObservationsAttributeCommittedWork ==
  \A e \in completions : e.replayed =>
    Canonical(e.key) # {} /\ runs[e.key].owner # e.job
=============================================================================
