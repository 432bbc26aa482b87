--------------------------- MODULE MCJobLifecycle ---------------------------
(* Instances of JobLifecycle for TLC: a chain of two stages.                *)
EXTENDS JobLifecycle, TLC

CONSTANTS w1, w2, j1, j2, c1, c2, ingest, analysis, o1, o2, cause1, cause2

ChainUpstream == [s \in Stages |-> IF s = Root THEN {} ELSE {ingest}]

ChainKeys == [stage: Stages, cause: Causes \cup {None}, evidence: SUBSET Outputs]

(* Workers, jobs and clients are interchangeable: no definition tells two   *)
(* of them apart.                                                           *)
Interchangeable == 
  Permutations(Workers) \cup Permutations(Jobs) \cup Permutations(Clients)

(* Submissions and stage reruns only, and every stage succeeds at once.     *)
RerunsNext ==
  /\ LifecycleNext
  /\ \A c \in Clients : command'[c].op \in {"none", "submit", "rerun_stage"}
  /\ \A j \in Jobs : job'[j].status \notin {"cancelled", "failed"}
  /\ \A w \in Workers : task'[w].phase \notin {"quarantine", "fail"}

RerunsSpec == LifecycleInit /\ [][RerunsNext]_lifecycleVars
=============================================================================
