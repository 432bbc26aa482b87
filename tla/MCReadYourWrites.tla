-------------------------- MODULE MCReadYourWrites --------------------------
(* Instances of ReadYourWrites for TLC.                                     *)
EXTENDS ReadYourWrites

CONSTANTS d1, r1, r2

Edges(wipe) == [proj |-> "semantic_edges", wipe |-> wipe, force |-> FALSE]
Search(wipe, force) == [proj |-> "search", wipe |-> wipe, force |-> force]

(* _run_projection_pass: both wiped, search forced through its pause.       *)
ProductionPlans == {<<Edges(TRUE), Search(TRUE, TRUE)>>}

(* OperationsController.rebuild: one projection, wiped, forced or not; and  *)
(* ReplayDriver.run(builder): only the events after the checkpoint.         *)
OperatorPlans ==
  {<<Edges(FALSE)>>, <<Search(TRUE, FALSE)>>}
  \cup {<<Search(FALSE, force)>> : force \in BOOLEAN}
=============================================================================
