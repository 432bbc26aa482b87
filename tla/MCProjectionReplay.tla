------------------------- MODULE MCProjectionReplay -------------------------
(* Instances of ProjectionReplay for TLC.                                   *)
EXTENDS ProjectionReplay

CONSTANTS d1, d2

(* _run_projection_pass: both wiped, search forced through its pause.       *)
ProductionPlans == 
  {<<[proj |-> "semantic_edges", wipe |-> TRUE, force |-> FALSE],
     [proj |-> "search", wipe |-> TRUE, force |-> TRUE]>>}

=============================================================================
