--------------------------- MODULE MCLedgerModes ----------------------------
(* The ledger with its appends in flight together, on disjoint entities, or *)
(* one at a time, of every event type but Unlocked: Init chooses which.     *)
EXTENDS MCSemanticLedger, LedgerAuthority

Workload(w) ==
  IF ~serial THEN DisjointRequests[w]
  ELSE IF w \in DOMAIN SerialRequests THEN SerialRequests[w] ELSE {}

AllRequests ==
  [w \in Writers |->
     DisjointRequests[w]
     \cup (IF w \in DOMAIN SerialRequests THEN SerialRequests[w] ELSE {})]

WorkloadNext ==
  /\ ModesNext
  /\ \A w \in Writers : req'[w] \in {req[w], NoRequest} \cup Workload(w)

WorkloadSpec == ModesInit /\ [][WorkloadNext]_<<vars, serial>>
=============================================================================
