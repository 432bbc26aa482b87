--------------------------- MODULE LedgerAuthority --------------------------
(***************************************************************************)
(* SemanticLedger seen as Tier0Authority: the committed events in seq      *)
(* order are the abstract log, the stored Tier-0 rows and the locks their  *)
(* markers say are the abstract state.  The promise is one of appends that *)
(* run one at a time, so a behaviour says in `serial` whether it is one of *)
(* those; one that is not maps to an abstract ledger that stays empty.     *)
(***************************************************************************)
EXTENDS SemanticLedger

VARIABLE serial

ModesInit == Init /\ serial \in BOOLEAN

ModesNext == Next /\ UNCHANGED serial

ModesSpec == ModesInit /\ [][ModesNext]_<<vars, serial>>

-----------------------------------------------------------------------------
\* The log of a set of rows up to each seq.
LogStates(rows) ==
  LET upTo[n \in 0..MaxSeq] ==
        IF n = 0 THEN <<>>
        ELSE IF \E r \in rows : r.seq = n
             THEN Append(upTo[n - 1], [seq |-> n, ev |-> RowAt(rows, n).ev])
             ELSE upTo[n - 1]
  IN upTo

LedgerInOrder == LogStates(ledger)[MaxSeq]

StoredState ==
  [rows  |-> tier0,
   locks |-> [ent \in Entities |-> MarkedLocked(tier0, ent)]]

LogInOrder == IF serial THEN LedgerInOrder ELSE <<>>

StateInOrder == IF serial THEN StoredState ELSE EmptyState

Authority == INSTANCE Tier0Authority WITH
  Batches <- UNION {{r.batch : r \in Requests[w]} : w \in Writers},
  log     <- LogInOrder,
  state   <- StateInOrder

(* One append in flight at a time implements the promise: every commit is   *)
(* one atomic batch at the end of the log, and Tier-0 moves with it.        *)
ImplementsAuthority == Authority!Spec
=============================================================================
