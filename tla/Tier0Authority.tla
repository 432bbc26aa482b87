--------------------------- MODULE Tier0Authority ---------------------------
(***************************************************************************)
(* What the ledger promises its readers (the module docs of ledger.py and  *)
(* reducer.py): appends take effect one at a time in seq order, each is    *)
(* all-or-nothing, and current_state is always the reducer's fold of the   *)
(* whole ledger.                                                           *)
(***************************************************************************)
EXTENDS Tier0Reducer, Sequences

CONSTANTS
  Batches,   \* the event batches callers append
  MaxSeq     \* bound on the seqs

VARIABLES
  log,       \* the committed events in seq order
  state      \* the reduced state readers see

Init == log = <<>> /\ state = EmptyState

LastSeq == IF log = <<>> THEN 0 ELSE log[Len(log)].seq

(* state after the first i events of a batch whose first seq is n *)
FoldBatch(batch, n) ==
  LET fold[i \in 0..Len(batch)] ==
        IF i = 0 THEN state ELSE Reduce(fold[i - 1], batch[i], n + i - 1)
  IN fold[Len(batch)]

AppendAt(batch, n) ==
  /\ log' = log \o [i \in 1..Len(batch) |-> [seq |-> n + i - 1, ev |-> batch[i]]]
  /\ state' = [rows  |-> Persisted(FoldBatch(batch, n).rows),
               locks |-> FoldBatch(batch, n).locks]

Next == \E batch \in Batches : \E n \in (LastSeq + 1)..MaxSeq : AppendAt(batch, n)

Spec == Init /\ [][Next]_<<log, state>>
=============================================================================
