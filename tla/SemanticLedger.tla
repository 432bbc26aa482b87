--------------------------- MODULE SemanticLedger ---------------------------
(***************************************************************************)
(* The append-only semantic ledger (storage/postgres/ledger.py): the only  *)
(* writer of semantic events, of the inline Tier-0 rows and of the         *)
(* semantic_assertion mirror.  Several API threads and workers append at   *)
(* once, each in its own PostgreSQL transaction at the engine's default    *)
(* READ COMMITTED isolation, so every SELECT of the append is an action of *)
(* its own that sees what is committed at that moment:                     *)
(*                                                                         *)
(*   Begin -> CheckKey -> CheckVersion -> (AllocateSeq -> InsertEvent)+    *)
(*         -> LoadLocks -> LoadRows -> Fold+ -> Commit                     *)
(*                                                                         *)
(* The upserts of Tier-0 rows and mirror rows are one action with the      *)
(* COMMIT: nobody sees them before it, and two appends that write one row  *)
(* commit in the order in which they locked it.  The mirror's own SELECT   *)
(* of a fact comes after the append has upserted that fact's Tier-0 row,   *)
(* so appends of one fact are serialized there and what it reads still     *)
(* stands at the COMMIT.  Abort is a crash, a lost connection, a payload   *)
(* the schema rejects, or the victim PostgreSQL picks in a row-lock cycle. *)
(***************************************************************************)
EXTENDS Tier0Reducer, Sequences

CONSTANTS
  Writers,      \* threads and worker processes that append
  Keys,         \* idempotency keys
  Requests,     \* Requests[w]: the appends writer w may submit
  MaxSeq        \* bound: the sequence hands out at most MaxSeq numbers

Request == [batch: Seq(Event) \ {<<>>}, key: Keys \cup {None},
            exp: Nat \cup {None}]

ASSUME LedgerConstants ==
  /\ MaxSeq \in Nat
  /\ None \notin Keys \cup Nat
  /\ NoRow \notin [authority: Authorities, seq: Nat]
  /\ Requests \in [Writers -> SUBSET Request]

VARIABLES
  ledger,   \* committed semantic_event rows
  nextSeq,  \* the semantic_event sequence: not transactional, never reused
  tier0,    \* committed current_state rows
  mirror,   \* committed semantic_assertion rows, by fact
  acks,     \* history: the (key, seq) pairs returned to callers
  pc,       \* pc[w]: the next statement of w's transaction
  req,      \* req[w]: the append w is executing
  seqs,     \* seqs[w]: the seqs assigned to the batch so far
  local,    \* local[w]: the reduced state w loaded and folds into
  folded    \* folded[w]: how many events of the batch are folded

storage == <<ledger, nextSeq, tier0, mirror>>
session == <<pc, req, seqs, local, folded>>
vars == <<storage, acks, session>>

Facts == Entities \X Predicates \X (Values \cup {None})

Phases == {"idle", "key", "version", "alloc", "insert", "locks", "rows",
           "fold", "commit"}

LedgerRow == [seq: Nat, ev: Event, key: Keys \cup {None}]

NoRequest == [batch |-> <<>>, key |-> None, exp |-> None]

TypeOK ==
  /\ ledger \subseteq LedgerRow
  /\ nextSeq \in Nat
  /\ tier0 \in [RowKeys -> Row \cup {NoRow}]
  /\ mirror \in [Facts -> [authority: Authorities, seq: Nat] \cup {NoRow}]
  /\ acks \subseteq [key: Keys \cup {None}, seq: Nat]
  /\ pc \in [Writers -> Phases]
  /\ req \in [Writers -> Request \cup {NoRequest}]
  /\ seqs \in [Writers -> Seq(Nat)]
  /\ local \in [Writers -> [rows: [RowKeys -> Row \cup {NoRow}],
                            locks: [Entities -> BOOLEAN]]]
  /\ folded \in [Writers -> Nat]

Init ==
  /\ ledger = {}
  /\ nextSeq = 1
  /\ tier0 = EmptyState.rows
  /\ mirror = [f \in Facts |-> NoRow]
  /\ acks = {}
  /\ pc = [w \in Writers |-> "idle"]
  /\ req = [w \in Writers |-> NoRequest]
  /\ seqs = [w \in Writers |-> <<>>]
  /\ local = [w \in Writers |-> EmptyState]
  /\ folded = [w \in Writers |-> 0]

Goto(w, from, to) == pc[w] = from /\ pc' = [pc EXCEPT ![w] = to]

(* The transaction ends and the session forgets what it read. *)
EndTxn(w) ==
  /\ pc' = [pc EXCEPT ![w] = "idle"]
  /\ req' = [req EXCEPT ![w] = NoRequest]
  /\ seqs' = [seqs EXCEPT ![w] = <<>>]
  /\ local' = [local EXCEPT ![w] = EmptyState]
  /\ folded' = [folded EXCEPT ![w] = 0]

Ack(w, n) == acks' = acks \cup {[key |-> req[w].key, seq |-> n]}

(* The caller gets the commit that already holds its idempotency key. *)
ReturnExisting(w) ==
  \E r \in ledger : r.key = req[w].key /\ Ack(w, r.seq)

KeyCommitted(w) == req[w].key # None /\ \E r \in ledger : r.key = req[w].key

LedgerTail ==
  IF ledger = {} THEN 0
  ELSE CHOOSE n \in {r.seq : r \in ledger} : \A r \in ledger : r.seq <= n

-----------------------------------------------------------------------------
Begin(w) ==
  /\ Goto(w, "idle", "key")
  /\ \E r \in Requests[w] : req' = [req EXCEPT ![w] = r]
  /\ UNCHANGED <<storage, acks, seqs, local, folded>>

(* SELECT seq WHERE idempotency_key = key *)
CheckKey(w) ==
  /\ \/ /\ KeyCommitted(w)
        /\ pc[w] = "key"
        /\ ReturnExisting(w)
        /\ EndTxn(w)
     \/ /\ ~KeyCommitted(w)
        /\ Goto(w, "key", "version")
        /\ UNCHANGED <<acks, req, seqs, local, folded>>
  /\ UNCHANGED storage

(* SELECT max(seq): a mismatch raises LedgerConflictError. *)
CheckVersion(w) ==
  /\ \/ /\ req[w].exp \in {None, LedgerTail}
        /\ Goto(w, "version", "alloc")
        /\ UNCHANGED <<req, seqs, local, folded>>
     \/ /\ req[w].exp \notin {None, LedgerTail}
        /\ pc[w] = "version"
        /\ EndTxn(w)
  /\ UNCHANGED <<storage, acks>>

(* The INSERT draws its number before it looks for a key conflict. *)
AllocateSeq(w) ==
  /\ Goto(w, "alloc", "insert")
  /\ nextSeq <= MaxSeq
  /\ nextSeq' = nextSeq + 1
  /\ seqs' = [seqs EXCEPT ![w] = Append(@, nextSeq)]
  /\ UNCHANGED <<ledger, tier0, mirror, acks, req, local, folded>>

(* v's uncommitted first row makes others wait on its key. *)
HoldsKey(v) ==
  /\ req[v].key # None
  /\ \/ pc[v] \in {"locks", "rows", "fold", "commit"}
     \/ pc[v] = "alloc" /\ Len(seqs[v]) >= 1
     \/ pc[v] = "insert" /\ Len(seqs[v]) >= 2

(* Mutant: check-then-insert without the unique index. *)
KeyNeverHeld(w) == w \notin Writers

KeyHeldByOther(w) ==
  \E v \in Writers \ {w} : HoldsKey(v) /\ req[v].key = req[w].key

(* INSERT ... ON CONFLICT DO NOTHING RETURNING seq, the key on event 1 only. *)
InsertEvent(w) ==
  LET first == Len(seqs[w]) = 1
      last  == Len(seqs[w]) = Len(req[w].batch)
  IN
  /\ ~(first /\ req[w].key # None /\ KeyHeldByOther(w))
  /\ \/ /\ first /\ KeyCommitted(w)
        /\ pc[w] = "insert"
        /\ ReturnExisting(w)
        /\ EndTxn(w)
     \/ /\ ~(first /\ KeyCommitted(w))
        /\ Goto(w, "insert", IF last THEN "locks" ELSE "alloc")
        /\ UNCHANGED <<acks, req, seqs, local, folded>>
  /\ UNCHANGED storage

-----------------------------------------------------------------------------
(* _apply_tier0: load the lock markers, then the target rows, then fold. *)

SemanticEvents(w) == {i \in DOMAIN req[w].batch : IsSemantic(req[w].batch[i])}

RefsOf(w) == {req[w].batch[i].ent : i \in SemanticEvents(w)}

TargetsOf(w) ==
  {EventTarget(req[w].batch[i]) :
     i \in {j \in SemanticEvents(w) : HasTarget(req[w].batch[j])}}

MarkedLocked(rows, ent) ==
  rows[LockKey(ent)] # NoRow /\ rows[LockKey(ent)].state = "LOCKED"

(* Mutant: the marker rows are loaded but the lock map is left empty. *)
LoadLockRowsOnly(w) ==
  /\ Goto(w, "locks", "rows")
  /\ local' = [local EXCEPT ![w].rows =
       [k \in RowKeys |-> IF k \in {LockKey(ent) : ent \in RefsOf(w)}
                          THEN tier0[k] ELSE NoRow]]
  /\ UNCHANGED <<storage, acks, req, seqs, folded>>

LoadLocks(w) ==
  /\ Goto(w, "locks", "rows")
  /\ local' = [local EXCEPT ![w] =
       [rows  |-> [k \in RowKeys |->
                     IF k \in {LockKey(ent) : ent \in RefsOf(w)}
                     THEN tier0[k] ELSE NoRow],
        locks |-> [ent \in Entities |->
                     ent \in RefsOf(w) /\ MarkedLocked(tier0, ent)]]]
  /\ UNCHANGED <<storage, acks, req, seqs, folded>>

(* Mutant: the batch is folded onto empty rows. *)
LoadNoRows(w) ==
  /\ Goto(w, "rows", "fold")
  /\ UNCHANGED <<storage, acks, req, seqs, local, folded>>

LoadRows(w) ==
  /\ Goto(w, "rows", "fold")
  /\ local' = [local EXCEPT ![w].rows =
       [k \in RowKeys |-> IF k \in TargetsOf(w) THEN tier0[k] ELSE @[k]]]
  /\ UNCHANGED <<storage, acks, req, seqs, folded>>

(* Mutant: every event of the batch is folded at the batch's first seq. *)
FoldAtFirstSeq(w) ==
  LET i  == folded[w] + 1
      ev == req[w].batch[i]
  IN
  /\ Goto(w, "fold", IF i = Len(req[w].batch) THEN "commit" ELSE "fold")
  /\ folded' = [folded EXCEPT ![w] = i]
  /\ local' = IF IsSemantic(ev)
              THEN [local EXCEPT ![w] = Reduce(@, ev, seqs[w][1])]
              ELSE local
  /\ UNCHANGED <<storage, acks, req, seqs>>

Fold(w) ==
  LET i  == folded[w] + 1
      ev == req[w].batch[i]
  IN
  /\ Goto(w, "fold", IF i = Len(req[w].batch) THEN "commit" ELSE "fold")
  /\ folded' = [folded EXCEPT ![w] = i]
  /\ local' = IF IsSemantic(ev)
              THEN [local EXCEPT ![w] = Reduce(@, ev, seqs[w][i])]
              ELSE local
  /\ UNCHANGED <<storage, acks, req, seqs>>

-----------------------------------------------------------------------------
(* _persist_delta writes every loaded or folded row as it now stands; an   *)
(* UNLOCKED marker is skipped, so the stored row keeps what it had.        *)
PersistDelta(w) ==
  [k \in RowKeys |->
     IF local[w].rows[k] = NoRow \/ Droppable(k, local[w].rows[k])
     THEN tier0[k] ELSE local[w].rows[k]]

(* _materialize_assertions, after the upserts and in the same transaction. *)
(* A USER_OVERRIDE row is replaced only by a USER_OVERRIDE assertion; among *)
(* the batch's assertions of one fact the last admissible one remains.     *)
FactOf(ev) == <<ev.ent, ev.pred, ev.val>>

Asserting(w, f) ==
  {i \in DOMAIN req[w].batch :
     /\ req[w].batch[i].type = "SemanticAsserted"
     /\ req[w].batch[i].pred # None
     /\ FactOf(req[w].batch[i]) = f
     /\ ~MarkedLocked(PersistDelta(w), req[w].batch[i].ent)}

ByUser(w, f) == {i \in Asserting(w, f) : req[w].batch[i].auth = "USER_OVERRIDE"}

Admissible(w, f) ==
  IF \/ ByUser(w, f) # {}
     \/ mirror[f] # NoRow /\ mirror[f].authority = "USER_OVERRIDE"
  THEN ByUser(w, f) ELSE Asserting(w, f)

Materialize(w) ==
  [f \in Facts |->
     IF Admissible(w, f) = {} THEN mirror[f]
     ELSE LET i == CHOOSE i \in Admissible(w, f) :
                     \A j \in Admissible(w, f) : j <= i
          IN [authority |-> req[w].batch[i].auth, seq |-> seqs[w][i]]]

RowsOf(w) ==
  {[seq |-> seqs[w][i],
    ev  |-> req[w].batch[i],
    key |-> IF i = 1 THEN req[w].key ELSE None] : i \in DOMAIN req[w].batch}

(* Mutant: the token is the batch's last seq. *)
CommitAckingLast(w) ==
  /\ pc[w] = "commit"
  /\ ledger' = ledger \cup RowsOf(w)
  /\ tier0' = PersistDelta(w)
  /\ mirror' = Materialize(w)
  /\ Ack(w, seqs[w][Len(seqs[w])])
  /\ EndTxn(w)
  /\ UNCHANGED nextSeq

Commit(w) ==
  /\ pc[w] = "commit"
  /\ ledger' = ledger \cup RowsOf(w)
  /\ tier0' = PersistDelta(w)
  /\ mirror' = Materialize(w)
  /\ Ack(w, seqs[w][1])
  /\ EndTxn(w)
  /\ UNCHANGED nextSeq

(* Mutant: Tier-0 is written outside the append's transaction. *)
AbortKeepingTier0(w) ==
  /\ pc[w] # "idle"
  /\ tier0' = IF pc[w] = "commit" THEN PersistDelta(w) ELSE tier0
  /\ EndTxn(w)
  /\ UNCHANGED <<ledger, nextSeq, mirror, acks>>

Abort(w) ==
  /\ pc[w] # "idle"
  /\ EndTxn(w)
  /\ UNCHANGED <<storage, acks>>

-----------------------------------------------------------------------------
Step(w) ==
  \/ Begin(w) \/ CheckKey(w) \/ CheckVersion(w)
  \/ AllocateSeq(w) \/ InsertEvent(w)
  \/ LoadLocks(w) \/ LoadRows(w) \/ Fold(w)
  \/ Commit(w) \/ Abort(w)

Next == \E w \in Writers : Step(w)

Spec == Init /\ [][Next]_vars

-----------------------------------------------------------------------------
(* Replay: wipe-and-replay folds the committed events in seq order.        *)

RowAt(rows, n) == CHOOSE r \in rows : r.seq = n

\* The states that the fold of a set of rows goes through, seq by seq.
ReplayStates(rows) ==
  LET fold[n \in 0..MaxSeq] ==
        IF n = 0 THEN EmptyState
        ELSE IF \E r \in rows : r.seq = n
             THEN Reduce(fold[n - 1], RowAt(rows, n).ev, n)
             ELSE fold[n - 1]
  IN fold

ReplayOf(rows) == ReplayStates(rows)[MaxSeq]

Replay == ReplayOf(ledger)

UnlockedIn(ent) == \E r \in ledger : r.ev.type = "Unlocked" /\ r.ev.ent = ent

-----------------------------------------------------------------------------
(* Safety of the append, whatever other appends run beside it.             *)

(* An idempotency key never has two authoritative completions, however two *)
(* submissions of it interleave (the unique key and ON CONFLICT).          *)
OneCommitPerKey ==
  \A r1, r2 \in ledger : r1.key = r2.key /\ r1.key # None => r1 = r2

(* The token of an append, first submission or duplicate, is the seq of    *)
(* the committed row that carries its key: a reader that waits for it      *)
(* waits for this commit, and every submission gets the same one.          *)
TokensNameTheirCommit ==
  \A a \in acks : \E r \in ledger : r.seq = a.seq /\ r.key = a.key

(* Which row an event writes when the reducer lets it.                     *)
Writes(ev, k) ==
  \/ ev.type \in LockTypes /\ k = LockKey(ev.ent)
  \/ HasTarget(ev) /\ k = EventTarget(ev)

(* Every Tier-0 row points at a committed event that addresses that row:   *)
(* no aborted or half-finished append leaves a trace in current_state.     *)
RowsBackedByLedger ==
  \A k \in RowKeys : tier0[k] # NoRow =>
    \E r \in ledger : r.seq = tier0[k].seq /\ Writes(r.ev, k)

(* The mirror never loses a user's assertion to a machine's, nor goes back *)
(* to an assertion older than one a user made.                             *)
MirrorKeepsUser ==
  [][\A f \in Facts :
       mirror[f] # NoRow /\ mirror[f].authority = "USER_OVERRIDE" =>
         mirror'[f] # NoRow /\ mirror'[f].authority = "USER_OVERRIDE"]_mirror

-----------------------------------------------------------------------------
(* What holds while no two appends in flight address one entity.           *)

(* Inline Tier-0 and wipe-and-replay agree on every entity that no Unlocked *)
(* event addresses, also when commits land out of seq order.               *)
Tier0IsReplay ==
  \A ent \in Entities : ~UnlockedIn(ent) =>
    \A k \in RowKeys : k[1] = ent => tier0[k] = Persisted(Replay.rows)[k]

(* A machine event never overwrites a user's winner.                       *)
UserOverrideWins ==
  [][\A k \in RowKeys :
       tier0[k] # NoRow /\ tier0[k].authority = "USER_OVERRIDE" =>
         tier0'[k] # NoRow /\ tier0'[k].authority = "USER_OVERRIDE"]_tier0

(* Nothing but a lock event touches the Tier-0 rows of a locked entity, and *)
(* its assertions do not reach the mirror.                                 *)
LockedRowsFrozen ==
  [][\A ent \in Entities : MarkedLocked(tier0, ent) =>
       /\ \A k \in RowKeys : k[1] = ent /\ k # LockKey(ent) => tier0'[k] = tier0[k]
       /\ \A f \in Facts : f[1] = ent => mirror'[f] = mirror[f]]_<<tier0, mirror>>

(* What a user decided stands, in the rows, under the locks and in the     *)
(* mirror of facts that the append writes beside Tier-0.                   *)
UserDecisionsStand ==
  /\ UserOverrideWins
  /\ LockedRowsFrozen
  /\ MirrorKeepsUser

(* An Unlocked event releases the entity: once it is the entity's latest   *)
(* lock event, the stored marker no longer says LOCKED.                    *)
UnlockReleases ==
  \A r \in ledger :
    /\ r.ev.type = "Unlocked"
    /\ \A other \in ledger : other.ev.type = "Locked" /\ other.ev.ent = r.ev.ent
                               => other.seq < r.seq
    => ~MarkedLocked(tier0, r.ev.ent)
=============================================================================
