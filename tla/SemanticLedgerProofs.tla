------------------------ MODULE SemanticLedgerProofs ------------------------
(***************************************************************************)
(* Proofs about SemanticLedger for every set of writers, keys, entities    *)
(* and requests: type correctness, at most one commit per idempotency key, *)
(* tokens that name their commit, Tier-0 rows backed by the ledger, users' *)
(* decisions kept, expected versions honoured by serial appends, the inline *)
(* fold equal to the replay of the ledger, and the refinement of            *)
(* Tier0Authority by appends that run one at a time.                       *)
(***************************************************************************)
EXTENDS LedgerAuthority, SequenceTheorems, WellFoundedInduction, TLAPS

ReducedState == [rows: [RowKeys -> Row \cup {NoRow}],
                 locks: [Entities -> BOOLEAN]]

(* NoRow is told apart from every row the reducer makes.                   *)
LEMMA EmptyStateType == EmptyState \in ReducedState
BY DEF EmptyState, ReducedState

LEMMA LockKeyType == \A ent \in Entities : LockKey(ent) \in RowKeys
BY DEF LockKey, RowKeys

LEMMA EventTargetType ==
  \A ev \in Event : EventTarget(ev) \in RowKeys
BY DEF Event, EventTarget, RowKeys, PseudoPredicate

LEMMA SeedType ==
  ASSUME NEW row \in Row \cup {NoRow}
  PROVE  RowOrSeed(row) \in Row
BY DEF RowOrSeed, SeedRow, Row, Authorities, RowStates

LEMMA ApplyChangeType ==
  ASSUME NEW row \in Row, NEW ev \in Event, NEW n \in Nat
  PROVE  ApplyChange(row, ev, n) \in Row
<1>1. OverrideWinner(row, ev, n) \in Row
  BY DEF OverrideWinner, Row, Event, Authorities, RowStates
<1>2. ASSUME NEW label \in RowStates
      PROVE  Relabel(row, ev, n, label) \in Row
  BY DEF Relabel, Inherit, Row, Event, Authorities
<1>3. ASSUME NEW base \in Row
      PROVE  Assertion(base, ev, n) \in Row
  BY DEF Assertion, Inherit, Row, Event, Authorities, RowStates
<1>4. [row EXCEPT !.authority = None] \in Row
  BY DEF Row, Authorities
<1>5. MachineChange(row, ev, n) \in Row
  BY <1>2, <1>3, <1>4 DEF MachineChange, RowStates
<1>6. QED
  BY <1>1, <1>5 DEF ApplyChange

LEMMA ReduceType ==
  ASSUME NEW s \in ReducedState, NEW ev \in Event, NEW n \in Nat
  PROVE  Reduce(s, ev, n) \in ReducedState
<1>1. SetLock(s, ev, n) \in ReducedState
  <2>1. ev.ent \in Entities /\ LockKey(ev.ent) \in RowKeys
    BY LockKeyType DEF Event
  <2>2. LockMarker(s.rows[LockKey(ev.ent)], ev, n) \in Row
    <3>1. s.rows[LockKey(ev.ent)] \in Row \cup {NoRow}
      BY <2>1 DEF ReducedState
    <3>2. RowOrSeed(s.rows[LockKey(ev.ent)]) \in Row
      BY <3>1, SeedType
    <3>3. ASSUME NEW base \in Row
          PROVE  [base EXCEPT !.object = None, !.seq = n,
                    !.state = IF ev.type = "Locked" THEN "LOCKED" ELSE "UNLOCKED"]
                 \in Row
      BY DEF Row, RowStates
    <3>4. QED
      BY <3>2, <3>3 DEF LockMarker
  <2>3. QED
    BY <2>1, <2>2 DEF SetLock, ReducedState
<1>2. Change(s, ev, n) \in ReducedState
  <2>1. EventTarget(ev) \in RowKeys
    BY EventTargetType
  <2>2. ApplyChange(RowOrSeed(s.rows[EventTarget(ev)]), ev, n) \in Row
    BY <2>1, SeedType, ApplyChangeType DEF ReducedState
  <2>3. QED
    BY <2>1, <2>2 DEF Change, ReducedState
<1>3. QED
  BY <1>1, <1>2 DEF Reduce

-----------------------------------------------------------------------------
(* A non-empty bounded set of naturals has a greatest element.             *)
LEMMA GreatestExists ==
  ASSUME NEW n \in Nat, NEW S \in SUBSET (1..n), S # {}
  PROVE  \E i \in S : \A j \in S : j <= i
<1> DEFINE T == {n - i : i \in S}
<1>1. T \subseteq Nat /\ T # {}
  <2>1. \A i \in S : n - i \in Nat
    OBVIOUS
  <2>2. PICK i \in S : TRUE
    OBVIOUS
  <2>3. n - i \in T
    BY <2>2
  <2>4. QED
    BY <2>1, <2>3
<1>2. IsWellFoundedOn(OpToRel(<, Nat), Nat)
  BY NatLessThanWellFounded
<1>3. PICK x \in T : \A y \in T : ~ (<<y, x>> \in OpToRel(<, Nat))
  BY <1>1, <1>2, WFMin
<1>4. \A y \in T : ~ (y < x)
  BY <1>1, <1>3 DEF OpToRel
<1>5. PICK i \in S : x = n - i
  OBVIOUS
<1>6. \A j \in S : j <= i
  BY <1>4, <1>5
<1>7. QED
  BY <1>6

LEMMA EndTxnType ==
  ASSUME TypeOK, NEW w \in Writers, EndTxn(w)
  PROVE  /\ pc' \in [Writers -> Phases]
         /\ req' \in [Writers -> Request \cup {NoRequest}]
         /\ seqs' \in [Writers -> Seq(Nat)]
         /\ local' \in [Writers -> ReducedState]
         /\ folded' \in [Writers -> Nat]
BY EmptyStateType DEF TypeOK, EndTxn, Phases, ReducedState

(* The shape of a transaction at each of its statements.                   *)
WellFormed ==
  \A w \in Writers :
    /\ pc[w] # "idle" => req[w] \in Request
    /\ pc[w] \in {"idle", "key", "version"} => seqs[w] = <<>>
    /\ pc[w] = "alloc" => Len(seqs[w]) < Len(req[w].batch)
    /\ pc[w] = "insert" => Len(seqs[w]) \in 1..Len(req[w].batch)
    /\ pc[w] \in {"locks", "rows", "fold", "commit"} =>
         Len(seqs[w]) = Len(req[w].batch)
    /\ pc[w] \in {"idle", "key", "version", "alloc", "insert", "locks", "rows"} =>
         folded[w] = 0
    /\ pc[w] = "fold" => folded[w] < Len(req[w].batch)
    /\ pc[w] = "commit" => folded[w] = Len(req[w].batch)

TypeInv == TypeOK /\ WellFormed

LEMMA RequestBatch ==
  ASSUME NEW r \in Request
  PROVE  /\ r.batch \in Seq(Event)
         /\ Len(r.batch) \in Nat \ {0}
         /\ DOMAIN r.batch = 1..Len(r.batch)
         /\ \A i \in 1..Len(r.batch) : r.batch[i] \in Event
<1>1. r.batch \in Seq(Event) /\ r.batch # <<>>
  BY DEF Request
<1>2. QED
  BY <1>1

LEMMA InitType == Init => TypeInv
BY EmptyStateType, LedgerConstants
   DEF Init, TypeInv, TypeOK, WellFormed, Phases, ReducedState, EmptyState

LEMMA MaterializeType ==
  ASSUME TypeInv, NEW w \in Writers, pc[w] = "commit"
  PROVE  Materialize(w) \in [Facts -> [authority: Authorities, seq: Nat] \cup {NoRow}]
<1> SUFFICES ASSUME NEW f \in Facts, Admissible(w, f) # {}
             PROVE  LET i == CHOOSE i \in Admissible(w, f) :
                               \A j \in Admissible(w, f) : j <= i
                    IN [authority |-> req[w].batch[i].auth, seq |-> seqs[w][i]]
                         \in [authority: Authorities, seq: Nat]
  BY DEF Materialize, TypeInv, TypeOK
<1> DEFINE i == CHOOSE i \in Admissible(w, f) : \A j \in Admissible(w, f) : j <= i
<1>1. /\ req[w] \in Request
      /\ Len(seqs[w]) = Len(req[w].batch)
      /\ seqs[w] \in Seq(Nat)
  BY DEF TypeInv, TypeOK, WellFormed
<1>2. Admissible(w, f) \in SUBSET (1..Len(req[w].batch))
  BY <1>1, RequestBatch DEF Admissible, ByUser, Asserting
<1>3. i \in Admissible(w, f)
  BY <1>1, <1>2, RequestBatch, GreatestExists
<1>4. i \in 1..Len(req[w].batch)
  BY <1>2, <1>3
<1>5. req[w].batch[i] \in Event /\ seqs[w][i] \in Nat
  BY <1>1, <1>4, RequestBatch
<1>6. QED
  BY <1>5 DEF Event

LEMMA NextType == TypeInv /\ [Next]_vars => TypeInv'
<1> SUFFICES ASSUME TypeInv, [Next]_vars
             PROVE  TypeInv'
  OBVIOUS
<1> USE LedgerConstants
<1>1. ASSUME NEW w \in Writers, EndTxn(w)
      PROVE  WellFormed'
  BY <1>1 DEF TypeInv, TypeOK, WellFormed, EndTxn, Phases
<1>2. ASSUME NEW w \in Writers, Begin(w)
      PROVE  TypeInv'
  <2>1. PICK r \in Requests[w] : req' = [req EXCEPT ![w] = r]
    BY <1>2 DEF Begin
  <2>2. r \in Request
    BY <2>1
  <2>3. seqs[w] = <<>> /\ folded[w] = 0
    BY <1>2 DEF Begin, Goto, TypeInv, WellFormed
  <2>4. TypeOK'
    BY <1>2, <2>1, <2>2 DEF Begin, Goto, storage, TypeInv, TypeOK, Phases
  <2>5. WellFormed'
    BY <1>2, <2>1, <2>2, <2>3 DEF Begin, Goto, TypeInv, TypeOK, WellFormed
  <2>6. QED
    BY <2>4, <2>5 DEF TypeInv
<1>3. ASSUME NEW w \in Writers, CheckKey(w)
      PROVE  TypeInv'
  <2>1. acks' \subseteq [key: Keys \cup {None}, seq: Nat]
    BY <1>3 DEF CheckKey, ReturnExisting, Ack, LedgerRow, TypeInv, TypeOK, Request, NoRequest
  <2>2. CASE EndTxn(w)
    BY <1>1, <1>3, <2>1, <2>2, EndTxnType
       DEF CheckKey, storage, TypeInv, TypeOK, ReducedState
  <2>3. CASE Goto(w, "key", "version") /\ UNCHANGED <<acks, req, seqs, local, folded>>
    BY <1>3, <2>1, <2>3 DEF CheckKey, storage, Goto, TypeInv, TypeOK, WellFormed, Phases
  <2>4. QED
    BY <1>3, <2>2, <2>3 DEF CheckKey
<1>4. ASSUME NEW w \in Writers, CheckVersion(w)
      PROVE  TypeInv'
  <2>1. CASE EndTxn(w)
    BY <1>1, <1>4, <2>1, EndTxnType
       DEF CheckVersion, storage, TypeInv, TypeOK, ReducedState
  <2>2. CASE Goto(w, "version", "alloc") /\ UNCHANGED <<req, seqs, local, folded>>
    <3>1. req[w] \in Request /\ Len(seqs[w]) = 0
      BY <2>2 DEF Goto, TypeInv, TypeOK, WellFormed
    <3>2. Len(seqs[w]) < Len(req[w].batch)
      BY <3>1, RequestBatch
    <3>3. QED
      BY <1>4, <2>2, <3>2
         DEF CheckVersion, storage, Goto, TypeInv, TypeOK, WellFormed, Phases
  <2>3. QED
    BY <1>4, <2>1, <2>2 DEF CheckVersion
<1>5. ASSUME NEW w \in Writers, AllocateSeq(w)
      PROVE  TypeInv'
  <2>1. /\ req[w] \in Request /\ seqs[w] \in Seq(Nat) /\ nextSeq \in Nat
        /\ Len(seqs[w]) < Len(req[w].batch)
    BY <1>5 DEF AllocateSeq, Goto, TypeInv, TypeOK, WellFormed
  <2>2. /\ Append(seqs[w], nextSeq) \in Seq(Nat)
        /\ Len(Append(seqs[w], nextSeq)) \in 1..Len(req[w].batch)
    BY <2>1, RequestBatch
  <2>3. TypeOK'
    BY <1>5, <2>1, <2>2 DEF AllocateSeq, Goto, TypeInv, TypeOK, Phases
  <2>4. WellFormed'
    BY <1>5, <2>2 DEF AllocateSeq, Goto, TypeInv, TypeOK, WellFormed
  <2>5. QED
    BY <2>3, <2>4 DEF TypeInv
<1>6. ASSUME NEW w \in Writers, InsertEvent(w)
      PROVE  TypeInv'
  <2>1. acks' \subseteq [key: Keys \cup {None}, seq: Nat]
    BY <1>6 DEF InsertEvent, ReturnExisting, Ack, LedgerRow, TypeInv, TypeOK, Request, NoRequest
  <2>2. CASE EndTxn(w)
    BY <1>1, <1>6, <2>1, <2>2, EndTxnType
       DEF InsertEvent, storage, TypeInv, TypeOK, ReducedState
  <2>3. CASE /\ Goto(w, "insert",
                     IF Len(seqs[w]) = Len(req[w].batch) THEN "locks" ELSE "alloc")
             /\ UNCHANGED <<acks, req, seqs, local, folded>>
    <3>1. /\ req[w] \in Request /\ seqs[w] \in Seq(Nat)
          /\ Len(seqs[w]) \in 1..Len(req[w].batch)
      BY <2>3 DEF Goto, TypeInv, TypeOK, WellFormed
    <3>2. Len(seqs[w]) # Len(req[w].batch) => Len(seqs[w]) < Len(req[w].batch)
      BY <3>1, RequestBatch
    <3>3. TypeOK'
      BY <1>6, <2>1, <2>3 DEF InsertEvent, storage, Goto, TypeInv, TypeOK, Phases
    <3>4. WellFormed'
      BY <2>3, <3>2 DEF Goto, TypeInv, TypeOK, WellFormed
    <3>5. QED
      BY <3>3, <3>4 DEF TypeInv
  <2>4. QED
    BY <1>6, <2>2, <2>3 DEF InsertEvent
<1>7. ASSUME NEW w \in Writers, LoadLocks(w)
      PROVE  TypeInv'
  <2>1. local' \in [Writers -> ReducedState]
    BY <1>7 DEF LoadLocks, TypeInv, TypeOK, ReducedState
  <2>2. QED
    BY <1>7, <2>1
       DEF LoadLocks, storage, Goto, TypeInv, TypeOK, WellFormed, Phases, ReducedState
<1>8. ASSUME NEW w \in Writers, LoadRows(w)
      PROVE  TypeInv'
  <2>1. local' \in [Writers -> ReducedState]
    BY <1>8 DEF LoadRows, TypeInv, TypeOK, ReducedState
  <2>2. req[w] \in Request /\ folded[w] = 0
    BY <1>8 DEF LoadRows, Goto, TypeInv, WellFormed
  <2>3. folded[w] < Len(req[w].batch)
    BY <2>2, RequestBatch
  <2>4. QED
    BY <1>8, <2>1, <2>3
       DEF LoadRows, storage, Goto, TypeInv, TypeOK, WellFormed, Phases, ReducedState
<1>9. ASSUME NEW w \in Writers, Fold(w)
      PROVE  TypeInv'
  <2> DEFINE i == folded[w] + 1
  <2>1. /\ req[w] \in Request /\ seqs[w] \in Seq(Nat) /\ folded[w] \in Nat
        /\ Len(seqs[w]) = Len(req[w].batch) /\ folded[w] < Len(req[w].batch)
        /\ local[w] \in ReducedState
    BY <1>9 DEF Fold, Goto, TypeInv, TypeOK, WellFormed, ReducedState
  <2>2. i \in 1..Len(req[w].batch)
    BY <2>1, RequestBatch
  <2>3. req[w].batch[i] \in Event /\ seqs[w][i] \in Nat
    BY <2>1, <2>2, RequestBatch
  <2>4. Reduce(local[w], req[w].batch[i], seqs[w][i]) \in ReducedState
    BY <2>1, <2>3, ReduceType
  <2>5. local' \in [Writers -> ReducedState]
    BY <1>9, <2>4 DEF Fold, TypeInv, TypeOK, ReducedState
  <2>6. TypeOK'
    BY <1>9, <2>1, <2>5 DEF Fold, storage, Goto, TypeInv, TypeOK, Phases, ReducedState
  <2>7. i # Len(req[w].batch) => i < Len(req[w].batch)
    BY <2>2
  <2>8. WellFormed'
    BY <1>9, <2>1, <2>7 DEF Fold, Goto, TypeInv, TypeOK, WellFormed
  <2>9. QED
    BY <2>6, <2>8 DEF TypeInv
<1>10. ASSUME NEW w \in Writers, Commit(w)
       PROVE  TypeInv'
  <2>1. /\ req[w] \in Request /\ seqs[w] \in Seq(Nat)
        /\ Len(seqs[w]) = Len(req[w].batch) /\ pc[w] = "commit"
    BY <1>10 DEF Commit, TypeInv, TypeOK, WellFormed
  <2>2. \A i \in DOMAIN req[w].batch :
          req[w].batch[i] \in Event /\ seqs[w][i] \in Nat
    BY <2>1, RequestBatch
  <2>3. RowsOf(w) \subseteq LedgerRow
    BY <2>1, <2>2 DEF RowsOf, LedgerRow, Request
  <2>4. PersistDelta(w) \in [RowKeys -> Row \cup {NoRow}]
    BY DEF PersistDelta, TypeInv, TypeOK
  <2>5. Materialize(w) \in [Facts -> [authority: Authorities, seq: Nat] \cup {NoRow}]
    BY <2>1, MaterializeType
  <2>6. seqs[w][1] \in Nat
    BY <2>1, RequestBatch
  <2>7. acks' \subseteq [key: Keys \cup {None}, seq: Nat]
    BY <1>10, <2>1, <2>6 DEF Commit, Ack, TypeInv, TypeOK, Request
  <2>8. EndTxn(w)
    BY <1>10 DEF Commit
  <2>9. TypeOK'
    BY <1>10, <2>3, <2>4, <2>5, <2>7, <2>8, EndTxnType
       DEF Commit, TypeInv, TypeOK, ReducedState
  <2>10. QED
    BY <1>1, <2>8, <2>9 DEF TypeInv
<1>11. ASSUME NEW w \in Writers, Abort(w)
       PROVE  TypeInv'
  BY <1>1, <1>11, EndTxnType DEF Abort, storage, TypeInv, TypeOK, ReducedState
<1>12. CASE UNCHANGED vars
  BY <1>12 DEF vars, storage, session, TypeInv, TypeOK, WellFormed
<1>13. QED
  BY <1>2, <1>3, <1>4, <1>5, <1>6, <1>7, <1>8, <1>9, <1>10, <1>11, <1>12
     DEF Next, Step

(* Type correctness of the ledger, its sessions and its tables.            *)
THEOREM TypeCorrect == Spec => []TypeOK
<1>1. Spec => []TypeInv
  BY InitType, NextType, PTL DEF Spec
<1>2. TypeInv => TypeOK
  BY DEF TypeInv
<1>3. QED
  BY <1>1, <1>2, PTL

-----------------------------------------------------------------------------
(* Idempotency.  The strengthening: between the first INSERT of a keyed     *)
(* batch and the end of its transaction no other transaction holds the key  *)
(* and no committed row carries it.                                        *)
KeyInv ==
  /\ \A v, w \in Writers :
       v # w /\ HoldsKey(v) /\ HoldsKey(w) => req[v].key # req[w].key
  /\ \A w \in Writers : HoldsKey(w) => ~KeyCommitted(w)
  /\ OneCommitPerKey
  /\ TokensNameTheirCommit

LEMMA InitKey == Init => KeyInv
BY DEF Init, KeyInv, HoldsKey, OneCommitPerKey, TokensNameTheirCommit, NoRequest

(* A step of w that leaves the ledger alone, returns at most an existing    *)
(* commit and takes no new key keeps KeyInv.                               *)
LEMMA NoNewHolder ==
  ASSUME TypeInv, KeyInv, NEW w \in Writers,
         ledger' = ledger,
         acks' = acks \/ ReturnExisting(w),
         \A v \in Writers \ {w} : /\ pc'[v] = pc[v] /\ req'[v] = req[v]
                                  /\ seqs'[v] = seqs[v],
         HoldsKey(w)' => HoldsKey(w) /\ req'[w] = req[w]
  PROVE  KeyInv'
<1>1. \A v \in Writers : HoldsKey(v)' => HoldsKey(v) /\ req'[v] = req[v]
  BY DEF HoldsKey
<1>2. \A v \in Writers : HoldsKey(v)' => (KeyCommitted(v)' <=> KeyCommitted(v))
  BY <1>1 DEF KeyCommitted
<1>3. TokensNameTheirCommit'
  BY DEF KeyInv, TokensNameTheirCommit, ReturnExisting, Ack
<1>4. QED
  BY <1>1, <1>2, <1>3 DEF KeyInv, OneCommitPerKey

LEMMA EndTxnReleases ==
  ASSUME TypeInv, NEW w \in Writers, EndTxn(w)
  PROVE  /\ ~HoldsKey(w)'
         /\ \A v \in Writers \ {w} : /\ pc'[v] = pc[v] /\ req'[v] = req[v]
                                     /\ seqs'[v] = seqs[v]
BY DEF TypeInv, TypeOK, EndTxn, HoldsKey, NoRequest

LEMMA NextKey == TypeInv /\ KeyInv /\ [Next]_vars => KeyInv'
<1> SUFFICES ASSUME TypeInv, KeyInv, [Next]_vars
             PROVE  KeyInv'
  OBVIOUS
<1> USE LedgerConstants
<1>1. ASSUME NEW w \in Writers, EndTxn(w), ledger' = ledger,
             acks' = acks \/ ReturnExisting(w)
      PROVE  KeyInv'
  BY <1>1, EndTxnReleases, NoNewHolder
<1>2. ASSUME NEW w \in Writers, Begin(w)
      PROVE  KeyInv'
  <2>1. ~HoldsKey(w)'
    BY <1>2 DEF Begin, Goto, HoldsKey, TypeInv, TypeOK
  <2>2. QED
    BY <1>2, <2>1, NoNewHolder DEF Begin, Goto, storage, TypeInv, TypeOK
<1>3. ASSUME NEW w \in Writers, CheckKey(w)
      PROVE  KeyInv'
  <2>1. CASE ReturnExisting(w) /\ EndTxn(w)
    BY <1>1, <1>3, <2>1 DEF CheckKey, storage
  <2>2. CASE Goto(w, "key", "version") /\ UNCHANGED <<acks, req, seqs, local, folded>>
    <3>1. ~HoldsKey(w)'
      BY <2>2 DEF Goto, HoldsKey, TypeInv, TypeOK
    <3>2. QED
      BY <1>3, <2>2, <3>1, NoNewHolder DEF CheckKey, Goto, storage, TypeInv, TypeOK
  <2>3. QED
    BY <1>3, <2>1, <2>2 DEF CheckKey
<1>4. ASSUME NEW w \in Writers, CheckVersion(w)
      PROVE  KeyInv'
  <2>1. CASE EndTxn(w)
    BY <1>1, <1>4, <2>1 DEF CheckVersion, storage
  <2>2. CASE Goto(w, "version", "alloc") /\ UNCHANGED <<req, seqs, local, folded>>
    <3>1. Len(seqs[w]) = 0
      BY <2>2 DEF Goto, TypeInv, WellFormed
    <3>2. ~HoldsKey(w)'
      BY <2>2, <3>1 DEF Goto, HoldsKey, TypeInv, TypeOK
    <3>3. QED
      BY <1>4, <2>2, <3>2, NoNewHolder DEF CheckVersion, Goto, storage, TypeInv, TypeOK
  <2>3. QED
    BY <1>4, <2>1, <2>2 DEF CheckVersion
<1>5. ASSUME NEW w \in Writers, AllocateSeq(w)
      PROVE  KeyInv'
  <2>1. seqs[w] \in Seq(Nat) /\ nextSeq \in Nat /\ pc[w] = "alloc"
    BY <1>5 DEF AllocateSeq, Goto, TypeInv, TypeOK
  <2>2. seqs'[w] = Append(seqs[w], nextSeq) /\ pc'[w] = "insert" /\ req' = req
    BY <1>5 DEF AllocateSeq, Goto, TypeInv, TypeOK
  <2>3. Len(seqs'[w]) = Len(seqs[w]) + 1
    BY <2>1, <2>2
  <2>4. HoldsKey(w)' => HoldsKey(w)
    BY <2>1, <2>2, <2>3 DEF HoldsKey
  <2>5. QED
    BY <1>5, <2>2, <2>4, NoNewHolder DEF AllocateSeq, Goto, TypeInv, TypeOK
<1>6. ASSUME NEW w \in Writers, InsertEvent(w)
      PROVE  KeyInv'
  <2>1. CASE ReturnExisting(w) /\ EndTxn(w)
    BY <1>1, <1>6, <2>1 DEF InsertEvent, storage
  <2>2. CASE /\ ~(Len(seqs[w]) = 1 /\ KeyCommitted(w))
             /\ Goto(w, "insert",
                     IF Len(seqs[w]) = Len(req[w].batch) THEN "locks" ELSE "alloc")
             /\ UNCHANGED <<acks, req, seqs, local, folded>>
    <3>1. /\ pc[w] = "insert" /\ ledger' = ledger /\ acks' = acks
          /\ req' = req /\ seqs' = seqs
          /\ \A v \in Writers \ {w} : pc'[v] = pc[v]
      BY <1>6, <2>2 DEF InsertEvent, Goto, storage, TypeInv, TypeOK
    <3>2. Len(seqs[w]) \in Nat /\ Len(seqs[w]) >= 1
      BY <3>1, RequestBatch DEF TypeInv, TypeOK, WellFormed
    <3>3. CASE Len(seqs[w]) # 1
      <4>1. Len(seqs[w]) >= 2
        <5>1. \A n \in Nat : n >= 1 /\ n # 1 => n >= 2
          OBVIOUS
        <5>2. QED
          BY <5>1, <3>2, <3>3
      <4>2. HoldsKey(w)' => HoldsKey(w)
        BY <3>1, <4>1 DEF HoldsKey
      <4>3. QED
        BY <3>1, <4>2, NoNewHolder
    <3>4. CASE req[w].key = None
      <4>1. ~HoldsKey(w)'
        BY <3>1, <3>4 DEF HoldsKey
      <4>2. QED
        BY <3>1, <4>1, NoNewHolder
    <3>5. CASE Len(seqs[w]) = 1 /\ req[w].key # None
      <4>1. \A v \in Writers \ {w} : ~(HoldsKey(v) /\ req[v].key = req[w].key)
        BY <1>6, <3>5 DEF InsertEvent, KeyHeldByOther
      <4>2. ~KeyCommitted(w)
        BY <2>2, <3>5
      <4>3. \A v \in Writers \ {w} : HoldsKey(v)' <=> HoldsKey(v)
        BY <3>1 DEF HoldsKey
      <4>4. \A v \in Writers : KeyCommitted(v)' <=> KeyCommitted(v)
        BY <3>1 DEF KeyCommitted
      <4>5. QED
        BY <3>1, <4>1, <4>2, <4>3, <4>4
           DEF KeyInv, OneCommitPerKey, TokensNameTheirCommit
    <3>6. QED
      BY <3>3, <3>4, <3>5
  <2>3. QED
    BY <1>6, <2>1, <2>2 DEF InsertEvent
<1>7. ASSUME NEW w \in Writers, LoadLocks(w) \/ LoadRows(w) \/ Fold(w)
      PROVE  KeyInv'
  <2>1. /\ ledger' = ledger /\ acks' = acks /\ req' = req /\ seqs' = seqs
        /\ \A v \in Writers \ {w} : pc'[v] = pc[v]
        /\ pc[w] \in {"locks", "rows", "fold"}
    BY <1>7 DEF LoadLocks, LoadRows, Fold, Goto, storage, TypeInv, TypeOK
  <2>2. HoldsKey(w)' => HoldsKey(w)
    BY <2>1 DEF HoldsKey
  <2>3. QED
    BY <2>1, <2>2, NoNewHolder
<1>8. ASSUME NEW w \in Writers, Commit(w)
      PROVE  KeyInv'
  <2>1. /\ EndTxn(w) /\ pc[w] = "commit" /\ ledger' = ledger \cup RowsOf(w)
        /\ acks' = acks \cup {[key |-> req[w].key, seq |-> seqs[w][1]]}
    BY <1>8 DEF Commit, Ack
  <2>2. req[w] \in Request
    BY <2>1 DEF TypeInv, WellFormed
  <2>3. /\ 1 \in DOMAIN req[w].batch
        /\ \A i \in DOMAIN req[w].batch : i \in Nat
    BY <2>2, RequestBatch
  <2>4. /\ \A r \in RowsOf(w) : r.key \in {req[w].key, None}
        /\ \A r1, r2 \in RowsOf(w) : r1.key # None /\ r2.key # None => r1 = r2
    BY DEF RowsOf
  <2>5. \E r \in RowsOf(w) : r.key = req[w].key /\ r.seq = seqs[w][1]
    <3> DEFINE first == [seq |-> seqs[w][1], ev |-> req[w].batch[1],
                         key |-> req[w].key]
    <3>1. first \in RowsOf(w)
      BY <2>3 DEF RowsOf
    <3>2. first.key = req[w].key /\ first.seq = seqs[w][1]
      OBVIOUS
    <3>3. QED
      BY <3>1, <3>2
  <2>6. \A r \in ledger : req[w].key # None => r.key # req[w].key
    BY <2>1 DEF KeyInv, HoldsKey, KeyCommitted
  <2>7. OneCommitPerKey'
    BY <2>1, <2>4, <2>6 DEF KeyInv, OneCommitPerKey
  <2>8. TokensNameTheirCommit'
    BY <2>1, <2>5 DEF KeyInv, TokensNameTheirCommit
  <2>9. \A v \in Writers : HoldsKey(v)' => v # w /\ HoldsKey(v) /\ req'[v] = req[v]
    BY <2>1, EndTxnReleases DEF HoldsKey
  <2>10. \A v \in Writers : HoldsKey(v)' => ~KeyCommitted(v)'
    <3> SUFFICES ASSUME NEW v \in Writers, HoldsKey(v)', KeyCommitted(v)'
                 PROVE  FALSE
      OBVIOUS
    <3>1. v # w /\ HoldsKey(v) /\ req'[v] = req[v] /\ req[v].key # None
      BY <2>9 DEF HoldsKey
    <3>2. PICK r \in ledger' : r.key = req[v].key
      BY <3>1 DEF KeyCommitted
    <3>3. r \notin ledger
      BY <3>1, <3>2 DEF KeyInv, KeyCommitted
    <3>4. req[w].key = req[v].key
      BY <2>1, <2>4, <3>1, <3>2, <3>3
    <3>5. HoldsKey(w)
      BY <2>1, <3>1, <3>4 DEF HoldsKey
    <3>6. QED
      BY <3>1, <3>4, <3>5 DEF KeyInv
  <2>11. QED
    BY <2>7, <2>8, <2>9, <2>10 DEF KeyInv
<1>9. ASSUME NEW w \in Writers, Abort(w)
      PROVE  KeyInv'
  BY <1>1, <1>9 DEF Abort, storage
<1>10. CASE UNCHANGED vars
  BY <1>10 DEF vars, storage, session, KeyInv, HoldsKey, KeyCommitted,
               OneCommitPerKey, TokensNameTheirCommit
<1>11. QED
  BY <1>2, <1>3, <1>4, <1>5, <1>6, <1>7, <1>8, <1>9, <1>10 DEF Next, Step

(* Two submissions of one idempotency key, however they interleave, leave   *)
(* one authoritative completion.                                           *)
THEOREM IdempotentAppend == Spec => []OneCommitPerKey
<1>1. Spec => [](TypeInv /\ KeyInv)
  BY InitType, NextType, InitKey, NextKey, PTL DEF Spec
<1>2. TypeInv /\ KeyInv => OneCommitPerKey
  BY DEF KeyInv
<1>3. QED
  BY <1>1, <1>2, PTL

(* Every token handed to a caller, first or duplicate, is the seq of the    *)
(* committed row carrying its key.                                         *)
THEOREM TokenIsCommit == Spec => []TokensNameTheirCommit
<1>1. Spec => [](TypeInv /\ KeyInv)
  BY InitType, NextType, InitKey, NextKey, PTL DEF Spec
<1>2. TypeInv /\ KeyInv => TokensNameTheirCommit
  BY DEF KeyInv
<1>3. QED
  BY <1>1, <1>2, PTL

-----------------------------------------------------------------------------
(* Provenance of Tier-0.  The strengthening: a row a session holds is       *)
(* backed by a committed event or by an event of the batch it has folded.   *)
CommittedFor(k, n) == \E r \in ledger : r.seq = n /\ Writes(r.ev, k)

FoldedFor(w, k, n) ==
  \E i \in 1..folded[w] : seqs[w][i] = n /\ Writes(req[w].batch[i], k)

LocalBacked(w) ==
  \A k \in RowKeys : local[w].rows[k] # NoRow =>
    \/ CommittedFor(k, local[w].rows[k].seq)
    \/ FoldedFor(w, k, local[w].rows[k].seq)

BackedInv ==
  /\ nextSeq >= 1
  /\ \A w \in Writers : \A i \in 1..Len(seqs[w]) : seqs[w][i] >= 1
  /\ \A w \in Writers : LocalBacked(w)
  /\ RowsBackedByLedger

LEMMA InitBacked == Init => BackedInv
BY DEF Init, BackedInv, LocalBacked, RowsBackedByLedger, EmptyState

(* A change either leaves the row or stamps it with its own seq; the very   *)
(* first change of a row always takes.                                     *)
LEMMA ApplyChangeStamps ==
  ASSUME NEW row \in Row, NEW ev \in Event, NEW n \in Nat
  PROVE  ApplyChange(row, ev, n) = row \/ ApplyChange(row, ev, n).seq = n
<1>1. OverrideWinner(row, ev, n).seq = n
  BY DEF OverrideWinner
<1>2. ASSUME NEW label
      PROVE  Relabel(row, ev, n, label).seq = n
  BY DEF Relabel, Row
<1>3. ASSUME NEW base
      PROVE  Assertion(base, ev, n).seq = n
  BY DEF Assertion
<1>4. MachineChange(row, ev, n).seq = n
  BY <1>2, <1>3 DEF MachineChange
<1>5. QED
  BY <1>1, <1>4 DEF ApplyChange

LEMMA FirstChangeTakes ==
  ASSUME NEW ev \in Event, NEW n \in Nat, n >= 1
  PROVE  ApplyChange(SeedRow, ev, n).seq = n
<1>1. SeedRow \in Row /\ SeedRow.seq = 0
  BY DEF SeedRow, Row, Authorities, RowStates
<1>2. ApplyChange(SeedRow, ev, n) = SeedRow \/ ApplyChange(SeedRow, ev, n).seq = n
  BY <1>1, ApplyChangeStamps
<1>3. ~Outranked(SeedRow, ev, n)
  BY NonesAreNotValues DEF Outranked, SeedRow
<1>4. OverrideWinner(SeedRow, ev, n).seq = n
  BY DEF OverrideWinner
<1>5. ASSUME NEW label
      PROVE  Relabel(SeedRow, ev, n, label).seq = n
  BY DEF Relabel, SeedRow
<1>6. ASSUME NEW base
      PROVE  Assertion(base, ev, n).seq = n
  BY DEF Assertion
<1>7. MachineChange(SeedRow, ev, n).seq = n
  BY <1>5, <1>6 DEF MachineChange
<1>8. QED
  BY <1>3, <1>4, <1>7 DEF ApplyChange

(* Folding one event touches no row but those it addresses, and stamps the  *)
(* ones it touches.                                                        *)
LEMMA ReduceStamps ==
  ASSUME NEW s \in ReducedState, NEW ev \in Event, NEW n \in Nat, n >= 1,
         NEW k \in RowKeys
  PROVE  \/ Reduce(s, ev, n).rows[k] = s.rows[k]
         \/ Writes(ev, k) /\ Reduce(s, ev, n).rows[k].seq = n
<1>1. CASE ev.type \in LockTypes
  <2>1. Reduce(s, ev, n) = SetLock(s, ev, n)
    BY <1>1 DEF Reduce
  <2>2. CASE k # LockKey(ev.ent)
    BY <2>1, <2>2 DEF SetLock, ReducedState
  <2>3. CASE k = LockKey(ev.ent)
    <3>1. SetLock(s, ev, n).rows[k] = LockMarker(s.rows[k], ev, n)
      BY <2>3 DEF SetLock, ReducedState
    <3>2. RowOrSeed(s.rows[k]) \in Row
      BY SeedType DEF ReducedState
    <3>3. LockMarker(s.rows[k], ev, n).seq = n
      BY <3>2 DEF LockMarker, Row
    <3>4. QED
      BY <1>1, <2>1, <2>3, <3>1, <3>3 DEF Writes
  <2>4. QED
    BY <2>2, <2>3
<1>2. CASE ev.type \notin LockTypes /\ (~HasTarget(ev) \/ s.locks[ev.ent])
  BY <1>2 DEF Reduce
<1>3. CASE ev.type \notin LockTypes /\ HasTarget(ev) /\ ~s.locks[ev.ent]
  <2>1. Reduce(s, ev, n) = Change(s, ev, n)
    BY <1>3 DEF Reduce
  <2>2. CASE k # EventTarget(ev)
    BY <2>1, <2>2 DEF Change, ReducedState
  <2>3. CASE k = EventTarget(ev)
    <3>1. Change(s, ev, n).rows[k] = ApplyChange(RowOrSeed(s.rows[k]), ev, n)
      BY <2>3 DEF Change, ReducedState
    <3>2. s.rows[k] \in Row \cup {NoRow} /\ RowOrSeed(s.rows[k]) \in Row
      BY SeedType DEF ReducedState
    <3>3. \/ ApplyChange(RowOrSeed(s.rows[k]), ev, n) = s.rows[k]
          \/ ApplyChange(RowOrSeed(s.rows[k]), ev, n).seq = n
      <4>1. CASE s.rows[k] = NoRow
        BY <4>1, FirstChangeTakes DEF RowOrSeed
      <4>2. CASE s.rows[k] # NoRow
        BY <3>2, <4>2, ApplyChangeStamps DEF RowOrSeed
      <4>3. QED
        BY <4>1, <4>2
    <3>4. QED
      BY <1>3, <2>1, <2>3, <3>1, <3>3 DEF Writes
  <2>4. QED
    BY <2>2, <2>3
<1>4. QED
  BY <1>1, <1>2, <1>3

(* A session that neither moved nor saw the ledger shrink keeps its rows    *)
(* backed.                                                                 *)
LEMMA LocalBackedKept ==
  ASSUME NEW w \in Writers, LocalBacked(w), ledger \subseteq ledger',
         local'[w] = local[w], folded'[w] = folded[w], req'[w] = req[w],
         \A i \in 1..folded[w] : seqs'[w][i] = seqs[w][i]
  PROVE  LocalBacked(w)'
<1> SUFFICES ASSUME NEW k \in RowKeys, local[w].rows[k] # NoRow
             PROVE  \/ CommittedFor(k, local[w].rows[k].seq)'
                    \/ FoldedFor(w, k, local[w].rows[k].seq)'
  BY DEF LocalBacked
<1>1. CASE CommittedFor(k, local[w].rows[k].seq)
  BY <1>1 DEF CommittedFor
<1>2. CASE FoldedFor(w, k, local[w].rows[k].seq)
  BY <1>2 DEF FoldedFor
<1>3. QED
  BY <1>1, <1>2 DEF LocalBacked

LEMMA EndTxnBacked ==
  ASSUME TypeInv, BackedInv, NEW w \in Writers, EndTxn(w),
         ledger \subseteq ledger'
  PROVE  /\ \A v \in Writers : LocalBacked(v)'
         /\ \A v \in Writers : \A i \in 1..Len(seqs'[v]) : seqs'[v][i] >= 1
<1>1. LocalBacked(w)'
  BY DEF EndTxn, LocalBacked, EmptyState, TypeInv, TypeOK
<1>2. ASSUME NEW v \in Writers, v # w
      PROVE  LocalBacked(v)'
  BY <1>2, LocalBackedKept DEF EndTxn, BackedInv, TypeInv, TypeOK
<1>3. seqs'[w] = <<>> /\ \A v \in Writers \ {w} : seqs'[v] = seqs[v]
  BY DEF EndTxn, TypeInv, TypeOK
<1>4. Len(seqs'[w]) = 0
  BY <1>3
<1>5. \A v \in Writers : \A i \in 1..Len(seqs'[v]) : seqs'[v][i] >= 1
  BY <1>3, <1>4 DEF BackedInv
<1>6. QED
  BY <1>1, <1>2, <1>5

LEMMA NextBacked == TypeInv /\ BackedInv /\ [Next]_vars => BackedInv'
<1> SUFFICES ASSUME TypeInv, BackedInv, [Next]_vars
             PROVE  BackedInv'
  OBVIOUS
<1>1. ASSUME NEW w \in Writers, EndTxn(w), UNCHANGED storage
      PROVE  BackedInv'
  BY <1>1, EndTxnBacked DEF BackedInv, RowsBackedByLedger, storage
<1>2. ASSUME UNCHANGED <<storage, req, seqs, local, folded>>
      PROVE  BackedInv'
  BY <1>2 DEF storage, BackedInv, LocalBacked, CommittedFor, FoldedFor, RowsBackedByLedger
<1>3. ASSUME NEW w \in Writers, Begin(w)
      PROVE  BackedInv'
  <2>1. /\ UNCHANGED <<storage, seqs, local, folded>> /\ folded[w] = 0
        /\ \A v \in Writers \ {w} : req'[v] = req[v]
    BY <1>3 DEF Begin, Goto, TypeInv, TypeOK, WellFormed
  <2>2. LocalBacked(w)'
    BY <2>1 DEF BackedInv, LocalBacked, CommittedFor, FoldedFor, storage
  <2>3. ASSUME NEW v \in Writers, v # w
        PROVE  LocalBacked(v)'
    BY <2>1, <2>3, LocalBackedKept DEF BackedInv, storage
  <2>4. QED
    BY <2>1, <2>2, <2>3 DEF BackedInv, RowsBackedByLedger, storage
<1>4. ASSUME NEW w \in Writers, CheckKey(w) \/ CheckVersion(w) \/ InsertEvent(w)
      PROVE  BackedInv'
  BY <1>1, <1>2, <1>4 DEF CheckKey, CheckVersion, InsertEvent
<1>5. ASSUME NEW w \in Writers, AllocateSeq(w)
      PROVE  BackedInv'
  <2>1. /\ nextSeq \in Nat /\ seqs[w] \in Seq(Nat) /\ folded[w] = 0
        /\ nextSeq' = nextSeq + 1 /\ seqs' = [seqs EXCEPT ![w] = Append(@, nextSeq)]
        /\ UNCHANGED <<ledger, tier0, req, local, folded>>
    BY <1>5 DEF AllocateSeq, Goto, TypeInv, TypeOK, WellFormed
  <2>2. seqs'[w] = Append(seqs[w], nextSeq)
        /\ \A v \in Writers \ {w} : seqs'[v] = seqs[v]
    BY <2>1 DEF TypeInv, TypeOK
  <2>3. \A i \in 1..Len(seqs'[w]) : seqs'[w][i] >= 1
    BY <2>1, <2>2 DEF BackedInv
  <2>4. ASSUME NEW v \in Writers
        PROVE  LocalBacked(v)'
    <3>1. \A i \in 1..folded[v] : seqs'[v][i] = seqs[v][i]
      BY <2>1, <2>2
    <3>2. QED
      BY <2>1, <3>1, LocalBackedKept DEF BackedInv
  <2>5. QED
    BY <2>1, <2>2, <2>3, <2>4 DEF BackedInv, RowsBackedByLedger
<1>6. ASSUME NEW w \in Writers, LoadLocks(w) \/ LoadRows(w)
      PROVE  BackedInv'
  <2>1. /\ UNCHANGED <<storage, req, seqs, folded>>
        /\ \A v \in Writers \ {w} : local'[v] = local[v]
    BY <1>6 DEF LoadLocks, LoadRows, TypeInv, TypeOK
  <2>2. \A k \in RowKeys : local'[w].rows[k] \in {NoRow, tier0[k], local[w].rows[k]}
    BY <1>6 DEF LoadLocks, LoadRows, TypeInv, TypeOK
  <2>3. \A k \in RowKeys : tier0[k] # NoRow => CommittedFor(k, tier0[k].seq)
    BY DEF BackedInv, RowsBackedByLedger, CommittedFor
  <2>4. LocalBacked(w)'
    BY <2>1, <2>2, <2>3 DEF BackedInv, LocalBacked, CommittedFor, FoldedFor, storage
  <2>5. ASSUME NEW v \in Writers, v # w
        PROVE  LocalBacked(v)'
    BY <2>1, <2>5, LocalBackedKept DEF BackedInv, storage
  <2>6. QED
    BY <2>1, <2>4, <2>5 DEF BackedInv, RowsBackedByLedger, storage
<1>7. ASSUME NEW w \in Writers, Fold(w)
      PROVE  BackedInv'
  <2> DEFINE i == folded[w] + 1
             ev == req[w].batch[i]
  <2>1. /\ req[w] \in Request /\ seqs[w] \in Seq(Nat) /\ folded[w] \in Nat
        /\ Len(seqs[w]) = Len(req[w].batch) /\ folded[w] < Len(req[w].batch)
        /\ local[w] \in ReducedState
    BY <1>7 DEF Fold, Goto, TypeInv, TypeOK, WellFormed, ReducedState
  <2>2. i \in 1..Len(req[w].batch) /\ i \in 1..Len(seqs[w]) /\ i \in 1..i
    BY <2>1, RequestBatch
  <2>3. ev \in Event /\ seqs[w][i] \in Nat /\ seqs[w][i] >= 1
    BY <2>1, <2>2, RequestBatch DEF BackedInv
  <2>4. /\ UNCHANGED <<storage, req, seqs>> /\ folded'[w] = i
        /\ local'[w] \in {local[w], Reduce(local[w], ev, seqs[w][i])}
        /\ \A v \in Writers \ {w} : local'[v] = local[v] /\ folded'[v] = folded[v]
    BY <1>7 DEF Fold, TypeInv, TypeOK
  <2>5. ASSUME NEW k \in RowKeys, NEW n, CommittedFor(k, n) \/ FoldedFor(w, k, n)
        PROVE  CommittedFor(k, n)' \/ FoldedFor(w, k, n)'
    <3>1. 1..folded[w] \subseteq 1..folded'[w]
      BY <2>1, <2>4
    <3>2. QED
      BY <2>4, <2>5, <3>1 DEF CommittedFor, FoldedFor, storage
  <2>6. LocalBacked(w)'
    <3> SUFFICES ASSUME NEW k \in RowKeys, local'[w].rows[k] # NoRow
                 PROVE  (\/ CommittedFor(k, local[w].rows[k].seq)
                         \/ FoldedFor(w, k, local[w].rows[k].seq))'
      BY DEF LocalBacked
    <3>1. CASE local'[w].rows[k] = local[w].rows[k]
      BY <2>5, <3>1 DEF BackedInv, LocalBacked
    <3>2. CASE Writes(ev, k) /\ local'[w].rows[k].seq = seqs[w][i]
      BY <2>2, <2>4, <3>2 DEF FoldedFor
    <3>3. \/ local'[w].rows[k] = local[w].rows[k]
          \/ Writes(ev, k) /\ local'[w].rows[k].seq = seqs[w][i]
      <4>1. CASE local'[w] = local[w]
        BY <4>1
      <4>2. CASE local'[w] = Reduce(local[w], ev, seqs[w][i])
        <5>1. \/ Reduce(local[w], ev, seqs[w][i]).rows[k] = local[w].rows[k]
              \/ Writes(ev, k) /\ Reduce(local[w], ev, seqs[w][i]).rows[k].seq = seqs[w][i]
          BY <2>1, <2>3, ReduceStamps
        <5>2. QED
          BY <4>2, <5>1
      <4>3. QED
        BY <2>4, <4>1, <4>2
    <3>4. QED
      BY <3>1, <3>2, <3>3
  <2>7. ASSUME NEW v \in Writers, v # w
        PROVE  LocalBacked(v)'
    BY <2>4, <2>7, LocalBackedKept DEF BackedInv, storage
  <2>8. QED
    BY <2>4, <2>6, <2>7 DEF BackedInv, RowsBackedByLedger, storage
<1>8. ASSUME NEW w \in Writers, Commit(w)
      PROVE  BackedInv'
  <2>1. /\ EndTxn(w) /\ pc[w] = "commit" /\ ledger' = ledger \cup RowsOf(w)
        /\ tier0' = PersistDelta(w) /\ nextSeq' = nextSeq
    BY <1>8 DEF Commit
  <2>2. req[w] \in Request /\ folded[w] = Len(req[w].batch)
    BY <2>1 DEF TypeInv, WellFormed
  <2>3. \A i \in 1..folded[w] :
          \E r \in RowsOf(w) : r.seq = seqs[w][i] /\ r.ev = req[w].batch[i]
    <3> SUFFICES ASSUME NEW i \in 1..folded[w]
                 PROVE  \E r \in RowsOf(w) : r.seq = seqs[w][i] /\ r.ev = req[w].batch[i]
      OBVIOUS
    <3> DEFINE row == [seq |-> seqs[w][i], ev |-> req[w].batch[i],
                       key |-> IF i = 1 THEN req[w].key ELSE None]
    <3>1. row \in RowsOf(w)
      BY <2>2, RequestBatch DEF RowsOf
    <3>2. row.seq = seqs[w][i] /\ row.ev = req[w].batch[i]
      OBVIOUS
    <3>3. QED
      BY <3>1, <3>2
  <2>4. ASSUME NEW k \in RowKeys, NEW n, FoldedFor(w, k, n)
        PROVE  CommittedFor(k, n)'
    BY <2>1, <2>3, <2>4 DEF FoldedFor, CommittedFor
  <2>5. ASSUME NEW k \in RowKeys, NEW n, CommittedFor(k, n)
        PROVE  CommittedFor(k, n)'
    BY <2>1, <2>5 DEF CommittedFor
  <2>6. RowsBackedByLedger'
    <3> SUFFICES ASSUME NEW k \in RowKeys, PersistDelta(w)[k] # NoRow
                 PROVE  \E r \in ledger' : r.seq = PersistDelta(w)[k].seq /\ Writes(r.ev, k)
      BY <2>1 DEF RowsBackedByLedger
    <3>1. CASE PersistDelta(w)[k] = tier0[k]
      BY <2>1, <3>1 DEF BackedInv, RowsBackedByLedger
    <3>2. CASE PersistDelta(w)[k] = local[w].rows[k]
      <4>1. \A n : CommittedFor(k, n) \/ FoldedFor(w, k, n) =>
                    \E r \in ledger' : r.seq = n /\ Writes(r.ev, k)
        BY <2>4, <2>5 DEF CommittedFor
      <4>2. QED
        BY <3>2, <4>1 DEF BackedInv, LocalBacked
    <3>3. QED
      BY <3>1, <3>2 DEF PersistDelta
  <2>7. QED
    BY <2>1, <2>6, EndTxnBacked DEF BackedInv
<1>9. ASSUME NEW w \in Writers, Abort(w)
      PROVE  BackedInv'
  BY <1>1, <1>9 DEF Abort
<1>10. CASE UNCHANGED vars
  BY <1>2, <1>10 DEF vars, session
<1>11. QED
  BY <1>3, <1>4, <1>5, <1>6, <1>7, <1>8, <1>9, <1>10 DEF Next, Step

(* No current_state row is ever anything but the mark of a committed event  *)
(* that addresses it: an aborted append leaves no trace in Tier-0.         *)
THEOREM Tier0Provenance == Spec => []RowsBackedByLedger
<1>1. Spec => [](TypeInv /\ BackedInv)
  BY InitType, NextType, InitBacked, NextBacked, PTL DEF Spec
<1>2. TypeInv /\ BackedInv => RowsBackedByLedger
  BY DEF BackedInv
<1>3. QED
  BY <1>1, <1>2, PTL

-----------------------------------------------------------------------------
(* What users decided, while no two appends in flight address one entity.  *)
(* Without that a machine's append may write back the row it loaded before *)
(* the user's committed.                                                   *)
EntitiesOf(w) == {req[w].batch[i].ent : i \in DOMAIN req[w].batch}

EntitiesApart ==
  \A v, w \in Writers : v # w => EntitiesOf(v) \cap EntitiesOf(w) = {}

(* The command service appends an Unlocked event in a batch of its own; one *)
(* that other changes follow would let them through before it commits.     *)
Unlocking(batch) == \E i \in DOMAIN batch : batch[i].type = "Unlocked"

UnlocksApart(batch) ==
  Unlocking(batch) => \A i \in DOMAIN batch : batch[i].type \notin ChangeTypes

UserRow(row) == row # NoRow /\ row.authority = "USER_OVERRIDE"

LockKeysOf(w) == {LockKey(ent) : ent \in RefsOf(w)}

LoadedKeys(w) == TargetsOf(w) \cup LockKeysOf(w)

(* What w has loaded once it has read the lock markers.                    *)
LocksLoaded(w) ==
  /\ \A k \in RowKeys :
       local[w].rows[k] = IF k \in LockKeysOf(w) THEN tier0[k] ELSE NoRow
  /\ \A ent \in RefsOf(w) : local[w].locks[ent] <=> MarkedLocked(tier0, ent)

(* What the state s that w folds into says of the stored rows: it keeps    *)
(* users' rows, and all rows of an entity whose marker is stored.          *)
Respects(w, s) ==
  /\ \A k \in RowKeys : k \notin LoadedKeys(w) => s.rows[k] = NoRow
  /\ \A k \in RowKeys : k \in LoadedKeys(w) /\ UserRow(tier0[k]) => UserRow(s.rows[k])
  /\ \A ent \in RefsOf(w) : MarkedLocked(tier0, ent) =>
       /\ s.locks[ent] \/ Unlocking(req[w].batch)
       /\ \A k \in RowKeys :
            k[1] = ent /\ k # LockKey(ent) => s.rows[k] \in {NoRow, tier0[k]}
  /\ \A ent \in Entities : s.rows[LockKey(ent)] # NoRow =>
       s.rows[LockKey(ent)].state \in {"LOCKED", "UNLOCKED"}

SessionRespects(w) ==
  /\ pc[w] # "idle" => UnlocksApart(req[w].batch)
  /\ pc[w] = "rows" => LocksLoaded(w)
  /\ pc[w] \in {"fold", "commit"} => Respects(w, local[w])

MarkersSayLocked ==
  \A ent \in Entities : tier0[LockKey(ent)] # NoRow => tier0[LockKey(ent)].state = "LOCKED"

DecisionInv == MarkersSayLocked /\ \A w \in Writers : SessionRespects(w)

(* The reducer keeps a user's row a user's.                                *)
LEMMA ChangeKeepsUser ==
  ASSUME NEW row \in Row, row.authority = "USER_OVERRIDE", NEW ev \in Event, NEW n \in Nat
  PROVE  UserRow(ApplyChange(row, ev, n))
<1>1. ApplyChange(row, ev, n) # NoRow
  BY ApplyChangeType, AbsentIsNoRow
<1>2. OverrideWinner(row, ev, n).authority = "USER_OVERRIDE"
  BY DEF OverrideWinner
<1>3. ev.auth = "USER_OVERRIDE" => MachineChange(row, ev, n).authority = "USER_OVERRIDE"
  <2> SUFFICES ASSUME ev.auth = "USER_OVERRIDE"
               PROVE  MachineChange(row, ev, n).authority = "USER_OVERRIDE"
    OBVIOUS
  <2>1. \A base : Inherit(ev.auth, base) = "USER_OVERRIDE"
    BY NonesAreNotValues DEF Inherit
  <2>2. ASSUME NEW label
        PROVE  Relabel(row, ev, n, label).authority = "USER_OVERRIDE"
    BY <2>1 DEF Relabel, Row
  <2>3. ASSUME NEW base
        PROVE  Assertion(base, ev, n).authority = "USER_OVERRIDE"
    BY <2>1 DEF Assertion
  <2>4. QED
    BY <2>2, <2>3 DEF MachineChange
<1>4. QED
  BY <1>1, <1>2, <1>3 DEF ApplyChange, Outranked, UserRow

(* Folding an event touches no row but those it addresses.                 *)
LEMMA ReduceBeside ==
  ASSUME NEW s \in ReducedState, NEW ev \in Event, NEW n \in Nat,
         NEW k \in RowKeys, ~Writes(ev, k)
  PROVE  Reduce(s, ev, n).rows[k] = s.rows[k]
<1>1. CASE ev.type \in LockTypes
  BY <1>1 DEF Reduce, SetLock, ReducedState, Writes
<1>2. CASE ev.type \notin LockTypes /\ (~HasTarget(ev) \/ s.locks[ev.ent])
  BY <1>2 DEF Reduce
<1>3. CASE ev.type \notin LockTypes /\ HasTarget(ev) /\ ~s.locks[ev.ent]
  <2>1. Reduce(s, ev, n) = Change(s, ev, n) /\ k # EventTarget(ev)
    BY <1>3 DEF Reduce, Writes
  <2>2. QED
    BY <2>1 DEF Change, ReducedState
<1>4. QED
  BY <1>1, <1>2, <1>3

LEMMA ReduceKeepsUser ==
  ASSUME NEW s \in ReducedState, NEW ev \in Event, NEW n \in Nat,
         NEW k \in RowKeys, UserRow(s.rows[k])
  PROVE  UserRow(Reduce(s, ev, n).rows[k])
<1>1. s.rows[k] \in Row /\ s.rows[k].authority = "USER_OVERRIDE" /\ RowOrSeed(s.rows[k]) = s.rows[k]
  BY DEF UserRow, ReducedState, RowOrSeed
<1>2. CASE ~Writes(ev, k)
  BY <1>2, ReduceBeside
<1>3. CASE ev.type \in LockTypes /\ k = LockKey(ev.ent)
  <2>1. Reduce(s, ev, n).rows[k] = LockMarker(s.rows[k], ev, n)
    BY <1>3 DEF Reduce, SetLock, ReducedState
  <2>2. LockMarker(s.rows[k], ev, n) \in Row /\ LockMarker(s.rows[k], ev, n).authority = "USER_OVERRIDE"
    BY <1>1 DEF LockMarker, Row, RowStates
  <2>3. QED
    BY <2>1, <2>2, AbsentIsNoRow DEF UserRow
<1>4. CASE ev.type \notin LockTypes /\ HasTarget(ev) /\ k = EventTarget(ev)
  <2>1. CASE s.locks[ev.ent]
    BY <1>4, <2>1 DEF Reduce
  <2>2. CASE ~s.locks[ev.ent]
    <3>1. Reduce(s, ev, n).rows[k] = ApplyChange(s.rows[k], ev, n)
      BY <1>1, <1>4, <2>2 DEF Reduce, Change, ReducedState
    <3>2. QED
      BY <1>1, <3>1, ChangeKeepsUser
  <2>3. QED
    BY <2>1, <2>2
<1>5. HasTarget(ev) => ev.type \notin LockTypes
  BY DEF HasTarget, LockTypes, ChangeTypes
<1>6. QED
  BY <1>2, <1>3, <1>4, <1>5 DEF Writes

(* Only lock events write markers, and a marker says which one came last.   *)
LEMMA ReduceMarker ==
  ASSUME NEW s \in ReducedState, NEW ev \in Event, NEW n \in Nat, NEW ent \in Entities
  PROVE  \/ Reduce(s, ev, n).rows[LockKey(ent)] = s.rows[LockKey(ent)]
         \/ Reduce(s, ev, n).rows[LockKey(ent)].state \in {"LOCKED", "UNLOCKED"}
<1>1. LockKey(ent) \in RowKeys
  BY LockKeyType
<1>2. CASE ~Writes(ev, LockKey(ent))
  BY <1>1, <1>2, ReduceBeside
<1>3. ~(HasTarget(ev) /\ LockKey(ent) = EventTarget(ev))
  BY NonesAreNotValues DEF LockKey, EventTarget, PseudoPredicate, Event
<1>4. CASE ev.type \in LockTypes /\ LockKey(ent) = LockKey(ev.ent)
  <2>1. Reduce(s, ev, n).rows[LockKey(ent)] = LockMarker(s.rows[LockKey(ent)], ev, n)
    BY <1>1, <1>4 DEF Reduce, SetLock, ReducedState
  <2>2. RowOrSeed(s.rows[LockKey(ent)]) \in Row
    BY <1>1, SeedType DEF ReducedState
  <2>3. LockMarker(s.rows[LockKey(ent)], ev, n).state \in {"LOCKED", "UNLOCKED"}
    BY <2>2 DEF LockMarker, Row
  <2>4. QED
    BY <2>1, <2>3
<1>5. QED
  BY <1>2, <1>3, <1>4 DEF Writes

(* The lock map: a change event leaves it, a lock event sets its entity's.  *)
LEMMA ReduceLocks ==
  ASSUME NEW s \in ReducedState, NEW ev \in Event, NEW n \in Nat, NEW ent \in Entities,
         s.locks[ent], ev.type # "Unlocked"
  PROVE  Reduce(s, ev, n).locks[ent]
<1>1. CASE ev.type \in LockTypes
  BY <1>1 DEF Reduce, SetLock, LockTypes, ReducedState
<1>2. CASE ev.type \notin LockTypes
  BY <1>2 DEF Reduce, Change
<1>3. QED
  BY <1>1, <1>2

(* The keys of an entity that an event of it writes besides the marker are  *)
(* those of an unlocked entity and a change event.                         *)
LEMMA ReduceLockedRow ==
  ASSUME NEW s \in ReducedState, NEW ev \in Event, NEW n \in Nat, NEW k \in RowKeys,
         k # LockKey(k[1]), s.locks[k[1]] \/ ev.type \notin ChangeTypes
  PROVE  Reduce(s, ev, n).rows[k] = s.rows[k]
<1>1. CASE ~Writes(ev, k)
  BY <1>1, ReduceBeside
<1>2. CASE Writes(ev, k)
  <2>1. HasTarget(ev) /\ k = EventTarget(ev)
    BY <1>2 DEF Writes, LockKey
  <2>2. k[1] = ev.ent /\ ev.type \in ChangeTypes /\ ev.type \notin LockTypes
    BY <2>1 DEF EventTarget, HasTarget, ChangeTypes, LockTypes
  <2>3. QED
    BY <2>2 DEF Reduce
<1>3. QED
  BY <1>1, <1>2

-----------------------------------------------------------------------------
(* An event of the batch addresses a row that was loaded.                  *)
LEMMA WritesLoaded ==
  ASSUME NEW w \in Writers, req[w] \in Request, NEW i \in DOMAIN req[w].batch,
         IsSemantic(req[w].batch[i]), NEW k, Writes(req[w].batch[i], k)
  PROVE  k \in LoadedKeys(w)
BY DEF Writes, LoadedKeys, LockKeysOf, TargetsOf, RefsOf, SemanticEvents

LEMMA LoadedOfRefs ==
  ASSUME NEW w \in Writers, NEW k \in LoadedKeys(w)
  PROVE  k[1] \in RefsOf(w)
BY DEF LoadedKeys, LockKeysOf, TargetsOf, RefsOf, SemanticEvents, LockKey, EventTarget

LEMMA ReduceRespects ==
  ASSUME NEW w \in Writers, req[w] \in Request, UnlocksApart(req[w].batch),
         NEW s \in ReducedState, Respects(w, s),
         NEW i \in DOMAIN req[w].batch, IsSemantic(req[w].batch[i]), NEW n \in Nat
  PROVE  Respects(w, Reduce(s, req[w].batch[i], n))
<1> DEFINE ev == req[w].batch[i]
<1>1. ev \in Event
  BY RequestBatch
<1>2. ASSUME NEW k \in RowKeys, k \notin LoadedKeys(w)
      PROVE  Reduce(s, ev, n).rows[k] = NoRow
  BY <1>1, <1>2, WritesLoaded, ReduceBeside DEF Respects
<1>3. ASSUME NEW k \in RowKeys, k \in LoadedKeys(w), UserRow(tier0[k])
      PROVE  UserRow(Reduce(s, ev, n).rows[k])
  BY <1>1, <1>3, ReduceKeepsUser DEF Respects
<1>4. ASSUME NEW ent \in RefsOf(w), MarkedLocked(tier0, ent)
      PROVE  /\ Reduce(s, ev, n).locks[ent] \/ Unlocking(req[w].batch)
             /\ \A k \in RowKeys : k[1] = ent /\ k # LockKey(ent) =>
                  Reduce(s, ev, n).rows[k] \in {NoRow, tier0[k]}
  <2>1. s.locks[ent] \/ Unlocking(req[w].batch)
    BY <1>4 DEF Respects
  <2>2. ent \in Entities
    BY RequestBatch DEF RefsOf, SemanticEvents, Event
  <2>3. Reduce(s, ev, n).locks[ent] \/ Unlocking(req[w].batch)
    BY <1>1, <2>1, <2>2, ReduceLocks DEF Unlocking
  <2>4. s.locks[ent] \/ ev.type \notin ChangeTypes
    BY <2>1 DEF UnlocksApart
  <2>5. ASSUME NEW k \in RowKeys, k[1] = ent, k # LockKey(ent)
        PROVE  Reduce(s, ev, n).rows[k] \in {NoRow, tier0[k]}
    BY <1>1, <1>4, <2>4, <2>5, ReduceLockedRow DEF Respects
  <2>6. QED
    BY <2>3, <2>5
<1>5. ASSUME NEW ent \in Entities, Reduce(s, ev, n).rows[LockKey(ent)] # NoRow
      PROVE  Reduce(s, ev, n).rows[LockKey(ent)].state \in {"LOCKED", "UNLOCKED"}
  BY <1>1, <1>5, ReduceMarker DEF Respects
<1>6. QED
  BY <1>2, <1>3, <1>4, <1>5 DEF Respects

(* A session that does not move keeps what it knows, as long as nobody      *)
(* writes the rows of its entities.                                        *)
LEMMA SessionStays ==
  ASSUME NEW v \in Writers, SessionRespects(v),
         pc'[v] = pc[v], req'[v] = req[v], local'[v] = local[v],
         \A k \in RowKeys : k[1] \in RefsOf(v) => tier0'[k] = tier0[k],
         RefsOf(v) \subseteq Entities
  PROVE  SessionRespects(v)'
<1>1. /\ RefsOf(v)' = RefsOf(v) /\ TargetsOf(v)' = TargetsOf(v)
      /\ LockKeysOf(v)' = LockKeysOf(v) /\ LoadedKeys(v)' = LoadedKeys(v)
  BY DEF LoadedKeys, LockKeysOf, TargetsOf, RefsOf, SemanticEvents
<1>2. \A ent \in RefsOf(v) : MarkedLocked(tier0', ent) <=> MarkedLocked(tier0, ent)
  BY LockKeyType DEF MarkedLocked, LockKey
<1>3. \A k \in RowKeys : k \in LoadedKeys(v) => tier0'[k] = tier0[k]
  BY LoadedOfRefs
<1>4. LocksLoaded(v) => LocksLoaded(v)'
  <2>1. \A k \in LockKeysOf(v) : k \in LoadedKeys(v)
    BY DEF LoadedKeys
  <2>2. QED
    BY <1>1, <1>2, <1>3, <2>1 DEF LocksLoaded
<1>5. Respects(v, local[v]) => Respects(v, local[v])'
  BY <1>1, <1>2, <1>3 DEF Respects
<1>6. QED
  BY <1>4, <1>5 DEF SessionRespects

LEMMA RefsAreEntities ==
  ASSUME NEW w \in Writers, TypeInv
  PROVE  RefsOf(w) \subseteq EntitiesOf(w) /\ EntitiesOf(w) \subseteq Entities
<1>1. req[w] \in Request \/ req[w] = NoRequest
  BY DEF TypeInv, TypeOK
<1>2. CASE req[w] \in Request
  BY <1>2, RequestBatch DEF RefsOf, EntitiesOf, SemanticEvents, Event
<1>3. CASE req[w] = NoRequest
  BY <1>3 DEF RefsOf, EntitiesOf, SemanticEvents, NoRequest
<1>4. QED
  BY <1>1, <1>2, <1>3

-----------------------------------------------------------------------------
(* A commit writes the rows of its own entities only, no locked one, and no *)
(* user's row but by a user's.                                             *)
LEMMA CommitRespects ==
  ASSUME TypeInv, DecisionInv, NEW w \in Writers, Commit(w)
  PROVE  /\ tier0' = PersistDelta(w) /\ mirror' = Materialize(w) /\ EndTxn(w)
         /\ \A k \in RowKeys : k[1] \notin RefsOf(w) => tier0'[k] = tier0[k]
         /\ \A k \in RowKeys : UserRow(tier0[k]) => UserRow(tier0'[k])
         /\ MarkersSayLocked'
         /\ \A ent \in Entities : MarkedLocked(tier0, ent) =>
              /\ MarkedLocked(tier0', ent)
              /\ \A k \in RowKeys : k[1] = ent /\ k # LockKey(ent) => tier0'[k] = tier0[k]
<1>1. /\ tier0' = PersistDelta(w) /\ mirror' = Materialize(w) /\ EndTxn(w)
      /\ pc[w] = "commit" /\ Respects(w, local[w])
  BY DEF Commit, DecisionInv, SessionRespects
<1>2. \A k \in RowKeys :
        tier0'[k] = IF local[w].rows[k] = NoRow \/ Droppable(k, local[w].rows[k])
                    THEN tier0[k] ELSE local[w].rows[k]
  BY <1>1 DEF PersistDelta
<1>3. \A k \in RowKeys : k[1] \notin RefsOf(w) => tier0'[k] = tier0[k]
  BY <1>1, <1>2, LoadedOfRefs DEF Respects
<1>4. \A k \in RowKeys : UserRow(tier0[k]) => UserRow(tier0'[k])
  BY <1>1, <1>2 DEF Respects
<1>5. ASSUME NEW ent \in Entities, tier0'[LockKey(ent)] # NoRow
      PROVE  tier0'[LockKey(ent)].state = "LOCKED"
  <2>1. LockKey(ent) \in RowKeys /\ LockKey(ent)[2] = "*LOCK*"
    BY LockKeyType DEF LockKey
  <2>2. CASE tier0'[LockKey(ent)] = tier0[LockKey(ent)]
    BY <1>5, <2>2 DEF DecisionInv, MarkersSayLocked
  <2>3. CASE tier0'[LockKey(ent)] # tier0[LockKey(ent)]
    BY <1>1, <1>2, <2>1, <2>3 DEF Respects, Droppable
  <2>4. QED
    BY <2>2, <2>3
<1>6. ASSUME NEW ent \in Entities, MarkedLocked(tier0, ent)
      PROVE  /\ MarkedLocked(tier0', ent)
             /\ \A k \in RowKeys : k[1] = ent /\ k # LockKey(ent) => tier0'[k] = tier0[k]
  <2>1. LockKey(ent) \in RowKeys
    BY LockKeyType
  <2>2. tier0'[LockKey(ent)] # NoRow
    BY <1>2, <1>6, <2>1 DEF MarkedLocked
  <2>3. ASSUME NEW k \in RowKeys, k[1] = ent, k # LockKey(ent)
        PROVE  tier0'[k] = tier0[k]
    <3>1. CASE ent \in RefsOf(w)
      BY <1>1, <1>2, <1>6, <2>3, <3>1 DEF Respects
    <3>2. CASE ent \notin RefsOf(w)
      BY <1>3, <2>3, <3>2
    <3>3. QED
      BY <3>1, <3>2
  <2>4. QED
    BY <1>5, <2>2, <2>3 DEF MarkedLocked
<1>7. QED
  BY <1>1, <1>3, <1>4, <1>5, <1>6 DEF MarkersSayLocked

(* No assertion about a locked entity reaches the mirror.                   *)
LEMMA LockedMirrorStays ==
  ASSUME TypeInv, DecisionInv, NEW w \in Writers, Commit(w),
         NEW f \in Facts, MarkedLocked(tier0, f[1])
  PROVE  mirror'[f] = mirror[f]
<1>1. f[1] \in Entities
  BY DEF Facts
<1>2. mirror' = Materialize(w) /\ MarkedLocked(PersistDelta(w), f[1])
  BY <1>1, CommitRespects
<1>3. Asserting(w, f) = {}
  BY <1>2 DEF Asserting, FactOf
<1>4. Admissible(w, f) = {}
  BY <1>3 DEF Admissible, ByUser
<1>5. QED
  BY <1>2, <1>4 DEF Materialize

(* A user's mirror row is replaced by a user's assertion only.              *)
LEMMA MirrorUserStays ==
  ASSUME TypeInv, NEW w \in Writers, Commit(w), NEW f \in Facts,
         mirror[f] # NoRow, mirror[f].authority = "USER_OVERRIDE"
  PROVE  mirror'[f] # NoRow /\ mirror'[f].authority = "USER_OVERRIDE"
<1> DEFINE i == CHOOSE i \in Admissible(w, f) : \A j \in Admissible(w, f) : j <= i
<1>1. mirror' = Materialize(w) /\ pc[w] = "commit"
  BY DEF Commit
<1>2. CASE Admissible(w, f) = {}
  BY <1>1, <1>2 DEF Materialize
<1>3. CASE Admissible(w, f) # {}
  <2>1. /\ req[w] \in Request /\ seqs[w] \in Seq(Nat)
        /\ Len(seqs[w]) = Len(req[w].batch)
    BY <1>1 DEF TypeInv, TypeOK, WellFormed
  <2>2. Admissible(w, f) \in SUBSET (1..Len(req[w].batch))
    BY <2>1, RequestBatch DEF Admissible, ByUser, Asserting
  <2>3. i \in Admissible(w, f)
    BY <1>3, <2>1, <2>2, RequestBatch, GreatestExists
  <2>4. req[w].batch[i] \in Event /\ seqs[w][i] \in Nat
    <3>1. i \in 1..Len(req[w].batch)
      BY <2>2, <2>3
    <3>2. QED
      BY <2>1, <3>1, RequestBatch
  <2>5. req[w].batch[i].auth = "USER_OVERRIDE"
    BY <2>3 DEF Admissible, ByUser
  <2>6. mirror'[f] = [authority |-> req[w].batch[i].auth, seq |-> seqs[w][i]]
    BY <1>1, <1>3 DEF Materialize
  <2>7. mirror'[f] \in [authority: Authorities, seq: Nat]
    BY <2>4, <2>6 DEF Event
  <2>8. QED
    BY <2>5, <2>6, <2>7, LedgerConstants
<1>4. QED
  BY <1>2, <1>3

LEMMA InitDecision == Init => DecisionInv
BY LockKeyType DEF Init, DecisionInv, MarkersSayLocked, SessionRespects, EmptyState

LEMMA NextDecision ==
  ASSUME TypeInv, DecisionInv, EntitiesApart, [Next]_vars,
         \A w \in Writers : \A r \in Requests[w] : UnlocksApart(r.batch)
  PROVE  DecisionInv'
<1>1. ASSUME NEW w \in Writers, NEW v \in Writers, v # w, Step(w)
      PROVE  pc'[v] = pc[v] /\ req'[v] = req[v] /\ local'[v] = local[v]
  BY <1>1 DEF Step, Begin, CheckKey, CheckVersion, AllocateSeq, InsertEvent, LoadLocks,
     LoadRows, Fold, Commit, Abort, EndTxn, Goto, TypeInv, TypeOK
<1>2. ASSUME NEW w \in Writers, EndTxn(w)
      PROVE  SessionRespects(w)'
  BY <1>2 DEF EndTxn, SessionRespects, TypeInv, TypeOK
<1>3. ASSUME NEW w \in Writers, UNCHANGED tier0, Step(w), SessionRespects(w)'
      PROVE  DecisionInv'
  <2>1. ASSUME NEW v \in Writers, v # w
        PROVE  SessionRespects(v)'
    BY <1>1, <1>3, <2>1, SessionStays, RefsAreEntities DEF DecisionInv
  <2>2. QED
    BY <1>3, <2>1 DEF DecisionInv, MarkersSayLocked
<1>4. ASSUME NEW w \in Writers, Begin(w)
      PROVE  DecisionInv'
  <2>1. PICK r \in Requests[w] : req' = [req EXCEPT ![w] = r]
    BY <1>4 DEF Begin
  <2>2. req'[w] = r /\ pc'[w] = "key" /\ tier0' = tier0
    BY <1>4, <2>1 DEF Begin, Goto, TypeInv, TypeOK, storage
  <2>3. SessionRespects(w)'
    BY <2>2 DEF SessionRespects
  <2>4. QED
    BY <1>3, <1>4, <2>2, <2>3 DEF Step
<1>5. ASSUME NEW w \in Writers,
             CheckKey(w) \/ CheckVersion(w) \/ AllocateSeq(w) \/ InsertEvent(w) \/ Abort(w)
      PROVE  DecisionInv'
  <2>1. tier0' = tier0 /\ Step(w)
    BY <1>5 DEF CheckKey, CheckVersion, AllocateSeq, InsertEvent, Abort, storage, Step
  <2>2. CASE EndTxn(w)
    BY <1>2, <1>3, <2>1, <2>2
  <2>3. CASE /\ pc[w] # "idle" /\ pc'[w] \notin {"rows", "fold", "commit"}
             /\ req'[w] = req[w]
    BY <1>3, <2>1, <2>3 DEF DecisionInv, SessionRespects
  <2>4. QED
    BY <1>5, <2>2, <2>3 DEF CheckKey, CheckVersion, AllocateSeq, InsertEvent, Abort, Goto,
       TypeInv, TypeOK
<1>6. ASSUME NEW w \in Writers, LoadLocks(w)
      PROVE  DecisionInv'
  <2>1. /\ tier0' = tier0 /\ req' = req /\ pc[w] = "locks" /\ pc'[w] = "rows"
        /\ local'[w] = [rows  |-> [k \in RowKeys |->
                                     IF k \in LockKeysOf(w) THEN tier0[k] ELSE NoRow],
                        locks |-> [ent \in Entities |->
                                     ent \in RefsOf(w) /\ MarkedLocked(tier0, ent)]]
    BY <1>6 DEF LoadLocks, LockKeysOf, Goto, TypeInv, TypeOK, storage
  <2>2. /\ RefsOf(w)' = RefsOf(w) /\ LockKeysOf(w)' = LockKeysOf(w)
        /\ RefsOf(w) \subseteq Entities
    BY <2>1, RefsAreEntities DEF RefsOf, LockKeysOf, SemanticEvents
  <2>3. LocksLoaded(w)'
    <3>1. \A k \in RowKeys :
            local'[w].rows[k] = IF k \in LockKeysOf(w) THEN tier0'[k] ELSE NoRow
      BY <2>1
    <3>2. \A ent \in RefsOf(w) : local'[w].locks[ent] <=> MarkedLocked(tier0', ent)
      <4> TAKE ent \in RefsOf(w)
      <4>1. local'[w].locks = [e \in Entities |-> e \in RefsOf(w) /\ MarkedLocked(tier0, e)]
        BY <2>1
      <4>2. ent \in Entities
        BY <2>2
      <4>3. QED
        BY <2>1, <4>1, <4>2, Zenon
    <3>3. QED
      BY <2>2, <3>1, <3>2 DEF LocksLoaded
  <2>4. SessionRespects(w)'
    BY <2>1, <2>3 DEF DecisionInv, SessionRespects
  <2>5. QED
    BY <1>3, <1>6, <2>1, <2>4 DEF Step
<1>7. ASSUME NEW w \in Writers, LoadRows(w)
      PROVE  DecisionInv'
  <2>1. /\ tier0' = tier0 /\ req' = req /\ pc[w] = "rows" /\ pc'[w] = "fold"
        /\ local'[w].locks = local[w].locks
        /\ local'[w].rows = [k \in RowKeys |->
                               IF k \in TargetsOf(w) THEN tier0[k] ELSE local[w].rows[k]]
    BY <1>7 DEF LoadRows, Goto, TypeInv, TypeOK, storage
  <2>2. LocksLoaded(w) /\ UnlocksApart(req[w].batch)
    BY <2>1 DEF DecisionInv, SessionRespects
  <2>3. \A k \in RowKeys :
          local'[w].rows[k] = IF k \in LoadedKeys(w) THEN tier0[k] ELSE NoRow
    BY <2>1, <2>2 DEF LocksLoaded, LoadedKeys
  <2>4. /\ RefsOf(w)' = RefsOf(w) /\ LoadedKeys(w)' = LoadedKeys(w)
        /\ RefsOf(w) \subseteq Entities
    BY <2>1, RefsAreEntities DEF RefsOf, SemanticEvents, LoadedKeys, LockKeysOf, TargetsOf
  <2>5. \A ent \in Entities : local'[w].rows[LockKey(ent)] # NoRow =>
          local'[w].rows[LockKey(ent)].state \in {"LOCKED", "UNLOCKED"}
    BY <2>3, LockKeyType DEF DecisionInv, MarkersSayLocked
  <2>6. \A ent \in RefsOf(w) : MarkedLocked(tier0, ent) => local'[w].locks[ent]
    BY <2>1, <2>2 DEF LocksLoaded
  <2>7. Respects(w, local[w])'
    BY <2>1, <2>3, <2>4, <2>5, <2>6 DEF Respects
  <2>8. SessionRespects(w)'
    BY <2>1, <2>2, <2>7 DEF SessionRespects
  <2>9. QED
    BY <1>3, <1>7, <2>1, <2>8 DEF Step
<1>8. ASSUME NEW w \in Writers, Fold(w)
      PROVE  DecisionInv'
  <2> DEFINE i == folded[w] + 1
             ev == req[w].batch[i]
  <2>1. /\ tier0' = tier0 /\ req' = req /\ pc[w] = "fold" /\ pc'[w] \in {"fold", "commit"}
        /\ \/ local'[w] = local[w]
           \/ IsSemantic(ev) /\ local'[w] = Reduce(local[w], ev, seqs[w][i])
    BY <1>8 DEF Fold, Goto, TypeInv, TypeOK, storage
  <2>2. /\ req[w] \in Request /\ seqs[w] \in Seq(Nat) /\ local[w] \in ReducedState
        /\ folded[w] \in Nat /\ folded[w] < Len(req[w].batch)
        /\ Len(seqs[w]) = Len(req[w].batch)
    BY <2>1 DEF TypeInv, TypeOK, WellFormed, ReducedState
  <2>3. i \in DOMAIN req[w].batch /\ seqs[w][i] \in Nat
    BY <2>2, RequestBatch
  <2>4. Respects(w, local[w]) /\ UnlocksApart(req[w].batch)
    BY <2>1 DEF DecisionInv, SessionRespects
  <2>5. Respects(w, local'[w])
    <3>1. IsSemantic(ev) => Respects(w, Reduce(local[w], ev, seqs[w][i]))
      BY <2>2, <2>3, <2>4, ReduceRespects
    <3>2. QED
      BY <2>1, <2>4, <3>1
  <2>6. Respects(w, local[w])'
    <3>1. RefsOf(w)' = RefsOf(w) /\ LoadedKeys(w)' = LoadedKeys(w)
      BY <2>1 DEF RefsOf, SemanticEvents, LoadedKeys, LockKeysOf, TargetsOf
    <3>2. QED
      BY <2>1, <2>5, <3>1 DEF Respects
  <2>7. SessionRespects(w)'
    BY <2>1, <2>4, <2>6 DEF SessionRespects
  <2>8. QED
    BY <1>3, <1>8, <2>1, <2>7 DEF Step
<1>9. ASSUME NEW w \in Writers, Commit(w)
      PROVE  DecisionInv'
  <2>1. SessionRespects(w)' /\ MarkersSayLocked'
    BY <1>2, <1>9, CommitRespects
  <2>2. ASSUME NEW v \in Writers, v # w
        PROVE  SessionRespects(v)'
    <3>1. RefsOf(v) \cap RefsOf(w) = {} /\ RefsOf(v) \subseteq Entities
      BY <2>2, RefsAreEntities DEF EntitiesApart
    <3>2. \A k \in RowKeys : k[1] \in RefsOf(v) => tier0'[k] = tier0[k]
      BY <1>9, <3>1, CommitRespects
    <3>3. QED
      BY <1>1, <1>9, <2>2, <3>1, <3>2, SessionStays DEF DecisionInv, Step
  <2>3. QED
    BY <2>1, <2>2 DEF DecisionInv
<1>10. CASE UNCHANGED vars
  BY <1>10, SessionStays, RefsAreEntities DEF vars, storage, session, DecisionInv, MarkersSayLocked
<1>11. QED
  BY <1>4, <1>5, <1>6, <1>7, <1>8, <1>9, <1>10 DEF Next, Step

(* While no two appends in flight address one entity, and Unlocked events   *)
(* come in batches without change events, what a user decided stands: no   *)
(* append takes a user's Tier-0 row or mirror row from the user, and none  *)
(* but a lock event moves a row of a locked entity.                        *)
THEOREM UserDecisionsAreKept ==
  ASSUME \A w \in Writers : \A r \in Requests[w] : UnlocksApart(r.batch)
  PROVE  Spec /\ []EntitiesApart => UserDecisionsStand
<1>1. TypeInv /\ DecisionInv /\ EntitiesApart /\ [Next]_vars => DecisionInv'
  BY NextDecision
<1>2. ASSUME TypeInv, DecisionInv, [Next]_vars
      PROVE  (UNCHANGED <<tier0, mirror>>) \/ \E w \in Writers : Commit(w)
  BY <1>2 DEF Next, Step, Begin, CheckKey, CheckVersion, AllocateSeq, InsertEvent,
     LoadLocks, LoadRows, Fold, Abort, storage, vars
<1>3. TypeInv /\ DecisionInv /\ [Next]_vars =>
        [\A k \in RowKeys :
           tier0[k] # NoRow /\ tier0[k].authority = "USER_OVERRIDE" =>
             tier0'[k] # NoRow /\ tier0'[k].authority = "USER_OVERRIDE"]_tier0
  BY <1>2, CommitRespects DEF UserRow
<1>4. TypeInv /\ DecisionInv /\ [Next]_vars =>
        [\A ent \in Entities : MarkedLocked(tier0, ent) =>
           /\ \A k \in RowKeys : k[1] = ent /\ k # LockKey(ent) => tier0'[k] = tier0[k]
           /\ \A f \in Facts : f[1] = ent => mirror'[f] = mirror[f]]_<<tier0, mirror>>
  BY <1>2, CommitRespects, LockedMirrorStays
<1>5. TypeInv /\ DecisionInv /\ [Next]_vars =>
        [\A f \in Facts :
           mirror[f] # NoRow /\ mirror[f].authority = "USER_OVERRIDE" =>
             mirror'[f] # NoRow /\ mirror'[f].authority = "USER_OVERRIDE"]_mirror
  BY <1>2, MirrorUserStays
<1>6. QED
  BY <1>1, <1>3, <1>4, <1>5, InitType, NextType, InitDecision, PTL
     DEF Spec, UserDecisionsStand, UserOverrideWins, LockedRowsFrozen, MirrorKeepsUser

-----------------------------------------------------------------------------
(* Appends one at a time.                                                  *)
AppendsAlone ==
  \A v, w \in Writers : pc[v] # "idle" /\ pc[w] # "idle" => v = w

(* Seqs are drawn in order, above all that is committed.                    *)
DrawnAbove(w) ==
  \A i \in 1..Len(seqs[w]) : /\ seqs[w][i] < nextSeq
                             /\ \A r \in ledger : r.seq < seqs[w][i]
                             /\ \A j \in 1..Len(seqs[w]) : i < j => seqs[w][i] < seqs[w][j]

TailInv ==
  /\ nextSeq >= 1
  /\ \A r \in ledger : r.seq < nextSeq
  /\ \A w \in Writers : DrawnAbove(w)

LEMMA InitTail == Init => TailInv
BY DEF Init, TailInv, DrawnAbove

LEMMA CommitKeepsTail ==
  ASSUME TypeInv, TailInv, NEW w \in Writers, Commit(w)
  PROVE  \A r \in ledger' : r.seq < nextSeq'
<1>1. /\ pc[w] = "commit" /\ ledger' = ledger \cup RowsOf(w) /\ nextSeq' = nextSeq
  BY DEF Commit
<1>2. /\ req[w] \in Request /\ seqs[w] \in Seq(Nat) /\ Len(seqs[w]) = Len(req[w].batch)
  BY <1>1 DEF TypeInv, TypeOK, WellFormed
<1>3. \A r \in RowsOf(w) : \E i \in 1..Len(seqs[w]) : r.seq = seqs[w][i]
  <2> TAKE r \in RowsOf(w)
  <2>1. PICK i \in DOMAIN req[w].batch :
          r = [seq |-> seqs[w][i], ev |-> req[w].batch[i],
               key |-> IF i = 1 THEN req[w].key ELSE None]
    BY DEF RowsOf
  <2>2. i \in 1..Len(seqs[w])
    BY <1>2, RequestBatch
  <2>3. QED
    BY <2>1, <2>2
<1>4. QED
  BY <1>1, <1>3 DEF TailInv, DrawnAbove

LEMMA NextTail ==
  ASSUME TypeInv, TailInv, AppendsAlone, [Next]_vars
  PROVE  TailInv'
<1>1. ASSUME NEW w \in Writers, EndTxn(w)
      PROVE  DrawnAbove(w)'
  <2>1. seqs'[w] = <<>> /\ pc'[w] = "idle" /\ Len(seqs'[w]) = 0
    BY <1>1 DEF EndTxn, TypeInv, TypeOK
  <2>2. QED
    BY <2>1 DEF DrawnAbove
<1>2. ASSUME NEW w \in Writers, ledger' = ledger, nextSeq' = nextSeq,
             DrawnAbove(w)',
             \A v \in Writers \ {w} : /\ pc'[v] = pc[v] /\ req'[v] = req[v]
                                      /\ seqs'[v] = seqs[v]
      PROVE  TailInv'
  BY <1>2 DEF TailInv, DrawnAbove
<1>3. ASSUME NEW w \in Writers, NEW v \in Writers \ {w}, Step(w)
      PROVE  pc'[v] = pc[v] /\ req'[v] = req[v] /\ seqs'[v] = seqs[v]
  BY <1>3 DEF Step, Begin, CheckKey, CheckVersion, AllocateSeq, InsertEvent, LoadLocks,
     LoadRows, Fold, Commit, Abort, EndTxn, Goto, TypeInv, TypeOK
<1>4. ASSUME NEW w \in Writers, ledger' = ledger, nextSeq' = nextSeq, EndTxn(w), Step(w)
      PROVE  TailInv'
  BY <1>1, <1>2, <1>3, <1>4
<1>5. ASSUME NEW w \in Writers, ledger' = ledger, nextSeq' = nextSeq, Step(w),
             seqs' = seqs
      PROVE  TailInv'
  BY <1>2, <1>3, <1>5 DEF TailInv, DrawnAbove
<1>6. ASSUME NEW w \in Writers,
             Begin(w) \/ ((CheckKey(w) \/ CheckVersion(w)) /\ ~EndTxn(w))
      PROVE  TailInv'
  <2>1. ledger' = ledger /\ nextSeq' = nextSeq /\ seqs' = seqs /\ Step(w)
    BY <1>6 DEF Begin, CheckKey, CheckVersion, storage, Step
  <2>2. QED
    BY <1>5, <2>1
<1>7. ASSUME NEW w \in Writers, AllocateSeq(w)
      PROVE  TailInv'
  <2>1. /\ nextSeq \in Nat /\ seqs[w] \in Seq(Nat) /\ nextSeq' = nextSeq + 1
        /\ seqs'[w] = Append(seqs[w], nextSeq) /\ UNCHANGED <<ledger, req>>
        /\ Step(w)
        /\ \A v \in Writers \ {w} : seqs'[v] = seqs[v] /\ pc'[v] = pc[v]
    BY <1>7 DEF AllocateSeq, Goto, Step, TypeInv, TypeOK
  <2>2. /\ Len(seqs'[w]) = Len(seqs[w]) + 1 /\ Len(seqs[w]) \in Nat
        /\ seqs'[w][Len(seqs[w]) + 1] = nextSeq
        /\ \A i \in 1..Len(seqs[w]) : seqs'[w][i] = seqs[w][i] /\ seqs[w][i] \in Nat
    BY <2>1
  <2>3. DrawnAbove(w)'
    BY <2>1, <2>2 DEF TailInv, DrawnAbove
  <2>4. ASSUME NEW v \in Writers \ {w}
        PROVE  DrawnAbove(v)'
    <3>1. \A i \in 1..Len(seqs[v]) : seqs[v][i] \in Nat
      BY DEF TypeInv, TypeOK
    <3>2. QED
      BY <2>1, <3>1 DEF TailInv, DrawnAbove
  <2>5. \A r \in ledger' : r.seq < nextSeq'
    BY <2>1 DEF TailInv, TypeInv, TypeOK, LedgerRow
  <2>6. QED
    BY <2>1, <2>3, <2>4, <2>5 DEF TailInv
<1>8. ASSUME NEW w \in Writers, Commit(w)
      PROVE  TailInv'
  <2>1. EndTxn(w) /\ pc[w] = "commit" /\ nextSeq' = nextSeq
    BY <1>8 DEF Commit
  <2>2. ASSUME NEW v \in Writers \ {w}
        PROVE  DrawnAbove(v)'
    <3>1. pc[v] = "idle"
      BY <2>1 DEF AppendsAlone
    <3>2. seqs'[v] = <<>> /\ pc'[v] = "idle" /\ Len(seqs'[v]) = 0
      BY <1>3, <1>8, <3>1 DEF TypeInv, WellFormed, Step
    <3>3. QED
      BY <3>2 DEF DrawnAbove
  <2>3. QED
    BY <1>1, <1>8, <2>1, <2>2, CommitKeepsTail DEF TailInv
<1>9. ASSUME NEW w \in Writers,
              LoadLocks(w) \/ LoadRows(w) \/ Fold(w) \/ (InsertEvent(w) /\ ~EndTxn(w))
       PROVE  TailInv'
  <2>1. /\ ledger' = ledger /\ nextSeq' = nextSeq /\ seqs' = seqs /\ Step(w)
    BY <1>9 DEF LoadLocks, LoadRows, Fold, InsertEvent, storage, Step
  <2>2. QED
    BY <1>5, <2>1
<1>10. ASSUME NEW w \in Writers,
              Abort(w) \/ ((CheckKey(w) \/ CheckVersion(w) \/ InsertEvent(w)) /\ EndTxn(w))
       PROVE  TailInv'
  <2>1. ledger' = ledger /\ nextSeq' = nextSeq /\ EndTxn(w) /\ Step(w)
    BY <1>10 DEF Abort, CheckKey, CheckVersion, InsertEvent, storage, Step
  <2>2. QED
    BY <1>4, <2>1
<1>11. CASE UNCHANGED vars
  BY <1>11 DEF vars, storage, session, TailInv, DrawnAbove
<1>12. QED
  BY <1>6, <1>7, <1>8, <1>9, <1>10, <1>11 DEF Next, Step

-----------------------------------------------------------------------------
(* Inline Tier-0 and replay.                                               *)

Concerns(ev, ent) == IsSemantic(ev) /\ ev.ent = ent

(* The rows of the first n events of w's batch.                             *)
RowOf(w, i) ==
  [seq |-> seqs[w][i], ev |-> req[w].batch[i],
   key |-> IF i = 1 THEN req[w].key ELSE None]

FirstRows(w, n) == {RowOf(w, i) : i \in 1..n}

(* Seqs are drawn once, and those of an append in flight lie above all that *)
(* is committed about its entities.                                        *)
SeqsInOrder(w) ==
  /\ \A i \in 1..Len(seqs[w]) :
       /\ seqs[w][i] \in 1..MaxSeq /\ seqs[w][i] < nextSeq
       /\ \A j \in 1..Len(seqs[w]) : i < j => seqs[w][i] < seqs[w][j]
       /\ \A r \in ledger : r.seq # seqs[w][i]
       /\ \A r \in ledger : (\E ent \in RefsOf(w) : Concerns(r.ev, ent)) => r.seq < seqs[w][i]

SeqInv ==
  /\ \A r \in ledger : r.seq \in 1..MaxSeq /\ r.seq < nextSeq
  /\ \A r1, r2 \in ledger : r1.seq = r2.seq => r1 = r2
  /\ nextSeq >= 1
  /\ \A w \in Writers : SeqsInOrder(w)
  /\ \A v, w \in Writers : v # w =>
       \A i \in 1..Len(seqs[v]), j \in 1..Len(seqs[w]) : seqs[v][i] # seqs[w][j]

(* The lock map and the marker of an entity that no event has unlocked.    *)
MarkerIsLock(ent, t) ==
  /\ t.rows[LockKey(ent)] # NoRow => t.rows[LockKey(ent)].state = "LOCKED"
  /\ t.locks[ent] <=> t.rows[LockKey(ent)] # NoRow

(* Of an entity's rows in the full state t, the state s has those of K, and *)
(* t0 stores the others.                                                   *)
PartOf(ent, K, s, t, t0) ==
  /\ MarkerIsLock(ent, t)
  /\ s.locks[ent] <=> t.locks[ent]
  /\ \A k \in RowKeys : k[1] = ent =>
       IF k \in K THEN s.rows[k] = t.rows[k] /\ (t.rows[k] = NoRow => t0[k] = NoRow)
                  ELSE s.rows[k] = NoRow /\ t.rows[k] = t0[k]

(* The stored rows of an entity are those of the state t.                  *)
StoredAs(ent, t) ==
  /\ MarkerIsLock(ent, t)
  /\ \A k \in RowKeys : k[1] = ent => tier0[k] = t.rows[k]

UnlocksIn(w, ent) ==
  \E i \in DOMAIN req[w].batch : req[w].batch[i].type = "Unlocked" /\ req[w].batch[i].ent = ent

FoldsAsReplay(w) ==
  /\ \A k \in RowKeys : k \notin LoadedKeys(w) => local[w].rows[k] = NoRow
  /\ \A ent \in RefsOf(w) : ~UnlockedIn(ent) /\ ~UnlocksIn(w, ent) =>
       PartOf(ent, LoadedKeys(w), local[w], ReplayOf(ledger \cup FirstRows(w, folded[w])), tier0)

FoldInv ==
  /\ \A ent \in Entities : ~UnlockedIn(ent) => StoredAs(ent, Replay)
  /\ \A w \in Writers : /\ pc[w] = "rows" => LocksLoaded(w)
                        /\ pc[w] \in {"fold", "commit"} => FoldsAsReplay(w)

-----------------------------------------------------------------------------
(* A non-empty set of naturals has a least element.                        *)
LEMMA LeastExists ==
  ASSUME NEW S \in SUBSET Nat, S # {}
  PROVE  \E n \in S : \A m \in S : n <= m
<1>1. IsWellFoundedOn(OpToRel(<, Nat), Nat)
  BY NatLessThanWellFounded
<1>2. PICK n \in S : \A m \in S : ~ (<<m, n>> \in OpToRel(<, Nat))
  BY <1>1, WFMin
<1>3. \A m \in S : ~ (m < n)
  BY <1>2 DEF OpToRel
<1>4. QED
  BY <1>3

-----------------------------------------------------------------------------
(* The fold of a set of rows.                                              *)
NextState(rows, s, n) ==
  IF \E r \in rows : r.seq = n THEN Reduce(s, RowAt(rows, n).ev, n) ELSE s

IsFold(f, rows, N) ==
  f = [n \in 0..N |-> IF n = 0 THEN EmptyState ELSE NextState(rows, f[n - 1], n)]

LEMMA FoldExists ==
  ASSUME NEW rows
  PROVE  \A N \in Nat : \E f : IsFold(f, rows, N)
<1> DEFINE S == {N \in Nat : ~ \E f : IsFold(f, rows, N)}
<1> SUFFICES ASSUME S # {} PROVE FALSE
  OBVIOUS
<1>1. PICK N \in S : \A M \in S : N <= M
  BY LeastExists
<1>2. CASE N = 0
  <2>1. PICK f : f = [n \in 0..N |-> EmptyState]
    OBVIOUS
  <2>2. IsFold(f, rows, N)
    BY <1>2, <2>1 DEF IsFold
  <2>3. QED
    BY <1>1, <2>2
<1>3. CASE N # 0
  <2>1. N \in Nat /\ N - 1 \in Nat /\ N - 1 \notin S
    BY <1>1, <1>3
  <2>2. PICK f : IsFold(f, rows, N - 1)
    BY <2>1
  <2>3. \A n \in 0..(N - 1) : f[n] = IF n = 0 THEN EmptyState ELSE NextState(rows, f[n - 1], n)
    BY <2>2, Zenon DEF IsFold
  <2>4. PICK g : g = [n \in 0..N |-> IF n = N THEN NextState(rows, f[N - 1], N) ELSE f[n]]
    OBVIOUS
  <2>5. \A n \in 0..N : n # N => n \in 0..(N - 1) /\ g[n] = f[n]
    BY <2>1, <2>4
  <2>6. \A n \in 0..N : n # 0 => n - 1 \in 0..N /\ g[n - 1] = f[n - 1]
    BY <2>1, <2>5
  <2>7. \A n \in 0..N : g[n] = IF n = 0 THEN EmptyState ELSE NextState(rows, g[n - 1], n)
    <3> TAKE n \in 0..N
    <3>1. CASE n = N
      BY <1>3, <2>4, <2>6, <3>1
    <3>2. CASE n # N
      BY <2>3, <2>5, <2>6, <3>2
    <3>3. QED
      BY <3>1, <3>2
  <2>8. IsFold(g, rows, N)
    BY <2>4, <2>7 DEF IsFold
  <2>9. QED
    BY <1>1, <2>8
<1>4. QED
  BY <1>2, <1>3

LEMMA ReplayFold ==
  ASSUME NEW rows
  PROVE  /\ ReplayStates(rows)[0] = EmptyState
         /\ \A n \in 1..MaxSeq :
              ReplayStates(rows)[n] = NextState(rows, ReplayStates(rows)[n - 1], n)
<1> DEFINE f == ReplayStates(rows)
<1>1. f = CHOOSE g : IsFold(g, rows, MaxSeq)
  BY DEF ReplayStates, IsFold, NextState
<1>2. IsFold(f, rows, MaxSeq)
  BY <1>1, FoldExists, LedgerConstants, Zenon
<1> HIDE DEF f
<1>3. \A n \in 0..MaxSeq : f[n] = IF n = 0 THEN EmptyState ELSE NextState(rows, f[n - 1], n)
  BY <1>2, Zenon DEF IsFold
<1>4. 0 \in 0..MaxSeq /\ \A n \in 1..MaxSeq : n \in 0..MaxSeq /\ n # 0
  BY LedgerConstants
<1>5. f[0] = EmptyState /\ \A n \in 1..MaxSeq : f[n] = NextState(rows, f[n - 1], n)
  BY <1>3, <1>4
<1>6. QED
  BY <1>5 DEF f

-----------------------------------------------------------------------------
(* An entity's rows and lock depend on the events that concern it only.    *)
SameOn(ent, s, t) ==
  /\ s.locks[ent] <=> t.locks[ent]
  /\ \A k \in RowKeys : k[1] = ent => s.rows[k] = t.rows[k]

LEMMA WritesOwn ==
  ASSUME NEW ev \in Event, NEW k \in RowKeys, Writes(ev, k)
  PROVE  k[1] = ev.ent /\ IsSemantic(ev)
BY DEF Writes, LockKey, EventTarget, HasTarget, IsSemantic, LockTypes, ChangeTypes

LEMMA ReduceOther ==
  ASSUME NEW s \in ReducedState, NEW ev \in Event, NEW n \in Nat, NEW ent \in Entities,
         ~Concerns(ev, ent)
  PROVE  SameOn(ent, Reduce(s, ev, n), s)
<1>1. \A k \in RowKeys : k[1] = ent => Reduce(s, ev, n).rows[k] = s.rows[k]
  BY WritesOwn, ReduceBeside DEF Concerns
<1>2. Reduce(s, ev, n).locks[ent] <=> s.locks[ent]
  <2>1. CASE ev.type \in LockTypes
    <3>1. ev.ent # ent
      BY <2>1 DEF Concerns, IsSemantic, LockTypes
    <3>2. QED
      BY <2>1, <3>1 DEF Reduce, SetLock, ReducedState
  <2>2. CASE ev.type \notin LockTypes
    BY <2>2 DEF Reduce, Change
  <2>3. QED
    BY <2>1, <2>2
<1>3. QED
  BY <1>1, <1>2 DEF SameOn

(* What a change of one row comes to depends on its entity's lock and on it. *)
LEMMA ReduceRow ==
  ASSUME NEW s \in ReducedState, NEW t \in ReducedState, NEW ev \in Event, NEW n \in Nat,
         s.locks[ev.ent] <=> t.locks[ev.ent], NEW k \in RowKeys, s.rows[k] = t.rows[k]
  PROVE  Reduce(s, ev, n).rows[k] = Reduce(t, ev, n).rows[k]
<1>1. CASE ~Writes(ev, k)
  BY <1>1, ReduceBeside
<1>2. CASE ev.type \in LockTypes /\ k = LockKey(ev.ent)
  BY <1>2 DEF Reduce, SetLock, ReducedState
<1>3. CASE ev.type \notin LockTypes /\ HasTarget(ev) /\ k = EventTarget(ev)
  <2>1. CASE s.locks[ev.ent]
    BY <1>3, <2>1 DEF Reduce
  <2>2. CASE ~s.locks[ev.ent]
    BY <1>3, <2>2 DEF Reduce, Change, ReducedState
  <2>3. QED
    BY <2>1, <2>2
<1>4. HasTarget(ev) => ev.type \notin LockTypes
  BY DEF HasTarget, LockTypes, ChangeTypes
<1>5. QED
  BY <1>1, <1>2, <1>3, <1>4 DEF Writes

LEMMA ReduceLockMap ==
  ASSUME NEW s \in ReducedState, NEW t \in ReducedState, NEW ev \in Event, NEW n \in Nat,
         NEW ent \in Entities, s.locks[ent] <=> t.locks[ent]
  PROVE  Reduce(s, ev, n).locks[ent] <=> Reduce(t, ev, n).locks[ent]
<1>1. CASE ev.type \in LockTypes
  BY <1>1 DEF Reduce, SetLock, ReducedState
<1>2. CASE ev.type \notin LockTypes
  BY <1>2 DEF Reduce, Change
<1>3. QED
  BY <1>1, <1>2

LEMMA ReduceSame ==
  ASSUME NEW s \in ReducedState, NEW t \in ReducedState, NEW ev \in Event, NEW n \in Nat,
         NEW ent \in Entities, SameOn(ent, s, t)
  PROVE  SameOn(ent, Reduce(s, ev, n), Reduce(t, ev, n))
<1>1. CASE Concerns(ev, ent)
  BY <1>1, ReduceRow, ReduceLockMap DEF SameOn, Concerns
<1>2. CASE ~Concerns(ev, ent)
  <2>1. SameOn(ent, Reduce(s, ev, n), s) /\ SameOn(ent, Reduce(t, ev, n), t)
    BY <1>2, ReduceOther
  <2>2. QED
    BY <2>1 DEF SameOn
<1>3. QED
  BY <1>1, <1>2

-----------------------------------------------------------------------------
(* Sets of rows with one row per seq.                                      *)
Log(rows) ==
  /\ rows \subseteq LedgerRow
  /\ \A r \in rows : r.seq \in 1..MaxSeq
  /\ \A r1, r2 \in rows : r1.seq = r2.seq => r1 = r2

LEMMA RowAtSeq ==
  ASSUME NEW rows, Log(rows), NEW r \in rows
  PROVE  RowAt(rows, r.seq) = r
BY Zenon DEF Log, RowAt

LEMMA NextStateRow ==
  ASSUME NEW rows, Log(rows), NEW s, NEW n
  PROVE  /\ \A r \in rows : r.seq = n => NextState(rows, s, n) = Reduce(s, r.ev, n)
         /\ (\A r \in rows : r.seq # n) => NextState(rows, s, n) = s
BY RowAtSeq DEF NextState

LEMMA NextStateType ==
  ASSUME NEW rows, Log(rows), NEW s \in ReducedState, NEW n \in Nat
  PROVE  NextState(rows, s, n) \in ReducedState
<1>1. CASE \E r \in rows : r.seq = n
  <2>1. PICK r \in rows : r.seq = n
    BY <1>1
  <2>2. NextState(rows, s, n) = Reduce(s, r.ev, n) /\ r.ev \in Event
    BY <2>1, NextStateRow DEF Log, LedgerRow
  <2>3. QED
    BY <2>2, ReduceType
<1>2. CASE \A r \in rows : r.seq # n
  BY <1>2, NextStateRow
<1>3. QED
  BY <1>1, <1>2

LEMMA ReplayTyped ==
  ASSUME NEW rows, Log(rows)
  PROVE  \A n \in 0..MaxSeq : ReplayStates(rows)[n] \in ReducedState
<1> DEFINE f == ReplayStates(rows)
           S == {n \in 0..MaxSeq : f[n] \notin ReducedState}
<1> SUFFICES ASSUME S # {} PROVE FALSE
  OBVIOUS
<1>0. S \in SUBSET Nat
  BY LedgerConstants
<1> HIDE DEF S
<1>1. PICK n \in S : \A m \in S : n <= m
  BY <1>0, LeastExists
<1> USE DEF S
<1>2. n # 0
  BY ReplayFold, EmptyStateType
<1>3. n \in 1..MaxSeq /\ n - 1 \in 0..MaxSeq /\ n - 1 \notin S
  BY <1>1, <1>2, LedgerConstants
<1>4. f[n] = NextState(rows, f[n - 1], n) /\ f[n - 1] \in ReducedState
  BY <1>3, ReplayFold
<1>5. QED
  BY <1>1, <1>3, <1>4, NextStateType

(* Two logs with the same rows of an entity up to a seq agree on it there.  *)
LEMMA ReplayAgrees ==
  ASSUME NEW a, Log(a), NEW b, Log(b), NEW ent \in Entities, NEW N \in 0..MaxSeq,
         \A r \in a \cup b : r.seq <= N /\ Concerns(r.ev, ent) => r \in a /\ r \in b
  PROVE  SameOn(ent, ReplayStates(a)[N], ReplayStates(b)[N])
<1> DEFINE f == ReplayStates(a)
           g == ReplayStates(b)
           S == {n \in 0..N : ~SameOn(ent, f[n], g[n])}
<1> SUFFICES ASSUME S # {} PROVE FALSE
  BY LedgerConstants
<1>0. S \in SUBSET Nat
  BY LedgerConstants
<1> HIDE DEF S
<1>1. PICK n \in S : \A m \in S : n <= m
  BY <1>0, LeastExists
<1> USE DEF S
<1>2. n # 0
  BY ReplayFold DEF SameOn
<1>3. n \in 1..MaxSeq /\ n - 1 \in 0..MaxSeq /\ SameOn(ent, f[n - 1], g[n - 1])
  BY <1>1, <1>2, LedgerConstants
<1>4. /\ f[n] = NextState(a, f[n - 1], n) /\ g[n] = NextState(b, g[n - 1], n)
      /\ f[n - 1] \in ReducedState /\ g[n - 1] \in ReducedState
  BY <1>3, ReplayFold, ReplayTyped
<1> HIDE DEF f, g
<1>5. ASSUME NEW r \in a, r.seq = n, Concerns(r.ev, ent)
      PROVE  FALSE
  <2>1. r \in b /\ r.ev \in Event
    BY <1>1, <1>5 DEF Log, LedgerRow
  <2>2. f[n] = Reduce(f[n - 1], r.ev, n) /\ g[n] = Reduce(g[n - 1], r.ev, n)
    BY <1>4, <1>5, <2>1, NextStateRow
  <2>3. QED
    BY <1>1, <1>3, <1>4, <2>1, <2>2, ReduceSame
<1>6. ASSUME NEW r \in b, r.seq = n, Concerns(r.ev, ent)
      PROVE  FALSE
  BY <1>1, <1>5, <1>6
<1>7. SameOn(ent, f[n], f[n - 1])
  <2>1. CASE \E r \in a : r.seq = n
    <3>1. PICK r \in a : r.seq = n
      BY <2>1
    <3>2. r.ev \in Event /\ ~Concerns(r.ev, ent)
      BY <1>5, <3>1 DEF Log, LedgerRow
    <3>3. f[n] = Reduce(f[n - 1], r.ev, n)
      BY <1>4, <3>1, NextStateRow
    <3>4. QED
      BY <1>3, <1>4, <3>2, <3>3, ReduceOther
  <2>2. CASE \A r \in a : r.seq # n
    <3>1. f[n] = f[n - 1]
      BY <1>4, <2>2, NextStateRow
    <3>2. QED
      BY <3>1 DEF SameOn
  <2>3. QED
    BY <2>1, <2>2
<1>8. SameOn(ent, g[n], g[n - 1])
  <2>1. CASE \E r \in b : r.seq = n
    <3>1. PICK r \in b : r.seq = n
      BY <2>1
    <3>2. r.ev \in Event /\ ~Concerns(r.ev, ent)
      BY <1>6, <3>1 DEF Log, LedgerRow
    <3>3. g[n] = Reduce(g[n - 1], r.ev, n)
      BY <1>4, <3>1, NextStateRow
    <3>4. QED
      BY <1>3, <1>4, <3>2, <3>3, ReduceOther
  <2>2. CASE \A r \in b : r.seq # n
    <3>1. g[n] = g[n - 1]
      BY <1>4, <2>2, NextStateRow
    <3>2. QED
      BY <3>1 DEF SameOn
  <2>3. QED
    BY <2>1, <2>2
<1>9. SameOn(ent, f[n], g[n])
  BY <1>3, <1>7, <1>8 DEF SameOn
<1>10. QED
  BY <1>1, <1>9

-----------------------------------------------------------------------------
LEMMA SameOnTrans ==
  ASSUME NEW ent, NEW s, NEW t, NEW u, SameOn(ent, s, t), SameOn(ent, t, u)
  PROVE  SameOn(ent, s, u)
BY DEF SameOn

LEMMA SameOnSym ==
  ASSUME NEW ent, NEW s, NEW t, SameOn(ent, s, t)
  PROVE  SameOn(ent, t, s)
BY DEF SameOn

(* After the last row of an entity the fold leaves the entity alone.        *)
LEMMA ReplayQuiet ==
  ASSUME NEW rows, Log(rows), NEW ent \in Entities, NEW m \in 0..MaxSeq, NEW N \in m..MaxSeq,
         \A r \in rows : Concerns(r.ev, ent) => r.seq <= m
  PROVE  SameOn(ent, ReplayStates(rows)[N], ReplayStates(rows)[m])
<1> DEFINE f == ReplayStates(rows)
           S == {n \in m..N : ~SameOn(ent, f[n], f[m])}
<1> SUFFICES ASSUME S # {} PROVE FALSE
  BY LedgerConstants
<1>0. S \in SUBSET Nat
  BY LedgerConstants
<1> HIDE DEF S
<1>1. PICK n \in S : \A k \in S : n <= k
  BY <1>0, LeastExists
<1> USE DEF S
<1>2. n # m
  BY DEF SameOn
<1>3. n \in 1..MaxSeq /\ n - 1 \in 0..MaxSeq /\ n > m /\ SameOn(ent, f[n - 1], f[m])
  BY <1>1, <1>2, LedgerConstants
<1>4. f[n] = NextState(rows, f[n - 1], n) /\ f[n - 1] \in ReducedState
  BY <1>3, ReplayFold, ReplayTyped
<1> HIDE DEF f
<1>5. SameOn(ent, f[n], f[n - 1])
  <2>1. CASE \E r \in rows : r.seq = n
    <3>1. PICK r \in rows : r.seq = n
      BY <2>1
    <3>2. r.ev \in Event /\ ~Concerns(r.ev, ent)
      BY <1>3, <3>1 DEF Log, LedgerRow
    <3>3. f[n] = Reduce(f[n - 1], r.ev, n)
      BY <1>4, <3>1, NextStateRow
    <3>4. QED
      BY <1>3, <1>4, <3>2, <3>3, ReduceOther
  <2>2. CASE \A r \in rows : r.seq # n
    <3>1. f[n] = f[n - 1]
      BY <1>4, <2>2, NextStateRow
    <3>2. QED
      BY <3>1 DEF SameOn
  <2>3. QED
    BY <2>1, <2>2
<1>6. QED
  BY <1>1, <1>3, <1>5, SameOnTrans

(* A row above all rows of an entity is folded last there.                  *)
LEMMA ReplayAppend ==
  ASSUME NEW rows, NEW r, Log(rows \cup {r}), NEW ent \in Entities,
         \A q \in rows : Concerns(q.ev, ent) => q.seq < r.seq
  PROVE  SameOn(ent, ReplayOf(rows \cup {r}), Reduce(ReplayOf(rows), r.ev, r.seq))
<1> DEFINE all == rows \cup {r}
           n   == r.seq
           f   == ReplayStates(rows)
           g   == ReplayStates(all)
<1>1. n \in 1..MaxSeq /\ n - 1 \in 0..MaxSeq /\ n \in 0..MaxSeq /\ MaxSeq \in n..MaxSeq
      /\ MaxSeq \in (n - 1)..MaxSeq /\ n \in Nat /\ MaxSeq \in 0..MaxSeq
  BY LedgerConstants DEF Log
<1>2. Log(rows) /\ r.ev \in Event /\ \A q \in all : q.seq \in Nat
  BY DEF Log, LedgerRow
<1>3. SameOn(ent, g[MaxSeq], g[n])
  <2>1. \A q \in all : Concerns(q.ev, ent) => q.seq <= n
    BY <1>1, <1>2
  <2>2. QED
    BY <1>1, <2>1, ReplayQuiet
<1>4. g[n] = Reduce(g[n - 1], r.ev, n)
  BY <1>1, ReplayFold, NextStateRow
<1>5. SameOn(ent, g[n - 1], f[n - 1])
  <2>1. \A q \in all \cup rows : q.seq <= n - 1 /\ Concerns(q.ev, ent) => q \in all /\ q \in rows
    BY <1>1
  <2>2. QED
    BY <1>1, <1>2, <2>1, ReplayAgrees
<1>6. SameOn(ent, f[n - 1], f[MaxSeq])
  <2>1. \A q \in rows : Concerns(q.ev, ent) => q.seq <= n - 1
    BY <1>1, <1>2
  <2>2. SameOn(ent, f[MaxSeq], f[n - 1])
    BY <1>1, <1>2, <2>1, ReplayQuiet
  <2>3. QED
    BY <2>2, SameOnSym
<1>7. g[n - 1] \in ReducedState /\ f[MaxSeq] \in ReducedState
  BY <1>1, <1>2, ReplayTyped
<1> HIDE DEF f, g, n, all
<1>8. SameOn(ent, g[n - 1], f[MaxSeq])
  BY <1>5, <1>6, SameOnTrans
<1>9. SameOn(ent, Reduce(g[n - 1], r.ev, n), Reduce(f[MaxSeq], r.ev, n))
  BY <1>1, <1>2, <1>7, <1>8, ReduceSame
<1>10. SameOn(ent, g[MaxSeq], Reduce(f[MaxSeq], r.ev, n))
  BY <1>3, <1>4, <1>9, SameOnTrans
<1>11. QED
  BY <1>10 DEF f, g, n, all, ReplayOf

LEMMA ReplayOfTyped ==
  ASSUME NEW rows, Log(rows)
  PROVE  ReplayOf(rows) \in ReducedState
<1>1. MaxSeq \in 0..MaxSeq
  BY LedgerConstants
<1>2. QED
  BY <1>1, ReplayTyped DEF ReplayOf

(* Rows that do not concern an entity do not move it.                       *)
LEMMA ReplayBeside ==
  ASSUME NEW a, NEW b, Log(a), Log(b), NEW ent \in Entities,
         \A r \in a \cup b : Concerns(r.ev, ent) => r \in a /\ r \in b
  PROVE  SameOn(ent, ReplayOf(a), ReplayOf(b))
<1>1. MaxSeq \in 0..MaxSeq
  BY LedgerConstants
<1>2. QED
  BY <1>1, ReplayAgrees DEF ReplayOf

-----------------------------------------------------------------------------
(* What an event that does not unlock the entity does to its part.          *)
LEMMA ReduceKeepsRow ==
  ASSUME NEW s \in ReducedState, NEW ev \in Event, NEW n \in Nat,
         NEW k \in RowKeys, s.rows[k] # NoRow
  PROVE  Reduce(s, ev, n).rows[k] # NoRow
<1>1. s.rows[k] \in Row /\ RowOrSeed(s.rows[k]) = s.rows[k]
  BY DEF ReducedState, RowOrSeed
<1>2. CASE ~Writes(ev, k)
  BY <1>2, ReduceBeside
<1>3. CASE ev.type \in LockTypes /\ k = LockKey(ev.ent)
  <2>1. Reduce(s, ev, n).rows[k] = LockMarker(s.rows[k], ev, n)
    BY <1>3 DEF Reduce, SetLock, ReducedState
  <2>2. LockMarker(s.rows[k], ev, n) \in Row
    BY <1>1 DEF LockMarker, Row, RowStates
  <2>3. QED
    BY <2>1, <2>2, AbsentIsNoRow
<1>4. CASE ev.type \notin LockTypes /\ HasTarget(ev) /\ k = EventTarget(ev)
  <2>1. CASE s.locks[ev.ent]
    BY <1>4, <2>1 DEF Reduce
  <2>2. CASE ~s.locks[ev.ent]
    <3>1. Reduce(s, ev, n).rows[k] = ApplyChange(s.rows[k], ev, n)
      BY <1>1, <1>4, <2>2 DEF Reduce, Change, ReducedState
    <3>2. QED
      BY <1>1, <3>1, ApplyChangeType, AbsentIsNoRow
  <2>3. QED
    BY <2>1, <2>2
<1>5. HasTarget(ev) => ev.type \notin LockTypes
  BY DEF HasTarget, LockTypes, ChangeTypes
<1>6. QED
  BY <1>2, <1>3, <1>4, <1>5 DEF Writes

LEMMA ReduceMarkerIsLock ==
  ASSUME NEW t \in ReducedState, NEW ev \in Event, NEW n \in Nat, NEW ent \in Entities,
         MarkerIsLock(ent, t), ~(ev.type = "Unlocked" /\ ev.ent = ent)
  PROVE  MarkerIsLock(ent, Reduce(t, ev, n))
<1>1. LockKey(ent) \in RowKeys
  BY LockKeyType
<1>2. ~(HasTarget(ev) /\ LockKey(ent) = EventTarget(ev))
  BY NonesAreNotValues DEF LockKey, EventTarget, PseudoPredicate, Event
<1>3. CASE ev.type \in LockTypes /\ ev.ent = ent
  <2>1. ev.type = "Locked"
    BY <1>3 DEF LockTypes
  <2>2. /\ Reduce(t, ev, n).rows[LockKey(ent)] = LockMarker(t.rows[LockKey(ent)], ev, n)
        /\ Reduce(t, ev, n).locks[ent]
    BY <1>1, <1>3, <2>1 DEF Reduce, SetLock, ReducedState
  <2>3. RowOrSeed(t.rows[LockKey(ent)]) \in Row
    BY <1>1, SeedType DEF ReducedState
  <2>4. /\ LockMarker(t.rows[LockKey(ent)], ev, n) \in Row
        /\ LockMarker(t.rows[LockKey(ent)], ev, n).state = "LOCKED"
    BY <2>1, <2>3 DEF LockMarker, Row, RowStates
  <2>5. QED
    BY <2>2, <2>4, AbsentIsNoRow DEF MarkerIsLock
<1>4. CASE ~(ev.type \in LockTypes /\ ev.ent = ent)
  <2>1. ~Writes(ev, LockKey(ent))
    BY <1>2, <1>4 DEF Writes, LockKey
  <2>2. Reduce(t, ev, n).rows[LockKey(ent)] = t.rows[LockKey(ent)]
    BY <1>1, <2>1, ReduceBeside
  <2>3. Reduce(t, ev, n).locks[ent] <=> t.locks[ent]
    <3>1. CASE ev.type \in LockTypes
      BY <1>4, <3>1 DEF Reduce, SetLock, ReducedState
    <3>2. CASE ev.type \notin LockTypes
      BY <3>2 DEF Reduce, Change
    <3>3. QED
      BY <3>1, <3>2
  <2>4. QED
    BY <2>2, <2>3 DEF MarkerIsLock
<1>5. QED
  BY <1>3, <1>4

LEMMA ReducePart ==
  ASSUME NEW s \in ReducedState, NEW t \in ReducedState, NEW ev \in Event, NEW n \in Nat,
         NEW ent \in Entities, ~(ev.type = "Unlocked" /\ ev.ent = ent),
         NEW K, \A k \in RowKeys : Writes(ev, k) => k \in K, NEW t0,
         PartOf(ent, K, s, t, t0)
  PROVE  PartOf(ent, K, Reduce(s, ev, n), Reduce(t, ev, n), t0)
<1>1. MarkerIsLock(ent, Reduce(t, ev, n))
  BY ReduceMarkerIsLock DEF PartOf
<1>2. Reduce(s, ev, n).locks[ent] <=> Reduce(t, ev, n).locks[ent]
  BY ReduceLockMap DEF PartOf
<1>3. ASSUME NEW k \in RowKeys, k[1] = ent, k \in K
      PROVE  /\ Reduce(s, ev, n).rows[k] = Reduce(t, ev, n).rows[k]
             /\ Reduce(t, ev, n).rows[k] = NoRow => t0[k] = NoRow
  <2>1. s.rows[k] = t.rows[k] /\ (t.rows[k] = NoRow => t0[k] = NoRow)
    BY <1>3 DEF PartOf
  <2>2. Reduce(s, ev, n).rows[k] = Reduce(t, ev, n).rows[k]
    <3>1. CASE Writes(ev, k)
      <4>1. ev.ent = ent
        BY <1>3, <3>1, WritesOwn
      <4>2. s.locks[ev.ent] <=> t.locks[ev.ent]
        BY <4>1 DEF PartOf
      <4>3. QED
        BY <2>1, <4>2, ReduceRow
    <3>2. CASE ~Writes(ev, k)
      BY <2>1, <3>2, ReduceBeside
    <3>3. QED
      BY <3>1, <3>2
  <2>3. QED
    BY <2>1, <2>2, ReduceKeepsRow
<1>4. ASSUME NEW k \in RowKeys, k[1] = ent, k \notin K
      PROVE  Reduce(s, ev, n).rows[k] = NoRow /\ Reduce(t, ev, n).rows[k] = t0[k]
  <2>1. ~Writes(ev, k) /\ s.rows[k] = NoRow /\ t.rows[k] = t0[k]
    BY <1>4 DEF PartOf
  <2>2. QED
    BY <2>1, ReduceBeside
<1>5. QED
  BY <1>1, <1>2, <1>3, <1>4 DEF PartOf

LEMMA PartOfSame ==
  ASSUME NEW ent \in Entities, NEW K, NEW s, NEW t, NEW t0, NEW u, NEW u0,
         PartOf(ent, K, s, t, t0), SameOn(ent, t, u),
         \A k \in RowKeys : k[1] = ent => u0[k] = t0[k]
  PROVE  PartOf(ent, K, s, u, u0)
<1>1. LockKey(ent) \in RowKeys /\ LockKey(ent)[1] = ent
  BY LockKeyType DEF LockKey
<1>2. MarkerIsLock(ent, u)
  BY <1>1 DEF PartOf, MarkerIsLock, SameOn
<1>3. QED
  BY <1>2 DEF PartOf, SameOn

-----------------------------------------------------------------------------
LEMMA RowOfType ==
  ASSUME NEW w \in Writers, TypeInv, req[w] \in Request, Len(seqs[w]) = Len(req[w].batch),
         NEW i \in 1..Len(seqs[w])
  PROVE  /\ RowOf(w, i) \in LedgerRow
         /\ RowOf(w, i).seq = seqs[w][i] /\ RowOf(w, i).ev = req[w].batch[i]
         /\ req[w].batch[i] \in Event /\ i \in DOMAIN req[w].batch
<1>1. /\ req[w].batch[i] \in Event /\ seqs[w][i] \in Nat /\ i \in DOMAIN req[w].batch
      /\ req[w].key \in Keys \cup {None} /\ req[w].exp \in Nat \cup {None}
  BY RequestBatch DEF TypeInv, TypeOK, Request
<1>2. QED
  BY <1>1 DEF RowOf, LedgerRow

(* The rows that w's append has ready once it has drawn all its seqs.       *)
LEMMA LogWithRows ==
  ASSUME NEW w \in Writers, TypeInv, SeqInv, req[w] \in Request,
         Len(seqs[w]) = Len(req[w].batch), NEW n \in Nat, n <= Len(seqs[w])
  PROVE  Log(ledger \cup FirstRows(w, n))
<1> DEFINE all == ledger \cup FirstRows(w, n)
<1>1. \A i \in 1..n : i \in 1..Len(seqs[w])
  BY DEF TypeInv, TypeOK
<1>2. \A r \in FirstRows(w, n) : \E i \in 1..Len(seqs[w]) : r = RowOf(w, i)
  BY <1>1 DEF FirstRows
<1>3. SeqsInOrder(w) /\ \A i \in 1..Len(seqs[w]) : seqs[w][i] \in Nat
  BY DEF SeqInv, TypeInv, TypeOK
<1>4. all \subseteq LedgerRow
  BY <1>2, RowOfType DEF TypeInv, TypeOK
<1>5. \A r \in all : r.seq \in 1..MaxSeq
  BY <1>2, <1>3, RowOfType DEF SeqInv, SeqsInOrder
<1>6. ASSUME NEW r1 \in all, NEW r2 \in all, r1.seq = r2.seq
      PROVE  r1 = r2
  <2>1. CASE r1 \in ledger /\ r2 \in ledger
    BY <1>6, <2>1 DEF SeqInv
  <2>2. CASE r1 \in ledger /\ r2 \notin ledger
    BY <1>2, <1>3, <1>6, <2>2, RowOfType DEF SeqsInOrder
  <2>3. CASE r1 \notin ledger /\ r2 \in ledger
    BY <1>2, <1>3, <1>6, <2>3, RowOfType DEF SeqsInOrder
  <2>4. CASE r1 \notin ledger /\ r2 \notin ledger
    <3>1. PICK i \in 1..Len(seqs[w]) : r1 = RowOf(w, i)
      BY <1>2, <2>4
    <3>2. PICK j \in 1..Len(seqs[w]) : r2 = RowOf(w, j)
      BY <1>2, <2>4
    <3>3. seqs[w][i] = seqs[w][j]
      BY <1>6, <3>1, <3>2, RowOfType
    <3>4. i = j
      BY <1>3, <3>3 DEF SeqsInOrder
    <3>5. QED
      BY <3>1, <3>2, <3>4
  <2>5. QED
    BY <2>1, <2>2, <2>3, <2>4
<1>7. QED
  BY <1>4, <1>5, <1>6 DEF Log

LEMMA FirstRowsEnds ==
  ASSUME NEW w \in Writers
  PROVE  /\ FirstRows(w, 0) = {}
         /\ \A n \in Nat : FirstRows(w, n + 1) = FirstRows(w, n) \cup {RowOf(w, n + 1)}
         /\ req[w] \in Request => FirstRows(w, Len(req[w].batch)) = RowsOf(w)
<1>1. FirstRows(w, 0) = {}
  BY DEF FirstRows
<1>2. ASSUME NEW n \in Nat
      PROVE  FirstRows(w, n + 1) = FirstRows(w, n) \cup {RowOf(w, n + 1)}
  <2>1. 1..(n + 1) = (1..n) \cup {n + 1}
    OBVIOUS
  <2>2. QED
    BY <2>1 DEF FirstRows
<1>3. ASSUME req[w] \in Request
      PROVE  FirstRows(w, Len(req[w].batch)) = RowsOf(w)
  BY <1>3, RequestBatch DEF FirstRows, RowsOf, RowOf
<1>4. QED
  BY <1>1, <1>2, <1>3

-----------------------------------------------------------------------------
LEMMA InitSeqs == Init => SeqInv
BY DEF Init, SeqInv, SeqsInOrder

LEMMA OthersStay ==
  ASSUME TypeInv, NEW w \in Writers, NEW v \in Writers, v # w, Step(w)
  PROVE  /\ pc'[v] = pc[v] /\ req'[v] = req[v] /\ seqs'[v] = seqs[v]
         /\ local'[v] = local[v] /\ folded'[v] = folded[v]
BY DEF Step, Begin, CheckKey, CheckVersion, AllocateSeq, InsertEvent, LoadLocks,
   LoadRows, Fold, Commit, Abort, EndTxn, Goto, TypeInv, TypeOK

LEMMA SessionSeqsStay ==
  ASSUME NEW v \in Writers, SeqsInOrder(v), req'[v] = req[v], seqs'[v] = seqs[v],
         ledger' = ledger, nextSeq' = nextSeq
  PROVE  SeqsInOrder(v)'
<1>1. RefsOf(v)' = RefsOf(v)
  BY DEF RefsOf, SemanticEvents
<1>2. QED
  BY <1>1 DEF SeqsInOrder

LEMMA NextSeqs ==
  ASSUME TypeInv, SeqInv, EntitiesApart, [Next]_vars
  PROVE  SeqInv'
<1>1. ASSUME NEW w \in Writers, Step(w), ledger' = ledger, nextSeq' = nextSeq,
             seqs'[w] = <<>> \/ (seqs'[w] = seqs[w] /\ req'[w] = req[w])
      PROVE  SeqInv'
  <2>1. SeqsInOrder(w)'
    <3>1. CASE seqs'[w] = <<>>
      BY <3>1 DEF SeqsInOrder
    <3>2. CASE seqs'[w] = seqs[w] /\ req'[w] = req[w]
      BY <1>1, <3>2, SessionSeqsStay DEF SeqInv
    <3>3. QED
      BY <1>1, <3>1, <3>2
  <2>2. ASSUME NEW v \in Writers, v # w
        PROVE  SeqsInOrder(v)' /\ seqs'[v] = seqs[v]
    BY <1>1, <2>2, OthersStay, SessionSeqsStay DEF SeqInv
  <2>3. ASSUME NEW u \in Writers, NEW v \in Writers, u # v,
               NEW i \in 1..Len(seqs'[u]), NEW j \in 1..Len(seqs'[v])
        PROVE  seqs'[u][i] # seqs'[v][j]
    <3>1. seqs'[u] = seqs[u] /\ seqs'[v] = seqs[v]
      BY <1>1, <2>2, <2>3
    <3>2. QED
      BY <2>3, <3>1 DEF SeqInv
  <2>4. QED
    BY <1>1, <2>1, <2>2, <2>3 DEF SeqInv
<1>2. ASSUME NEW w \in Writers, Begin(w)
      PROVE  SeqInv'
  <2>1. Step(w) /\ ledger' = ledger /\ nextSeq' = nextSeq /\ seqs'[w] = <<>>
    BY <1>2 DEF Begin, Goto, Step, storage, TypeInv, WellFormed
  <2>2. QED
    BY <1>1, <2>1
<1>3. ASSUME NEW w \in Writers,
             \/ CheckKey(w) \/ CheckVersion(w) \/ InsertEvent(w)
             \/ LoadLocks(w) \/ LoadRows(w) \/ Fold(w) \/ Abort(w)
      PROVE  SeqInv'
  <2>1. Step(w) /\ ledger' = ledger /\ nextSeq' = nextSeq
    BY <1>3 DEF CheckKey, CheckVersion, InsertEvent, LoadLocks, LoadRows, Fold, Abort,
       storage, Step
  <2>2. EndTxn(w) => seqs'[w] = <<>>
    BY DEF EndTxn, TypeInv, TypeOK
  <2>3. EndTxn(w) \/ (seqs' = seqs /\ req' = req)
    BY <1>3 DEF CheckKey, CheckVersion, InsertEvent, LoadLocks, LoadRows, Fold, Abort
  <2>4. QED
    BY <1>1, <2>1, <2>2, <2>3
<1>4. ASSUME NEW w \in Writers, AllocateSeq(w)
      PROVE  SeqInv'
  <2>1. /\ nextSeq \in Nat /\ seqs[w] \in Seq(Nat) /\ nextSeq' = nextSeq + 1
        /\ nextSeq <= MaxSeq /\ nextSeq >= 1 /\ MaxSeq \in Nat
        /\ seqs'[w] = Append(seqs[w], nextSeq) /\ UNCHANGED <<ledger, req>> /\ Step(w)
    BY <1>4, LedgerConstants DEF AllocateSeq, Step, TypeInv, TypeOK, SeqInv
  <2>2. /\ Len(seqs'[w]) = Len(seqs[w]) + 1 /\ Len(seqs[w]) \in Nat
        /\ seqs'[w][Len(seqs[w]) + 1] = nextSeq
        /\ \A i \in 1..Len(seqs[w]) : seqs'[w][i] = seqs[w][i] /\ seqs[w][i] \in Nat
    BY <2>1
  <2>3. \A r \in ledger : r.seq \in Nat /\ r.seq < nextSeq
    BY DEF SeqInv, TypeInv, TypeOK, LedgerRow
  <2>4. \A v \in Writers : RefsOf(v)' = RefsOf(v)
    BY <2>1 DEF RefsOf, SemanticEvents
  <2>5. SeqsInOrder(w)'
    <3> SUFFICES ASSUME NEW i \in 1..Len(seqs'[w])
                 PROVE  /\ seqs'[w][i] \in 1..MaxSeq /\ seqs'[w][i] < nextSeq'
                        /\ \A j \in 1..Len(seqs'[w]) : i < j => seqs'[w][i] < seqs'[w][j]
                        /\ \A r \in ledger : r.seq # seqs'[w][i]
                        /\ \A r \in ledger :
                             (\E ent \in RefsOf(w) : Concerns(r.ev, ent)) => r.seq < seqs'[w][i]
      BY <2>1, <2>4 DEF SeqsInOrder
    <3>1. CASE i = Len(seqs[w]) + 1
      BY <2>1, <2>2, <2>3, <3>1
    <3>2. CASE i \in 1..Len(seqs[w])
      <4>1. /\ seqs[w][i] \in 1..MaxSeq /\ seqs[w][i] < nextSeq
            /\ \A j \in 1..Len(seqs[w]) : i < j => seqs[w][i] < seqs[w][j]
            /\ \A r \in ledger : r.seq # seqs[w][i]
            /\ \A r \in ledger :
                 (\E ent \in RefsOf(w) : Concerns(r.ev, ent)) => r.seq < seqs[w][i]
        BY <3>2 DEF SeqInv, SeqsInOrder
      <4>2. QED
        BY <2>1, <2>2, <3>2, <4>1
    <3>3. QED
      BY <2>2, <3>1, <3>2
  <2>6. ASSUME NEW v \in Writers, v # w
        PROVE  SeqsInOrder(v)' /\ seqs'[v] = seqs[v]
    <3>1. seqs'[v] = seqs[v] /\ \A i \in 1..Len(seqs[v]) : seqs[v][i] \in Nat
      BY <2>1, <2>6, OthersStay DEF TypeInv, TypeOK
    <3>2. QED
      BY <2>1, <2>4, <3>1 DEF SeqInv, SeqsInOrder
  <2>7. ASSUME NEW u \in Writers, NEW v \in Writers, u # v,
               NEW i \in 1..Len(seqs'[u]), NEW j \in 1..Len(seqs'[v])
        PROVE  seqs'[u][i] # seqs'[v][j]
    <3>1. \A x \in Writers : \A k \in 1..Len(seqs[x]) : seqs[x][k] < nextSeq
      BY DEF SeqInv, SeqsInOrder
    <3>2. CASE u = w
      <4>1. v # w /\ seqs'[v] = seqs[v] /\ j \in 1..Len(seqs[v]) /\ seqs[v][j] < nextSeq
        BY <2>6, <2>7, <3>1, <3>2
      <4>2. CASE i = Len(seqs[w]) + 1
        BY <2>1, <2>2, <3>2, <4>1, <4>2
      <4>3. CASE i \in 1..Len(seqs[w])
        <5>1. seqs'[u][i] = seqs[w][i] /\ seqs'[v][j] = seqs[v][j]
          BY <2>2, <3>2, <4>1, <4>3
        <5>2. seqs[w][i] # seqs[v][j]
          BY <4>1, <4>3 DEF SeqInv
        <5>3. QED
          BY <5>1, <5>2
      <4>4. QED
        BY <2>2, <2>7, <3>2, <4>2, <4>3
    <3>3. CASE v = w
      <4>1. u # w /\ seqs'[u] = seqs[u] /\ i \in 1..Len(seqs[u]) /\ seqs[u][i] < nextSeq
        BY <2>6, <2>7, <3>1, <3>3
      <4>2. CASE j = Len(seqs[w]) + 1
        BY <2>1, <2>2, <3>3, <4>1, <4>2
      <4>3. CASE j \in 1..Len(seqs[w])
        <5>1. seqs'[v][j] = seqs[w][j] /\ seqs'[u][i] = seqs[u][i]
          BY <2>2, <3>3, <4>1, <4>3
        <5>2. seqs[u][i] # seqs[w][j]
          BY <4>1, <4>3 DEF SeqInv
        <5>3. QED
          BY <5>1, <5>2
      <4>4. QED
        BY <2>2, <2>7, <3>3, <4>2, <4>3
    <3>4. CASE u # w /\ v # w
      BY <2>6, <2>7, <3>4 DEF SeqInv
    <3>5. QED
      BY <3>2, <3>3, <3>4
  <2>8. QED
    BY <2>1, <2>3, <2>5, <2>6, <2>7 DEF SeqInv
<1>5. ASSUME NEW w \in Writers, Commit(w)
      PROVE  SeqInv'
  <2>1. /\ Step(w) /\ ledger' = ledger \cup RowsOf(w) /\ nextSeq' = nextSeq
        /\ seqs'[w] = <<>> /\ pc[w] = "commit"
    BY <1>5 DEF Commit, Step, EndTxn, TypeInv, TypeOK
  <2>2. req[w] \in Request /\ Len(seqs[w]) = Len(req[w].batch) /\ Len(seqs[w]) \in Nat
    BY <2>1 DEF TypeInv, TypeOK, WellFormed
  <2>3. Log(ledger')
    BY <2>1, <2>2, LogWithRows, FirstRowsEnds
  <2>4. \A r \in RowsOf(w) : \E i \in 1..Len(seqs[w]) :
          r.seq = seqs[w][i] /\ r.ev = req[w].batch[i] /\ i \in DOMAIN req[w].batch
    BY <2>2, RequestBatch DEF RowsOf
  <2>5. \A r \in ledger' : r.seq < nextSeq'
    BY <2>1, <2>4 DEF SeqInv, SeqsInOrder
  <2>6. ASSUME NEW v \in Writers, v # w
        PROVE  SeqsInOrder(v)' /\ seqs'[v] = seqs[v]
    <3>1. seqs'[v] = seqs[v] /\ req'[v] = req[v]
      BY <2>1, <2>6, OthersStay
    <3>2. RefsOf(v)' = RefsOf(v)
      BY <3>1 DEF RefsOf, SemanticEvents
    <3>3. \A r \in RowsOf(w) : \A i \in 1..Len(seqs[v]) : r.seq # seqs[v][i]
      BY <2>4, <2>6 DEF SeqInv
    <3>4. \A r \in RowsOf(w) : \A ent \in RefsOf(v) : ~Concerns(r.ev, ent)
      <4> SUFFICES ASSUME NEW r \in RowsOf(w), NEW ent \in RefsOf(v), Concerns(r.ev, ent)
                   PROVE  FALSE
        OBVIOUS
      <4>1. ent \in EntitiesOf(w)
        BY <2>4 DEF Concerns, EntitiesOf
      <4>2. ent \in EntitiesOf(v)
        BY RefsAreEntities
      <4>3. QED
        BY <2>6, <4>1, <4>2 DEF EntitiesApart
    <3>5. QED
      BY <2>1, <3>1, <3>2, <3>3, <3>4 DEF SeqInv, SeqsInOrder
  <2>7. SeqsInOrder(w)'
    BY <2>1 DEF SeqsInOrder
  <2>8. ASSUME NEW u \in Writers, NEW v \in Writers, u # v,
               NEW i \in 1..Len(seqs'[u]), NEW j \in 1..Len(seqs'[v])
        PROVE  seqs'[u][i] # seqs'[v][j]
    <3>1. u # w /\ v # w
      BY <2>1, <2>8
    <3>2. QED
      BY <2>6, <2>8, <3>1 DEF SeqInv
  <2>9. QED
    BY <2>1, <2>3, <2>5, <2>6, <2>7, <2>8 DEF SeqInv, Log
<1>6. CASE UNCHANGED vars
  <2>1. \A v \in Writers : SeqsInOrder(v)'
    BY <1>6, SessionSeqsStay DEF SeqInv, vars, storage, session
  <2>2. QED
    BY <1>6, <2>1 DEF SeqInv, vars, storage, session
<1>7. QED
  BY <1>2, <1>3, <1>4, <1>5, <1>6 DEF Next, Step

-----------------------------------------------------------------------------
LEMMA LogOfLedger == TypeInv /\ SeqInv => Log(ledger)
BY DEF TypeInv, TypeOK, SeqInv, Log

LEMMA InitFold == Init => FoldInv
<1> SUFFICES ASSUME Init PROVE FoldInv
  OBVIOUS
<1>1. ledger = {} /\ Log(ledger) /\ tier0 = EmptyState.rows
  BY DEF Init, Log
<1>2. ASSUME NEW ent \in Entities
      PROVE  StoredAs(ent, Replay)
  <2>1. 0 \in 0..MaxSeq /\ MaxSeq \in 0..MaxSeq
    BY LedgerConstants
  <2>2. SameOn(ent, ReplayStates(ledger)[MaxSeq], ReplayStates(ledger)[0])
    BY <1>1, <2>1, ReplayQuiet
  <2>3. SameOn(ent, Replay, EmptyState)
    BY <2>2, ReplayFold DEF Replay, ReplayOf
  <2>4. ~EmptyState.locks[ent] /\ \A k \in RowKeys : EmptyState.rows[k] = NoRow
    BY DEF EmptyState
  <2>5. LockKey(ent) \in RowKeys /\ LockKey(ent)[1] = ent
    BY LockKeyType DEF LockKey
  <2>6. QED
    BY <1>1, <2>3, <2>4, <2>5 DEF SameOn, StoredAs, MarkerIsLock
<1>3. \A w \in Writers : pc[w] = "idle"
  BY DEF Init
<1>4. QED
  BY <1>2, <1>3 DEF FoldInv

-----------------------------------------------------------------------------
(* A session that does not move keeps what it has loaded and folded, while  *)
(* nobody commits anything of its entities.                                *)
LEMMA LocksStay ==
  ASSUME NEW v \in Writers, LocksLoaded(v), req'[v] = req[v], local'[v] = local[v],
         RefsOf(v) \subseteq Entities,
         \A k \in RowKeys : k[1] \in RefsOf(v) => tier0'[k] = tier0[k]
  PROVE  LocksLoaded(v)'
<1>1. RefsOf(v)' = RefsOf(v) /\ LockKeysOf(v)' = LockKeysOf(v)
  BY DEF LockKeysOf, RefsOf, SemanticEvents
<1>2. \A ent \in RefsOf(v) : MarkedLocked(tier0', ent) <=> MarkedLocked(tier0, ent)
  BY LockKeyType DEF MarkedLocked, LockKey
<1>3. \A k \in RowKeys : k \in LockKeysOf(v) => tier0'[k] = tier0[k]
  BY LoadedOfRefs DEF LoadedKeys
<1>4. QED
  BY <1>1, <1>2, <1>3 DEF LocksLoaded

LEMMA FoldsStay ==
  ASSUME TypeInv, SeqInv, TypeInv', SeqInv',
         NEW v \in Writers, pc[v] \in {"fold", "commit"}, FoldsAsReplay(v),
         pc'[v] = pc[v], req'[v] = req[v], seqs'[v] = seqs[v], local'[v] = local[v],
         folded'[v] = folded[v], ledger \subseteq ledger',
         \A r \in ledger' \ ledger : \A ent \in RefsOf(v) : ~Concerns(r.ev, ent),
         \A k \in RowKeys : k[1] \in RefsOf(v) => tier0'[k] = tier0[k]
  PROVE  FoldsAsReplay(v)'
<1> DEFINE n   == folded[v]
           own == FirstRows(v, n)
<1>1. /\ req[v] \in Request /\ Len(seqs[v]) = Len(req[v].batch)
      /\ n \in Nat /\ n <= Len(seqs[v]) /\ RefsOf(v) \subseteq Entities
  <2>1. req[v] \in Request /\ Len(seqs[v]) = Len(req[v].batch) /\ folded[v] \in Nat
    BY DEF TypeInv, TypeOK, WellFormed
  <2>2. folded[v] < Len(req[v].batch) \/ folded[v] = Len(req[v].batch)
    BY DEF TypeInv, WellFormed
  <2>3. Len(req[v].batch) \in Nat
    BY <2>1, RequestBatch
  <2>4. QED
    BY <2>1, <2>2, <2>3, RefsAreEntities
<1>2. /\ RefsOf(v)' = RefsOf(v) /\ LoadedKeys(v)' = LoadedKeys(v) /\ own' = own
      /\ \A ent \in Entities : UnlocksIn(v, ent)' <=> UnlocksIn(v, ent)
  BY DEF RefsOf, LoadedKeys, LockKeysOf, TargetsOf, SemanticEvents, FirstRows, RowOf, UnlocksIn
<1>3. Log(ledger \cup own)
  BY <1>1, LogWithRows
<1>4. Log(ledger' \cup own)
  <2>1. /\ ledger' \subseteq LedgerRow /\ \A r \in ledger' : r.seq \in 1..MaxSeq
        /\ \A r1, r2 \in ledger' : r1.seq = r2.seq => r1 = r2
    BY DEF TypeInv, TypeOK, SeqInv
  <2>2. \A r \in own : \E i \in 1..Len(seqs[v]) : r.seq = seqs[v][i]
    <3>1. \A i \in 1..n : i \in 1..Len(seqs[v])
      BY <1>1 DEF TypeInv, TypeOK
    <3>2. QED
      BY <1>1, <3>1, RowOfType DEF FirstRows
  <2>3. SeqsInOrder(v)'
    BY DEF SeqInv
  <2>4. \A r \in own : \A q \in ledger' : q.seq # r.seq
    BY <2>2, <2>3 DEF SeqsInOrder
  <2>5. /\ own \subseteq LedgerRow /\ \A r \in own : r.seq \in 1..MaxSeq
        /\ \A r1, r2 \in own : r1.seq = r2.seq => r1 = r2
    BY <1>3 DEF Log
  <2> HIDE DEF own
  <2>6. QED
    BY <2>1, <2>4, <2>5 DEF Log
<1> HIDE DEF own, n
<1>5. ASSUME NEW ent \in RefsOf(v), ~UnlockedIn(ent)', ~UnlocksIn(v, ent)
      PROVE  PartOf(ent, LoadedKeys(v), local[v], ReplayOf(ledger' \cup own), tier0')
  <2>1. ent \in Entities /\ ~UnlockedIn(ent)
    BY <1>1, <1>5 DEF UnlockedIn
  <2>2. PartOf(ent, LoadedKeys(v), local[v], ReplayOf(ledger \cup own), tier0)
    BY <1>5, <2>1 DEF FoldsAsReplay, own, n
  <2>3. \A r \in (ledger \cup own) \cup (ledger' \cup own) :
          Concerns(r.ev, ent) => r \in ledger \cup own /\ r \in ledger' \cup own
    OBVIOUS
  <2>4. SameOn(ent, ReplayOf(ledger \cup own), ReplayOf(ledger' \cup own))
    BY <1>3, <1>4, <2>1, <2>3, ReplayBeside
  <2>5. \A k \in RowKeys : k[1] = ent => tier0'[k] = tier0[k]
    OBVIOUS
  <2>6. QED
    BY <2>1, <2>2, <2>4, <2>5, PartOfSame
<1>6. \A k \in RowKeys : k \notin LoadedKeys(v) => local[v].rows[k] = NoRow
  BY DEF FoldsAsReplay
<1>7. FirstRows(v, folded[v])' = own
  BY <1>2 DEF own, n
<1>8. QED
  BY <1>1, <1>2, <1>5, <1>6, <1>7 DEF FoldsAsReplay

-----------------------------------------------------------------------------
(* Folding one more event of the batch is replaying one more row.           *)
LEMMA FoldStep ==
  ASSUME TypeInv, SeqInv, NEW w \in Writers, Fold(w)
  PROVE  /\ req[w] \in Request /\ folded[w] \in Nat /\ folded'[w] = folded[w] + 1
         /\ Len(seqs[w]) = Len(req[w].batch) /\ folded[w] + 1 \in 1..Len(seqs[w])
         /\ pc[w] = "fold" /\ pc'[w] \in {"fold", "commit"}
         /\ UNCHANGED <<storage, acks, req, seqs>>
         /\ local[w] \in ReducedState
         /\ local'[w] = Reduce(local[w], req[w].batch[folded[w] + 1], seqs[w][folded[w] + 1])
<1> DEFINE ev == req[w].batch[folded[w] + 1]
<1>1. /\ pc[w] = "fold" /\ pc'[w] \in {"fold", "commit"} /\ folded'[w] = folded[w] + 1
      /\ UNCHANGED <<storage, acks, req, seqs>>
      /\ local'[w] = IF IsSemantic(ev) THEN Reduce(local[w], ev, seqs[w][folded[w] + 1])
                                       ELSE local[w]
  BY DEF Fold, Goto, TypeInv, TypeOK
<1>2. /\ req[w] \in Request /\ folded[w] \in Nat /\ folded[w] < Len(req[w].batch)
      /\ Len(seqs[w]) = Len(req[w].batch) /\ local[w] \in ReducedState
  BY <1>1 DEF TypeInv, TypeOK, WellFormed, ReducedState
<1>3. folded[w] + 1 \in 1..Len(seqs[w])
  BY <1>2, RequestBatch
<1>4. ~IsSemantic(ev) => Reduce(local[w], ev, seqs[w][folded[w] + 1]) = local[w]
  BY DEF IsSemantic, Reduce, LockTypes, HasTarget, ChangeTypes
<1>5. QED
  BY <1>1, <1>2, <1>3, <1>4

LEMMA FoldFolds ==
  ASSUME TypeInv, SeqInv, NEW w \in Writers, Fold(w), FoldsAsReplay(w)
  PROVE  FoldsAsReplay(w)'
<1> DEFINE n  == folded[w]
           i  == n + 1
           ev == req[w].batch[i]
           K  == LoadedKeys(w)
           L  == ledger \cup FirstRows(w, n)
           r  == RowOf(w, i)
<1>1. /\ req[w] \in Request /\ n \in Nat /\ folded'[w] = i /\ i \in 1..Len(seqs[w])
      /\ Len(seqs[w]) = Len(req[w].batch) /\ Len(seqs[w]) \in Nat
      /\ UNCHANGED <<ledger, tier0, req, seqs>>
      /\ local[w] \in ReducedState /\ local'[w] = Reduce(local[w], ev, seqs[w][i])
  BY FoldStep DEF storage, TypeInv, TypeOK
<1>2. /\ r.seq = seqs[w][i] /\ r.ev = ev /\ ev \in Event /\ i \in DOMAIN req[w].batch
      /\ seqs[w][i] \in Nat
  <2>1. \A j \in 1..Len(seqs[w]) : seqs[w][j] \in Nat
    BY DEF TypeInv, TypeOK
  <2>2. /\ RowOf(w, i).seq = seqs[w][i] /\ RowOf(w, i).ev = req[w].batch[i]
        /\ req[w].batch[i] \in Event /\ i \in DOMAIN req[w].batch
    <3> HIDE DEF i
    <3>1. QED
      BY <1>1, RowOfType
  <2>3. QED
    BY <1>1, <2>1, <2>2
<1>3. L \cup {r} = ledger \cup FirstRows(w, i)
  BY <1>1, FirstRowsEnds
<1>4. Log(L) /\ Log(L \cup {r})
  BY <1>1, <1>3, LogWithRows
<1>5. \A k \in RowKeys : Writes(ev, k) => k \in K
  BY <1>1, <1>2, WritesLoaded, WritesOwn
<1>6. \A k \in RowKeys : k \notin K => local'[w].rows[k] = NoRow
  BY <1>1, <1>2, <1>5, ReduceBeside DEF FoldsAsReplay
<1>7. ASSUME NEW ent \in RefsOf(w), ~UnlockedIn(ent), ~UnlocksIn(w, ent)
      PROVE  PartOf(ent, K, local'[w], ReplayOf(L \cup {r}), tier0)
  <2>1. ent \in Entities
    BY RefsAreEntities
  <2>2. PartOf(ent, K, local[w], ReplayOf(L), tier0)
    BY <1>7 DEF FoldsAsReplay
  <2>3. ~(ev.type = "Unlocked" /\ ev.ent = ent)
    BY <1>2, <1>7 DEF UnlocksIn
  <2>4. ReplayOf(L) \in ReducedState
    BY <1>4, ReplayOfTyped
  <2>5. PartOf(ent, K, local'[w], Reduce(ReplayOf(L), ev, seqs[w][i]), tier0)
    <3> HIDE DEF K, L, ev
    <3>1. QED
      BY <1>1, <1>2, <1>5, <2>1, <2>2, <2>3, <2>4, ReducePart
  <2>6. \A q \in L : Concerns(q.ev, ent) => q.seq < r.seq
    <3>1. \A q \in ledger : Concerns(q.ev, ent) => q.seq < r.seq
      BY <1>1, <1>2, <1>7 DEF SeqInv, SeqsInOrder
    <3>2. \A j \in 1..n : j \in 1..Len(seqs[w]) /\ j < i
      BY <1>1
    <3>3. \A j \in 1..n : RowOf(w, j).seq < r.seq
      <4>1. \A j \in 1..Len(seqs[w]) : j < i => seqs[w][j] < seqs[w][i]
        BY <1>1 DEF SeqInv, SeqsInOrder
      <4>2. \A j \in 1..Len(seqs[w]) : RowOf(w, j).seq = seqs[w][j]
        BY <1>1, RowOfType
      <4>3. QED
        BY <1>2, <3>2, <4>1, <4>2
    <3>4. QED
      BY <3>1, <3>3 DEF FirstRows
  <2>7. SameOn(ent, ReplayOf(L \cup {r}), Reduce(ReplayOf(L), r.ev, r.seq))
    <3> HIDE DEF L, r
    <3>1. QED
      BY <1>4, <2>1, <2>6, ReplayAppend
  <2>8. SameOn(ent, Reduce(ReplayOf(L), ev, seqs[w][i]), ReplayOf(L \cup {r}))
    BY <1>2, <2>7, SameOnSym
  <2> HIDE DEF K, L, ev, r
  <2>9. QED
    BY <2>1, <2>5, <2>8, PartOfSame
<1>8. /\ RefsOf(w)' = RefsOf(w) /\ LoadedKeys(w)' = K
      /\ (ledger \cup FirstRows(w, folded[w]))' = ledger \cup FirstRows(w, i)
      /\ \A ent \in Entities : (UnlocksIn(w, ent)' <=> UnlocksIn(w, ent))
                                /\ (UnlockedIn(ent)' <=> UnlockedIn(ent))
  BY <1>1 DEF RefsOf, LoadedKeys, LockKeysOf, TargetsOf, SemanticEvents, FirstRows, RowOf,
     UnlocksIn, UnlockedIn
<1>9. RefsOf(w) \subseteq Entities
  BY RefsAreEntities
<1> HIDE DEF K, L, r, ev
<1>10. QED
  BY <1>1, <1>3, <1>6, <1>7, <1>8, <1>9 DEF FoldsAsReplay

-----------------------------------------------------------------------------
(* A commit stores what replay comes to of the entities its batch is about, *)
(* and leaves the others alone.                                            *)
LEMMA CommitStores ==
  ASSUME TypeInv, SeqInv, FoldInv, TypeInv', SeqInv', NEW w \in Writers, Commit(w)
  PROVE  /\ \A ent \in Entities : ~UnlockedIn(ent)' => StoredAs(ent, Replay)'
         /\ \A k \in RowKeys : k[1] \notin RefsOf(w) => tier0'[k] = tier0[k]
         /\ \A r \in ledger' \ ledger : \E i \in DOMAIN req[w].batch : r.ev = req[w].batch[i]
<1>1. /\ pc[w] = "commit" /\ ledger' = ledger \cup RowsOf(w) /\ tier0' = PersistDelta(w)
  BY DEF Commit
<1>2. /\ req[w] \in Request /\ Len(seqs[w]) = Len(req[w].batch)
      /\ folded[w] = Len(req[w].batch) /\ FoldsAsReplay(w)
  BY <1>1 DEF TypeInv, TypeOK, WellFormed, FoldInv
<1>3. \A k \in RowKeys :
        tier0'[k] = IF local[w].rows[k] = NoRow \/ Droppable(k, local[w].rows[k])
                    THEN tier0[k] ELSE local[w].rows[k]
  BY <1>1 DEF PersistDelta
<1>4. \A k \in RowKeys : k[1] \notin RefsOf(w) => tier0'[k] = tier0[k]
  BY <1>2, <1>3, LoadedOfRefs DEF FoldsAsReplay
<1>5. \A r \in RowsOf(w) : \E i \in DOMAIN req[w].batch : r.ev = req[w].batch[i]
  BY DEF RowsOf
<1>6. \A r \in ledger' \ ledger : \E i \in DOMAIN req[w].batch : r.ev = req[w].batch[i]
  BY <1>1, <1>5
<1>7. Replay' = ReplayOf(ledger') /\ Replay = ReplayOf(ledger)
  BY DEF Replay
<1>8. ASSUME NEW ent \in Entities, ~UnlockedIn(ent)'
      PROVE  MarkerIsLock(ent, Replay') /\ \A k \in RowKeys : k[1] = ent => tier0'[k] = Replay'.rows[k]
  <2>1. ~UnlockedIn(ent)
    BY <1>1, <1>8 DEF UnlockedIn
  <2>2. CASE ent \in RefsOf(w)
    <3>1. ~UnlocksIn(w, ent)
      <4> SUFFICES ASSUME NEW i \in DOMAIN req[w].batch,
                          req[w].batch[i].type = "Unlocked", req[w].batch[i].ent = ent
                   PROVE  FALSE
        BY DEF UnlocksIn
      <4>1. RowOf(w, i) \in RowsOf(w) /\ RowOf(w, i).ev = req[w].batch[i]
        BY DEF RowsOf, RowOf
      <4>2. RowOf(w, i) \in ledger'
        BY <1>1, <4>1
      <4>3. QED
        BY <1>8, <4>1, <4>2 DEF UnlockedIn
    <3>2. ReplayOf(ledger \cup FirstRows(w, folded[w])) = Replay'
      BY <1>1, <1>2, <1>7, FirstRowsEnds
    <3>3. PartOf(ent, LoadedKeys(w), local[w], Replay', tier0)
      BY <1>2, <2>1, <2>2, <3>1, <3>2 DEF FoldsAsReplay
    <3>4. MarkerIsLock(ent, Replay')
      BY <3>3 DEF PartOf
    <3>5. ASSUME NEW k \in RowKeys, k[1] = ent
          PROVE  tier0'[k] = Replay'.rows[k]
      <4>1. CASE k \notin LoadedKeys(w)
        BY <1>3, <3>3, <3>5, <4>1 DEF PartOf
      <4>2. CASE k \in LoadedKeys(w)
        <5>1. local[w].rows[k] = Replay'.rows[k] /\ (Replay'.rows[k] = NoRow => tier0[k] = NoRow)
          BY <3>3, <3>5, <4>2 DEF PartOf
        <5>2. Replay'.rows[k] # NoRow => ~Droppable(k, Replay'.rows[k])
          <6>1. k[2] = "*LOCK*" => k = LockKey(ent)
            BY <3>5 DEF RowKeys, LockKey
          <6>2. QED
            BY <3>4, <6>1 DEF MarkerIsLock, Droppable
        <5>3. QED
          BY <1>3, <5>1, <5>2
      <4>3. QED
        BY <4>1, <4>2
    <3>6. QED
      BY <3>4, <3>5
  <2>3. CASE ent \notin RefsOf(w)
    <3>1. \A i \in DOMAIN req[w].batch : ~Concerns(req[w].batch[i], ent)
      BY <2>3 DEF RefsOf, SemanticEvents, Concerns
    <3>2. \A r \in ledger \cup ledger' : Concerns(r.ev, ent) => r \in ledger /\ r \in ledger'
      BY <1>1, <1>5, <3>1
    <3>3. Log(ledger) /\ Log(ledger')
      BY DEF TypeInv, TypeOK, SeqInv, Log
    <3>4. SameOn(ent, Replay, Replay')
      BY <1>7, <3>2, <3>3, ReplayBeside
    <3>5. StoredAs(ent, Replay)
      BY <2>1 DEF FoldInv
    <3>6. \A k \in RowKeys : k[1] = ent => tier0'[k] = tier0[k]
      BY <1>4, <2>3
    <3>7. LockKey(ent) \in RowKeys /\ LockKey(ent)[1] = ent
      BY LockKeyType DEF LockKey
    <3>8. QED
      BY <3>4, <3>5, <3>6, <3>7 DEF StoredAs, SameOn, MarkerIsLock
  <2>4. QED
    BY <2>2, <2>3
<1>9. \A ent \in Entities : ~UnlockedIn(ent)' => StoredAs(ent, Replay)'
  BY <1>8 DEF StoredAs, MarkerIsLock, LockKey
<1>10. QED
  BY <1>4, <1>6, <1>9

-----------------------------------------------------------------------------
LEMMA NextFold ==
  ASSUME TypeInv, SeqInv, FoldInv, EntitiesApart, [Next]_vars, TypeInv', SeqInv'
  PROVE  FoldInv'
<1>1. ASSUME NEW w \in Writers, Step(w), NEW v \in Writers, v # w,
             ledger \subseteq ledger',
             \A r \in ledger' \ ledger : \A ent \in RefsOf(v) : ~Concerns(r.ev, ent),
             \A k \in RowKeys : k[1] \in RefsOf(v) => tier0'[k] = tier0[k]
      PROVE  /\ pc'[v] = "rows" => LocksLoaded(v)'
             /\ pc'[v] \in {"fold", "commit"} => FoldsAsReplay(v)'
  <2>1. /\ pc'[v] = pc[v] /\ req'[v] = req[v] /\ seqs'[v] = seqs[v]
        /\ local'[v] = local[v] /\ folded'[v] = folded[v]
    BY <1>1, OthersStay
  <2>2. RefsOf(v) \subseteq Entities
    BY RefsAreEntities
  <2>3. pc[v] = "rows" => LocksLoaded(v)'
    BY <1>1, <2>1, <2>2, LocksStay DEF FoldInv
  <2>4. pc[v] \in {"fold", "commit"} => FoldsAsReplay(v)'
    BY <1>1, <2>1, FoldsStay DEF FoldInv
  <2>5. QED
    BY <2>1, <2>3, <2>4
<1>2. ASSUME NEW w \in Writers, Step(w), ledger' = ledger, tier0' = tier0,
             pc'[w] = "rows" => LocksLoaded(w)',
             pc'[w] \in {"fold", "commit"} => FoldsAsReplay(w)'
      PROVE  FoldInv'
  <2>1. \A ent \in Entities : ~UnlockedIn(ent)' => StoredAs(ent, Replay)'
    BY <1>2 DEF FoldInv, UnlockedIn, StoredAs, Replay
  <2>2. ASSUME NEW v \in Writers
        PROVE  /\ pc'[v] = "rows" => LocksLoaded(v)'
               /\ pc'[v] \in {"fold", "commit"} => FoldsAsReplay(v)'
    BY <1>1, <1>2
  <2>3. QED
    BY <2>1, <2>2 DEF FoldInv
<1>3. ASSUME NEW w \in Writers,
             \/ Begin(w) \/ CheckKey(w) \/ CheckVersion(w) \/ AllocateSeq(w)
             \/ InsertEvent(w) \/ Abort(w)
      PROVE  FoldInv'
  <2>1. Step(w) /\ ledger' = ledger /\ tier0' = tier0
    BY <1>3 DEF Begin, CheckKey, CheckVersion, AllocateSeq, InsertEvent, Abort, storage, Step
  <2>2. pc'[w] \notin {"rows", "fold", "commit"}
    BY <1>3 DEF Begin, CheckKey, CheckVersion, AllocateSeq, InsertEvent, Abort, EndTxn, Goto,
       TypeInv, TypeOK
  <2>3. QED
    BY <1>2, <2>1, <2>2
<1>4. ASSUME NEW w \in Writers, LoadLocks(w)
      PROVE  FoldInv'
  <2>1. /\ tier0' = tier0 /\ ledger' = ledger /\ req' = req /\ pc'[w] = "rows" /\ Step(w)
        /\ local'[w] = [rows  |-> [k \in RowKeys |->
                                     IF k \in LockKeysOf(w) THEN tier0[k] ELSE NoRow],
                        locks |-> [ent \in Entities |->
                                     ent \in RefsOf(w) /\ MarkedLocked(tier0, ent)]]
    BY <1>4 DEF LoadLocks, LockKeysOf, Goto, TypeInv, TypeOK, storage, Step
  <2>2. /\ RefsOf(w)' = RefsOf(w) /\ LockKeysOf(w)' = LockKeysOf(w)
        /\ RefsOf(w) \subseteq Entities
    BY <2>1, RefsAreEntities DEF RefsOf, LockKeysOf, SemanticEvents
  <2>3. \A k \in RowKeys : local'[w].rows[k] = IF k \in LockKeysOf(w) THEN tier0'[k] ELSE NoRow
    BY <2>1
  <2>4. \A ent \in RefsOf(w) : local'[w].locks[ent] <=> MarkedLocked(tier0', ent)
    <3> TAKE ent \in RefsOf(w)
    <3>1. local'[w].locks = [e \in Entities |-> e \in RefsOf(w) /\ MarkedLocked(tier0, e)]
      BY <2>1
    <3>2. ent \in Entities
      BY <2>2
    <3>3. QED
      BY <2>1, <3>1, <3>2, Zenon
  <2>5. LocksLoaded(w)'
    BY <2>2, <2>3, <2>4 DEF LocksLoaded
  <2>6. QED
    BY <1>2, <2>1, <2>5
<1>5. ASSUME NEW w \in Writers, LoadRows(w)
      PROVE  FoldInv'
  <2>1. /\ tier0' = tier0 /\ ledger' = ledger /\ UNCHANGED <<req, seqs, folded>> /\ Step(w)
        /\ pc[w] = "rows" /\ pc'[w] = "fold" /\ local'[w].locks = local[w].locks
        /\ local'[w].rows = [k \in RowKeys |->
                               IF k \in TargetsOf(w) THEN tier0[k] ELSE local[w].rows[k]]
    BY <1>5 DEF LoadRows, Goto, TypeInv, TypeOK, storage, Step
  <2>2. LocksLoaded(w) /\ folded[w] = 0
    BY <2>1 DEF FoldInv, TypeInv, WellFormed
  <2>3. \A k \in RowKeys : local'[w].rows[k] = IF k \in LoadedKeys(w) THEN tier0[k] ELSE NoRow
    BY <2>1, <2>2 DEF LocksLoaded, LoadedKeys
  <2>4. /\ RefsOf(w)' = RefsOf(w) /\ LoadedKeys(w)' = LoadedKeys(w)
        /\ RefsOf(w) \subseteq Entities
        /\ (ledger \cup FirstRows(w, folded[w]))' = ledger
        /\ \A ent \in Entities : UnlockedIn(ent)' <=> UnlockedIn(ent)
    <3>1. FirstRows(w, folded[w])' = FirstRows(w, folded[w])
      BY <2>1 DEF FirstRows, RowOf
    <3>2. QED
      BY <2>1, <2>2, <3>1, FirstRowsEnds, RefsAreEntities
         DEF RefsOf, SemanticEvents, LoadedKeys, LockKeysOf, TargetsOf, UnlockedIn
  <2>5. ASSUME NEW ent \in RefsOf(w), ~UnlockedIn(ent)
        PROVE  PartOf(ent, LoadedKeys(w), local'[w], ReplayOf(ledger), tier0)
    <3>1. StoredAs(ent, ReplayOf(ledger)) /\ LockKey(ent) \in RowKeys /\ LockKey(ent)[1] = ent
      BY <2>4, <2>5, LockKeyType DEF FoldInv, Replay, LockKey
    <3>2. local'[w].locks[ent] <=> ReplayOf(ledger).locks[ent]
      BY <2>1, <2>2, <2>5, <3>1 DEF LocksLoaded, StoredAs, MarkerIsLock, MarkedLocked
    <3>3. QED
      BY <2>3, <3>1, <3>2 DEF PartOf, StoredAs
  <2>6. FoldsAsReplay(w)'
    BY <2>1, <2>3, <2>4, <2>5 DEF FoldsAsReplay
  <2>7. QED
    BY <1>2, <2>1, <2>6
<1>6. ASSUME NEW w \in Writers, Fold(w)
      PROVE  FoldInv'
  <2>1. /\ Step(w) /\ ledger' = ledger /\ tier0' = tier0 /\ pc[w] = "fold"
        /\ pc'[w] \in {"fold", "commit"}
    BY <1>6, FoldStep DEF Step, storage
  <2>2. FoldsAsReplay(w)'
    BY <1>6, <2>1, FoldFolds DEF FoldInv
  <2>3. QED
    BY <1>2, <2>1, <2>2
<1>7. ASSUME NEW w \in Writers, Commit(w)
      PROVE  FoldInv'
  <2>1. Step(w) /\ ledger \subseteq ledger' /\ pc'[w] = "idle"
    BY <1>7 DEF Commit, EndTxn, Step, TypeInv, TypeOK
  <2>2. ASSUME NEW v \in Writers, v # w
        PROVE  /\ pc'[v] = "rows" => LocksLoaded(v)'
               /\ pc'[v] \in {"fold", "commit"} => FoldsAsReplay(v)'
    <3>1. /\ RefsOf(v) \subseteq EntitiesOf(v) /\ RefsOf(w) \subseteq EntitiesOf(w)
          /\ EntitiesOf(v) \cap EntitiesOf(w) = {} /\ RefsOf(v) \subseteq Entities
      BY <2>2, RefsAreEntities DEF EntitiesApart
    <3>2. \A r \in ledger' \ ledger : \A ent \in RefsOf(v) : ~Concerns(r.ev, ent)
      <4>1. \A r \in ledger' \ ledger : r.ev.ent \in EntitiesOf(w)
        BY <1>7, CommitStores DEF EntitiesOf
      <4>2. QED
        BY <3>1, <4>1 DEF Concerns
    <3>3. \A k \in RowKeys : k[1] \in RefsOf(v) => tier0'[k] = tier0[k]
      <4>1. \A k \in RowKeys : k[1] \notin RefsOf(w) => tier0'[k] = tier0[k]
        BY <1>7, CommitStores
      <4>2. QED
        BY <3>1, <4>1
    <3>4. QED
      BY <1>1, <2>1, <2>2, <3>2, <3>3
  <2>3. \A ent \in Entities : ~UnlockedIn(ent)' => StoredAs(ent, Replay)'
    BY <1>7, CommitStores
  <2>4. QED
    BY <2>1, <2>2, <2>3 DEF FoldInv
<1>8. CASE UNCHANGED vars
  <2>1. /\ ledger' = ledger /\ tier0' = tier0 /\ pc' = pc /\ req' = req /\ seqs' = seqs
        /\ local' = local /\ folded' = folded
    BY <1>8 DEF vars, storage, session
  <2>2. \A v \in Writers : /\ pc[v] = "rows" => LocksLoaded(v)'
                           /\ pc[v] \in {"fold", "commit"} => FoldsAsReplay(v)'
    BY <2>1, LocksStay, FoldsStay, RefsAreEntities DEF FoldInv
  <2>3. \A ent \in Entities : ~UnlockedIn(ent)' => StoredAs(ent, Replay)'
    BY <2>1 DEF FoldInv, UnlockedIn, StoredAs, Replay
  <2>4. QED
    BY <2>1, <2>2, <2>3 DEF FoldInv
<1>9. QED
  BY <1>3, <1>4, <1>5, <1>6, <1>7, <1>8 DEF Next, Step

LEMMA FoldedIsReplay == FoldInv => Tier0IsReplay
<1> SUFFICES ASSUME FoldInv, NEW ent \in Entities, ~UnlockedIn(ent),
                    NEW k \in RowKeys, k[1] = ent
             PROVE  tier0[k] = Persisted(Replay.rows)[k]
  BY DEF Tier0IsReplay
<1>1. StoredAs(ent, Replay)
  BY DEF FoldInv
<1>2. Persisted(Replay.rows)[k] = IF Replay.rows[k] # NoRow /\ Droppable(k, Replay.rows[k])
                                  THEN NoRow ELSE Replay.rows[k]
  BY DEF Persisted
<1>3. k[2] = "*LOCK*" => k = LockKey(ent)
  BY DEF RowKeys, LockKey
<1>4. Replay.rows[k] # NoRow => ~Droppable(k, Replay.rows[k])
  BY <1>1, <1>3 DEF StoredAs, MarkerIsLock, Droppable
<1>5. QED
  BY <1>1, <1>2, <1>4 DEF StoredAs

(* While no two appends in flight address one entity, what the appends have *)
(* folded inline into Tier-0, commit by commit and in whatever order, is at *)
(* every moment what wipe-and-replay makes of the committed ledger, for     *)
(* every entity that no Unlocked event addresses.                          *)
THEOREM InlineFoldIsReplay == Spec /\ []EntitiesApart => []Tier0IsReplay
<1>1. TypeInv /\ SeqInv /\ EntitiesApart /\ [Next]_vars => SeqInv'
  BY NextSeqs
<1>2. TypeInv /\ SeqInv /\ FoldInv /\ EntitiesApart /\ [Next]_vars /\ TypeInv' /\ SeqInv' => FoldInv'
  BY NextFold
<1>3. QED
  BY <1>1, <1>2, InitType, NextType, InitSeqs, InitFold, FoldedIsReplay, PTL DEF Spec

-----------------------------------------------------------------------------
(* The refinement of Tier0Authority by appends that run one at a time.      *)

(* An append in flight is one its writer may submit; a session at rest has  *)
(* none; and one in flight alone has drawn its seqs without a gap.          *)
SubmittedInv ==
  \A w \in Writers :
    /\ pc[w] = "idle" => req[w] = NoRequest
    /\ pc[w] # "idle" => req[w] \in Requests[w]

GapFree(w) ==
  pc[w] # "idle" =>
    \A i \in 1..Len(seqs[w]) : seqs[w][i] = nextSeq - Len(seqs[w]) + i - 1

AloneInv == SubmittedInv /\ \A w \in Writers : GapFree(w)

LEMMA InitAlone == Init => AloneInv
BY DEF Init, AloneInv, SubmittedInv, GapFree

LEMMA EndTxnAlone ==
  ASSUME TypeInv, NEW w \in Writers, EndTxn(w)
  PROVE  pc'[w] = "idle" /\ req'[w] = NoRequest
BY DEF EndTxn, TypeInv, TypeOK

LEMMA AloneApart ==
  ASSUME TypeInv, AloneInv, AppendsAlone
  PROVE  EntitiesApart
<1> SUFFICES ASSUME NEW v \in Writers, NEW w \in Writers, v # w
             PROVE  EntitiesOf(v) \cap EntitiesOf(w) = {}
  BY DEF EntitiesApart
<1>1. req[v] = NoRequest \/ req[w] = NoRequest
  BY DEF AloneInv, SubmittedInv, AppendsAlone
<1>2. ASSUME NEW u \in Writers, req[u] = NoRequest
      PROVE  EntitiesOf(u) = {}
  BY <1>2 DEF EntitiesOf, NoRequest
<1>3. QED
  BY <1>1, <1>2

LEMMA NextAlone ==
  ASSUME TypeInv, AloneInv, AppendsAlone, [Next]_vars
  PROVE  AloneInv'
<1>1. ASSUME NEW w \in Writers, Step(w), nextSeq' = nextSeq,
             \/ pc'[w] = "idle" /\ req'[w] = NoRequest
             \/ pc'[w] # "idle" /\ req'[w] \in Requests[w] /\ seqs'[w] \in {<<>>, seqs[w]}
                /\ (seqs'[w] = seqs[w] => seqs[w] = <<>> \/ pc[w] # "idle")
      PROVE  AloneInv'
  <2>1. SubmittedInv'
    BY <1>1, OthersStay DEF AloneInv, SubmittedInv
  <2>2. \A v \in Writers : v # w => GapFree(v)'
    BY <1>1, OthersStay DEF AloneInv, GapFree
  <2>3. GapFree(w)'
    BY <1>1 DEF AloneInv, GapFree
  <2>4. QED
    BY <2>1, <2>2, <2>3 DEF AloneInv
<1>2. ASSUME NEW w \in Writers, Begin(w)
      PROVE  AloneInv'
  <2>1. /\ Step(w) /\ nextSeq' = nextSeq /\ pc'[w] = "key" /\ req'[w] \in Requests[w]
        /\ seqs'[w] = seqs[w] /\ seqs[w] = <<>>
    BY <1>2 DEF Begin, Goto, Step, storage, TypeInv, TypeOK, WellFormed
  <2>2. QED
    BY <1>1, <2>1
<1>3. ASSUME NEW w \in Writers,
             \/ CheckKey(w) \/ CheckVersion(w) \/ InsertEvent(w)
             \/ LoadLocks(w) \/ LoadRows(w) \/ Fold(w) \/ Abort(w) \/ Commit(w)
      PROVE  AloneInv'
  <2>1. Step(w) /\ nextSeq' = nextSeq
    BY <1>3 DEF CheckKey, CheckVersion, InsertEvent, LoadLocks, LoadRows, Fold, Abort, Commit,
       storage, Step
  <2>2. EndTxn(w) \/ (pc'[w] # "idle" /\ pc[w] # "idle" /\ UNCHANGED <<req, seqs>>)
    BY <1>3 DEF CheckKey, CheckVersion, InsertEvent, LoadLocks, LoadRows, Fold, Abort, Commit,
       Goto, TypeInv, TypeOK
  <2>3. QED
    BY <1>1, <2>1, <2>2, EndTxnAlone DEF AloneInv, SubmittedInv
<1>4. ASSUME NEW w \in Writers, AllocateSeq(w)
      PROVE  AloneInv'
  <2>1. /\ nextSeq \in Nat /\ seqs[w] \in Seq(Nat) /\ nextSeq' = nextSeq + 1
        /\ seqs'[w] = Append(seqs[w], nextSeq) /\ req' = req /\ Step(w)
        /\ pc[w] # "idle" /\ pc'[w] # "idle"
    BY <1>4 DEF AllocateSeq, Goto, Step, TypeInv, TypeOK
  <2>2. /\ Len(seqs'[w]) = Len(seqs[w]) + 1 /\ Len(seqs[w]) \in Nat
        /\ seqs'[w][Len(seqs[w]) + 1] = nextSeq
        /\ \A i \in 1..Len(seqs[w]) : seqs'[w][i] = seqs[w][i] /\ seqs[w][i] \in Nat
    BY <2>1
  <2>3. GapFree(w)'
    <3>1. \A i \in 1..Len(seqs[w]) : seqs[w][i] = nextSeq - Len(seqs[w]) + i - 1
      BY <2>1 DEF AloneInv, GapFree
    <3>2. \A i \in 1..(Len(seqs[w]) + 1) :
            seqs'[w][i] = (nextSeq + 1) - (Len(seqs[w]) + 1) + i - 1
      <4> TAKE i \in 1..(Len(seqs[w]) + 1)
      <4>1. CASE i = Len(seqs[w]) + 1
        BY <2>1, <2>2, <4>1
      <4>2. CASE i \in 1..Len(seqs[w])
        <5>1. seqs'[w][i] = nextSeq - Len(seqs[w]) + i - 1
          BY <2>2, <3>1, <4>2
        <5>2. QED
          BY <2>1, <2>2, <4>2, <5>1
      <4>3. QED
        BY <2>2, <4>1, <4>2
    <3>3. QED
      BY <2>1, <2>2, <3>2 DEF GapFree
  <2>4. ASSUME NEW v \in Writers, v # w
        PROVE  GapFree(v)'
    <3>1. pc[v] = "idle"
      BY <2>1, <2>4 DEF AppendsAlone
    <3>2. pc'[v] = "idle"
      BY <2>1, <2>4, <3>1, OthersStay
    <3>3. QED
      BY <3>2 DEF GapFree
  <2>5. SubmittedInv'
    BY <2>1, OthersStay DEF AloneInv, SubmittedInv
  <2>6. QED
    BY <2>3, <2>4, <2>5 DEF AloneInv
<1>5. CASE UNCHANGED vars
  BY <1>5 DEF vars, storage, session, AloneInv, SubmittedInv, GapFree
<1>6. QED
  BY <1>2, <1>3, <1>4, <1>5 DEF Next, Step

-----------------------------------------------------------------------------
(* The fold of a set of rows into their log.                                *)
NextLog(rows, s, n) ==
  IF \E r \in rows : r.seq = n
  THEN Append(s, [seq |-> n, ev |-> RowAt(rows, n).ev]) ELSE s

IsLogFold(f, rows, N) ==
  f = [n \in 0..N |-> IF n = 0 THEN <<>> ELSE NextLog(rows, f[n - 1], n)]

LEMMA LogFoldExists ==
  ASSUME NEW rows
  PROVE  \A N \in Nat : \E f : IsLogFold(f, rows, N)
<1> DEFINE S == {N \in Nat : ~ \E f : IsLogFold(f, rows, N)}
<1> SUFFICES ASSUME S # {} PROVE FALSE
  OBVIOUS
<1>1. PICK N \in S : \A M \in S : N <= M
  BY LeastExists
<1>2. CASE N = 0
  <2>1. PICK f : f = [n \in 0..N |-> <<>>]
    OBVIOUS
  <2>2. IsLogFold(f, rows, N)
    BY <1>2, <2>1 DEF IsLogFold
  <2>3. QED
    BY <1>1, <2>2
<1>3. CASE N # 0
  <2>1. N \in Nat /\ N - 1 \in Nat /\ N - 1 \notin S
    BY <1>1, <1>3
  <2>2. PICK f : IsLogFold(f, rows, N - 1)
    BY <2>1
  <2>3. \A n \in 0..(N - 1) : f[n] = IF n = 0 THEN <<>> ELSE NextLog(rows, f[n - 1], n)
    BY <2>2, Zenon DEF IsLogFold
  <2>4. PICK g : g = [n \in 0..N |-> IF n = N THEN NextLog(rows, f[N - 1], N) ELSE f[n]]
    OBVIOUS
  <2>5. \A n \in 0..N : n # N => n \in 0..(N - 1) /\ g[n] = f[n]
    BY <2>1, <2>4
  <2>6. \A n \in 0..N : n # 0 => n - 1 \in 0..N /\ g[n - 1] = f[n - 1]
    BY <2>1, <2>5
  <2>7. \A n \in 0..N : g[n] = IF n = 0 THEN <<>> ELSE NextLog(rows, g[n - 1], n)
    <3> TAKE n \in 0..N
    <3>1. CASE n = N
      BY <1>3, <2>4, <2>6, <3>1
    <3>2. CASE n # N
      BY <2>3, <2>5, <2>6, <3>2
    <3>3. QED
      BY <3>1, <3>2
  <2>8. IsLogFold(g, rows, N)
    BY <2>4, <2>7 DEF IsLogFold
  <2>9. QED
    BY <1>1, <2>8
<1>4. QED
  BY <1>2, <1>3

LEMMA LogFold ==
  ASSUME NEW rows
  PROVE  /\ LogStates(rows)[0] = <<>>
         /\ \A n \in 1..MaxSeq :
              LogStates(rows)[n] = NextLog(rows, LogStates(rows)[n - 1], n)
<1> DEFINE f == LogStates(rows)
<1>1. f = CHOOSE g : IsLogFold(g, rows, MaxSeq)
  BY DEF LogStates, IsLogFold, NextLog
<1>2. IsLogFold(f, rows, MaxSeq)
  BY <1>1, LogFoldExists, LedgerConstants, Zenon
<1> HIDE DEF f
<1>3. \A n \in 0..MaxSeq : f[n] = IF n = 0 THEN <<>> ELSE NextLog(rows, f[n - 1], n)
  BY <1>2, Zenon DEF IsLogFold
<1>4. 0 \in 0..MaxSeq /\ \A n \in 1..MaxSeq : n \in 0..MaxSeq /\ n # 0
  BY LedgerConstants
<1>5. f[0] = <<>> /\ \A n \in 1..MaxSeq : f[n] = NextLog(rows, f[n - 1], n)
  BY <1>3, <1>4
<1>6. QED
  BY <1>5 DEF f

LEMMA NextLogRow ==
  ASSUME NEW rows, Log(rows), NEW s, NEW n
  PROVE  /\ \A r \in rows : r.seq = n => NextLog(rows, s, n) = Append(s, [seq |-> n, ev |-> r.ev])
         /\ (\A r \in rows : r.seq # n) => NextLog(rows, s, n) = s
BY RowAtSeq DEF NextLog

(* What the log of a set of rows says up to a seq.                          *)
LogEntry == [seq: Nat, ev: Event]

LogUpTo(s, n) ==
  s \in Seq(LogEntry) /\ \A i \in 1..Len(s) : s[i].seq <= n

LEMMA LogTyped ==
  ASSUME NEW rows, Log(rows)
  PROVE  \A n \in 0..MaxSeq : LogUpTo(LogStates(rows)[n], n)
<1> DEFINE f == LogStates(rows)
           S == {n \in 0..MaxSeq : ~LogUpTo(f[n], n)}
<1> SUFFICES ASSUME S # {} PROVE FALSE
  OBVIOUS
<1>0. S \in SUBSET Nat
  BY LedgerConstants
<1> HIDE DEF S
<1>1. PICK n \in S : \A m \in S : n <= m
  BY <1>0, LeastExists
<1> USE DEF S
<1>2. n # 0
  <2>1. LogUpTo(<<>>, 0)
    BY DEF LogUpTo
  <2>2. f[0] = <<>>
    BY LogFold
  <2>3. QED
    BY <1>1, <2>1, <2>2
<1>3. n \in 1..MaxSeq /\ n - 1 \in 0..MaxSeq /\ n - 1 \notin S
  BY <1>1, <1>2, LedgerConstants
<1>4. f[n] = NextLog(rows, f[n - 1], n) /\ LogUpTo(f[n - 1], n - 1)
  BY <1>3, LogFold
<1>5. PICK s : s = f[n - 1]
  OBVIOUS
<1>6. /\ s \in Seq(LogEntry) /\ n \in Nat /\ Len(s) \in Nat
      /\ \A i \in 1..Len(s) : s[i].seq \in Nat /\ s[i].seq <= n - 1
  <2>1. s \in Seq(LogEntry) /\ \A i \in 1..Len(s) : s[i].seq <= n - 1
    BY <1>4, <1>5 DEF LogUpTo
  <2>2. \A i \in 1..Len(s) : s[i] \in LogEntry
    BY <2>1
  <2>3. n \in Nat /\ Len(s) \in Nat
    BY <1>3, <2>1
  <2>4. QED
    BY <2>1, <2>2, <2>3 DEF LogEntry
<1>7. CASE \E r \in rows : r.seq = n
  <2>1. PICK r \in rows : r.seq = n
    BY <1>7
  <2>2. PICK e : e = [seq |-> n, ev |-> r.ev]
    OBVIOUS
  <2>3. f[n] = Append(s, e) /\ e \in LogEntry /\ e.seq = n
    <3>1. f[n] = Append(s, [seq |-> n, ev |-> r.ev])
      BY <1>4, <1>5, <2>1, NextLogRow
    <3>2. r.ev \in Event
      BY <2>1 DEF Log, LedgerRow
    <3>3. QED
      BY <1>6, <2>2, <3>1, <3>2 DEF LogEntry
  <2>4. /\ Append(s, e) \in Seq(LogEntry) /\ Len(Append(s, e)) = Len(s) + 1
        /\ \A i \in 1..Len(s) : Append(s, e)[i] = s[i]
        /\ Append(s, e)[Len(s) + 1] = e
    BY <1>6, <2>3
  <2>5. \A i \in 1..Len(Append(s, e)) : Append(s, e)[i].seq <= n
    <3> TAKE i \in 1..Len(Append(s, e))
    <3>1. CASE i = Len(s) + 1
      BY <1>6, <2>3, <2>4, <3>1
    <3>2. CASE i \in 1..Len(s)
      BY <1>6, <2>4, <3>2
    <3>3. QED
      BY <1>6, <2>4, <3>1, <3>2
  <2>6. LogUpTo(f[n], n)
    BY <2>3, <2>4, <2>5 DEF LogUpTo
  <2>7. QED
    BY <1>1, <1>3, <2>6
<1>8. CASE \A r \in rows : r.seq # n
  <2>1. f[n] = s
    BY <1>4, <1>5, <1>8, NextLogRow
  <2>2. LogUpTo(f[n], n)
    BY <1>6, <2>1 DEF LogUpTo
  <2>3. QED
    BY <1>1, <1>3, <2>2
<1>9. QED
  BY <1>7, <1>8

LEMMA LogAgrees ==
  ASSUME NEW a, Log(a), NEW b, Log(b), NEW N \in 0..MaxSeq,
         \A r \in a \cup b : r.seq <= N => r \in a /\ r \in b
  PROVE  LogStates(a)[N] = LogStates(b)[N]
<1> DEFINE f == LogStates(a)
           g == LogStates(b)
           S == {n \in 0..N : f[n] # g[n]}
<1> SUFFICES ASSUME S # {} PROVE FALSE
  BY LedgerConstants
<1>0. S \in SUBSET Nat
  BY LedgerConstants
<1> HIDE DEF S
<1>1. PICK n \in S : \A m \in S : n <= m
  BY <1>0, LeastExists
<1> USE DEF S
<1>2. n # 0
  BY LogFold
<1>3. n \in 1..MaxSeq /\ n - 1 \in 0..MaxSeq /\ n <= N /\ f[n - 1] = g[n - 1]
  BY <1>1, <1>2, LedgerConstants
<1>4. f[n] = NextLog(a, f[n - 1], n) /\ g[n] = NextLog(b, g[n - 1], n)
  BY <1>3, LogFold
<1>5. CASE \E r \in a \cup b : r.seq = n
  <2>1. PICK r \in a \cup b : r.seq = n
    BY <1>5
  <2>2. r \in a /\ r \in b
    BY <1>3, <2>1
  <2>3. QED
    <3>1. NextLog(a, f[n - 1], n) = Append(f[n - 1], [seq |-> n, ev |-> r.ev])
      BY <2>1, <2>2, NextLogRow
    <3>2. NextLog(b, f[n - 1], n) = Append(f[n - 1], [seq |-> n, ev |-> r.ev])
      BY <2>1, <2>2, NextLogRow
    <3>3. f[n] = g[n]
      BY <1>3, <1>4, <3>1, <3>2
    <3>4. QED
      BY <1>1, <3>3
<1>6. CASE \A r \in a \cup b : r.seq # n
  BY <1>1, <1>3, <1>4, <1>6, NextLogRow
<1>7. QED
  BY <1>5, <1>6

LEMMA LogQuiet ==
  ASSUME NEW rows, Log(rows), NEW m \in 0..MaxSeq, NEW N \in m..MaxSeq,
         \A r \in rows : r.seq <= m
  PROVE  LogStates(rows)[N] = LogStates(rows)[m]
<1> DEFINE f == LogStates(rows)
           S == {n \in m..N : f[n] # f[m]}
<1> SUFFICES ASSUME S # {} PROVE FALSE
  BY LedgerConstants
<1>0. S \in SUBSET Nat
  BY LedgerConstants
<1> HIDE DEF S
<1>1. PICK n \in S : \A k \in S : n <= k
  BY <1>0, LeastExists
<1> USE DEF S
<1>2. n # m
  OBVIOUS
<1>3. n \in 1..MaxSeq /\ n - 1 \in 0..MaxSeq /\ n > m /\ f[n - 1] = f[m]
  BY <1>1, <1>2, LedgerConstants
<1>4. f[n] = NextLog(rows, f[n - 1], n)
  BY <1>3, LogFold
<1>5. \A r \in rows : r.seq # n
  BY <1>3 DEF Log
<1>6. QED
  BY <1>1, <1>3, <1>4, <1>5, NextLogRow

-----------------------------------------------------------------------------
(* A batch committed above everything in the ledger, from seq n on.         *)
OnTop(old, all, batch, n) ==
  /\ Log(old) /\ Log(all) /\ old \subseteq all
  /\ batch \in Seq(Event) /\ batch # <<>>
  /\ n \in 1..MaxSeq /\ n + Len(batch) - 1 \in 1..MaxSeq
  /\ \A r \in old : r.seq < n
  /\ \A r \in all \ old : r.seq \in n..(n + Len(batch) - 1)
  /\ \A i \in 1..Len(batch) : \E r \in all : r.seq = n + i - 1 /\ r.ev = batch[i]

LEMMA SameState ==
  ASSUME NEW s \in ReducedState, NEW t \in ReducedState,
         \A ent \in Entities : SameOn(ent, s, t)
  PROVE  s = t
<1>1. \A k \in RowKeys : k[1] \in Entities
  BY DEF RowKeys
<1>2. s.rows = t.rows
  <2>1. s.rows \in [RowKeys -> Row \cup {NoRow}] /\ t.rows \in [RowKeys -> Row \cup {NoRow}]
    BY DEF ReducedState
  <2>2. \A k \in RowKeys : s.rows[k] = t.rows[k]
    BY <1>1 DEF SameOn
  <2>3. QED
    BY <2>1, <2>2
<1>3. s.locks = t.locks
  <2>1. s.locks \in [Entities -> BOOLEAN] /\ t.locks \in [Entities -> BOOLEAN]
    BY DEF ReducedState
  <2>2. \A ent \in Entities : s.locks[ent] <=> t.locks[ent]
    BY DEF SameOn
  <2>3. \A ent \in Entities : s.locks[ent] = t.locks[ent]
    BY <2>1, <2>2
  <2>4. QED
    BY <2>1, <2>3
<1>4. QED
  BY <1>2, <1>3 DEF ReducedState

LEMMA OnTopFacts ==
  ASSUME NEW old, NEW all, NEW batch, NEW n, OnTop(old, all, batch, n)
  PROVE  /\ n \in Nat /\ n - 1 \in 0..MaxSeq /\ Len(batch) \in Nat \ {0}
         /\ \A i \in 1..Len(batch) : /\ n + i - 1 \in 1..MaxSeq /\ n + i - 1 >= n
                                     /\ i - 1 \in 0..Len(batch) /\ batch[i] \in Event
         /\ MaxSeq \in (n - 1)..MaxSeq /\ MaxSeq \in (n + Len(batch) - 1)..MaxSeq
         /\ n + Len(batch) - 1 \in 0..MaxSeq
         /\ \A r \in all : r.seq \in Nat /\ r.seq <= n + Len(batch) - 1
<1>1. /\ batch \in Seq(Event) /\ batch # <<>> /\ n \in 1..MaxSeq
      /\ n + Len(batch) - 1 \in 1..MaxSeq /\ MaxSeq \in Nat
  BY LedgerConstants DEF OnTop
<1>2. n \in Nat /\ n - 1 \in 0..MaxSeq /\ Len(batch) \in Nat \ {0}
  BY <1>1
<1>3. \A i \in 1..Len(batch) : /\ n + i - 1 \in 1..MaxSeq /\ n + i - 1 >= n
                               /\ i - 1 \in 0..Len(batch) /\ batch[i] \in Event
  BY <1>1, <1>2
<1>4. /\ MaxSeq \in (n - 1)..MaxSeq /\ MaxSeq \in (n + Len(batch) - 1)..MaxSeq
      /\ n + Len(batch) - 1 \in 0..MaxSeq
  BY <1>1, <1>2
<1>5. ASSUME NEW r \in all
      PROVE  r.seq \in Nat /\ r.seq <= n + Len(batch) - 1
  <2>1. r.seq \in Nat
    BY DEF OnTop, Log, LedgerRow
  <2>2. r.seq < n \/ r.seq \in n..(n + Len(batch) - 1)
    BY DEF OnTop
  <2>3. QED
    BY <1>2, <2>1, <2>2
<1>6. QED
  BY <1>2, <1>3, <1>4, <1>5

(* Replay of the ledger with the batch: what it was before the batch, one   *)
(* event of the batch per seq, and nothing above.                          *)
LEMMA BatchReplay ==
  ASSUME NEW old, NEW all, NEW batch, NEW n, OnTop(old, all, batch, n)
  PROVE  /\ ReplayStates(all)[n - 1] = ReplayOf(old)
         /\ \A i \in 1..Len(batch) : \A m \in 1..MaxSeq : m = n + i - 1 =>
              ReplayStates(all)[m] = Reduce(ReplayStates(all)[m - 1], batch[i], m)
         /\ ReplayOf(all) = ReplayStates(all)[n + Len(batch) - 1]
<1>1. Log(old) /\ Log(all)
  BY DEF OnTop
<1>2. MaxSeq \in 0..MaxSeq
  BY LedgerConstants
<1>3. ReplayStates(all)[n - 1] = ReplayOf(old)
  <2>1. ASSUME NEW ent \in Entities
        PROVE  SameOn(ent, ReplayStates(all)[n - 1], ReplayOf(old))
    <3>1. \A r \in all \cup old :
            r.seq <= n - 1 /\ Concerns(r.ev, ent) => r \in all /\ r \in old
      <4> TAKE r \in all \cup old
      <4>1. r \in all /\ n \in Nat /\ r.seq \in Nat
        BY OnTopFacts DEF OnTop
      <4>2. r \notin old => r.seq >= n
        BY <4>1, OnTopFacts DEF OnTop
      <4>3. QED
        BY <4>1, <4>2
    <3>2. SameOn(ent, ReplayStates(all)[n - 1], ReplayStates(old)[n - 1])
      BY <1>1, <3>1, OnTopFacts, ReplayAgrees
    <3>3. \A r \in old : Concerns(r.ev, ent) => r.seq <= n - 1
      <4> TAKE r \in old
      <4>1. r.seq < n /\ r.seq \in Nat /\ n \in Nat
        BY OnTopFacts DEF OnTop
      <4>2. QED
        BY <4>1
    <3>4. SameOn(ent, ReplayStates(old)[MaxSeq], ReplayStates(old)[n - 1])
      BY <1>1, <3>3, OnTopFacts, ReplayQuiet
    <3>5. QED
      BY <3>2, <3>4, SameOnSym, SameOnTrans DEF ReplayOf
  <2>2. ReplayStates(all)[n - 1] \in ReducedState /\ ReplayOf(old) \in ReducedState
    BY <1>1, OnTopFacts, ReplayTyped, ReplayOfTyped
  <2>3. QED
    BY <2>1, <2>2, SameState
<1>4. ASSUME NEW i \in 1..Len(batch), NEW m \in 1..MaxSeq, m = n + i - 1
      PROVE  ReplayStates(all)[m] = Reduce(ReplayStates(all)[m - 1], batch[i], m)
  <2>1. PICK r \in all : r.seq = m /\ r.ev = batch[i]
    BY <1>4 DEF OnTop
  <2>2. ReplayStates(all)[m] = NextState(all, ReplayStates(all)[m - 1], m)
    BY ReplayFold
  <2>3. NextState(all, ReplayStates(all)[m - 1], m) = Reduce(ReplayStates(all)[m - 1], r.ev, m)
    BY <1>1, <2>1, NextStateRow
  <2>4. QED
    BY <2>1, <2>2, <2>3
<1>5. ReplayOf(all) = ReplayStates(all)[n + Len(batch) - 1]
  <2>1. ASSUME NEW ent \in Entities
        PROVE  SameOn(ent, ReplayStates(all)[MaxSeq], ReplayStates(all)[n + Len(batch) - 1])
    BY <1>1, OnTopFacts, ReplayQuiet
  <2>2. /\ ReplayStates(all)[MaxSeq] \in ReducedState
        /\ ReplayStates(all)[n + Len(batch) - 1] \in ReducedState
    BY <1>1, <1>2, OnTopFacts, ReplayTyped
  <2>3. QED
    BY <2>1, <2>2, SameState DEF ReplayOf
<1>6. QED
  BY <1>3, <1>4, <1>5

(* Folding the batch into the replay of what was there is the replay with   *)
(* the batch.                                                              *)
BatchFold(f, s, batch, n) ==
  f = [i \in 0..Len(batch) |->
         IF i = 0 THEN s ELSE Reduce(f[i - 1], batch[i], n + i - 1)]

LEMMA FoldIsReplay ==
  ASSUME NEW old, NEW all, NEW batch, NEW n, OnTop(old, all, batch, n)
  PROVE  (CHOOSE f : BatchFold(f, ReplayOf(old), batch, n))[Len(batch)] = ReplayOf(all)
<1> DEFINE L == Len(batch)
           s == ReplayOf(old)
           g == CHOOSE f : BatchFold(f, s, batch, n)
<1>1. PICK h : h = [i \in 0..L |-> ReplayStates(all)[n + i - 1]]
  OBVIOUS
<1>2. L \in Nat \ {0} /\ n \in Nat
  BY OnTopFacts
<1>3. \A i \in 0..L : h[i] = IF i = 0 THEN s ELSE Reduce(h[i - 1], batch[i], n + i - 1)
  <2> TAKE i \in 0..L
  <2>1. CASE i = 0
    <3>1. h[i] = ReplayStates(all)[n - 1]
      BY <1>1, <1>2, <2>1
    <3>2. QED
      BY <2>1, <3>1, BatchReplay
  <2>2. CASE i # 0
    <3>1. PICK m \in 1..MaxSeq : m = n + i - 1
      BY <2>2, OnTopFacts
    <3>2. i \in 1..L /\ i - 1 \in 0..L /\ n + (i - 1) - 1 = m - 1
      BY <1>2, <2>2, <3>1
    <3>3. h[i - 1] = ReplayStates(all)[m - 1] /\ h[i] = ReplayStates(all)[m]
      BY <1>1, <3>1, <3>2
    <3>4. ReplayStates(all)[m] = Reduce(ReplayStates(all)[m - 1], batch[i], m)
      BY <3>1, <3>2, BatchReplay
    <3>5. QED
      BY <2>2, <3>1, <3>3, <3>4
  <2>3. QED
    BY <2>1, <2>2
<1>4. BatchFold(h, s, batch, n)
  BY <1>1, <1>3 DEF BatchFold
<1>5. BatchFold(g, s, batch, n)
  BY <1>4, Zenon
<1> HIDE DEF g, s
<1>6. \A i \in 0..L : g[i] = IF i = 0 THEN s ELSE Reduce(g[i - 1], batch[i], n + i - 1)
  BY <1>5, Zenon DEF BatchFold
<1> DEFINE S == {i \in 0..L : g[i] # h[i]}
<1>7. S = {}
  <2> SUFFICES ASSUME S # {} PROVE FALSE
    OBVIOUS
  <2>1. S \in SUBSET Nat
    BY <1>2
  <2> HIDE DEF S
  <2>2. PICK i \in S : \A j \in S : i <= j
    BY <2>1, LeastExists
  <2> USE DEF S
  <2>3. i # 0
    BY <1>3, <1>6, <2>2
  <2>4. i \in 0..L /\ i - 1 \in 0..L /\ i - 1 \notin S
    BY <1>2, <2>2, <2>3
  <2>5. g[i - 1] = h[i - 1]
    BY <2>4
  <2>6. g[i] = h[i]
    BY <1>3, <1>6, <2>3, <2>4, <2>5
  <2>7. QED
    BY <2>2, <2>6
<1>8. g[L] = h[L] /\ h[L] = ReplayStates(all)[n + L - 1]
  BY <1>1, <1>2, <1>7
<1>9. g[L] = ReplayOf(all)
  BY <1>8, BatchReplay
<1>10. QED
  BY <1>9 DEF g, s

(* The log of the ledger with the batch is the log before it and the batch. *)
LogItem(batch, n, j) == [seq |-> n + j - 1, ev |-> batch[j]]

LogItems(batch, n) == [i \in 1..Len(batch) |-> [seq |-> n + i - 1, ev |-> batch[i]]]

Grown(t, s, batch, n, i) ==
  /\ t \in Seq(LogEntry) /\ Len(t) = Len(s) + i
  /\ \A k \in 1..Len(s) : t[k] = s[k]
  /\ \A j \in 1..i : t[Len(s) + j] = LogItem(batch, n, j)

LEMMA GrowsByOne ==
  ASSUME NEW s \in Seq(LogEntry), NEW t, NEW batch, NEW n \in Nat, NEW i \in Nat \ {0},
         Grown(t, s, batch, n, i - 1), LogItem(batch, n, i) \in LogEntry
  PROVE  Grown(Append(t, LogItem(batch, n, i)), s, batch, n, i)
<1> DEFINE e == LogItem(batch, n, i)
           u == Append(t, e)
<1>1. t \in Seq(LogEntry) /\ Len(t) = Len(s) + (i - 1) /\ Len(s) \in Nat
  BY DEF Grown
<1>2. e \in LogEntry
  OBVIOUS
<1> HIDE DEF e
<1>3. /\ u \in Seq(LogEntry) /\ Len(u) = Len(t) + 1 /\ u[Len(t) + 1] = e
      /\ \A k \in 1..Len(t) : u[k] = t[k]
  BY <1>1, <1>2
<1> HIDE DEF u
<1>4. \A k \in 1..Len(s) : u[k] = s[k]
  <2>1. \A k \in 1..Len(s) : k \in 1..Len(t) /\ t[k] = s[k]
    BY <1>1 DEF Grown
  <2>2. QED
    BY <1>3, <2>1
<1>5. \A j \in 1..i : u[Len(s) + j] = LogItem(batch, n, j)
  <2> TAKE j \in 1..i
  <2>1. CASE j = i
    <3>1. Len(s) + j = Len(t) + 1
      BY <1>1, <2>1
    <3>2. QED
      BY <1>3, <2>1, <3>1 DEF e
  <2>2. CASE j # i
    <3>1. j \in 1..(i - 1) /\ Len(s) + j \in 1..Len(t)
      BY <1>1, <2>2
    <3>2. t[Len(s) + j] = LogItem(batch, n, j)
      BY <3>1 DEF Grown
    <3>3. QED
      BY <1>3, <3>1, <3>2
  <2>3. QED
    BY <2>1, <2>2
<1>6. Len(u) = Len(s) + i
  BY <1>1, <1>3
<1>7. Grown(u, s, batch, n, i)
  BY <1>3, <1>4, <1>5, <1>6 DEF Grown
<1>8. QED
  BY <1>7 DEF u, e

LEMMA BatchLog ==
  ASSUME NEW old, NEW all, NEW batch, NEW n, OnTop(old, all, batch, n)
  PROVE  /\ LogStates(all)[MaxSeq] = LogStates(old)[MaxSeq] \o LogItems(batch, n)
         /\ LogUpTo(LogStates(old)[MaxSeq], n - 1)
<1> DEFINE L == Len(batch)
<1>1. Log(old) /\ Log(all) /\ MaxSeq \in 0..MaxSeq /\ L \in Nat \ {0} /\ n \in Nat
  BY LedgerConstants, OnTopFacts DEF OnTop
<1>2. PICK s : s = LogStates(old)[MaxSeq]
  OBVIOUS
<1>3. s = LogStates(old)[n - 1]
  <2>1. \A r \in old : r.seq <= n - 1
    <3> TAKE r \in old
    <3>1. r.seq < n /\ r.seq \in Nat /\ n \in Nat
      BY OnTopFacts DEF OnTop
    <3>2. QED
      BY <3>1
  <2>2. QED
    BY <1>1, <1>2, <2>1, OnTopFacts, LogQuiet
<1>4. LogUpTo(s, n - 1)
  BY <1>1, <1>3, OnTopFacts, LogTyped
<1>5. LogStates(all)[n - 1] = s
  <2>1. \A r \in all \cup old : r.seq <= n - 1 => r \in all /\ r \in old
    <3> TAKE r \in all \cup old
    <3>1. r \in all /\ n \in Nat /\ r.seq \in Nat
      BY OnTopFacts DEF OnTop
    <3>2. r \notin old => r.seq >= n
      BY <3>1, OnTopFacts DEF OnTop
    <3>3. QED
      BY <3>1, <3>2
  <2>2. QED
    BY <1>1, <1>3, <2>1, OnTopFacts, LogAgrees
<1>6. PICK h : h = [i \in 0..L |-> LogStates(all)[n + i - 1]]
  OBVIOUS
<1>7. h[0] = s
  BY <1>1, <1>5, <1>6
<1>8. \A i \in 1..L : h[i] = Append(h[i - 1], LogItem(batch, n, i))
  <2> TAKE i \in 1..L
  <2>1. PICK m \in 1..MaxSeq : m = n + i - 1
    BY OnTopFacts
  <2>2. h[i] = LogStates(all)[m] /\ h[i - 1] = LogStates(all)[m - 1]
    <3>1. i - 1 \in 0..L /\ n + (i - 1) - 1 = m - 1 /\ i \in 0..L
      BY <1>1, <2>1
    <3>2. QED
      BY <1>6, <2>1, <3>1
  <2>3. PICK r \in all : r.seq = m /\ r.ev = batch[i]
    BY <2>1 DEF OnTop
  <2>4. LogStates(all)[m] = NextLog(all, LogStates(all)[m - 1], m)
    BY LogFold
  <2>5. NextLog(all, LogStates(all)[m - 1], m)
          = Append(LogStates(all)[m - 1], [seq |-> m, ev |-> r.ev])
    BY <1>1, <2>3, NextLogRow
  <2>6. LogItem(batch, n, i) = [seq |-> m, ev |-> r.ev]
    BY <2>1, <2>3 DEF LogItem
  <2>7. QED
    BY <2>2, <2>4, <2>5, <2>6
<1>9. s \in Seq(LogEntry) /\ Len(s) \in Nat
  BY <1>4 DEF LogUpTo
<1>10. \A i \in 1..L : LogItem(batch, n, i) \in LogEntry
  BY OnTopFacts DEF LogItem, LogEntry
<1> DEFINE S == {i \in 0..L : ~Grown(h[i], s, batch, n, i)}
<1>11. S = {}
  <2> SUFFICES ASSUME S # {} PROVE FALSE
    OBVIOUS
  <2>1. S \in SUBSET Nat
    BY <1>1
  <2> HIDE DEF S
  <2>2. PICK i \in S : \A j \in S : i <= j
    BY <2>1, LeastExists
  <2> USE DEF S
  <2>3. i # 0
    <3>1. Grown(s, s, batch, n, 0)
      BY <1>9 DEF Grown
    <3>2. QED
      BY <1>7, <2>2, <3>1
  <2>4. i \in 1..L /\ i - 1 \in 0..L /\ i - 1 \notin S
    BY <1>1, <2>2, <2>3
  <2>5. Grown(h[i - 1], s, batch, n, i - 1)
    BY <2>4
  <2>6. Grown(h[i], s, batch, n, i)
    <3>1. i \in Nat \ {0} /\ LogItem(batch, n, i) \in LogEntry
      BY <1>1, <1>10, <2>4
    <3>2. Grown(Append(h[i - 1], LogItem(batch, n, i)), s, batch, n, i)
      BY <1>1, <1>9, <2>5, <3>1, GrowsByOne
    <3>3. QED
      BY <1>8, <2>4, <3>2
  <2>7. QED
    BY <2>2, <2>6
<1>12. PICK b : b = LogItems(batch, n)
  OBVIOUS
<1>13. /\ b \in Seq(LogEntry) /\ Len(b) = L
       /\ \A j \in 1..L : b[j] = LogItem(batch, n, j)
  <2>1. \A j \in 1..L : b[j] = LogItem(batch, n, j)
    BY <1>12 DEF LogItem, LogItems
  <2>2. b \in [1..L -> LogEntry]
    BY <1>10, <1>12, <2>1 DEF LogItems
  <2>3. QED
    BY <1>1, <2>1, <2>2
<1>14. PICK t : t = LogStates(all)[n + L - 1]
  OBVIOUS
<1>15. Grown(t, s, batch, n, L)
  <2>1. h[L] = t /\ L \in 0..L
    BY <1>1, <1>6, <1>14
  <2>2. QED
    BY <1>11, <2>1
<1>16. t = s \o b
  <2>1. t \in Seq(LogEntry) /\ Len(t) = Len(s) + L
    BY <1>15 DEF Grown
  <2>2. s \in Seq(LogEntry) /\ b \in Seq(LogEntry) /\ Len(b) = L
    BY <1>9, <1>13
  <2>3. /\ s \o b \in Seq(LogEntry) /\ Len(s \o b) = Len(s) + L
        /\ \A k \in 1..(Len(s) + L) :
             (s \o b)[k] = IF k <= Len(s) THEN s[k] ELSE b[k - Len(s)]
    BY <2>2
  <2>4. ASSUME NEW k \in 1..Len(t)
        PROVE  t[k] = (s \o b)[k]
    <3>1. k \in 1..(Len(s) + L)
      BY <2>1
    <3>2. CASE k <= Len(s)
      <4>1. k \in 1..Len(s)
        BY <1>9, <3>2
      <4>2. t[k] = s[k]
        BY <1>15, <4>1 DEF Grown
      <4>3. QED
        BY <2>3, <3>1, <3>2, <4>2
    <3>3. CASE ~(k <= Len(s))
      <4>1. PICK j \in 1..L : j = k - Len(s)
        <5>1. L \in Nat /\ Len(s) \in Nat
          BY <1>1, <1>9
        <5>2. k - Len(s) \in 1..L
          BY <3>1, <3>3, <5>1
        <5>3. QED
          BY <5>2
      <4>2. k = Len(s) + j
        BY <1>9, <4>1
      <4>3. t[k] = LogItem(batch, n, j)
        BY <1>15, <4>2 DEF Grown
      <4>4. (s \o b)[k] = b[j]
        BY <2>3, <3>1, <3>3, <4>1
      <4>5. QED
        BY <1>13, <4>3, <4>4
    <3>4. QED
      BY <3>2, <3>3
  <2>5. QED
    BY <2>1, <2>3, <2>4, SeqEqual
<1>17. LogStates(all)[MaxSeq] = t
  <2>1. \A r \in all : r.seq <= n + Len(batch) - 1
    BY OnTopFacts
  <2>2. QED
    BY <1>1, <1>14, <2>1, OnTopFacts, LogQuiet
<1>18. QED
  BY <1>2, <1>4, <1>12, <1>16, <1>17

(* The abstract module reads the reducer that the ledger runs.              *)
LEMMA SameChange ==
  ASSUME NEW row, NEW ev, NEW n
  PROVE  Authority!ApplyChange(Authority!RowOrSeed(row), ev, n) = ApplyChange(RowOrSeed(row), ev, n)
<1>1. \A r : Authority!Assertion(r, ev, n) = Assertion(r, ev, n)
  BY DEF Authority!Assertion, Assertion, Authority!Inherit, Inherit
<1>2. \A r, label : Authority!Relabel(r, ev, n, label) = Relabel(r, ev, n, label)
  BY DEF Authority!Relabel, Relabel, Authority!Inherit, Inherit
<1>3. \A r : Authority!MachineChange(r, ev, n) = MachineChange(r, ev, n)
  BY <1>1, <1>2 DEF Authority!MachineChange, MachineChange
<1>4. \A r : Authority!ApplyChange(r, ev, n) = ApplyChange(r, ev, n)
  BY <1>3 DEF Authority!ApplyChange, ApplyChange, Authority!Outranked, Outranked,
     Authority!OverrideWinner, OverrideWinner
<1>5. Authority!RowOrSeed(row) = RowOrSeed(row)
  BY DEF Authority!RowOrSeed, RowOrSeed, Authority!SeedRow, SeedRow
<1>6. QED
  BY <1>4, <1>5

LEMMA SameReduce ==
  ASSUME NEW s, NEW ev, NEW n
  PROVE  Authority!Reduce(s, ev, n) = Reduce(s, ev, n)
<1>1. Authority!HasTarget(ev) <=> HasTarget(ev)
  BY DEF Authority!HasTarget, HasTarget, Authority!ChangeTypes, ChangeTypes
<1>2. Authority!EventTarget(ev) = EventTarget(ev)
  BY DEF Authority!EventTarget, EventTarget, Authority!PseudoPredicate, PseudoPredicate
<1>3. Authority!Change(s, ev, n) = Change(s, ev, n)
  BY <1>2, SameChange DEF Authority!Change, Change
<1>4. Authority!SetLock(s, ev, n) = SetLock(s, ev, n)
  BY DEF Authority!SetLock, SetLock, Authority!LockKey, LockKey, Authority!LockMarker, LockMarker,
     Authority!RowOrSeed, RowOrSeed, Authority!SeedRow, SeedRow
<1>5. QED
  BY <1>1, <1>3, <1>4 DEF Authority!Reduce, Reduce, Authority!LockTypes, LockTypes

LEMMA SamePersisted ==
  ASSUME NEW rows
  PROVE  Authority!Persisted(rows) = Persisted(rows)
BY DEF Authority!Persisted, Persisted, Authority!Droppable, Droppable, Authority!RowKeys, RowKeys

LEMMA SameFold ==
  ASSUME NEW batch, NEW n
  PROVE  Authority!FoldBatch(batch, n) = (CHOOSE f : BatchFold(f, StateInOrder, batch, n))[Len(batch)]
BY SameReduce DEF Authority!FoldBatch, BatchFold

SerialInv == /\ TypeInv /\ TailInv /\ SeqInv /\ FoldInv /\ AloneInv

NothingUnlocked == \A ent \in Entities : ~UnlockedIn(ent)

(* Where nothing was ever unlocked, the stored state is the replayed one.   *)
LEMMA StoredIsReplay ==
  ASSUME TypeInv, SeqInv, FoldInv, NothingUnlocked
  PROVE  StoredState = Replay /\ Persisted(Replay.rows) = Replay.rows
<1>1. Replay \in ReducedState
  BY LogOfLedger, ReplayOfTyped DEF Replay
<1>2. \A ent \in Entities : StoredAs(ent, Replay)
  BY DEF FoldInv, NothingUnlocked
<1>3. \A k \in RowKeys : k[1] \in Entities /\ (k[2] = "*LOCK*" => k = LockKey(k[1]))
  BY DEF RowKeys, LockKey
<1>4. tier0 = Replay.rows
  <2>1. \A k \in RowKeys : tier0[k] = Replay.rows[k]
    BY <1>2, <1>3 DEF StoredAs
  <2>2. tier0 \in [RowKeys -> Row \cup {NoRow}] /\ Replay.rows \in [RowKeys -> Row \cup {NoRow}]
    BY <1>1 DEF TypeInv, TypeOK, ReducedState
  <2>3. QED
    BY <2>1, <2>2
<1>5. [ent \in Entities |-> MarkedLocked(tier0, ent)] = Replay.locks
  <2>1. \A ent \in Entities : MarkedLocked(tier0, ent) <=> Replay.locks[ent]
    BY <1>2, <1>4 DEF StoredAs, MarkerIsLock, MarkedLocked
  <2>2. Replay.locks \in [Entities -> BOOLEAN]
    BY <1>1 DEF ReducedState
  <2>3. \A ent \in Entities : MarkedLocked(tier0, ent) \in BOOLEAN
    BY DEF MarkedLocked
  <2>4. \A ent \in Entities : MarkedLocked(tier0, ent) = Replay.locks[ent]
    BY <2>1, <2>2, <2>3
  <2>5. QED
    BY <2>2, <2>4
<1>6. StoredState = Replay
  BY <1>1, <1>4, <1>5 DEF StoredState, ReducedState
<1>7. \A k \in RowKeys : Replay.rows[k] # NoRow => ~Droppable(k, Replay.rows[k])
  BY <1>2, <1>3 DEF StoredAs, MarkerIsLock, Droppable
<1>8. Persisted(Replay.rows) = Replay.rows
  <2>1. Replay.rows \in [RowKeys -> Row \cup {NoRow}]
    BY <1>1 DEF ReducedState
  <2>2. Persisted(Replay.rows) = [k \in RowKeys |-> Replay.rows[k]]
    BY <1>7 DEF Persisted
  <2>3. QED
    BY <2>1, <2>2
<1>9. QED
  BY <1>6, <1>8

LEMMA StoredIsReplayNext ==
  (TypeInv /\ SeqInv /\ FoldInv /\ NothingUnlocked)'
    => (StoredState = Replay /\ Persisted(Replay.rows) = Replay.rows)'
<1>1. TypeInv /\ SeqInv /\ FoldInv /\ NothingUnlocked
        => StoredState = Replay /\ Persisted(Replay.rows) = Replay.rows
  BY StoredIsReplay
<1>2. QED
  BY <1>1, PTL

(* A commit of an append that runs alone is a batch on top of the ledger.   *)
LEMMA CommitOnTop ==
  ASSUME SerialInv, SeqInv', TypeInv', NEW w \in Writers, Commit(w)
  PROVE  OnTop(ledger, ledger', req[w].batch, seqs[w][1])
<1> DEFINE L == Len(seqs[w])
           n == seqs[w][1]
<1>1. /\ pc[w] = "commit" /\ ledger' = ledger \cup RowsOf(w)
      /\ req[w] \in Request /\ L = Len(req[w].batch) /\ L \in Nat \ {0}
      /\ req[w].batch \in Seq(Event) /\ req[w].batch # <<>>
      /\ nextSeq \in Nat
  <2>1. pc[w] = "commit" /\ ledger' = ledger \cup RowsOf(w)
    BY DEF Commit
  <2>2. req[w] \in Request /\ L = Len(req[w].batch) /\ nextSeq \in Nat
    BY <2>1 DEF SerialInv, TypeInv, TypeOK, WellFormed
  <2>3. req[w].batch \in Seq(Event) /\ req[w].batch # <<>>
    BY <2>2 DEF Request
  <2>4. QED
    BY <2>1, <2>2, <2>3, RequestBatch
<1>2. Log(ledger) /\ Log(ledger')
  BY DEF SerialInv, TypeInv, TypeOK, SeqInv, Log
<1>3. \A i \in 1..L : seqs[w][i] \in 1..MaxSeq /\ seqs[w][i] = nextSeq - L + i - 1
  BY <1>1 DEF SerialInv, SeqInv, SeqsInOrder, AloneInv, GapFree
<1>4. 1 \in 1..L /\ L \in 1..L
  BY <1>1
<1>5. n = nextSeq - L /\ n \in 1..MaxSeq /\ \A i \in 1..L : seqs[w][i] = n + i - 1
  <2>1. n = nextSeq - L + 1 - 1 /\ n \in 1..MaxSeq
    BY <1>3, <1>4
  <2>2. n \in Nat /\ nextSeq \in Nat /\ L \in Nat
    BY <1>1, <2>1
  <2>3. n = nextSeq - L
    BY <2>1, <2>2
  <2>4. QED
    BY <1>3, <2>1, <2>3
<1>6. n + L - 1 \in 1..MaxSeq
  BY <1>3, <1>4, <1>5
<1>7. \A r \in ledger : r.seq < n
  BY <1>4 DEF SerialInv, TailInv, DrawnAbove
<1>8. \A i \in 1..L : RowOf(w, i) \in RowsOf(w) /\ RowOf(w, i).seq = n + i - 1
                      /\ RowOf(w, i).ev = req[w].batch[i]
  <2> TAKE i \in 1..L
  <2>1. i \in DOMAIN req[w].batch
    BY <1>1, RequestBatch
  <2>2. RowOf(w, i) \in RowsOf(w)
    BY <2>1 DEF RowOf, RowsOf
  <2>3. RowOf(w, i).seq = seqs[w][i] /\ RowOf(w, i).ev = req[w].batch[i]
    BY DEF RowOf
  <2>4. QED
    BY <1>5, <2>2, <2>3
<1>9. \A r \in RowsOf(w) : \E i \in 1..L : r = RowOf(w, i)
  BY <1>1, RequestBatch DEF RowOf, RowsOf
<1> HIDE DEF n, L
<1>10. \A r \in ledger' \ ledger : r.seq \in n..(n + L - 1)
  <2> TAKE r \in ledger' \ ledger
  <2>1. PICK i \in 1..L : r = RowOf(w, i)
    BY <1>1, <1>9
  <2>2. r.seq = n + i - 1
    BY <1>8, <2>1
  <2>3. n \in Nat /\ L \in Nat
    BY <1>1, <1>5
  <2>4. QED
    BY <2>2, <2>3
<1>11. \A i \in 1..L : \E r \in ledger' : r.seq = n + i - 1 /\ r.ev = req[w].batch[i]
  BY <1>1, <1>8
<1>12. OnTop(ledger, ledger', req[w].batch, n)
  BY <1>1, <1>2, <1>5, <1>6, <1>7, <1>10, <1>11 DEF OnTop
<1>13. QED
  BY <1>12 DEF n

LEMMA CommitAppends ==
  ASSUME SerialInv, SerialInv', NothingUnlocked, NothingUnlocked', NEW w \in Writers, Commit(w),
         serial, serial'
  PROVE  Authority!Next
<1> DEFINE B == req[w].batch
           n == seqs[w][1]
<1>1. OnTop(ledger, ledger', B, n)
  BY CommitOnTop DEF SerialInv
<1>2. StoredState = ReplayOf(ledger)
  BY StoredIsReplay DEF SerialInv, Replay
<1>3. StoredState' = ReplayOf(ledger') /\ Persisted(ReplayOf(ledger').rows) = ReplayOf(ledger').rows
  <2>1. (StoredState = Replay /\ Persisted(Replay.rows) = Replay.rows)'
    BY StoredIsReplayNext DEF SerialInv
  <2>2. Replay' = ReplayOf(ledger') /\ Persisted(Replay.rows)' = Persisted(ReplayOf(ledger').rows)
    BY DEF Replay
  <2>3. QED
    BY <2>1, <2>2
<1>4. B \in UNION {{r.batch : r \in Requests[v]} : v \in Writers}
  BY DEF SerialInv, AloneInv, SubmittedInv, Commit
<1>5. /\ LogInOrder = LogStates(ledger)[MaxSeq] /\ LogInOrder' = LogStates(ledger')[MaxSeq]
      /\ StateInOrder = StoredState /\ StateInOrder' = StoredState'
  BY DEF LogInOrder, LedgerInOrder, StateInOrder
<1> HIDE DEF B, n
<1>6. LogInOrder' = LogInOrder \o LogItems(B, n)
  <2>1. LogStates(ledger')[MaxSeq] = LogStates(ledger)[MaxSeq] \o LogItems(B, n)
    BY <1>1, BatchLog
  <2>2. QED
    BY <1>5, <2>1
<1>7. n \in (Authority!LastSeq + 1)..MaxSeq
  <2>1. LogUpTo(LogInOrder, n - 1)
    BY <1>1, <1>5, BatchLog
  <2>2. n \in 1..MaxSeq /\ MaxSeq \in Nat
    BY <1>1, LedgerConstants DEF OnTop
  <2>3. Authority!LastSeq \in Nat /\ Authority!LastSeq <= n - 1
    <3>1. CASE LogInOrder = <<>>
      BY <2>2, <3>1 DEF Authority!LastSeq
    <3>2. CASE LogInOrder # <<>>
      <4>1. PICK l : l = LogInOrder
        OBVIOUS
      <4>2. l \in Seq(LogEntry) /\ Len(l) \in 1..Len(l) /\ l[Len(l)].seq <= n - 1
        BY <2>1, <3>2, <4>1 DEF LogUpTo
      <4>3. l[Len(l)] \in LogEntry
        BY <4>2
      <4>4. l[Len(l)].seq \in Nat
        BY <4>3 DEF LogEntry
      <4>5. Authority!LastSeq = l[Len(l)].seq
        BY <3>2, <4>1 DEF Authority!LastSeq
      <4>6. QED
        BY <4>2, <4>4, <4>5
    <3>3. QED
      BY <3>1, <3>2
  <2>4. QED
    BY <2>2, <2>3
<1>8. Authority!FoldBatch(B, n) = ReplayOf(ledger')
  <2>1. Authority!FoldBatch(B, n)
          = (CHOOSE f : BatchFold(f, StateInOrder, B, n))[Len(B)]
    BY SameFold
  <2>2. QED
    BY <1>1, <1>2, <1>5, <2>1, FoldIsReplay
<1>9. StateInOrder' = [rows  |-> Authority!Persisted(Authority!FoldBatch(B, n).rows),
                       locks |-> Authority!FoldBatch(B, n).locks]
  <2>1. StateInOrder' = ReplayOf(ledger')
    BY <1>3, <1>5
  <2>2. Authority!Persisted(ReplayOf(ledger').rows) = ReplayOf(ledger').rows
    BY <1>3, SamePersisted
  <2>3. ReplayOf(ledger') \in ReducedState
    BY <1>1, ReplayOfTyped DEF OnTop
  <2>4. QED
    BY <1>8, <2>1, <2>2, <2>3 DEF ReducedState
<1>10. Authority!AppendAt(B, n)
  BY <1>6, <1>9 DEF Authority!AppendAt, LogItems
<1>11. QED
  BY <1>4, <1>7, <1>10 DEF Authority!Next

LEMMA AuthorityStutters ==
  ASSUME TypeInv, ModesNext, \A w \in Writers : ~Commit(w)
  PROVE  UNCHANGED <<LogInOrder, StateInOrder>>
<1>1. ledger' = ledger /\ tier0' = tier0 /\ serial' = serial
  BY DEF ModesNext, Next, Step, Begin, CheckKey, CheckVersion, AllocateSeq, InsertEvent, LoadLocks,
     LoadRows, Fold, Abort, storage
<1>2. QED
  BY <1>1 DEF LogInOrder, LedgerInOrder, StateInOrder, StoredState, MarkedLocked

LEMMA AuthorityStep ==
  ASSUME SerialInv, SerialInv', NothingUnlocked, NothingUnlocked', serial, [ModesNext]_<<vars, serial>>
  PROVE  [Authority!Next]_<<LogInOrder, StateInOrder>>
<1>1. CASE UNCHANGED <<vars, serial>>
  <2>1. ledger' = ledger /\ tier0' = tier0 /\ serial' = serial
    BY <1>1 DEF vars, storage
  <2>2. QED
    BY <2>1 DEF LogInOrder, LedgerInOrder, StateInOrder, StoredState, MarkedLocked
<1>2. CASE ModesNext /\ \E w \in Writers : Commit(w)
  BY <1>2, CommitAppends DEF ModesNext
<1>3. CASE ModesNext /\ \A w \in Writers : ~Commit(w)
  BY <1>3, AuthorityStutters DEF SerialInv
<1>4. QED
  BY <1>1, <1>2, <1>3

LEMMA AuthorityIdle ==
  ASSUME ~serial, [ModesNext]_<<vars, serial>>
  PROVE  UNCHANGED <<LogInOrder, StateInOrder>>
BY DEF ModesNext, LogInOrder, StateInOrder

LEMMA AuthorityInit == ModesInit => Authority!Init
<1> SUFFICES ASSUME ModesInit PROVE LogInOrder = <<>> /\ StateInOrder = Authority!EmptyState
  BY DEF Authority!Init
<1>1. ledger = {} /\ tier0 = EmptyState.rows
  BY DEF ModesInit, Init
<1>2. LedgerInOrder = <<>>
  <2>1. Log(ledger) /\ MaxSeq \in 0..MaxSeq /\ 0 \in 0..MaxSeq
    BY <1>1, LedgerConstants DEF Log
  <2>2. LogStates(ledger)[MaxSeq] = LogStates(ledger)[0]
    BY <1>1, <2>1, LogQuiet
  <2>3. QED
    BY <2>2, LogFold DEF LedgerInOrder
<1>3. Authority!EmptyState = EmptyState
  BY DEF Authority!EmptyState, EmptyState, Authority!RowKeys, RowKeys
<1>4. StoredState = EmptyState
  <2>1. \A ent \in Entities : MarkedLocked(tier0, ent) = FALSE
    BY <1>1, LockKeyType DEF MarkedLocked, EmptyState
  <2>2. QED
    BY <1>1, <2>1 DEF StoredState, EmptyState
<1>5. QED
  BY <1>2, <1>3, <1>4 DEF LogInOrder, StateInOrder

LEMMA NextSerial ==
  ASSUME SerialInv, AppendsAlone, [Next]_vars
  PROVE  SerialInv'
<1>1. EntitiesApart
  BY AloneApart DEF SerialInv
<1>2. TypeInv' /\ TailInv' /\ SeqInv' /\ AloneInv'
  BY <1>1, NextType, NextTail, NextSeqs, NextAlone DEF SerialInv
<1>3. QED
  BY <1>1, <1>2, NextFold DEF SerialInv

(* A behaviour whose appends run one at a time, and in which no Unlocked    *)
(* event is committed, is one of the abstract authority: every commit is   *)
(* one atomic batch at the end of the log, folded into the state readers    *)
(* see, and every other step of the protocol is invisible.                 *)
THEOREM SerialAppendsImplementAuthority ==
  ModesSpec /\ [](serial => AppendsAlone /\ NothingUnlocked) => ImplementsAuthority
<1> DEFINE Hyp == serial => AppendsAlone /\ NothingUnlocked
           MInv == serial => SerialInv
<1>1. ModesInit => MInv
  BY InitType, InitTail, InitSeqs, InitFold, InitAlone DEF ModesInit, SerialInv
<1>2. MInv /\ Hyp /\ [ModesNext]_<<vars, serial>> => MInv'
  <2> SUFFICES ASSUME MInv, Hyp, [ModesNext]_<<vars, serial>>, serial'
               PROVE  SerialInv'
    OBVIOUS
  <2>1. serial /\ [Next]_vars
    BY DEF ModesNext
  <2>2. QED
    BY <2>1, NextSerial
<1>3. MInv /\ MInv' /\ Hyp /\ Hyp' /\ [ModesNext]_<<vars, serial>>
        => [Authority!Next]_<<LogInOrder, StateInOrder>>
  <2> SUFFICES ASSUME MInv, MInv', Hyp, Hyp', [ModesNext]_<<vars, serial>>
               PROVE  [Authority!Next]_<<LogInOrder, StateInOrder>>
    OBVIOUS
  <2>1. CASE serial
    <3>1. serial'
      BY <2>1 DEF ModesNext
    <3>2. QED
      BY <2>1, <3>1, AuthorityStep
  <2>2. CASE ~serial
    BY <2>2, AuthorityIdle
  <2>3. QED
    BY <2>1, <2>2
<1>4. QED
  BY <1>1, <1>2, <1>3, AuthorityInit, PTL DEF ModesSpec, ImplementsAuthority, Authority!Spec
=============================================================================
