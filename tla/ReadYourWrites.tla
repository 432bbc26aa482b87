--------------------------- MODULE ReadYourWrites ---------------------------
(***************************************************************************)
(* The read-your-writes guard (api/consistency.py, ConsistencyGuard) over  *)
(* the projections of ProjectionReplay.  A reader names the seq its write  *)
(* returned; the guard waits in a bounded semaphore, first for the         *)
(* projection to leave its pause and then for the checkpoint to reach the  *)
(* token, and answers or gives up with a 503.  The deadline may pass at    *)
(* any poll.  The query itself reads the store after the guard returned.   *)
(***************************************************************************)
EXTENDS ProjectionReplay

CONSTANTS
  Readers,     \* concurrent token-bearing reads
  MaxWaiters   \* bound of the guard's semaphore

ASSUME ReadConstants == IsFiniteSet(Readers) /\ MaxWaiters \in Nat \ {0}

VARIABLES
  read,   \* read[r]: the reader's place in ensure_read
  slots   \* free slots of each guard's semaphore

allVars == <<vars, read, slots>>

NoRead == [phase |-> "idle", token |-> 0, proj |-> "search",
           applied |-> 0, paused |-> FALSE]

ReadTypeOK ==
  /\ TypeOK
  /\ read \in [Readers -> [phase: {"idle", "queue", "pause", "lag", "answer"},
                           token: 0..MaxSeq, proj: Projections,
                           applied: 0..MaxSeq, paused: BOOLEAN]]
  /\ slots \in [Projections -> 0..MaxWaiters]

ReadInit ==
  /\ Init
  /\ read = [r \in Readers |-> NoRead]
  /\ slots = [p \in Projections |-> MaxWaiters]

-----------------------------------------------------------------------------
(* ProjectionFreshness.snapshot: the checkpoint row, zero if there is none. *)
Snapshot(r) ==
  [read[r] EXCEPT !.applied = checkpoint[read[r].proj].applied,
                  !.paused = checkpoint[read[r].proj].paused]

(* A client reads with the token of a committed append.                    *)
Ask(r) ==
  /\ read[r].phase = "idle"
  /\ \E e \in ledger, p \in Projections :
       read' = [read EXCEPT ![r] =
                  [NoRead EXCEPT !.phase = "queue", !.token = e.seq, !.proj = p]]
  /\ UNCHANGED slots

Enter(r) ==
  /\ read[r].phase = "queue"
  /\ slots[read[r].proj] > 0
  /\ slots' = [slots EXCEPT ![read[r].proj] = @ - 1]
  /\ read' = [read EXCEPT ![r] = [Snapshot(r) EXCEPT !.phase = "pause"]]

PollPause(r) ==
  /\ read[r].phase = "pause" /\ read[r].paused
  /\ read' = [read EXCEPT ![r] = Snapshot(r)]
  /\ UNCHANGED slots

PauseOver(r) ==
  /\ read[r].phase = "pause" /\ ~read[r].paused
  /\ read' = [read EXCEPT ![r].phase = "lag"]
  /\ UNCHANGED slots

PollLag(r) ==
  /\ read[r].phase = "lag" /\ read[r].applied < read[r].token
  /\ read' = [read EXCEPT ![r] = Snapshot(r)]
  /\ UNCHANGED slots

(* Leaving the with block gives the slot back. *)
Leave(r) == slots' = [slots EXCEPT ![read[r].proj] = @ + 1]

(* Mutant: the 503 of the pause is raised without giving the slot back. *)
GiveUpKeepingSlot(r) ==
  /\ \/ read[r].phase = "pause" /\ read[r].paused /\ UNCHANGED slots
     \/ read[r].phase = "lag" /\ read[r].applied < read[r].token /\ Leave(r)
  /\ read' = [read EXCEPT ![r] = NoRead]

(* The deadline passed: rebuild-in-progress or transient-lag. *)
GiveUp(r) ==
  /\ \/ read[r].phase = "pause" /\ read[r].paused
     \/ read[r].phase = "lag" /\ read[r].applied < read[r].token
  /\ Leave(r)
  /\ read' = [read EXCEPT ![r] = NoRead]

(* Mutant: an off-by-one lets the read through one seq early. *)
CaughtUpNearly(r) ==
  /\ read[r].phase = "lag" /\ read[r].applied + 1 >= read[r].token
  /\ Leave(r)
  /\ read' = [read EXCEPT ![r].phase = "answer"]

CaughtUp(r) ==
  /\ read[r].phase = "lag" /\ read[r].applied >= read[r].token
  /\ Leave(r)
  /\ read' = [read EXCEPT ![r].phase = "answer"]

(* The query runs on its own connection and the response goes out. *)
Answer(r) ==
  /\ read[r].phase = "answer"
  /\ read' = [read EXCEPT ![r] = NoRead]
  /\ UNCHANGED slots

ReadStep(r) ==
  \/ Enter(r) \/ PauseOver(r) \/ GiveUp(r) \/ CaughtUp(r) \/ Answer(r)

ReadNext ==
  \/ Next /\ UNCHANGED <<read, slots>>
  \/ /\ \E r \in Readers : Ask(r) \/ PollPause(r) \/ PollLag(r) \/ ReadStep(r)
     /\ UNCHANGED vars

ReadSpec == ReadInit /\ [][ReadNext]_allVars

(* Each poll loop has a deadline, and the semaphore wakes its waiters.      *)
FairReadSpec == ReadSpec /\ \A r \in Readers : SF_<<read, slots>>(ReadStep(r))

-----------------------------------------------------------------------------
(* An admitted read sees the write whose token it carries: while the        *)
(* projection is not paused again, the event is in the store the query      *)
(* reads, unless the poison policy skips it for its quarantined locator.    *)
AnswersReflectToken ==
  \A r \in Readers :
    /\ read[r].phase = "answer"
    /\ ~checkpoint[read[r].proj].paused
    /\ \E e \in ledger : e.seq = read[r].token /\ e.kind # "noise"
    => read[r].token \in store[read[r].proj]

(* A slot is free, or held by one waiter: no exit of the guard keeps it or  *)
(* gives it back twice.                                                     *)
SlotsAccounted ==
  \A p \in Projections :
    slots[p] + Cardinality({r \in Readers : /\ read[r].phase \in {"pause", "lag"}
                                            /\ read[r].proj = p}) = MaxWaiters

(* The guard can be relied on: no exit loses a slot, and the checkpoint its *)
(* readers wait for never claims an event that was skipped.                 *)
GuardSafe ==
  /\ ReadTypeOK
  /\ SlotsAccounted
  /\ CheckpointCovered

(* Every read is answered or refused; no waiter starves for a slot.         *)
ReadEnds == \A r \in Readers : read[r].phase # "idle" ~> read[r].phase = "idle"
=============================================================================
