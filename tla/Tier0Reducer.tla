---------------------------- MODULE Tier0Reducer ----------------------------
(***************************************************************************)
(* The pure Tier-0 reducer (storage/postgres/reducer.py): how one semantic *)
(* event changes the current_state rows and the per-entity lock map.       *)
(*                                                                         *)
(* A reduced state is [rows |-> ..., locks |-> ...] where rows is total    *)
(* over RowKeys and NoRow stands for an absent row.  A row keeps the       *)
(* columns the rules read: object, authority, state, seq.  Confidence,     *)
(* alternatives and contradiction refs are carried along by the code and   *)
(* never decide anything, so they are abstracted; so is the per-row        *)
(* "locked" flag, which reduce() never consults when the entity's entry in *)
(* the lock map is set.  The canonical-identity side row (EntityResolved   *)
(* ESTABLISH / UPDATE and events on CANONICAL_IDENTITY) is not modelled    *)
(* here.                                                                   *)
(***************************************************************************)
EXTENDS Naturals

CONSTANTS
  Entities,     \* entity references
  Predicates,   \* scalar predicates events may name
  Values,       \* object references
  None,         \* Python None
  NoRow         \* an absent current_state row

ASSUME NonesAreNotValues ==
  /\ None \notin Values \cup {"machine", "operator", "USER_OVERRIDE"}
  /\ {"*LOCK*", "CANONICAL_ENTITY", "CANDIDATE"} \cap Predicates = {}

Authorities == {"machine", "operator", "USER_OVERRIDE", None}

RowStates == {"UNKNOWN", "PROBABLE", "CONFIRMED", "AMBIGUOUS", "CONFLICTING",
              "INVALIDATED", "USER_CONFIRMED", "LOCKED", "UNLOCKED"}

LockKey(ent) == <<ent, "*LOCK*">>

RowKeys ==
  Entities \X (Predicates \cup {"*LOCK*", "CANONICAL_ENTITY", "CANDIDATE"})

Row == [object: Values \cup {None}, authority: Authorities,
        state: RowStates, seq: Nat]

ASSUME AbsentIsNoRow == NoRow \notin Row

SeedRow == [object |-> None, authority |-> None, state |-> "UNKNOWN", seq |-> 0]

(* Audit and pure provenance events never reduce a row.  *)
NonSemanticTypes == {"JobRunAudit", "StageCompleted", "ReferenceRebound"}

LockTypes == {"Locked", "Unlocked"}

ChangeTypes == {"SemanticAsserted", "OverrideApplied", "CorrectionApplied",
                "ContradictionRecorded", "Invalidated", "EntityResolved",
                "EntityMentioned"}

Event == [type: NonSemanticTypes \cup LockTypes \cup ChangeTypes,
          ent: Entities, pred: Predicates \cup {None},
          val: Values \cup {None}, auth: Authorities,
          st: {None, "PROBABLE", "CONFIRMED"}]   \* payload state, if any

(* Only the audit event is kept out of the inline fold altogether. *)
IsSemantic(ev) == ev.type # "JobRunAudit"

(* Entity-resolution events name no predicate: they fold into pseudo-rows. *)
PseudoPredicate(ev) ==
  IF ev.type = "EntityResolved" THEN "CANONICAL_ENTITY" ELSE "CANDIDATE"

HasTarget(ev) ==
  /\ ev.type \in ChangeTypes
  /\ ev.pred # None \/ ev.type \in {"EntityResolved", "EntityMentioned"}

EventTarget(ev) ==
  <<ev.ent, IF ev.pred # None THEN ev.pred ELSE PseudoPredicate(ev)>>

-----------------------------------------------------------------------------
(* _apply_change: the row that results from one change event, seq n. *)

Inherit(auth, row) == IF auth # None THEN auth ELSE row.authority

OverrideWinner(row, ev, n) ==
  [object |-> ev.val, authority |-> "USER_OVERRIDE",
   state |-> "USER_CONFIRMED", seq |-> n]

(* Mutant: a payload without a state blanks the row's. *)
AssertionBlankingState(row, ev, n) ==
  [object |-> ev.val, authority |-> Inherit(ev.auth, row),
   state |-> ev.st, seq |-> n]

Assertion(row, ev, n) ==
  [object |-> ev.val, authority |-> Inherit(ev.auth, row),
   state |-> IF ev.st # None THEN ev.st ELSE row.state, seq |-> n]

(* A contradiction, an invalidation or a mention only relabels the row. *)
Relabel(row, ev, n, label) ==
  [row EXCEPT !.state = label, !.seq = n, !.authority = Inherit(ev.auth, row)]

MachineChange(row, ev, n) ==
  CASE ev.type = "ContradictionRecorded" -> Relabel(row, ev, n, "CONFLICTING")
    [] ev.type = "Invalidated"           -> Relabel(row, ev, n, "INVALIDATED")
    [] ev.type = "EntityMentioned"       -> Relabel(row, ev, n, "AMBIGUOUS")
    [] ev.type = "EntityResolved"        ->
         Assertion([row EXCEPT !.authority = None], ev, n)
    [] OTHER                             -> Assertion(row, ev, n)

(* A machine event may not replace a user's winner, and a stale one loses. *)
Outranked(row, ev, n) ==
  \/ row.authority = "USER_OVERRIDE" /\ ev.auth # "USER_OVERRIDE"
  \/ n <= row.seq

ApplyChange(row, ev, n) ==
  IF ev.type \in {"OverrideApplied", "CorrectionApplied"}
  THEN OverrideWinner(row, ev, n)
  ELSE IF Outranked(row, ev, n) THEN row ELSE MachineChange(row, ev, n)

-----------------------------------------------------------------------------
(* CurrentStateReducer.reduce: fold one event into a reduced state. *)

EmptyState == [rows  |-> [k \in RowKeys |-> NoRow],
               locks |-> [ent \in Entities |-> FALSE]]

RowOrSeed(row) == IF row = NoRow THEN SeedRow ELSE row

LockMarker(row, ev, n) ==
  [RowOrSeed(row) EXCEPT
     !.object = None, !.seq = n,
     !.state = IF ev.type = "Locked" THEN "LOCKED" ELSE "UNLOCKED"]

SetLock(s, ev, n) ==
  [rows  |-> [s.rows EXCEPT ![LockKey(ev.ent)] = LockMarker(@, ev, n)],
   locks |-> [s.locks EXCEPT ![ev.ent] = (ev.type = "Locked")]]

Change(s, ev, n) ==
  [s EXCEPT !.rows[EventTarget(ev)] = ApplyChange(RowOrSeed(@), ev, n)]

Reduce(s, ev, n) ==
  IF ev.type \in LockTypes THEN SetLock(s, ev, n)
  ELSE IF ~HasTarget(ev) \/ s.locks[ev.ent] THEN s
  ELSE Change(s, ev, n)

(* Persisting drops an UNLOCKED marker: an absent marker means unlocked. *)
Droppable(key, row) == key[2] = "*LOCK*" /\ row.state = "UNLOCKED"

Persisted(rows) ==
  [k \in RowKeys |-> IF rows[k] # NoRow /\ Droppable(k, rows[k])
                     THEN NoRow ELSE rows[k]]
=============================================================================
