-------------------------- MODULE MCSemanticLedger --------------------------
(* Instances of SemanticLedger for TLC.                                     *)
EXTENDS SemanticLedger, SequencesExt, TLC

CONSTANTS w1, w2, e1, e2, p, v1, v2, k1, k2

Ev(type, ent, val, auth) ==
  [type |-> type, ent |-> ent, pred |-> p, val |-> val, auth |-> auth,
   st |-> None]

Claim(ent, val) == Ev("SemanticAsserted", ent, val, "machine")
UserClaim(ent, val) == Ev("SemanticAsserted", ent, val, "USER_OVERRIDE")
Override(ent, val) == Ev("OverrideApplied", ent, val, "USER_OVERRIDE")
Contradict(ent) == Ev("ContradictionRecorded", ent, None, "machine")
Invalidate(ent) == Ev("Invalidated", ent, None, None)
Lock(ent) == Ev("Locked", ent, None, None)
Unlock(ent) == Ev("Unlocked", ent, None, None)
Resolve(ent, val) ==
  [Ev("EntityResolved", ent, val, "machine") EXCEPT !.pred = None, !.st = "CONFIRMED"]
Mention(ent) == [Ev("EntityMentioned", ent, None, "machine") EXCEPT !.pred = None]
Audited(ent) == [Ev("JobRunAudit", ent, None, None) EXCEPT !.pred = None]
Completed(ent) == [Ev("StageCompleted", ent, None, None) EXCEPT !.pred = None]

Plain(batch) == [batch |-> batch, key |-> None, exp |-> None]
Keyed(batch, key) == [batch |-> batch, key |-> key, exp |-> None]
Expecting(batch, n) == [batch |-> batch, key |-> None, exp |-> n]

(* Each writer keeps to its own entity, one of them also locks and unlocks, *)
(* and both submit an append under one idempotency key.                     *)
DisjointRequests ==
  (w1 :> {Plain(<<Claim(e1, v2)>>), Plain(<<Lock(e1)>>),
          Plain(<<Unlock(e1)>>), Keyed(<<UserClaim(e1, v2)>>, k1)})
  @@ (w2 :> {Keyed(<<Override(e2, v1), Claim(e2, v2)>>, k1),
             Plain(<<Completed(e2), Resolve(e2, v1)>>)})

(* One append in flight at a time: every event type but Unlocked.           *)
SerialRequests ==
  w1 :> ({Plain(<<Lock(e1)>>), Plain(<<Audited(e1), Mention(e1)>>),
          Plain(<<Claim(e1, v1), Claim(e1, v2)>>), Plain(<<Override(e1, v1)>>),
          Plain(<<Contradict(e1), Invalidate(e1)>>)}
         \cup {Expecting(<<Resolve(e1, v1)>>, n) : n \in 0..2})

UnlockRequests == w1 :> {Plain(<<Lock(e1)>>), Plain(<<Unlock(e1)>>)}

(* Two writers on one row.                                                  *)
RaceRequests ==
  (w1 :> {Plain(<<Claim(e1, v1)>>)})
  @@ (w2 :> {Plain(<<Override(e1, v2)>>)})
=============================================================================
