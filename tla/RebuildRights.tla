---------------------------- MODULE RebuildRights ----------------------------
(***************************************************************************)
(* ReindexCoordinator of operations/controller.py: the cap on concurrent   *)
(* rebuilds, and the calls of ProjectionController.rebuild that share it.  *)
(***************************************************************************)
EXTENDS Naturals, FiniteSets

CONSTANTS
    Operators,          \* concurrent calls of rebuild
    Projections,
    ConcurrentRebuilds, \* RebuildSettings
    MaxRebuilds         \* bound: rebuilds asked for

ASSUME RebuildConstants == IsFiniteSet(Operators) /\ ConcurrentRebuilds \in Nat

VARIABLES
    active,         \* projections with the right to rebuild
    rebuild,        \* [Operators -> [at, name, forced]]
    pausedNames,    \* projections whose checkpoint carries a pause reason
    rebuildsAsked

rebuildVars == <<active, rebuild, pausedNames, rebuildsAsked>>

RebuildInit ==
    /\ active = {} /\ rebuild = [o \in Operators |-> [at |-> "idle", name |-> "", forced |-> FALSE]]
    /\ pausedNames = {} /\ rebuildsAsked = 0

\* rebuild reads the checkpoint: a paused projection is reported, not run,
\* unless the operator forces it.
AskRebuild(o, name, forced) ==
    /\ rebuild[o].at = "idle" /\ rebuildsAsked < MaxRebuilds
    /\ rebuildsAsked' = rebuildsAsked + 1
    /\ rebuild' = [rebuild EXCEPT ![o] =
                      [at |-> IF name \in pausedNames /\ ~forced THEN "idle" ELSE "acquire",
                       name |-> name, forced |-> forced]]
    /\ UNCHANGED <<active, pausedNames>>

\* Mutant: two rebuilds of one projection may run.
HasRoomOnly(name) == Cardinality(active) < ConcurrentRebuilds

\* acquire: room under the cap, and no rebuild of the projection itself.
MayStart(name) == Cardinality(active) < ConcurrentRebuilds /\ name \notin active

AcquireRight(o) ==
    /\ rebuild[o].at = "acquire"
    /\ IF MayStart(rebuild[o].name)
       THEN /\ active' = active \cup {rebuild[o].name}
            /\ rebuild' = [rebuild EXCEPT ![o].at = "running"]
       ELSE rebuild' = [rebuild EXCEPT ![o].at = "idle"] /\ UNCHANGED active
    /\ UNCHANGED <<pausedNames, rebuildsAsked>>

Outcomes == {"applied", "poisoned", "raised"}

\* What the driver leaves of the pause: it rolls back when it raises, it reads
\* the pause again under its lock, and a forced run lifts it.
PausedAfter(name, forced, outcome) ==
    IF outcome = "raised" \/ (name \in pausedNames /\ ~forced) THEN pausedNames
    ELSE IF outcome = "poisoned" THEN pausedNames \cup {name}
    ELSE pausedNames \ {name}

\* The driver returns or raises; release is in the finally clause.
EndRebuild(o, outcome) ==
    /\ rebuild[o].at = "running"
    /\ active' = active \ {rebuild[o].name}
    /\ pausedNames' = PausedAfter(rebuild[o].name, rebuild[o].forced, outcome)
    /\ rebuild' = [rebuild EXCEPT ![o].at = "idle"]
    /\ UNCHANGED rebuildsAsked

RebuildNext ==
    \E o \in Operators :
        \/ \E name \in Projections, forced \in BOOLEAN : AskRebuild(o, name, forced)
        \/ AcquireRight(o)
        \/ \E outcome \in Outcomes : EndRebuild(o, outcome)

RebuildSpec == RebuildInit /\ [][RebuildNext]_rebuildVars

-----------------------------------------------------------------------------

\* The right to rebuild belongs to the calls that run, one for a projection and
\* never more than the cap: a call that was refused, or met a paused projection,
\* takes no right with it and releases nobody else's.
RebuildRightsExact ==
    LET running == {o \in Operators : rebuild[o].at = "running"}
    IN /\ active = {rebuild[o].name : o \in running}
       /\ Cardinality(active) = Cardinality(running)
       /\ Cardinality(running) <= ConcurrentRebuilds
==============================================================================
