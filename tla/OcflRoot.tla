------------------------------- MODULE OcflRoot -------------------------------
(***************************************************************************)
(* SourceStore.create: the API and the workers bootstrap one OCFL storage  *)
(* root on a shared volume.  An flock on the root directory serialises     *)
(* them; the kernel drops it with the process that held it.  The root is   *)
(* built in a staging directory inside it and its entries are moved up one *)
(* by one.                                                                 *)
(***************************************************************************)
EXTENDS FiniteSets, Integers

CONSTANTS
    Starters,       \* processes that start with the volume
    RootCrashes     \* bound: processes that die while they hold the lock

\* "free" names no process.
ASSUME FreeIsNoStarter == "free" \notin Starters

\* What StorageRoot.initialize writes: the declaration (namaste) and the rest.
NamasteFile == "0=ocfl_1.1"
RootEntries == {NamasteFile, "ocfl_layout.json", "spec"}

\* No staging directory (an empty one is {}).
Gone == {"no directory"}

VARIABLES
    entries,        \* files moved to their place in the root
    staged,         \* [Starters -> entries in its staging directory, or Gone]
    lockHolder,     \* the process that holds the flock, or "free"
    starter,        \* [Starters -> control state]
    inits,          \* initialisations begun
    rootCrashes

rootVars == <<entries, staged, lockHolder, starter, inits, rootCrashes>>

RootInit ==
    /\ entries = {} /\ staged = [p \in Starters |-> Gone] /\ lockHolder = "free"
    /\ starter = [p \in Starters |-> "start"]
    /\ inits = 0 /\ rootCrashes = 0

\* flock(LOCK_EX).
LockFree == lockHolder = "free"

Acquire(p) ==
    /\ starter[p] = "start" /\ LockFree
    /\ lockHolder' = p
    /\ starter' = [starter EXCEPT ![p] = "locked"]
    /\ UNCHANGED <<entries, staged, inits, rootCrashes>>

Release(p) == lockHolder' = IF lockHolder = p THEN "free" ELSE lockHolder

\* Under the lock: a declared root is returned; a directory with anything
\* else in it, a staging directory included, is refused; else build.
Inspect(p) ==
    /\ starter[p] = "locked"
    /\ IF NamasteFile \in entries
       THEN starter' = [starter EXCEPT ![p] = "ready"] /\ Release(p)
       ELSE IF entries # {} \/ \E q \in Starters : staged[q] # Gone
            THEN starter' = [starter EXCEPT ![p] = "refused"] /\ Release(p)
            ELSE starter' = [starter EXCEPT ![p] = "empty"] /\ UNCHANGED lockHolder
    /\ UNCHANGED <<entries, staged, inits, rootCrashes>>

\* mkdtemp in the root, and StorageRoot.initialize in it.
Stage(p) ==
    /\ starter[p] = "empty"
    /\ starter' = [starter EXCEPT ![p] = "building"]
    /\ staged' = [staged EXCEPT ![p] = RootEntries]
    /\ inits' = inits + 1
    /\ UNCHANGED <<entries, lockHolder, rootCrashes>>

\* shutil.move of one entry, in the order iterdir gives.
MoveEntry(p) ==
    /\ starter[p] = "building"
    /\ \E e \in staged[p] :
          staged' = [staged EXCEPT ![p] = @ \ {e}] /\ entries' = entries \cup {e}
    /\ UNCHANGED <<lockHolder, starter, inits, rootCrashes>>

\* The staging directory is removed, the store returned, the lock released.
FinishRoot(p) ==
    /\ starter[p] = "building" /\ staged[p] = {}
    /\ staged' = [staged EXCEPT ![p] = Gone]
    /\ starter' = [starter EXCEPT ![p] = "ready"] /\ Release(p)
    /\ UNCHANGED <<entries, inits, rootCrashes>>

\* Mutant: the lock is the existence of its file, which outlives the process.
LockFile(p) == lockHolder

\* The flock of a dead process is released by the kernel.
AfterDeath(p) == IF lockHolder = p THEN "free" ELSE lockHolder

\* Killed inside create: nothing is cleaned up.
DieBuilding(p) ==
    /\ starter[p] \in {"locked", "empty", "building"} /\ rootCrashes < RootCrashes
    /\ rootCrashes' = rootCrashes + 1
    /\ lockHolder' = AfterDeath(p)
    /\ starter' = [starter EXCEPT ![p] = "dead"]
    /\ UNCHANGED <<entries, staged, inits>>

Proceed(p) == Acquire(p) \/ Inspect(p) \/ Stage(p) \/ MoveEntry(p) \/ FinishRoot(p)

RootNext == \E p \in Starters : Proceed(p) \/ DieBuilding(p)

\* A process that is not killed runs on: its next instruction is always due.
RootFair == \A p \in Starters : WF_rootVars(Proceed(p))
RootSpec == RootInit /\ [][RootNext]_rootVars /\ RootFair

-----------------------------------------------------------------------------

\* However many processes start at once, the root is built by one of them and
\* the others return it whole: a process is never handed a root whose layout
\* is still being moved, nor refused, unless a builder was killed.
RootBuiltOnce ==
    rootCrashes = 0 =>
        /\ inits <= 1
        /\ \A p \in Starters : starter[p] # "refused"
        /\ (\E p \in Starters : starter[p] = "ready") => entries = RootEntries

\* Every start of a process ends: it gets its store or is refused, whoever
\* dies with the lock.
StartsEnd == \A p \in Starters : <>(starter[p] \in {"ready", "refused", "dead"})

\* Concurrent starts, some killed, build one storage root that is never
\* replaced, and each start that lives ends.
RootComesUp ==
    /\ []RootBuiltOnce
    /\ StartsEnd
==============================================================================
