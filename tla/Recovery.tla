------------------------------- MODULE Recovery -------------------------------
(***************************************************************************)
(* The two independent backups of the system and their restore, beside the *)
(* ingestion they run concurrently with: backup_postgres / restore_postgres *)
(* (the ledger and Tier-0 current_state, as three files) and backup_ocfl / *)
(* restore_ocfl (the object root).  The code fixes no order between them.  *)
(*                                                                         *)
(* current_state is reduced to what the fold decides for a subject: the    *)
(* seq of the last assertion; Tier0Reducer models the fold itself.         *)
(***************************************************************************)
EXTENDS SourceArchive

CONSTANTS
    Subjects,     \* entity refs that are asserted
    MaxEvents,    \* bound: rows of the ledger that assertions may reach
    MaxBackups    \* bound: runs of backup_postgres into the one destination

VARIABLES
    state,        \* current_state: [Subjects -> seq of its row, 0 if none]
    backup,       \* the run of backup_postgres: [pc, ledger, state]
    backups,      \* runs of backup_postgres started
    files,        \* ledger.jsonl, current_state.jsonl and manifest.json
    vault,        \* the copy of the object root, or None before the copy
    copied,       \* objects the running copytree has passed
    vaultOK,      \* the fidelity report of the copy
    snapFirst,    \* did the copy begin after the ledger of files was read?
    target,       \* the restored database and what its restore read of files
    root          \* the restored object root, or None

rvars == <<state, backup, backups, files, vault, copied, vaultOK, snapFirst, target, root>>

\* The fold of the ledger into current_state.
Replay(events) ==
    [k \in Subjects |->
        LET at == {i \in DOMAIN events : events[i].type = "SemanticAsserted"
                                           /\ events[i].key = k}
        IN IF at = {} THEN 0 ELSE CHOOSE i \in at : \A j \in at : j <= i]

RecoveryInit ==
    /\ state = [k \in Subjects |-> 0]
    /\ backup = [pc |-> "idle", ledger |-> <<>>, state |-> [k \in Subjects |-> 0]]
    /\ backups = 0
    /\ files = [ledger |-> None, state |-> None, manifest |-> None]
    /\ vault = None /\ copied = {} /\ vaultOK = FALSE /\ snapFirst = FALSE
    /\ target = [pc |-> "idle", ledger |-> <<>>, state |-> [k \in Subjects |-> 0],
                 rows |-> None, manifest |-> None]
    /\ root = None

\* Another client appends an assertion: its row and its Tier-0 delta are one
\* transaction (module SemanticLedger).
AppendAssertion(k) ==
    /\ Len(ledger) < MaxEvents
    /\ ledger' = Append(ledger, [type |-> "SemanticAsserted", key |-> k,
                                 source |-> None, sha512 |-> None])
    /\ state' = [state EXCEPT ![k] = Len(ledger')]
    /\ UNCHANGED <<objects, works, sources, memberships, artifacts, submitted, req, crashes,
                   backup, backups, files, vault, copied, vaultOK, snapFirst, target, root>>

-----------------------------------------------------------------------------
(* backup_postgres: two reads of one connection at READ COMMITTED, two     *)
(* files, then a third read for the checksum of the manifest               *)

ReadLedger ==
    /\ backup.pc = "idle" /\ backups < MaxBackups
    /\ backups' = backups + 1
    /\ backup' = [backup EXCEPT !.pc = "ledger", !.ledger = ledger]
    /\ UNCHANGED <<vars, state, files, vault, copied, vaultOK, snapFirst, target, root>>

ReadState ==
    /\ backup.pc = "ledger"
    /\ backup' = [backup EXCEPT !.pc = "rows", !.state = state]
    /\ UNCHANGED <<vars, state, backups, files, vault, copied, vaultOK, snapFirst, target, root>>

\* Each file is opened for writing over what an earlier run left there.
WriteLedgerFile ==
    /\ backup.pc = "rows"
    /\ backup' = [backup EXCEPT !.pc = "ledger_file"]
    /\ files' = [files EXCEPT !.ledger = backup.ledger]
    /\ snapFirst' = FALSE
    /\ UNCHANGED <<vars, state, backups, vault, copied, vaultOK, target, root>>

WriteStateFile ==
    /\ backup.pc = "ledger_file"
    /\ backup' = [backup EXCEPT !.pc = "state_file"]
    /\ files' = [files EXCEPT !.state = backup.state]
    /\ UNCHANGED <<vars, state, backups, vault, copied, vaultOK, snapFirst, target, root>>

\* The manifest: digests of the two files, the head of the ledger that was
\* read, and tier0_checksum of the live table.
WriteManifest ==
    /\ backup.pc = "state_file"
    /\ backup' = [backup EXCEPT !.pc = "idle"]
    /\ files' = [files EXCEPT !.manifest =
                    [ledger |-> files.ledger, state |-> files.state,
                     max_seq |-> Len(backup.ledger), checksum |-> state]]
    /\ UNCHANGED <<vars, state, backups, vault, copied, vaultOK, snapFirst, target, root>>

BackupDies ==
    /\ backup.pc # "idle"
    /\ backup' = [backup EXCEPT !.pc = "idle"]
    /\ UNCHANGED <<vars, state, backups, files, vault, copied, vaultOK, snapFirst, target, root>>

-----------------------------------------------------------------------------
(* restore_postgres                                                        *)

\* The three files are present; they must also have the digests of the manifest.
FilesPresent == files.ledger # None /\ files.state # None /\ files.manifest # None
Integrity ==
    /\ FilesPresent
    /\ files.manifest.ledger = files.ledger
    /\ files.manifest.state = files.state

\* A snapshot whose files are missing or do not match is refused.
RefuseRestore ==
    /\ target.pc = "idle" /\ files.ledger # None /\ backup.pc = "idle"
    /\ ~Integrity
    /\ target' = [target EXCEPT !.pc = "refused"]
    /\ UNCHANGED <<vars, state, backup, backups, files, vault, copied, vaultOK, snapFirst, root>>

\* One transaction truncates, re-inserts the rows with their seq, sets the
\* sequence and folds them from seq 0 into current_state.
RestoreLedger ==
    /\ target.pc = "idle" /\ backup.pc = "idle"
    /\ Integrity
    /\ target' = [pc |-> "replayed", ledger |-> files.ledger,
                  state |-> Replay(files.ledger), rows |-> files.state,
                  manifest |-> files.manifest]
    /\ UNCHANGED <<vars, state, backup, backups, files, vault, copied, vaultOK, snapFirst, root>>

\* The checksum of the committed rows against the manifest's: a difference
\* raises, after the transaction has replaced the database.
VerifyRestore ==
    /\ target.pc = "replayed"
    /\ target' = [target EXCEPT !.pc = IF target.state = target.manifest.checksum
                                       THEN "verified" ELSE "diverged"]
    /\ UNCHANGED <<vars, state, backup, backups, files, vault, copied, vaultOK, snapFirst, root>>

-----------------------------------------------------------------------------
(* backup_ocfl and restore_ocfl                                            *)

AllObjects == DOMAIN objects

\* verify_ocfl: discover_objects finds a directory by its inventory, so a
\* Bare one is not counted; the report is ok if each one found has fixity.
VerifyOcfl(copy) == \A o \in DOMAIN copy : copy[o] # "Described"

StartCopy ==
    /\ vault = None
    /\ vault' = [o \in AllObjects |-> "Absent"]
    /\ snapFirst' = (files.ledger # None)
    /\ UNCHANGED <<vars, state, backup, backups, files, copied, vaultOK, target, root>>

\* copytree passes the objects one by one, next to the calls that write them.
CopyObject(o) ==
    /\ vault # None /\ o \notin copied
    /\ vault' = [vault EXCEPT ![o] = objects[o]]
    /\ copied' = copied \cup {o}
    /\ vaultOK' = (copied' = AllObjects /\ VerifyOcfl(vault'))
    /\ UNCHANGED <<vars, state, backup, backups, files, snapFirst, target, root>>

\* restore_ocfl into a fresh root and its own verification.
RestoreRoot ==
    /\ root = None /\ vault # None /\ copied = AllObjects
    /\ root' = vault
    /\ UNCHANGED <<vars, state, backup, backups, files, vault, copied, vaultOK, snapFirst, target>>

RecoveryStep ==
    \/ ReadLedger \/ ReadState \/ WriteLedgerFile \/ WriteStateFile \/ WriteManifest
    \/ BackupDies \/ RefuseRestore \/ RestoreLedger \/ VerifyRestore
    \/ StartCopy \/ (\E o \in AllObjects : CopyObject(o)) \/ RestoreRoot

RecoveryNext ==
    \/ ArchiveNext /\ UNCHANGED rvars
    \/ \E k \in Subjects : AppendAssertion(k)
    \/ RecoveryStep

RecoverySpec == ArchiveInit /\ RecoveryInit /\ [][RecoveryNext]_<<vars, rvars>>

-----------------------------------------------------------------------------
(* Properties                                                              *)

IsPrefixOf(s, t) == Len(s) <= Len(t) /\ \A i \in DOMAIN s : s[i] = t[i]

\* A verified restore is exactly one moment of the database: the head the
\* report gives is the head of the restored ledger, that ledger is a prefix of
\* what was committed, and its fold, the rows of current_state.jsonl and the
\* checksum agree, although the three were read apart and a run that died may
\* have left files of two backups in the destination.
VerifiedRestoreIsExact ==
    target.pc = "verified" =>
        /\ target.manifest.max_seq = Len(target.ledger)
        /\ IsPrefixOf(target.ledger, ledger)
        /\ target.rows = target.state

\* Without a commit between its three reads a backup restores; only a commit
\* in between makes the finished backup one that restore_postgres rejects.
QuietBackupRestores ==
    target.pc = "diverged" =>
        \E i \in DOMAIN ledger : i > Len(target.ledger) /\ ledger[i].type = "SemanticAsserted"

\* When the object root is copied after the ledger was read, the restored
\* pair is closed: every SourceIngested event of the restored ledger finds its
\* object whole in the restored root, with uploads and crashes going on during
\* both backups.
RestoredEventsHaveBytes ==
    snapFirst /\ root # None /\ target.pc = "verified" =>
        \A e \in IngestEvents(target.ledger) : root[Ref("source", e.sha512)] = "Complete"

\* A restore that verifies is one moment of the system, a backup taken in quiet
\* restores, and the restored events have their bytes.
RestoresAreFaithful ==
    /\ VerifiedRestoreIsExact
    /\ QuietBackupRestores
    /\ RestoredEventsHaveBytes
==============================================================================
