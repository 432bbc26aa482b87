---------------------------- MODULE SourceArchive ----------------------------
(***************************************************************************)
(* The write path of source bytes: SourceStore.put_immutable over an OCFL  *)
(* storage root, the two front doors that ingest a source (the REST        *)
(* handler _submit_source and IngestionCommandHandler.ingest), and the     *)
(* derived-artifact path.  Every call is a process of its own; each        *)
(* database call is one transaction, and nothing spans two of them, so a   *)
(* crash or another request may come between any two steps.                *)
(*                                                                         *)
(* A source id is a uuid, which the tables hold, and in a call a string    *)
(* that spells it: the drawn and found ids of the REST handler are spelled *)
(* in hex, those of the command handler with dashes, a client's own either *)
(* way.  The spelling is what the idempotency key and the job's name are   *)
(* made of.                                                                *)
(*                                                                         *)
(* Bytes are a digest; an object identifier is its kind and digest.  The   *)
(* directory of an object goes through the states a copy into the root     *)
(* leaves on disk: Bare (no readable inventory), Described (an inventory   *)
(* but not all content) and Complete.                                      *)
(***************************************************************************)
EXTENDS FiniteSets, Integers, Sequences

CONSTANTS
    Requests,     \* calls to a front door, each made at most once
    Digests,      \* sha512 values of the uploaded bytes
    KnownWorks,   \* rows of table work that exist before the requests
    GhostWorks,   \* work ids a client may name although no row has them
    NamedIds,     \* source ids a REST client may choose itself
    MaxCrashes,   \* bound: processes that die in the middle of a call
    None          \* an absent work, source or artifact owner

\* A uuid drawn for a source is none a client chose, and no path, row or event
\* is the absent one.
ASSUME ArchiveConstants ==
    /\ Requests \cap NamedIds = {}
    /\ None \notin [({"source", "derived"} \X Digests) -> {"Absent", "Bare", "Described", "Complete"}]
    /\ MaxCrashes \in Nat

VARIABLES
    objects,      \* [Kinds \X Digests -> directory state under the OCFL root]
    works,        \* rows of table work
    sources,      \* rows of table source: [id, sha512, work]
    memberships,  \* rows of table source_membership: <<source id, work>>
    artifacts,    \* rows of table artifact: the ocfl_ref they bind
    ledger,       \* rows of semantic_event in the order of their seq
    submitted,    \* <<source id, spelling>> whose decomposition job was submitted
    req,          \* [Requests -> control state and locals of the call]
    crashes       \* processes that died so far

vars == <<objects, works, sources, memberships, artifacts, ledger, submitted,
          req, crashes>>

Kinds == {"source", "derived"}
DirStates == {"Absent", "Bare", "Described", "Complete"}
Ended == {"done", "failed", "crashed"}
Steps == {"put", "adding", "copying", "stored", "ensure_work", "ensure_source",
          "membership", "record", "dispatch"}

\* A request of the REST handler, of the command handler, or of a stage that
\* stores a derived artifact.
Doors == {"rest", "handler", "artifact"}

\* uuid.hex and str(uuid).
Forms == {"hex", "dashed"}

Ref(k, d) == <<k, d>>
KindOf(door) == IF door = "artifact" THEN "derived" ELSE "source"
Mine(r) == Ref(KindOf(req[r].door), req[r].sha512)

ArchiveInit ==
    /\ objects = [o \in Kinds \X Digests |-> "Absent"]
    /\ works = KnownWorks
    /\ sources = {}
    /\ memberships = {}
    /\ artifacts = {}
    /\ ledger = <<>>
    /\ submitted = {}
    /\ req = [r \in Requests |-> [pc |-> "idle", door |-> "rest", sha512 |-> None,
                                  asked |-> None, source |-> r, form |-> "hex",
                                  work |-> None]]
    /\ crashes = 0

\* Rows of the tables, with the columns the calls depend on.
SourceIds == Requests \cup NamedIds
WorkIds == KnownWorks \cup GhostWorks \cup Requests
SourceRow == [id : SourceIds, sha512 : Digests, work : WorkIds]
MembershipRow == SourceIds \X WorkIds
ArtifactRow == {"derived"} \X Digests
IngestKeys == ({"ingest"} \X (SourceIds \X Forms)) \cup ({"call"} \X Requests)

\* The SourceIngested events of a ledger.
IngestEvents(events) == {e \in {events[i] : i \in DOMAIN events} : e.type = "SourceIngested"}
ingested == IngestEvents(ledger)

Goto(r, pc) == req' = [req EXCEPT ![r].pc = pc]

-----------------------------------------------------------------------------
(* put_immutable                                                           *)

\* _spool_and_digest: the bytes are read to the end and hashed.  The REST
\* handler takes the source id of the body as it is spelled or the hex of a new
\* uuid, here the request; the command handler the str of a new one.
Spool(r) ==
    /\ req[r].pc = "idle"
    /\ \E door \in Doors, d \in Digests, w \in KnownWorks \cup GhostWorks \cup {None},
          s \in NamedIds \cup {r}, form \in Forms :
          /\ door # "rest" => s = r /\ form = "dashed"
          /\ door = "rest" /\ s = r => form = "hex"
          /\ door = "artifact" => w = None
          /\ req' = [req EXCEPT ![r] = [pc |-> "put", door |-> door, sha512 |-> d,
                                        asked |-> w, source |-> s, form |-> form,
                                        work |-> None]]
    /\ UNCHANGED <<objects, works, sources, memberships, artifacts, ledger,
                   submitted, crashes>>

\* A payload over max_upload_bytes ends before anything is stored.
SpoolTooLarge(r) ==
    /\ req[r].pc = "idle"
    /\ Goto(r, "failed")
    /\ UNCHANGED <<objects, works, sources, memberships, artifacts, ledger,
                   submitted, crashes>>

\* verify_fixity of a directory: an unreadable inventory answers False, a
\* missing content file raises; the put fails on both.
VerifyFixity(o) == objects[o] = "Complete"

\* put_immutable: an object that exists is verified, one that does not is
\* staged; the check holds no lock until the copy.
PutImmutable(r) ==
    /\ req[r].pc = "put"
    /\ Goto(r, IF objects[Mine(r)] = "Absent" THEN "adding"
               ELSE IF VerifyFixity(Mine(r)) THEN "stored" ELSE "failed")
    /\ UNCHANGED <<objects, works, sources, memberships, artifacts, ledger,
                   submitted, crashes>>

\* StorageRoot.add of ocfl-py refuses a path that exists.
RootRefuses(o) == objects[o] # "Absent"

\* _write_object up to the copy: a directory that appeared meanwhile ends the
\* call with StoreError, otherwise it is created.
AddObject(r) ==
    /\ req[r].pc = "adding"
    /\ IF RootRefuses(Mine(r))
       THEN Goto(r, "failed") /\ UNCHANGED objects
       ELSE /\ Goto(r, "copying")
            /\ objects' = [objects EXCEPT ![Mine(r)] = "Bare"]
    /\ UNCHANGED <<works, sources, memberships, artifacts, ledger, submitted, crashes>>

\* One step of the copy of the staged tree, in the order the directory lists.
CopyStep(r) ==
    /\ req[r].pc = "copying"
    /\ \E s \in (IF objects[Mine(r)] = "Bare" THEN {"Described", "Complete"}
                                              ELSE {"Complete"}) :
          /\ objects' = [objects EXCEPT ![Mine(r)] = s]
          /\ Goto(r, IF s = "Complete" THEN "stored" ELSE "copying")
    /\ UNCHANGED <<works, sources, memberships, artifacts, ledger, submitted, crashes>>

-----------------------------------------------------------------------------
(* Source rows                                                             *)

SourceOf(d) == {s \in sources : s.sha512 = d}

\* The columns source.id, source.sha512 and source.ocfl_ref are unique, and
\* source.work_id refers to a row of work.
SourceRowAllowed(s) ==
    /\ \A t \in sources : t.id # s.id /\ t.sha512 # s.sha512
    /\ s.work \in works

\* A new source belongs to the asked work, or to a fresh one.
NewWork(r) == IF req[r].asked = None THEN r ELSE req[r].asked

\* A source that is already there is announced again all the same: the call
\* that inserted it may have died before its event.
AfterFound(r) == "record"

\* Only the command handler adds the primary membership.
AfterInsert(r) == IF req[r].door = "handler" THEN "membership" ELSE "record"

\* find_source_by_sha512 and the choice of the work.  An existing source is
\* reused, its id spelled as row.id.hex, with the asked work, or its own; a new
\* one gets the asked work or a fresh one, here named by the request.
FindSource(r) ==
    /\ req[r].pc = "stored" /\ req[r].door # "artifact"
    /\ LET found == SourceOf(req[r].sha512)
           asked == req[r].asked
       IN IF found # {}
          THEN LET s == CHOOSE s \in found : TRUE
               IN req' = [req EXCEPT ![r].pc = AfterFound(r), ![r].source = s.id,
                                     ![r].form = "hex",
                                     ![r].work = IF asked = None THEN s.work ELSE asked]
          ELSE req' = [req EXCEPT ![r].pc = IF asked = None THEN "ensure_work"
                                                            ELSE "ensure_source",
                                  ![r].work = NewWork(r)]
    /\ UNCHANGED <<objects, works, sources, memberships, artifacts, ledger,
                   submitted, crashes>>

EnsureWork(r) ==
    /\ req[r].pc = "ensure_work"
    /\ works' = works \cup {req[r].work}
    /\ Goto(r, "ensure_source")
    /\ UNCHANGED <<objects, sources, memberships, artifacts, ledger, submitted, crashes>>

\* ensure_source: one INSERT; a row the constraints refuse raises.
EnsureSource(r) ==
    /\ req[r].pc = "ensure_source"
    /\ LET row == [id |-> req[r].source, sha512 |-> req[r].sha512, work |-> req[r].work]
       IN IF SourceRowAllowed(row)
          THEN /\ sources' = sources \cup {row}
               /\ Goto(r, AfterInsert(r))
          ELSE Goto(r, "failed") /\ UNCHANGED sources
    /\ UNCHANGED <<objects, works, memberships, artifacts, ledger, submitted, crashes>>

AddMembership(r) ==
    /\ req[r].pc = "membership"
    /\ memberships' = memberships \cup {<<req[r].source, req[r].work>>}
    /\ Goto(r, "record")
    /\ UNCHANGED <<objects, works, sources, artifacts, ledger, submitted, crashes>>

-----------------------------------------------------------------------------
(* The event, the job and the artifact row                                 *)

Spelled(r) == <<req[r].source, req[r].form>>

\* Mutant: the key is drawn anew by every call.
KeyPerCall(r) == IF req[r].door = "rest" THEN <<"ingest", <<r, "hex">>>> ELSE <<"call", r>>

\* The REST handler derives the ledger's idempotency key from the source id as
\* the call spells it; the command handler passes the client's, here none.
IngestKey(r) == IF req[r].door = "rest" THEN <<"ingest", Spelled(r)>> ELSE <<"call", r>>

\* record_source_ingested: an append with a key the ledger already holds
\* returns the commit of its event and appends nothing.
RecordIngested(r) ==
    /\ req[r].pc = "record"
    /\ ledger' =
         IF \E e \in ingested : e.key = IngestKey(r) THEN ledger
         ELSE Append(ledger, [type |-> "SourceIngested", key |-> IngestKey(r),
                              source |-> req[r].source, sha512 |-> req[r].sha512])
    /\ Goto(r, IF req[r].door = "rest" THEN "dispatch" ELSE "done")
    /\ UNCHANGED <<objects, works, sources, memberships, artifacts, submitted, crashes>>

\* _dispatch submits the job named after the id as it is spelled, or surfaces
\* the failure.
Dispatch(r) ==
    /\ req[r].pc = "dispatch"
    /\ \/ submitted' = submitted \cup {Spelled(r)} /\ Goto(r, "done")
       \/ Goto(r, "failed") /\ UNCHANGED submitted
    /\ UNCHANGED <<objects, works, sources, memberships, artifacts, ledger, crashes>>

\* PostgresArtifactStore.record: insert or keep the row of the ocfl_ref.
RecordArtifact(r) ==
    /\ req[r].pc = "stored" /\ req[r].door = "artifact"
    /\ artifacts' = artifacts \cup {Mine(r)}
    /\ Goto(r, "done")
    /\ UNCHANGED <<objects, works, sources, memberships, ledger, submitted, crashes>>

\* The process dies between two steps; what it wrote stays.
Crash(r) ==
    /\ req[r].pc \in Steps
    /\ crashes < MaxCrashes
    /\ crashes' = crashes + 1
    /\ Goto(r, "crashed")
    /\ UNCHANGED <<objects, works, sources, memberships, artifacts, ledger, submitted>>

Advance(r) ==
    \/ PutImmutable(r) \/ AddObject(r) \/ CopyStep(r) \/ FindSource(r)
    \/ EnsureWork(r) \/ EnsureSource(r) \/ AddMembership(r)
    \/ RecordIngested(r) \/ Dispatch(r) \/ RecordArtifact(r)

ArchiveNext ==
    \E r \in Requests : Spool(r) \/ SpoolTooLarge(r) \/ Advance(r) \/ Crash(r)

ArchiveSpec == ArchiveInit /\ [][ArchiveNext]_vars

-----------------------------------------------------------------------------
(* Properties                                                              *)

\* Type correctness of the archive's tables and of the calls in progress.
ArchiveTypeOK ==
    /\ objects \in [Kinds \X Digests -> DirStates]
    /\ works \subseteq WorkIds
    /\ sources \subseteq SourceRow
    /\ memberships \subseteq MembershipRow
    /\ artifacts \subseteq ArtifactRow
    /\ ingested \subseteq [type : {"SourceIngested"}, key : IngestKeys,
                          source : SourceIds, sha512 : Digests]
    /\ submitted \subseteq SourceIds \X Forms
    /\ req \in [Requests -> [pc : {"idle"} \cup Steps \cup Ended, door : Doors,
                             sha512 : Digests \cup {None}, asked : WorkIds \cup {None},
                             source : SourceIds, form : Forms, work : WorkIds \cup {None}]]
    /\ crashes \in 0..MaxCrashes

\* The database never refers to bytes the object store does not hold whole:
\* the row of a source, the event of its ingestion and the row of an artifact
\* are written after put_immutable returned, also when the put found the
\* directory of another call that is still copying or died while it copied.
RowsHaveBytes ==
    /\ \A s \in sources : objects[Ref("source", s.sha512)] = "Complete"
    /\ \A e \in ingested : objects[Ref("source", e.sha512)] = "Complete"
    /\ \A a \in artifacts : objects[a] = "Complete"

\* Two calls that were answered for the same bytes name the same source, and
\* the row of that source holds those bytes: content addressing survives the
\* race between find_source_by_sha512 and ensure_source, and a source id the
\* client chose for other bytes.
SameBytesSameSource ==
    \A q, r \in Requests :
        /\ req[q].pc = "done" /\ req[q].door # "artifact"
        /\ req[r].pc = "done" /\ req[r].door # "artifact"
        => (req[q].sha512 = req[r].sha512) <=> (req[q].source = req[r].source)

\* REST uploads record one SourceIngested per source whose id was drawn,
\* however often the same bytes are sent and whichever call died; its bytes are
\* those of the row.  A source whose id a client chose may get one per spelling:
\* the first upload has the client's, every later one the hex of the row.
OneIngestEventPerSource ==
    /\ \A e, f \in ingested :
          e.key[1] = "ingest" /\ f.key[1] = "ingest" /\ e.source = f.source =>
            e = f \/ (e.source \in NamedIds /\ e.key # f.key)
    /\ \A e \in ingested : \E s \in sources : s.id = e.source /\ s.sha512 = e.sha512

\* A job is submitted only for a source whose ingestion is in the ledger, so
\* a stage never runs for a source that a replay of the ledger would not know.
JobsFollowTheLedger ==
    \A s \in submitted : \E e \in ingested : e.source = s[1]

\* A source the command handler inserted lacks its primary membership only
\* while that call stands between its two transactions, or died there; a later
\* call that finds the source does not add it.
MembershipGap ==
    \A s \in sources :
        s.id \in Requests /\ req[s.id].door = "handler" =>
            \/ <<s.id, s.work>> \in memberships
            \/ req[s.id].pc \in {"membership", "crashed"}

\* The chain from bytes to job holds through every race and crash: rows have
\* their bytes, equal bytes are one source with one event (per spelling of an id
\* that a client chose), jobs follow their event and only a call cut in two leaves
\* a source without its membership.
ArchiveConsistent ==
    /\ ArchiveTypeOK
    /\ RowsHaveBytes
    /\ SameBytesSameSource
    /\ OneIngestEventPerSource
    /\ JobsFollowTheLedger
    /\ MembershipGap

\* Stored bytes are immutable: a complete object never changes, and no row of
\* source is rewritten or deleted by an ingestion.
ArchiveImmutable ==
    [][ /\ \A o \in Kinds \X Digests : objects[o] = "Complete" => objects'[o] = "Complete"
        /\ sources \subseteq sources' ]_vars
==============================================================================
