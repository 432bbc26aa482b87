--------------------------- MODULE RecoveryProofs ---------------------------
(***************************************************************************)
(* Proofs about SourceArchive and Recovery for any number of calls,        *)
(* digests, works, crashes and backups.  First the chain from bytes to job *)
(* that every call keeps, then what a restore can say of the moment it     *)
(* brings back.  Both parts live under RecoverySpec, whose steps are those *)
(* of the archive, the assertions of other clients and the backups.  Last  *)
(* come the alignments of SequenceAlignment: the order each status tells.  *)
(***************************************************************************)
EXTENDS Recovery, SequenceAlignment, SequenceFacts

-----------------------------------------------------------------------------
(* The archive: what each call may rely on at its step                     *)

IngestRow == [type : {"SourceIngested"}, key : IngestKeys,
              source : SourceIds, sha512 : Digests]
AssertedRow == [type : {"SemanticAsserted"}, key : Subjects, source : {None}, sha512 : {None}]

Call == [pc : {"idle"} \cup Steps \cup Ended, door : Doors, sha512 : Digests \cup {None},
         asked : WorkIds \cup {None}, source : SourceIds, form : Forms, work : WorkIds \cup {None}]

Unsettled == {"put", "adding", "copying", "stored", "ensure_work", "ensure_source"}
Settled == {"membership", "record", "dispatch", "done"}

\* The call r, with the locals c, between two of its steps: from "stored" on
\* its bytes are whole, once it has settled on a source the row has its bytes,
\* and before it submits the ledger has the event.  A REST call spells an id
\* with dashes only if its client chose it.
CallOK(r, c, dirs, rows, events) ==
    /\ c.pc \in Steps \cup {"done"} => c.sha512 \in Digests
    /\ c.pc \in Unsettled =>
         c.source \in NamedIds \cup {r} /\ (c.door # "rest" => c.source = r)
    /\ c.pc \in {"ensure_work", "ensure_source", "membership"} => c.work \in WorkIds
    /\ c.pc \in (Steps \cup {"done"}) \ {"put", "adding", "copying"} =>
         dirs[Ref(KindOf(c.door), c.sha512)] = "Complete"
    /\ c.door = "artifact" =>
         c.pc \in {"put", "adding", "copying", "stored"} \cup Ended
    /\ c.pc \in Settled /\ c.door # "artifact" =>
         \E s \in rows : s.id = c.source /\ s.sha512 = c.sha512
    /\ c.pc = "membership" => c.door = "handler"
    /\ c.pc \in Steps /\ c.door = "rest" /\ c.form = "dashed" => c.source \in NamedIds
    /\ c.pc = "dispatch" => \E e \in events : e.source = c.source

CallsOK == \A r \in Requests : CallOK(r, req[r], objects, sources, ingested)

SourcesDistinct ==
    \A s, t \in sources : s.id = t.id \/ s.sha512 = t.sha512 => s = t

\* A row whose id is a uuid was inserted by the call that drew it, which is
\* past its insertion and, at the command handler, adds the membership next.
Inserted(s, r, c, members) ==
    /\ c.pc \notin {"idle"} \cup Unsettled
    /\ c.door = "handler" =>
         \/ <<s.id, s.work>> \in members
         \/ c.pc = "crashed"
         \/ c.pc = "membership" /\ c.source = s.id /\ c.work = s.work

InsertedByTheirCalls ==
    \A s \in sources : s.id \in Requests => Inserted(s, s.id, req[s.id], memberships)

EventsTyped == ledger \in Seq(IngestRow \cup AssertedRow)

\* A derived key spells the id of its event's source.
Spells(e, form) == /\ e.key = <<"ingest", <<e.source, form>>>>
                   /\ form = "dashed" => e.source \in NamedIds
KeyOfSource(e) == e.key[1] = "ingest" => \E form \in Forms : Spells(e, form)

\* An event with a derived key is that of its source; its row has its bytes.
EventsHaveRows ==
    \A e \in ingested :
        /\ KeyOfSource(e)
        /\ \E s \in sources : s.id = e.source /\ s.sha512 = e.sha512

ArchiveInv ==
    /\ ArchiveTypeOK /\ EventsTyped /\ CallsOK /\ RowsHaveBytes /\ SourcesDistinct
    /\ InsertedByTheirCalls /\ EventsHaveRows /\ JobsFollowTheLedger

LEMMA IngestAppend ==
  ASSUME NEW S, NEW events \in Seq(S), NEW e \in S
  PROVE  IngestEvents(Append(events, e)) =
           IngestEvents(events) \cup {x \in {e} : x.type = "SourceIngested"}
<1>1. DOMAIN Append(events, e) = DOMAIN events \cup {Len(events) + 1}
  OBVIOUS
<1>2. /\ \A i \in DOMAIN events : Append(events, e)[i] = events[i]
      /\ Append(events, e)[Len(events) + 1] = e
  OBVIOUS
<1>3. {Append(events, e)[i] : i \in DOMAIN Append(events, e)} =
        {events[i] : i \in DOMAIN events} \cup {e}
  BY <1>1, <1>2, Zenon
<1> QED BY <1>3 DEF IngestEvents

LEMMA IngestTyped ==
  ASSUME EventsTyped
  PROVE  ingested \subseteq IngestRow
<1> SUFFICES ASSUME NEW e \in ingested PROVE e \in IngestRow
  OBVIOUS
<1>1. PICK i \in DOMAIN ledger : e = ledger[i] /\ e.type = "SourceIngested"
  BY DEF ingested, IngestEvents
<1>2. e \in IngestRow \cup AssertedRow
  BY <1>1 DEF EventsTyped
<1> QED BY <1>1, <1>2 DEF AssertedRow

LEMMA ArchiveInit_Inv == ArchiveInit => ArchiveInv
<1> SUFFICES ASSUME ArchiveInit PROVE ArchiveInv
  OBVIOUS
<1> USE ArchiveConstants
<1>1. ingested = {}
  BY DEF ArchiveInit, ingested, IngestEvents
<1>2. ArchiveTypeOK
  BY <1>1 DEF ArchiveInit, ArchiveTypeOK, DirStates, WorkIds, SourceIds, Doors, Forms
<1>3. EventsTyped
  BY DEF ArchiveInit, EventsTyped
<1>4. CallsOK
  BY DEF ArchiveInit, CallsOK, CallOK, Steps, Unsettled, Settled, Ended
<1> QED
  BY <1>1, <1>2, <1>3, <1>4 DEF ArchiveInit, ArchiveInv, RowsHaveBytes, SourcesDistinct,
     InsertedByTheirCalls, EventsHaveRows, JobsFollowTheLedger

(* What no step of a call takes back.                                      *)
Grown ==
    /\ \A o \in Kinds \X Digests : objects[o] = "Complete" => objects'[o] = "Complete"
    /\ sources \subseteq sources' /\ ingested \subseteq ingested'
    /\ memberships \subseteq memberships'

TablesKept ==
    UNCHANGED <<objects, works, sources, memberships, artifacts, ledger, submitted>>

Moves(r, c) ==
    /\ c \in Call /\ req' = [req EXCEPT ![r] = c]
    /\ CallOK(r, c, objects', sources', ingested')
    /\ \A s \in sources : s.id = r => Inserted(s, r, c, memberships')

LEMMA CallMoves ==
  ASSUME ArchiveInv, Grown, NEW r \in Requests, NEW c, Moves(r, c)
  PROVE  /\ req' \in [Requests -> Call]
         /\ CallsOK'
         /\ \A s \in sources : s.id \in Requests => Inserted(s, s.id, req'[s.id], memberships')
<1>1. req \in [Requests -> Call]
  BY DEF ArchiveInv, ArchiveTypeOK, Call
<1>2. req' \in [Requests -> Call]
  BY <1>1 DEF Moves
<1>3. ASSUME NEW q \in Requests PROVE CallOK(q, req'[q], objects', sources', ingested')
  <2>1. CASE q = r
    BY <1>1, <2>1 DEF Moves
  <2>2. CASE q # r
    <3> DEFINE d == req[q]
    <3>1. req'[q] = d /\ d \in Call
      BY <1>1, <2>2 DEF Moves
    <3>2. CallOK(q, d, objects, sources, ingested)
      BY DEF ArchiveInv, CallsOK
    <3>3. Ref(KindOf(d.door), d.sha512) \in Kinds \X Digests \/ d.sha512 \notin Digests
      BY DEF Ref, KindOf, Kinds
    <3> HIDE DEF d
    <3> QED BY <3>1, <3>2, <3>3 DEF CallOK, Grown
  <2> QED BY <2>1, <2>2
<1>4. CallsOK'
  BY <1>3 DEF CallsOK
<1>5. ASSUME NEW s \in sources, s.id \in Requests
      PROVE  Inserted(s, s.id, req'[s.id], memberships')
  <2>1. CASE s.id = r
    BY <1>1, <2>1 DEF Moves
  <2>2. CASE s.id # r
    <3>1. req'[s.id] = req[s.id]
      BY <1>1, <2>2 DEF Moves
    <3>2. Inserted(s, s.id, req[s.id], memberships)
      BY <1>5 DEF ArchiveInv, InsertedByTheirCalls
    <3> QED BY <3>1, <3>2 DEF Inserted, Grown
  <2> QED BY <2>1, <2>2
<1> QED BY <1>2, <1>4, <1>5

(* A step that only moves a call.                                          *)
LEMMA QuietMove ==
  ASSUME ArchiveInv, NEW r \in Requests, NEW c, Moves(r, c), TablesKept,
         crashes' \in 0..MaxCrashes
  PROVE  ArchiveInv'
<1>0. ingested' = ingested
  BY DEF TablesKept, ingested
<1>1. Grown
  BY <1>0 DEF Grown, TablesKept
<1>2. /\ req' \in [Requests -> Call] /\ CallsOK'
      /\ \A s \in sources : s.id \in Requests => Inserted(s, s.id, req'[s.id], memberships')
  BY <1>1, CallMoves
<1>3. ArchiveTypeOK'
  BY <1>0, <1>2 DEF ArchiveInv, ArchiveTypeOK, TablesKept, Call
<1>4. InsertedByTheirCalls'
  BY <1>2 DEF InsertedByTheirCalls, TablesKept
<1>5. EventsTyped' /\ RowsHaveBytes' /\ SourcesDistinct' /\ EventsHaveRows' /\ JobsFollowTheLedger'
  BY <1>0 DEF ArchiveInv, TablesKept, EventsTyped, RowsHaveBytes, SourcesDistinct,
     EventsHaveRows, JobsFollowTheLedger
<1> QED BY <1>2, <1>3, <1>4, <1>5 DEF ArchiveInv

(* What a call stands on when it takes its step.                           *)
LEMMA AtStep ==
  ASSUME ArchiveInv, NEW r \in Requests
  PROVE  /\ req \in [Requests -> Call] /\ req[r] \in Call
         /\ CallOK(r, req[r], objects, sources, ingested)
         /\ \A s \in sources : s.id = r => Inserted(s, r, req[r], memberships)
         /\ req[r].sha512 \in Digests => Mine(r) \in Kinds \X Digests
         /\ Mine(r) = Ref(KindOf(req[r].door), req[r].sha512)
  BY DEF ArchiveInv, ArchiveTypeOK, Call, CallsOK, InsertedByTheirCalls, Mine, Ref, KindOf, Kinds

LEMMA GotoMoves ==
  ASSUME req \in [Requests -> Call], NEW r \in Requests, NEW pc, Goto(r, pc),
         pc \in {"idle"} \cup Steps \cup Ended
  PROVE  \E c \in Call :
           /\ req' = [req EXCEPT ![r] = c] /\ c = [req[r] EXCEPT !.pc = pc]
           /\ c.pc = pc /\ c.door = req[r].door /\ c.sha512 = req[r].sha512
           /\ c.asked = req[r].asked /\ c.source = req[r].source /\ c.work = req[r].work
           /\ c.form = req[r].form
<1> DEFINE c == [req[r] EXCEPT !.pc = pc]
<1>1. req' = [req EXCEPT ![r] = c]
  BY DEF Goto
<1>2. c \in Call
  BY DEF Call
<1>3. c.pc = pc /\ c.door = req[r].door /\ c.sha512 = req[r].sha512
         /\ c.asked = req[r].asked /\ c.source = req[r].source /\ c.work = req[r].work
         /\ c.form = req[r].form
  BY DEF Call
<1> QED BY <1>1, <1>2, <1>3

-----------------------------------------------------------------------------
(* The archive: its steps                                                  *)

LEMMA SpoolStep ==
  ASSUME ArchiveInv, NEW r \in Requests, Spool(r)
  PROVE  ArchiveInv'
<1>1. PICK door \in Doors, d \in Digests, w \in KnownWorks \cup GhostWorks \cup {None},
           s \in NamedIds \cup {r}, form \in Forms :
           /\ door # "rest" => s = r
           /\ door = "rest" /\ s = r => form = "hex"
           /\ req' = [req EXCEPT ![r] = [pc |-> "put", door |-> door, sha512 |-> d,
                                         asked |-> w, source |-> s, form |-> form,
                                         work |-> None]]
  <2>1. \E door \in Doors, d \in Digests, w \in KnownWorks \cup GhostWorks \cup {None},
           s \in NamedIds \cup {r}, form \in Forms :
           /\ door # "rest" => s = r /\ form = "dashed"
           /\ door = "rest" /\ s = r => form = "hex"
           /\ door = "artifact" => w = None
           /\ req' = [req EXCEPT ![r] = [pc |-> "put", door |-> door, sha512 |-> d,
                                         asked |-> w, source |-> s, form |-> form,
                                         work |-> None]]
    BY Zenon DEF Spool
  <2> QED BY <2>1, Zenon
<1> DEFINE c == [pc |-> "put", door |-> door, sha512 |-> d, asked |-> w, source |-> s,
                 form |-> form, work |-> None]
<1>2. c \in Call
  BY DEF Call, Steps, SourceIds, WorkIds
<1>3. CallOK(r, c, objects', sources', ingested')
  BY <1>1 DEF CallOK, Unsettled, Settled
<1>4. \A t \in sources : t.id # r
  <2>1. \A t \in sources : t.id = r => Inserted(t, r, req[r], memberships)
    BY AtStep
  <2> QED BY <2>1 DEF Inserted, Spool
<1>5. Moves(r, c)
  BY <1>1, <1>2, <1>3, <1>4 DEF Moves
<1>6. TablesKept /\ crashes' \in 0..MaxCrashes
  BY DEF Spool, TablesKept, ArchiveInv, ArchiveTypeOK
<1> HIDE DEF c
<1> QED BY <1>5, <1>6, QuietMove

LEMMA RefusedStep ==
  ASSUME ArchiveInv, NEW r \in Requests, SpoolTooLarge(r)
  PROVE  ArchiveInv'
<1>1. PICK c \in Call : /\ req' = [req EXCEPT ![r] = c]
                        /\ c.pc = "failed" /\ c.door = req[r].door
  BY AtStep, GotoMoves DEF SpoolTooLarge, Ended
<1>2. \A t \in sources : t.id # r
  <2>1. \A t \in sources : t.id = r => Inserted(t, r, req[r], memberships)
    BY AtStep
  <2> QED BY <2>1 DEF Inserted, SpoolTooLarge
<1>3. CallOK(r, c, objects', sources', ingested')
  BY <1>1 DEF CallOK, Steps, Unsettled, Settled, Ended
<1>4. Moves(r, c)
  BY <1>1, <1>2, <1>3 DEF Moves
<1>5. TablesKept /\ crashes' \in 0..MaxCrashes
  BY DEF SpoolTooLarge, TablesKept, ArchiveInv, ArchiveTypeOK
<1> QED BY <1>4, <1>5, QuietMove

LEMMA CrashStep ==
  ASSUME ArchiveInv, NEW r \in Requests, Crash(r)
  PROVE  ArchiveInv'
<1>1. PICK c \in Call : /\ req' = [req EXCEPT ![r] = c]
                        /\ c.pc = "crashed" /\ c.door = req[r].door
  BY AtStep, GotoMoves DEF Crash, Ended
<1>2. \A t \in sources : t.id = r => Inserted(t, r, c, memberships')
  BY <1>1 DEF Inserted, Unsettled
<1>3. CallOK(r, c, objects', sources', ingested')
  BY <1>1 DEF CallOK, Steps, Unsettled, Settled, Ended
<1>4. Moves(r, c)
  BY <1>1, <1>2, <1>3 DEF Moves
<1>5. TablesKept /\ crashes' \in 0..MaxCrashes
  BY ArchiveConstants DEF Crash, TablesKept, ArchiveInv, ArchiveTypeOK
<1> QED BY <1>4, <1>5, QuietMove

LEMMA PutStep ==
  ASSUME ArchiveInv, NEW r \in Requests, PutImmutable(r)
  PROVE  ArchiveInv'
<1> DEFINE pc == IF objects[Mine(r)] = "Absent" THEN "adding"
                 ELSE IF VerifyFixity(Mine(r)) THEN "stored" ELSE "failed"
<1>1. Goto(r, pc) /\ pc \in {"adding", "stored", "failed"}
      /\ (pc = "stored" => objects[Mine(r)] = "Complete")
  BY DEF PutImmutable, VerifyFixity
<1> HIDE DEF pc
<1>2. PICK c \in Call : /\ req' = [req EXCEPT ![r] = c] /\ c.pc = pc
                        /\ c.door = req[r].door /\ c.sha512 = req[r].sha512
                        /\ c.source = req[r].source /\ c.form = req[r].form
  BY <1>1, AtStep, GotoMoves DEF Steps, Ended
<1>3. /\ CallOK(r, req[r], objects, sources, ingested) /\ req[r].pc = "put"
      /\ Mine(r) = Ref(KindOf(req[r].door), req[r].sha512)
  BY AtStep DEF PutImmutable
<1>4. \A t \in sources : t.id # r
  <2>1. \A t \in sources : t.id = r => Inserted(t, r, req[r], memberships)
    BY AtStep
  <2> QED BY <1>3, <2>1 DEF Inserted, Unsettled
<1>5. CallOK(r, c, objects', sources', ingested')
  <2>1. objects' = objects
    BY DEF PutImmutable
  <2> QED BY <1>1, <1>2, <1>3, <2>1 DEF CallOK, Steps, Unsettled, Settled, Ended
<1>6. Moves(r, c)
  BY <1>2, <1>4, <1>5 DEF Moves
<1>7. TablesKept /\ crashes' \in 0..MaxCrashes
  BY DEF PutImmutable, TablesKept, ArchiveInv, ArchiveTypeOK
<1> QED BY <1>6, <1>7, QuietMove

LEMMA FindStep ==
  ASSUME ArchiveInv, NEW r \in Requests, FindSource(r)
  PROVE  ArchiveInv'
<1>1. /\ CallOK(r, req[r], objects, sources, ingested) /\ req[r].pc = "stored"
      /\ req[r].door # "artifact" /\ req[r] \in Call /\ req \in [Requests -> Call]
      /\ req[r].sha512 \in Digests
  BY AtStep DEF FindSource, CallOK, Steps
<1>2. \A t \in sources : t.id # r
  <2>1. \A t \in sources : t.id = r => Inserted(t, r, req[r], memberships)
    BY AtStep
  <2> QED BY <1>1, <2>1 DEF Inserted, Unsettled
<1>3. TablesKept /\ crashes' \in 0..MaxCrashes
  BY DEF FindSource, TablesKept, ArchiveInv, ArchiveTypeOK
<1>4. UNCHANGED <<objects, sources, ingested>>
  BY <1>3 DEF TablesKept, ingested
<1>5. CASE SourceOf(req[r].sha512) # {}
  <2> DEFINE s == CHOOSE s \in SourceOf(req[r].sha512) : TRUE
             w == IF req[r].asked = None THEN s.work ELSE req[r].asked
             c == [req[r] EXCEPT !.pc = "record", !.source = s.id, !.form = "hex",
                                 !.work = w]
  <2>1. s \in sources /\ s.sha512 = req[r].sha512
    BY <1>5 DEF SourceOf
  <2>2. s.id \in SourceIds /\ s.work \in WorkIds
    BY <2>1 DEF ArchiveInv, ArchiveTypeOK, SourceRow
  <2>3. req' = [req EXCEPT ![r] = c]
    BY <1>1, <1>5 DEF FindSource, AfterFound
  <2> HIDE DEF s
  <2>4. c \in Call
    BY <1>1, <2>2 DEF Call, Steps, Forms
  <2>5. /\ c.pc = "record" /\ c.door = req[r].door /\ c.sha512 = req[r].sha512
        /\ c.source = s.id /\ c.form = "hex"
    BY <1>1 DEF Call
  <2> HIDE DEF c
  <2>6. CallOK(r, c, objects', sources', ingested')
    BY <1>1, <1>4, <2>1, <2>5 DEF CallOK, Steps, Unsettled, Settled, Ended
  <2>7. Moves(r, c)
    BY <1>2, <2>3, <2>4, <2>6 DEF Moves
  <2> QED BY <1>3, <2>7, QuietMove
<1>6. CASE SourceOf(req[r].sha512) = {}
  <2> DEFINE pc == IF req[r].asked = None THEN "ensure_work" ELSE "ensure_source"
             c == [req[r] EXCEPT !.pc = pc, !.work = NewWork(r)]
  <2>1. req' = [req EXCEPT ![r] = c]
    BY <1>1, <1>6 DEF FindSource
  <2>2. NewWork(r) \in WorkIds /\ pc \in {"ensure_work", "ensure_source"}
    BY <1>1 DEF NewWork, WorkIds, Call
  <2> HIDE DEF pc
  <2>3. c \in Call
    BY <1>1, <2>2 DEF Call, Steps
  <2>4. /\ c.pc = pc /\ c.door = req[r].door /\ c.sha512 = req[r].sha512
        /\ c.source = req[r].source /\ c.work = NewWork(r) /\ c.form = req[r].form
    BY <1>1 DEF Call
  <2> HIDE DEF c
  <2>5. CallOK(r, c, objects', sources', ingested')
    BY <1>1, <1>4, <2>2, <2>4 DEF CallOK, Steps, Unsettled, Settled, Ended
  <2>6. Moves(r, c)
    BY <1>2, <2>1, <2>3, <2>5 DEF Moves
  <2> QED BY <1>3, <2>6, QuietMove
<1> QED BY <1>5, <1>6

(* A step of a call that has not inserted its row, or has inserted it and  *)
(* its membership, owes the memberships nothing.                           *)
LEMMA NothingOwed ==
  ASSUME ArchiveInv, NEW r \in Requests, NEW c, NEW members, memberships \subseteq members,
         \/ req[r].pc \in Unsettled \cup {"idle"}
         \/ req[r].pc \in {"record", "dispatch"} /\ c.pc \in {"dispatch", "done", "failed"}
            /\ c.door = req[r].door
  PROVE  \A s \in sources : s.id = r => Inserted(s, r, c, members)
<1> SUFFICES ASSUME NEW s \in sources, s.id = r PROVE Inserted(s, r, c, members)
  OBVIOUS
<1>1. Inserted(s, r, req[r], memberships)
  BY AtStep
<1> QED BY <1>1 DEF Inserted, Unsettled

LEMMA BytesKept ==
  ASSUME ArchiveInv, Grown, UNCHANGED <<sources, artifacts, ingested>>
  PROVE  RowsHaveBytes'
<1>1. \A s \in sources : Ref("source", s.sha512) \in Kinds \X Digests
  BY DEF ArchiveInv, ArchiveTypeOK, SourceRow, Ref, Kinds
<1>2. \A e \in ingested : Ref("source", e.sha512) \in Kinds \X Digests
  BY IngestTyped DEF ArchiveInv, IngestRow, Ref, Kinds
<1>3. artifacts \subseteq Kinds \X Digests
  BY DEF ArchiveInv, ArchiveTypeOK, ArtifactRow, Kinds
<1> QED BY <1>1, <1>2, <1>3 DEF ArchiveInv, RowsHaveBytes, Grown

LEMMA AddObjectStep ==
  ASSUME ArchiveInv, NEW r \in Requests, AddObject(r)
  PROVE  ArchiveInv'
<1>1. /\ CallOK(r, req[r], objects, sources, ingested) /\ req[r].pc = "adding"
      /\ req[r] \in Call /\ req \in [Requests -> Call] /\ Mine(r) \in Kinds \X Digests
  BY AtStep DEF AddObject, CallOK, Steps
<1>2. UNCHANGED <<works, sources, memberships, artifacts, ledger, submitted, crashes, ingested>>
  BY DEF AddObject, ingested
<1>3. PICK pc \in {"failed", "copying"} :
        /\ Goto(r, pc)
        /\ \/ UNCHANGED objects /\ pc = "failed"
           \/ objects[Mine(r)] = "Absent" /\ objects' = [objects EXCEPT ![Mine(r)] = "Bare"]
  BY DEF AddObject, RootRefuses
<1>4. objects \in [Kinds \X Digests -> DirStates]
  BY DEF ArchiveInv, ArchiveTypeOK
<1>5. objects' \in [Kinds \X Digests -> DirStates]
  BY <1>3, <1>4 DEF DirStates
<1>6. \A o \in Kinds \X Digests : objects[o] = "Complete" => objects'[o] = "Complete"
  BY <1>3, <1>4
<1>7. Grown
  BY <1>2, <1>6 DEF Grown
<1>8. PICK c \in Call : /\ req' = [req EXCEPT ![r] = c] /\ c.pc = pc
                        /\ c.door = req[r].door /\ c.sha512 = req[r].sha512
                        /\ c.source = req[r].source /\ c.form = req[r].form
  BY <1>1, <1>3, GotoMoves DEF Steps, Ended
<1>9. CallOK(r, c, objects', sources', ingested')
  BY <1>1, <1>3, <1>8 DEF CallOK, Steps, Unsettled, Settled, Ended
<1>10. Moves(r, c)
  BY <1>1, <1>2, <1>8, <1>9, NothingOwed DEF Moves, Unsettled
<1>11. /\ req' \in [Requests -> Call] /\ CallsOK'
       /\ \A s \in sources : s.id \in Requests => Inserted(s, s.id, req'[s.id], memberships')
  BY <1>7, <1>10, CallMoves
<1>12. ArchiveTypeOK'
  BY <1>2, <1>5, <1>11 DEF ArchiveInv, ArchiveTypeOK, Call
<1>13. RowsHaveBytes'
  BY <1>2, <1>7, BytesKept
<1> QED
  BY <1>2, <1>11, <1>12, <1>13 DEF ArchiveInv, EventsTyped, SourcesDistinct,
     InsertedByTheirCalls, EventsHaveRows, JobsFollowTheLedger

LEMMA CopyStep_Step ==
  ASSUME ArchiveInv, NEW r \in Requests, CopyStep(r)
  PROVE  ArchiveInv'
<1>1. /\ CallOK(r, req[r], objects, sources, ingested) /\ req[r].pc = "copying"
      /\ req[r] \in Call /\ req \in [Requests -> Call] /\ Mine(r) \in Kinds \X Digests
      /\ Mine(r) = Ref(KindOf(req[r].door), req[r].sha512)
  BY AtStep DEF CopyStep, CallOK, Steps
<1>2. UNCHANGED <<works, sources, memberships, artifacts, ledger, submitted, crashes, ingested>>
  BY DEF CopyStep, ingested
<1>3. PICK at \in {"Described", "Complete"} :
        /\ objects[Mine(r)] # "Bare" => at = "Complete"
        /\ objects' = [objects EXCEPT ![Mine(r)] = at]
        /\ Goto(r, IF at = "Complete" THEN "stored" ELSE "copying")
  BY DEF CopyStep
<1>4. objects \in [Kinds \X Digests -> DirStates]
  BY DEF ArchiveInv, ArchiveTypeOK
<1>5. objects' \in [Kinds \X Digests -> DirStates]
  BY <1>3, <1>4 DEF DirStates
<1>6. \A o \in Kinds \X Digests : objects[o] = "Complete" => objects'[o] = "Complete"
  BY <1>3, <1>4
<1>7. Grown
  BY <1>2, <1>6 DEF Grown
<1>8. PICK c \in Call : /\ req' = [req EXCEPT ![r] = c]
                        /\ c.pc = IF at = "Complete" THEN "stored" ELSE "copying"
                        /\ c.door = req[r].door /\ c.sha512 = req[r].sha512
                        /\ c.source = req[r].source /\ c.form = req[r].form
  <2> DEFINE pc == IF at = "Complete" THEN "stored" ELSE "copying"
  <2>1. pc \in {"idle"} \cup Steps \cup Ended /\ Goto(r, pc)
    BY <1>3 DEF Steps
  <2> HIDE DEF pc
  <2>2. \E c \in Call : /\ req' = [req EXCEPT ![r] = c] /\ c.pc = pc
                        /\ c.door = req[r].door /\ c.sha512 = req[r].sha512
                        /\ c.source = req[r].source /\ c.form = req[r].form
    BY <1>1, <2>1, GotoMoves
  <2> QED BY <2>2 DEF pc
<1>9. objects'[Mine(r)] = at
  BY <1>1, <1>3, <1>4
<1>10. CallOK(r, c, objects', sources', ingested')
  BY <1>1, <1>8, <1>9 DEF CallOK, Steps, Unsettled, Settled, Ended
<1>11. Moves(r, c)
  BY <1>1, <1>2, <1>8, <1>10, NothingOwed DEF Moves, Unsettled
<1>12. /\ req' \in [Requests -> Call] /\ CallsOK'
       /\ \A s \in sources : s.id \in Requests => Inserted(s, s.id, req'[s.id], memberships')
  BY <1>7, <1>11, CallMoves
<1>13. ArchiveTypeOK'
  BY <1>2, <1>5, <1>12 DEF ArchiveInv, ArchiveTypeOK, Call
<1>14. RowsHaveBytes'
  BY <1>2, <1>7, BytesKept
<1> QED
  BY <1>2, <1>12, <1>13, <1>14 DEF ArchiveInv, EventsTyped, SourcesDistinct,
     InsertedByTheirCalls, EventsHaveRows, JobsFollowTheLedger

LEMMA EnsureWorkStep ==
  ASSUME ArchiveInv, NEW r \in Requests, EnsureWork(r)
  PROVE  ArchiveInv'
<1>1. /\ CallOK(r, req[r], objects, sources, ingested) /\ req[r].pc = "ensure_work"
      /\ req[r] \in Call /\ req \in [Requests -> Call]
  BY AtStep DEF EnsureWork
<1>2. /\ UNCHANGED <<objects, sources, memberships, artifacts, ledger, submitted, crashes, ingested>>
      /\ works' = works \cup {req[r].work} /\ req[r].work \in WorkIds
  BY <1>1 DEF EnsureWork, ingested, CallOK
<1>3. Grown
  BY <1>2 DEF Grown
<1>4. PICK c \in Call : /\ req' = [req EXCEPT ![r] = c] /\ c.pc = "ensure_source"
                        /\ c.door = req[r].door /\ c.sha512 = req[r].sha512
                        /\ c.source = req[r].source /\ c.work = req[r].work /\ c.form = req[r].form
  <2>1. "ensure_source" \in {"idle"} \cup Steps \cup Ended /\ Goto(r, "ensure_source")
    BY DEF EnsureWork, Steps
  <2> QED BY <1>1, <2>1, GotoMoves
<1>5. CallOK(r, c, objects', sources', ingested')
  BY <1>1, <1>2, <1>4 DEF CallOK, Steps, Unsettled, Settled, Ended
<1>6. Moves(r, c)
  BY <1>1, <1>2, <1>4, <1>5, NothingOwed DEF Moves, Unsettled
<1>7. /\ req' \in [Requests -> Call] /\ CallsOK'
      /\ \A s \in sources : s.id \in Requests => Inserted(s, s.id, req'[s.id], memberships')
  BY <1>3, <1>6, CallMoves
<1>8. ArchiveTypeOK'
  BY <1>2, <1>7 DEF ArchiveInv, ArchiveTypeOK, Call
<1> QED
  BY <1>2, <1>7, <1>8 DEF ArchiveInv, EventsTyped, SourcesDistinct, RowsHaveBytes,
     InsertedByTheirCalls, EventsHaveRows, JobsFollowTheLedger

LEMMA EnsureSourceStep ==
  ASSUME ArchiveInv, NEW r \in Requests, EnsureSource(r)
  PROVE  ArchiveInv'
<1> DEFINE row == [id |-> req[r].source, sha512 |-> req[r].sha512, work |-> req[r].work]
<1>1. /\ CallOK(r, req[r], objects, sources, ingested) /\ req[r].pc = "ensure_source"
      /\ req[r] \in Call /\ req \in [Requests -> Call]
  BY AtStep DEF EnsureSource
<1>2. /\ req[r].source \in NamedIds \cup {r} /\ (req[r].door # "rest" => req[r].source = r)
      /\ req[r].sha512 \in Digests /\ req[r].work \in WorkIds /\ req[r].door # "artifact"
      /\ objects[Ref("source", req[r].sha512)] = "Complete"
  BY <1>1 DEF CallOK, Steps, Unsettled, Ended, KindOf
<1>3. row \in SourceRow /\ row.id = req[r].source /\ row.sha512 = req[r].sha512
      /\ row.work = req[r].work
  BY <1>2 DEF SourceRow, SourceIds
<1>4. UNCHANGED <<objects, works, memberships, artifacts, ledger, submitted, crashes, ingested>>
  BY DEF EnsureSource, ingested
<1>5. CASE ~SourceRowAllowed(row)
  <2>1. UNCHANGED sources /\ Goto(r, "failed") /\ "failed" \in {"idle"} \cup Steps \cup Ended
    BY <1>5 DEF EnsureSource, Ended
  <2>2. PICK c \in Call : /\ req' = [req EXCEPT ![r] = c] /\ c.pc = "failed"
                          /\ c.door = req[r].door
    BY <1>1, <2>1, GotoMoves
  <2>3. CallOK(r, c, objects', sources', ingested')
    BY <2>2 DEF CallOK, Steps, Unsettled, Settled, Ended
  <2>4. Moves(r, c)
    BY <1>1, <1>4, <2>2, <2>3, NothingOwed DEF Moves, Unsettled
  <2>5. TablesKept /\ crashes' \in 0..MaxCrashes
    BY <1>4, <2>1 DEF TablesKept, ArchiveInv, ArchiveTypeOK
  <2> QED BY <2>4, <2>5, QuietMove
<1>6. CASE SourceRowAllowed(row)
  <2>1. sources' = sources \cup {row}
    BY <1>6 DEF EnsureSource
  <2>2. \A t \in sources : t.id # row.id /\ t.sha512 # row.sha512
    BY <1>6 DEF SourceRowAllowed
  <2> DEFINE pc == AfterInsert(r)
  <2>3. /\ Goto(r, pc) /\ pc \in {"membership", "record"}
        /\ (pc = "membership" <=> req[r].door = "handler")
    BY <1>6 DEF EnsureSource, AfterInsert
  <2> HIDE DEF pc, row
  <2>4. PICK c \in Call : /\ req' = [req EXCEPT ![r] = c] /\ c.pc = pc
                          /\ c.door = req[r].door /\ c.sha512 = req[r].sha512
                          /\ c.source = req[r].source /\ c.work = req[r].work /\ c.form = req[r].form
    <3>1. pc \in {"idle"} \cup Steps \cup Ended
      BY <2>3 DEF Steps
    <3> QED BY <1>1, <2>3, <3>1, GotoMoves
  <2>5. CallOK(r, c, objects', sources', ingested')
    BY <1>1, <1>2, <1>3, <1>4, <2>1, <2>3, <2>4
       DEF CallOK, Steps, Unsettled, Settled, Ended
  <2>6. Moves(r, c)
    BY <1>1, <1>4, <2>4, <2>5, NothingOwed DEF Moves, Unsettled
  <2>7. Grown
    BY <1>4, <2>1 DEF Grown
  <2>8. /\ req' \in [Requests -> Call] /\ CallsOK'
        /\ \A s \in sources : s.id \in Requests => Inserted(s, s.id, req'[s.id], memberships')
    BY <2>6, <2>7, CallMoves
  <2>9. ArchiveTypeOK'
    BY <1>3, <1>4, <2>1, <2>8 DEF ArchiveInv, ArchiveTypeOK, Call
  <2>10. SourcesDistinct'
    BY <2>1, <2>2 DEF ArchiveInv, SourcesDistinct
  <2>11. RowsHaveBytes'
    BY <1>2, <1>3, <1>4, <2>1 DEF ArchiveInv, RowsHaveBytes
  <2>12. InsertedByTheirCalls'
    <3>1. ASSUME row.id \in Requests PROVE Inserted(row, row.id, req'[row.id], memberships')
      <4>1. row.id = r
        BY <1>2, <1>3, <3>1, ArchiveConstants
      <4>2. req'[r] = c
        BY <1>1, <2>4
      <4> QED BY <1>3, <2>3, <2>4, <4>1, <4>2 DEF Inserted, Unsettled
    <3> QED BY <2>1, <2>8, <3>1 DEF InsertedByTheirCalls
  <2>13. EventsHaveRows' /\ JobsFollowTheLedger' /\ EventsTyped'
    BY <1>4, <2>1 DEF ArchiveInv, EventsHaveRows, JobsFollowTheLedger, EventsTyped
  <2> QED BY <2>8, <2>9, <2>10, <2>11, <2>12, <2>13 DEF ArchiveInv
<1> QED BY <1>5, <1>6

LEMMA AddMembershipStep ==
  ASSUME ArchiveInv, NEW r \in Requests, AddMembership(r)
  PROVE  ArchiveInv'
<1>1. /\ CallOK(r, req[r], objects, sources, ingested) /\ req[r].pc = "membership"
      /\ req[r] \in Call /\ req \in [Requests -> Call]
  BY AtStep DEF AddMembership
<1>2. /\ UNCHANGED <<objects, works, sources, artifacts, ledger, submitted, crashes, ingested>>
      /\ memberships' = memberships \cup {<<req[r].source, req[r].work>>}
      /\ req[r].work \in WorkIds /\ req[r].source \in SourceIds
  BY <1>1 DEF AddMembership, ingested, CallOK, Call
<1>3. Grown
  BY <1>2 DEF Grown
<1>4. PICK c \in Call : /\ req' = [req EXCEPT ![r] = c] /\ c.pc = "record"
                        /\ c.door = req[r].door /\ c.sha512 = req[r].sha512
                        /\ c.source = req[r].source /\ c.work = req[r].work /\ c.form = req[r].form
  <2>1. "record" \in {"idle"} \cup Steps \cup Ended /\ Goto(r, "record")
    BY DEF AddMembership, Steps
  <2> QED BY <1>1, <2>1, GotoMoves
<1>5. CallOK(r, c, objects', sources', ingested')
  BY <1>1, <1>2, <1>4 DEF CallOK, Steps, Unsettled, Settled, Ended
<1>6. \A s \in sources : s.id = r => Inserted(s, r, c, memberships')
  <2> SUFFICES ASSUME NEW s \in sources, s.id = r PROVE Inserted(s, r, c, memberships')
    OBVIOUS
  <2>1. Inserted(s, r, req[r], memberships)
    BY AtStep
  <2> QED BY <1>1, <1>2, <1>4, <2>1 DEF Inserted, Unsettled
<1>7. Moves(r, c)
  BY <1>2, <1>4, <1>5, <1>6 DEF Moves
<1>8. /\ req' \in [Requests -> Call] /\ CallsOK'
      /\ \A s \in sources : s.id \in Requests => Inserted(s, s.id, req'[s.id], memberships')
  BY <1>3, <1>7, CallMoves
<1>9. ArchiveTypeOK'
  BY <1>2, <1>8 DEF ArchiveInv, ArchiveTypeOK, Call, MembershipRow
<1> QED
  BY <1>2, <1>8, <1>9 DEF ArchiveInv, EventsTyped, SourcesDistinct, RowsHaveBytes,
     InsertedByTheirCalls, EventsHaveRows, JobsFollowTheLedger

LEMMA RecordIngestedStep ==
  ASSUME ArchiveInv, NEW r \in Requests, RecordIngested(r)
  PROVE  ArchiveInv'
<1> DEFINE e == [type |-> "SourceIngested", key |-> IngestKey(r),
                 source |-> req[r].source, sha512 |-> req[r].sha512]
<1>1. /\ CallOK(r, req[r], objects, sources, ingested) /\ req[r].pc = "record"
      /\ req[r] \in Call /\ req \in [Requests -> Call]
  BY AtStep DEF RecordIngested
<1>2. /\ req[r].sha512 \in Digests /\ req[r].source \in SourceIds /\ req[r].door # "artifact"
      /\ objects[Ref("source", req[r].sha512)] = "Complete"
      /\ \E s \in sources : s.id = req[r].source /\ s.sha512 = req[r].sha512
  BY <1>1 DEF CallOK, Steps, Settled, Ended, KindOf, Call
<1>3. UNCHANGED <<objects, works, sources, memberships, artifacts, submitted, crashes>>
  BY DEF RecordIngested
<1>4. e \in IngestRow
  BY <1>1, <1>2 DEF IngestRow, IngestKey, IngestKeys, Spelled, SourceIds, Call
<1>5. /\ e.type = "SourceIngested" /\ e.key = IngestKey(r) /\ e.source = req[r].source
      /\ e.sha512 = req[r].sha512
  OBVIOUS
<1>6. /\ EventsTyped' /\ ingested' \subseteq ingested \cup {e} /\ ingested \subseteq ingested'
      /\ req[r].door = "rest" => \E f \in ingested' : f.source = req[r].source
  <2>1. CASE \E f \in ingested : f.key = IngestKey(r)
    <3>1. ledger' = ledger
      BY <2>1 DEF RecordIngested
    <3>2. req[r].door = "rest" => \E f \in ingested : f.source = req[r].source
      <4> SUFFICES ASSUME req[r].door = "rest"
                   PROVE  \E f \in ingested : f.source = req[r].source
        OBVIOUS
      <4>1. PICK f \in ingested : f.key = <<"ingest", <<req[r].source, req[r].form>>>>
        BY <2>1 DEF IngestKey, Spelled
      <4>2. f.key[1] = "ingest"
        BY <4>1
      <4>3. PICK form \in Forms : Spells(f, form)
        <5>1. KeyOfSource(f)
          BY DEF ArchiveInv, EventsHaveRows
        <5> QED BY <4>2, <5>1, Zenon DEF KeyOfSource
      <4>4. f.key[2] = <<req[r].source, req[r].form>> /\ f.key[2] = <<f.source, form>>
        BY <4>1, <4>3 DEF Spells
      <4> QED BY <4>4
    <3> QED BY <3>1, <3>2 DEF ArchiveInv, EventsTyped, ingested
  <2>2. CASE ~\E f \in ingested : f.key = IngestKey(r)
    <3>1. ledger' = Append(ledger, e)
      BY <2>2 DEF RecordIngested
    <3> HIDE DEF e
    <3>2. ledger' \in Seq(IngestRow \cup AssertedRow)
      BY <1>4, <3>1 DEF ArchiveInv, EventsTyped
    <3>3. IngestEvents(Append(ledger, e)) =
            IngestEvents(ledger) \cup {x \in {e} : x.type = "SourceIngested"}
      BY <1>4, IngestAppend DEF ArchiveInv, EventsTyped
    <3>4. ingested' = ingested \cup {e}
      BY <1>5, <3>1, <3>3 DEF ingested
    <3> QED BY <1>5, <3>2, <3>4 DEF EventsTyped
  <2> QED BY <2>1, <2>2
<1> HIDE DEF e
<1>7. Grown
  BY <1>3, <1>6 DEF Grown
<1> DEFINE pc == IF req[r].door = "rest" THEN "dispatch" ELSE "done"
<1>8. PICK c \in Call : /\ req' = [req EXCEPT ![r] = c] /\ c.pc = pc
                        /\ c.door = req[r].door /\ c.sha512 = req[r].sha512
                        /\ c.source = req[r].source /\ c.form = req[r].form
  <2>1. pc \in {"idle"} \cup Steps \cup Ended /\ Goto(r, pc)
    BY DEF RecordIngested, Steps, Ended
  <2> HIDE DEF pc
  <2> QED BY <1>1, <2>1, GotoMoves
<1>9. CallOK(r, c, objects', sources', ingested')
  BY <1>1, <1>2, <1>3, <1>6, <1>8 DEF CallOK, Steps, Unsettled, Settled, Ended
<1>10. Moves(r, c)
  BY <1>1, <1>3, <1>8, <1>9, NothingOwed DEF Moves
<1>11. /\ req' \in [Requests -> Call] /\ CallsOK'
       /\ \A s \in sources : s.id \in Requests => Inserted(s, s.id, req'[s.id], memberships')
  BY <1>7, <1>10, CallMoves
<1>12. ArchiveTypeOK'
  <2>1. ingested' \subseteq IngestRow
    BY <1>4, <1>6, IngestTyped DEF ArchiveInv
  <2> QED BY <1>3, <1>11, <2>1 DEF ArchiveInv, ArchiveTypeOK, Call, IngestRow
<1>13. EventsHaveRows'
  <2>1. KeyOfSource(e)
    <3>1. CASE req[r].door # "rest"
      BY <1>5, <3>1 DEF IngestKey, KeyOfSource
    <3>2. CASE req[r].door = "rest"
      <4>1. e.key = <<"ingest", <<e.source, req[r].form>>>>
        BY <1>5, <3>2 DEF IngestKey, Spelled
      <4>2. req[r].form \in Forms /\ (req[r].form = "dashed" => e.source \in NamedIds)
        BY <1>1, <1>5, <3>2 DEF Call, CallOK, Steps
      <4>3. Spells(e, req[r].form)
        BY <4>1, <4>2 DEF Spells
      <4> QED BY <4>2, <4>3 DEF KeyOfSource
    <3> QED BY <3>1, <3>2
  <2>2. \A f \in ingested :
          /\ KeyOfSource(f)
          /\ \E s \in sources : s.id = f.source /\ s.sha512 = f.sha512
    BY DEF ArchiveInv, EventsHaveRows
  <2>3. \A f \in ingested' :
          /\ KeyOfSource(f)
          /\ \E s \in sources : s.id = f.source /\ s.sha512 = f.sha512
    BY <1>2, <1>5, <1>6, <2>1, <2>2
  <2> QED BY <1>3, <2>3 DEF EventsHaveRows, KeyOfSource
<1>14. RowsHaveBytes'
  <2>1. \A f \in ingested' : objects[Ref("source", f.sha512)] = "Complete"
    BY <1>2, <1>5, <1>6 DEF ArchiveInv, RowsHaveBytes
  <2> QED BY <1>3, <2>1 DEF ArchiveInv, RowsHaveBytes
<1> QED
  BY <1>3, <1>6, <1>11, <1>12, <1>13, <1>14 DEF ArchiveInv, SourcesDistinct,
     InsertedByTheirCalls, JobsFollowTheLedger

LEMMA DispatchStep ==
  ASSUME ArchiveInv, NEW r \in Requests, Dispatch(r)
  PROVE  ArchiveInv'
<1>1. /\ CallOK(r, req[r], objects, sources, ingested) /\ req[r].pc = "dispatch"
      /\ req[r] \in Call /\ req \in [Requests -> Call]
  BY AtStep DEF Dispatch
<1>2. UNCHANGED <<objects, works, sources, memberships, artifacts, ledger, crashes, ingested>>
  BY DEF Dispatch, ingested
<1>3. PICK pc \in {"done", "failed"} :
        Goto(r, pc) /\ submitted' \subseteq submitted \cup {<<req[r].source, req[r].form>>}
  BY DEF Dispatch, Spelled
<1>4. Grown
  BY <1>2 DEF Grown
<1>5. PICK c \in Call : /\ req' = [req EXCEPT ![r] = c] /\ c.pc = pc
                        /\ c.door = req[r].door /\ c.sha512 = req[r].sha512
                        /\ c.source = req[r].source /\ c.form = req[r].form
  <2>1. pc \in {"idle"} \cup Steps \cup Ended
    BY DEF Ended
  <2> QED BY <1>1, <1>3, <2>1, GotoMoves
<1>6. CallOK(r, c, objects', sources', ingested')
  BY <1>1, <1>2, <1>5 DEF CallOK, Steps, Unsettled, Settled, Ended
<1>7. Moves(r, c)
  BY <1>1, <1>2, <1>5, <1>6, NothingOwed DEF Moves
<1>8. /\ req' \in [Requests -> Call] /\ CallsOK'
      /\ \A s \in sources : s.id \in Requests => Inserted(s, s.id, req'[s.id], memberships')
  BY <1>4, <1>7, CallMoves
<1>9. ArchiveTypeOK'
  BY <1>1, <1>2, <1>3, <1>8 DEF ArchiveInv, ArchiveTypeOK, Call
<1>10. JobsFollowTheLedger'
  <2>1. \E e \in ingested : e.source = req[r].source
    BY <1>1 DEF CallOK
  <2> QED BY <1>2, <1>3, <2>1 DEF ArchiveInv, JobsFollowTheLedger
<1> QED
  BY <1>2, <1>8, <1>9, <1>10 DEF ArchiveInv, EventsTyped, SourcesDistinct, RowsHaveBytes,
     InsertedByTheirCalls, EventsHaveRows

LEMMA RecordArtifactStep ==
  ASSUME ArchiveInv, NEW r \in Requests, RecordArtifact(r)
  PROVE  ArchiveInv'
<1>1. /\ CallOK(r, req[r], objects, sources, ingested) /\ req[r].pc = "stored"
      /\ req[r] \in Call /\ req \in [Requests -> Call] /\ req[r].door = "artifact"
      /\ Mine(r) = Ref(KindOf(req[r].door), req[r].sha512)
  BY AtStep DEF RecordArtifact
<1>2. /\ UNCHANGED <<objects, works, sources, memberships, ledger, submitted, crashes, ingested>>
      /\ artifacts' = artifacts \cup {Mine(r)}
      /\ Mine(r) \in ArtifactRow /\ objects[Mine(r)] = "Complete"
  BY <1>1 DEF RecordArtifact, ingested, CallOK, Steps, KindOf, Ref, ArtifactRow
<1>3. Grown
  BY <1>2 DEF Grown
<1>4. PICK c \in Call : /\ req' = [req EXCEPT ![r] = c] /\ c.pc = "done"
                        /\ c.door = req[r].door /\ c.sha512 = req[r].sha512
                        /\ c.source = req[r].source /\ c.form = req[r].form
  <2>1. "done" \in {"idle"} \cup Steps \cup Ended /\ Goto(r, "done")
    BY DEF RecordArtifact, Ended
  <2> QED BY <1>1, <2>1, GotoMoves
<1>5. CallOK(r, c, objects', sources', ingested')
  BY <1>1, <1>2, <1>4 DEF CallOK, Steps, Unsettled, Settled, Ended
<1>6. Moves(r, c)
  BY <1>1, <1>2, <1>4, <1>5, NothingOwed DEF Moves, Unsettled
<1>7. /\ req' \in [Requests -> Call] /\ CallsOK'
      /\ \A s \in sources : s.id \in Requests => Inserted(s, s.id, req'[s.id], memberships')
  BY <1>3, <1>6, CallMoves
<1>8. ArchiveTypeOK'
  BY <1>2, <1>7 DEF ArchiveInv, ArchiveTypeOK, Call
<1> QED
  BY <1>2, <1>7, <1>8 DEF ArchiveInv, EventsTyped, SourcesDistinct, RowsHaveBytes,
     InsertedByTheirCalls, EventsHaveRows, JobsFollowTheLedger

LEMMA AppendAssertionStep ==
  ASSUME ArchiveInv, NEW k \in Subjects, AppendAssertion(k)
  PROVE  ArchiveInv'
<1> DEFINE e == [type |-> "SemanticAsserted", key |-> k, source |-> None, sha512 |-> None]
<1>1. e \in IngestRow \cup AssertedRow /\ e.type # "SourceIngested"
  BY DEF AssertedRow
<1>2. /\ ledger' = Append(ledger, e)
      /\ UNCHANGED <<objects, works, sources, memberships, artifacts, submitted, req, crashes>>
  BY DEF AppendAssertion
<1> HIDE DEF e
<1>3. IngestEvents(Append(ledger, e)) =
        IngestEvents(ledger) \cup {x \in {e} : x.type = "SourceIngested"}
  BY <1>1, IngestAppend DEF ArchiveInv, EventsTyped
<1>4. ingested' = ingested
  BY <1>1, <1>2, <1>3 DEF ingested
<1>5. EventsTyped'
  BY <1>1, <1>2 DEF ArchiveInv, EventsTyped
<1> QED
  BY <1>2, <1>4, <1>5 DEF ArchiveInv, ArchiveTypeOK, CallsOK, SourcesDistinct, RowsHaveBytes,
     InsertedByTheirCalls, EventsHaveRows, JobsFollowTheLedger

LEMMA ArchiveStays ==
  ASSUME ArchiveInv, UNCHANGED vars
  PROVE  ArchiveInv'
<1>1. ingested' = ingested
  BY DEF vars, ingested
<1> QED
  BY <1>1 DEF vars, ArchiveInv, ArchiveTypeOK, EventsTyped, CallsOK, SourcesDistinct,
     RowsHaveBytes, InsertedByTheirCalls, EventsHaveRows, JobsFollowTheLedger

LEMMA ArchiveNextStep ==
  ASSUME ArchiveInv, ArchiveNext
  PROVE  ArchiveInv'
<1> PICK r \in Requests : Spool(r) \/ SpoolTooLarge(r) \/ Advance(r) \/ Crash(r)
  BY DEF ArchiveNext
<1> QED
  BY SpoolStep, RefusedStep, CrashStep, PutStep, AddObjectStep, CopyStep_Step, FindStep,
     EnsureWorkStep, EnsureSourceStep, AddMembershipStep, RecordIngestedStep, DispatchStep,
     RecordArtifactStep DEF Advance

(* The invariant says what the run checks.                                 *)
LEMMA ArchiveInvConsistent ==
  ASSUME ArchiveInv
  PROVE  ArchiveConsistent
<1>1. SameBytesSameSource
  <2> SUFFICES ASSUME NEW q \in Requests, NEW r \in Requests,
                      req[q].pc = "done", req[q].door # "artifact",
                      req[r].pc = "done", req[r].door # "artifact"
               PROVE  req[q].sha512 = req[r].sha512 <=> req[q].source = req[r].source
    BY DEF SameBytesSameSource
  <2>1. PICK s \in sources : s.id = req[q].source /\ s.sha512 = req[q].sha512
    BY DEF ArchiveInv, CallsOK, CallOK, Settled
  <2>2. PICK t \in sources : t.id = req[r].source /\ t.sha512 = req[r].sha512
    BY DEF ArchiveInv, CallsOK, CallOK, Settled
  <2> QED BY <2>1, <2>2 DEF ArchiveInv, SourcesDistinct
<1>2. OneIngestEventPerSource
  <2>1. ASSUME NEW e \in ingested, NEW f \in ingested,
               e.key[1] = "ingest", f.key[1] = "ingest", e.source = f.source
        PROVE  e = f \/ (e.source \in NamedIds /\ e.key # f.key)
    <3>1. e \in IngestRow /\ f \in IngestRow
      BY IngestTyped DEF ArchiveInv
    <3>2. e.key = f.key \/ e.source \in NamedIds
      <4>1. KeyOfSource(e) /\ KeyOfSource(f)
        BY DEF ArchiveInv, EventsHaveRows
      <4>2. PICK x \in Forms : Spells(e, x)
        BY <2>1, <4>1, Zenon DEF KeyOfSource
      <4>3. PICK y \in Forms : Spells(f, y)
        BY <2>1, <4>1, Zenon DEF KeyOfSource
      <4>4. x = y \/ x = "dashed" \/ y = "dashed"
        BY DEF Forms
      <4> QED BY <2>1, <4>2, <4>3, <4>4 DEF Spells
    <3>3. e.sha512 = f.sha512
      BY <2>1 DEF ArchiveInv, EventsHaveRows, SourcesDistinct
    <3> QED BY <2>1, <3>1, <3>2, <3>3 DEF IngestRow
  <2> QED BY <2>1 DEF OneIngestEventPerSource, ArchiveInv, EventsHaveRows
<1>3. MembershipGap
  BY DEF ArchiveInv, InsertedByTheirCalls, Inserted, MembershipGap
<1> QED BY <1>1, <1>2, <1>3 DEF ArchiveInv, ArchiveConsistent

(* The chain from bytes to job holds through every interleaving of calls,  *)
(* crashes and assertions: rows have their bytes, equal bytes are one      *)
(* source, with one event of the REST handler (one per spelling when a     *)
(* client chose the id), jobs follow their event, and only a call cut in   *)
(* two leaves a source without its membership.                             *)
THEOREM ArchiveIsConsistent == ArchiveSpec => []ArchiveConsistent
<1>1. ArchiveInit => ArchiveInv
  BY ArchiveInit_Inv
<1>2. ArchiveInv /\ [ArchiveNext]_vars => ArchiveInv'
  BY ArchiveNextStep, ArchiveStays
<1>3. ArchiveInv => ArchiveConsistent
  BY ArchiveInvConsistent
<1> QED BY <1>1, <1>2, <1>3, PTL DEF ArchiveSpec

LEMMA ArchiveKeeps ==
  ASSUME ArchiveInv, ArchiveNext
  PROVE  /\ \A o \in Kinds \X Digests : objects[o] = "Complete" => objects'[o] = "Complete"
         /\ sources \subseteq sources'
<1> PICK r \in Requests : Spool(r) \/ SpoolTooLarge(r) \/ Advance(r) \/ Crash(r)
  BY DEF ArchiveNext
<1>1. objects \in [Kinds \X Digests -> DirStates]
  BY DEF ArchiveInv, ArchiveTypeOK
<1>2. CASE AddObject(r)
  BY <1>1, <1>2 DEF AddObject, RootRefuses
<1>3. CASE CopyStep(r)
  <2>1. PICK at \in {"Described", "Complete"} :
          /\ objects[Mine(r)] # "Bare" => at = "Complete"
          /\ objects' = [objects EXCEPT ![Mine(r)] = at] /\ UNCHANGED sources
    BY <1>3 DEF CopyStep
  <2> QED BY <1>1, <2>1
<1>4. CASE EnsureSource(r)
  BY <1>4 DEF EnsureSource
<1>5. CASE ~AddObject(r) /\ ~CopyStep(r) /\ ~EnsureSource(r)
  <2>1. UNCHANGED <<objects, sources>>
    BY <1>5 DEF Advance, Spool, SpoolTooLarge, PutImmutable, FindSource, EnsureWork,
       AddMembership, RecordIngested, Dispatch, RecordArtifact, Crash
  <2> QED BY <2>1
<1> QED BY <1>2, <1>3, <1>4, <1>5

(* Stored bytes are immutable: a complete object never changes, and no row *)
(* of source is rewritten or deleted by an ingestion.                      *)
THEOREM StoredBytesStay == ArchiveSpec => ArchiveImmutable
<1>1. ArchiveInit => ArchiveInv
  BY ArchiveInit_Inv
<1>2. ArchiveInv /\ [ArchiveNext]_vars => ArchiveInv'
  BY ArchiveNextStep, ArchiveStays
<1>3. ArchiveInv /\ [ArchiveNext]_vars =>
        [/\ \A o \in Kinds \X Digests : objects[o] = "Complete" => objects'[o] = "Complete"
         /\ sources \subseteq sources']_vars
  BY ArchiveKeeps
<1> QED BY <1>1, <1>2, <1>3, PTL DEF ArchiveSpec, ArchiveImmutable

-----------------------------------------------------------------------------
(* Recovery: what the files and the copy say of the system                 *)

LedgerRow == IngestRow \cup AssertedRow
Rows == [Subjects -> Nat]
Behind(s, t) == \A k \in Subjects : s[k] <= t[k]

Manifest == [ledger : Seq(LedgerRow), state : Rows, max_seq : Nat, checksum : Rows]
Restored == {"replayed", "verified", "diverged"}

\* The fold of the live ledger is the live table: the two grow together.
LiveOK ==
    /\ state \in Rows /\ state = Replay(ledger)
    /\ \A k \in Subjects : state[k] <= Len(ledger)

\* A ledger that was read once: the past of the log, whose rows are now.
Taken(events, log, now) ==
    /\ events \in Seq(LedgerRow) /\ IsPrefixOf(events, log)
    /\ Replay(events) \in Rows /\ Behind(Replay(events), now)

\* Three reads in this order: each table is at or after the one before it.
ManifestOK(m, log, now) ==
    /\ m \in Manifest /\ m.max_seq = Len(m.ledger) /\ Taken(m.ledger, log, now)
    /\ Behind(Replay(m.ledger), m.state) /\ Behind(m.state, m.checksum)
    /\ Behind(m.checksum, now)

BackupOK ==
    /\ backup \in [pc : {"idle", "ledger", "rows", "ledger_file", "state_file"},
                   ledger : Seq(LedgerRow), state : Rows]
    /\ backup.pc # "idle" => Taken(backup.ledger, ledger, state)
    /\ backup.pc \in {"rows", "ledger_file", "state_file"} =>
         Behind(Replay(backup.ledger), backup.state) /\ Behind(backup.state, state)
    /\ backup.pc \in {"ledger_file", "state_file"} => files.ledger = backup.ledger
    /\ backup.pc = "state_file" => files.state = backup.state

FilesOK ==
    /\ files \in [ledger : Seq(LedgerRow) \cup {None}, state : Rows \cup {None},
                  manifest : Manifest \cup {None}]
    /\ files.ledger # None => Taken(files.ledger, ledger, state)
    /\ files.manifest # None => ManifestOK(files.manifest, ledger, state)

TargetOK ==
    /\ target \in [pc : {"idle", "refused"} \cup Restored, ledger : Seq(LedgerRow),
                   state : Rows, rows : Rows \cup {None}, manifest : Manifest \cup {None}]
    /\ target.pc \in Restored =>
         /\ ManifestOK(target.manifest, ledger, state)
         /\ target.manifest.ledger = target.ledger
         /\ target.manifest.state = target.rows
         /\ target.state = Replay(target.ledger)
    /\ target.pc = "verified" => target.state = target.manifest.checksum
    /\ target.pc = "diverged" => target.state # target.manifest.checksum

\* What the copy has passed of the bytes the events name.
CopyHolds(events, copy, passed) ==
    \A e \in IngestEvents(events) :
        Ref("source", e.sha512) \in passed => copy[Ref("source", e.sha512)] = "Complete"

CopyOK ==
    /\ vault \in [Kinds \X Digests -> DirStates] \cup {None}
    /\ copied \subseteq Kinds \X Digests
    /\ vault = None => copied = {}
    /\ root # None => root = vault /\ copied = Kinds \X Digests
    /\ snapFirst => /\ files.ledger # None /\ CopyHolds(files.ledger, vault, copied)
                    /\ target.pc \in Restored => CopyHolds(target.ledger, vault, copied)

RecoveryInv == ArchiveInv /\ LiveOK /\ BackupOK /\ FilesOK /\ TargetOK /\ CopyOK

(* The seqs that assert a subject decide its row.                          *)
LEMMA ReplaySame ==
  ASSUME NEW s, NEW t,
         \A k \in Subjects :
           {i \in DOMAIN s : s[i].type = "SemanticAsserted" /\ s[i].key = k} =
           {i \in DOMAIN t : t[i].type = "SemanticAsserted" /\ t[i].key = k}
  PROVE  Replay(s) = Replay(t)
<1> DEFINE At(events, k) == {i \in DOMAIN events :
                               events[i].type = "SemanticAsserted" /\ events[i].key = k}
           Row(S) == IF S = {} THEN 0 ELSE CHOOSE i \in S : \A j \in S : j <= i
<1>1. \A k \in Subjects : At(s, k) = At(t, k)
  OBVIOUS
<1>2. Replay(t) = [k \in Subjects |-> Row(At(t, k))] /\ Replay(s) = [k \in Subjects |-> Row(At(s, k))]
  BY DEF Replay
<1> HIDE DEF At, Row
<1> QED BY <1>1, <1>2

LEMMA ReplayPrefix ==
  ASSUME NEW s \in Seq(LedgerRow), NEW t \in Seq(LedgerRow), IsPrefixOf(s, t),
         \A i \in DOMAIN t : i > Len(s) => t[i].type # "SemanticAsserted"
  PROVE  Replay(s) = Replay(t)
<1>1. DOMAIN s \subseteq DOMAIN t /\ \A i \in DOMAIN t : i \notin DOMAIN s => i > Len(s)
  BY DEF IsPrefixOf
<1>2. ASSUME NEW k \in Subjects
      PROVE  {i \in DOMAIN s : s[i].type = "SemanticAsserted" /\ s[i].key = k} =
             {i \in DOMAIN t : t[i].type = "SemanticAsserted" /\ t[i].key = k}
  BY <1>1 DEF IsPrefixOf
<1> QED BY <1>2, ReplaySame

LEMMA PrefixAppend ==
  ASSUME NEW s \in Seq(LedgerRow), NEW e \in LedgerRow
  PROVE  Append(s, e) \in Seq(LedgerRow) /\ IsPrefixOf(s, Append(s, e))
         /\ Len(Append(s, e)) = Len(s) + 1
         /\ \A i \in DOMAIN Append(s, e) : i > Len(s) => i = Len(s) + 1 /\ Append(s, e)[i] = e
  BY DEF IsPrefixOf

LEMMA PrefixPrefix ==
  ASSUME NEW s \in Seq(LedgerRow), NEW t \in Seq(LedgerRow), NEW u \in Seq(LedgerRow),
         IsPrefixOf(s, t), IsPrefixOf(t, u)
  PROVE  IsPrefixOf(s, u)
  BY DEF IsPrefixOf

LEMMA PrefixEvents ==
  ASSUME NEW s \in Seq(LedgerRow), NEW t \in Seq(LedgerRow), IsPrefixOf(s, t)
  PROVE  IngestEvents(s) \subseteq IngestEvents(t)
<1> SUFFICES ASSUME NEW e \in IngestEvents(s) PROVE e \in IngestEvents(t)
  OBVIOUS
<1>1. PICK i \in DOMAIN s : e = s[i] /\ e.type = "SourceIngested"
  BY DEF IngestEvents
<1>2. i \in DOMAIN t /\ t[i] = s[i]
  BY DEF IsPrefixOf
<1> QED BY <1>1, <1>2 DEF IngestEvents

LEMMA ReplayAppend ==
  ASSUME NEW s \in Seq(LedgerRow), NEW k \in Subjects, NEW e \in LedgerRow,
         e.type = "SemanticAsserted", e.key = k, Replay(s) \in Rows
  PROVE  Replay(Append(s, e)) = [Replay(s) EXCEPT ![k] = Len(s) + 1]
<1> DEFINE t == Append(s, e)
           n == Len(s) + 1
           At(events, j) == {i \in DOMAIN events :
                               events[i].type = "SemanticAsserted" /\ events[i].key = j}
           Row(S) == IF S = {} THEN 0 ELSE CHOOSE i \in S : \A j \in S : j <= i
<1>1. \A i \in DOMAIN s : t[i] = s[i]
  OBVIOUS
<1>2. t[n] = e /\ DOMAIN t = DOMAIN s \cup {n} /\ n \in Nat /\ \A i \in DOMAIN s : i \in Nat /\ i < n
  OBVIOUS
<1>3. ASSUME NEW j \in Subjects, j # k PROVE At(t, j) = At(s, j)
  BY <1>1, <1>2, <1>3
<1>4. At(t, k) = At(s, k) \cup {n}
  BY <1>1, <1>2
<1>5. Row(At(t, k)) = n
  <2>1. n \in At(t, k) /\ \A i \in At(t, k) : i \in Nat /\ i <= n
    BY <1>2, <1>4
  <2> HIDE DEF At, n
  <2>2. \A i \in At(t, k) : (\A j \in At(t, k) : j <= i) => i = n
    BY <1>2, <2>1
  <2> QED BY <2>1, <2>2
<1>6. Replay(t) = [j \in Subjects |-> Row(At(t, j))] /\ Replay(s) = [j \in Subjects |-> Row(At(s, j))]
  BY DEF Replay
<1> HIDE DEF At, Row, t, n
<1>7. Replay(t) = [Replay(s) EXCEPT ![k] = n]
  BY <1>3, <1>5, <1>6
<1> QED BY <1>7 DEF t, n

(* What the steps of the clients do to a ledger and its rows.              *)
LEMMA ArchiveAppends ==
  ASSUME ArchiveInv, ArchiveNext
  PROVE  ledger' = ledger \/ \E e \in IngestRow : ledger' = Append(ledger, e)
<1> PICK r \in Requests : Spool(r) \/ SpoolTooLarge(r) \/ Advance(r) \/ Crash(r)
  BY DEF ArchiveNext
<1>1. CASE RecordIngested(r)
  <2> DEFINE e == [type |-> "SourceIngested", key |-> IngestKey(r),
                   source |-> req[r].source, sha512 |-> req[r].sha512]
  <2>1. CallOK(r, req[r], objects, sources, ingested) /\ req[r] \in Call
    BY AtStep
  <2>2. e \in IngestRow
    BY <1>1, <2>1 DEF RecordIngested, IngestRow, IngestKey, IngestKeys, Spelled, SourceIds, CallOK, Steps, Call
  <2>3. ledger' = ledger \/ ledger' = Append(ledger, e)
    BY <1>1 DEF RecordIngested
  <2> QED BY <2>2, <2>3
<1>2. CASE ~RecordIngested(r)
  BY <1>2 DEF Advance, Spool, SpoolTooLarge, PutImmutable, FindSource, EnsureWork, EnsureSource,
     AddObject, CopyStep, AddMembership, Dispatch, RecordArtifact, Crash
<1> QED BY <1>1, <1>2

WorldGrows ==
    /\ ledger' \in Seq(LedgerRow) /\ IsPrefixOf(ledger, ledger')
    /\ state' \in Rows /\ Behind(state, state')

LEMMA ClientsGrow ==
  ASSUME ArchiveInv, LiveOK,
         (ArchiveNext /\ UNCHANGED rvars) \/ \E k \in Subjects : AppendAssertion(k)
  PROVE  WorldGrows /\ LiveOK'
<1>1. ledger \in Seq(LedgerRow)
  BY DEF ArchiveInv, EventsTyped, LedgerRow
<1>2. IsPrefixOf(ledger, ledger) /\ Behind(state, state)
  BY <1>1 DEF IsPrefixOf, Behind, LiveOK, Rows
<1>3. CASE UNCHANGED <<ledger, state>>
  BY <1>1, <1>2, <1>3 DEF WorldGrows, LiveOK
<1>4. ASSUME NEW e \in IngestRow, ledger' = Append(ledger, e), UNCHANGED state
      PROVE  WorldGrows /\ LiveOK'
  <2>1. e \in LedgerRow /\ e.type # "SemanticAsserted"
    BY DEF LedgerRow, IngestRow
  <2>2. /\ ledger' \in Seq(LedgerRow) /\ IsPrefixOf(ledger, ledger')
        /\ Len(ledger') = Len(ledger) + 1
        /\ \A i \in DOMAIN ledger' : i > Len(ledger) => ledger'[i].type # "SemanticAsserted"
    BY <1>1, <1>4, <2>1, PrefixAppend
  <2>3. Replay(ledger') = Replay(ledger)
    BY <1>1, <2>2, ReplayPrefix
  <2>4. \A k \in Subjects : state'[k] <= Len(ledger')
    BY <1>1, <1>4, <2>2 DEF LiveOK, Rows
  <2> QED BY <1>2, <1>4, <2>2, <2>3, <2>4 DEF WorldGrows, LiveOK
<1>5. ASSUME NEW k \in Subjects, AppendAssertion(k)
      PROVE  WorldGrows /\ LiveOK'
  <2> DEFINE e == [type |-> "SemanticAsserted", key |-> k, source |-> None, sha512 |-> None]
  <2>1. e \in LedgerRow /\ e.type = "SemanticAsserted" /\ e.key = k
    BY DEF LedgerRow, AssertedRow
  <2>2. ledger' = Append(ledger, e) /\ state' = [state EXCEPT ![k] = Len(ledger')]
    BY <1>5 DEF AppendAssertion
  <2> HIDE DEF e
  <2>3. /\ ledger' \in Seq(LedgerRow) /\ IsPrefixOf(ledger, ledger')
        /\ Len(ledger') = Len(ledger) + 1
    BY <1>1, <2>1, <2>2, PrefixAppend
  <2>4. Replay(ledger') = [Replay(ledger) EXCEPT ![k] = Len(ledger) + 1]
    BY <1>1, <2>1, <2>2, ReplayAppend DEF LiveOK
  <2>5. state' \in Rows /\ state' = Replay(ledger')
    BY <1>1, <2>2, <2>3, <2>4 DEF LiveOK, Rows
  <2>6. \A j \in Subjects : state[j] <= state'[j] /\ state'[j] <= Len(ledger')
    BY <1>1, <2>2, <2>3 DEF LiveOK, Rows
  <2> QED BY <2>3, <2>5, <2>6 DEF WorldGrows, LiveOK, Behind
<1>6. CASE ArchiveNext /\ UNCHANGED rvars
  <2>1. UNCHANGED state
    BY <1>6 DEF rvars
  <2> QED BY <1>3, <1>4, <1>6, <2>1, ArchiveAppends
<1> QED BY <1>5, <1>6

LEMMA TakenStays ==
  ASSUME ArchiveInv, LiveOK, WorldGrows, NEW events, Taken(events, ledger, state)
  PROVE  Taken(events, ledger', state')
<1>1. ledger \in Seq(LedgerRow)
  BY DEF ArchiveInv, EventsTyped, LedgerRow
<1>2. IsPrefixOf(events, ledger')
  BY <1>1, PrefixPrefix DEF Taken, WorldGrows
<1>3. Behind(Replay(events), state')
  BY DEF Taken, WorldGrows, LiveOK, Behind, Rows
<1> QED BY <1>2, <1>3 DEF Taken

LEMMA ManifestStays ==
  ASSUME ArchiveInv, LiveOK, WorldGrows, NEW m, ManifestOK(m, ledger, state)
  PROVE  ManifestOK(m, ledger', state')
<1>1. Taken(m.ledger, ledger', state')
  BY TakenStays DEF ManifestOK
<1>2. Behind(m.checksum, state')
  BY DEF ManifestOK, Manifest, WorldGrows, LiveOK, Behind, Rows
<1> QED BY <1>1, <1>2 DEF ManifestOK

LEMMA ClientsStep ==
  ASSUME RecoveryInv,
         (ArchiveNext /\ UNCHANGED rvars) \/ \E k \in Subjects : AppendAssertion(k)
  PROVE  RecoveryInv'
<1>1. ArchiveInv'
  BY ArchiveNextStep, AppendAssertionStep DEF RecoveryInv
<1>2. WorldGrows /\ LiveOK' /\ ArchiveInv /\ LiveOK
  BY ClientsGrow DEF RecoveryInv
<1>3. UNCHANGED <<backup, backups, files, vault, copied, snapFirst, target, root>>
  BY DEF rvars, AppendAssertion
<1>4. BackupOK'
  <2>1. backup.pc # "idle" => Taken(backup.ledger, ledger', state')
    BY <1>2, TakenStays DEF RecoveryInv, BackupOK
  <2>2. backup.pc \in {"rows", "ledger_file", "state_file"} => Behind(backup.state, state')
    BY <1>2 DEF RecoveryInv, BackupOK, LiveOK, WorldGrows, Behind, Rows
  <2> QED BY <1>3, <2>1, <2>2 DEF RecoveryInv, BackupOK
<1>5. FilesOK'
  BY <1>2, <1>3, TakenStays, ManifestStays DEF RecoveryInv, FilesOK
<1>6. TargetOK'
  BY <1>2, <1>3, ManifestStays DEF RecoveryInv, TargetOK
<1>7. CopyOK'
  BY <1>3 DEF RecoveryInv, CopyOK
<1> QED BY <1>1, <1>2, <1>4, <1>5, <1>6, <1>7 DEF RecoveryInv

(* A step of a backup or a restore leaves the system alone.                *)
LEMMA WorldStays ==
  ASSUME ArchiveInv, LiveOK, UNCHANGED <<vars, state>>
  PROVE  /\ ArchiveInv' /\ LiveOK' /\ ledger' = ledger /\ state' = state /\ objects' = objects
         /\ DOMAIN objects = Kinds \X Digests /\ ledger \in Seq(LedgerRow)
         /\ Taken(ledger, ledger, state) /\ Behind(state, state)
<1>1. ArchiveInv' /\ ledger' = ledger /\ objects' = objects
  BY ArchiveStays DEF vars
<1>2. LiveOK'
  BY <1>1 DEF LiveOK
<1>3. DOMAIN objects = Kinds \X Digests /\ ledger \in Seq(LedgerRow)
  BY DEF ArchiveInv, ArchiveTypeOK, EventsTyped, LedgerRow
<1>4. Behind(state, state) /\ IsPrefixOf(ledger, ledger)
  BY <1>3 DEF LiveOK, Rows, Behind, IsPrefixOf
<1> QED BY <1>1, <1>2, <1>3, <1>4 DEF Taken, LiveOK

LEMMA BackupSteps ==
  ASSUME RecoveryInv,
         ReadLedger \/ ReadState \/ WriteLedgerFile \/ WriteStateFile \/ WriteManifest
           \/ BackupDies
  PROVE  RecoveryInv'
<1> USE DEF RecoveryInv
<1>0. UNCHANGED <<vars, state, vault, copied, target, root>>
  BY DEF ReadLedger, ReadState, WriteLedgerFile, WriteStateFile, WriteManifest, BackupDies
<1>1. /\ ArchiveInv' /\ LiveOK' /\ ledger' = ledger /\ state' = state
      /\ ledger \in Seq(LedgerRow) /\ Taken(ledger, ledger, state) /\ Behind(state, state)
  BY <1>0, WorldStays
<1>2. TargetOK'
  BY <1>0, <1>1 DEF TargetOK
<1>3. CASE ReadLedger
  <2>1. UNCHANGED <<files, snapFirst>> /\ backup' = [backup EXCEPT !.pc = "ledger", !.ledger = ledger]
    BY <1>3 DEF ReadLedger
  <2>2. BackupOK'
    BY <1>1, <2>1 DEF BackupOK
  <2>3. FilesOK' /\ CopyOK'
    BY <1>0, <1>1, <2>1 DEF FilesOK, CopyOK
  <2> QED BY <1>1, <1>2, <2>2, <2>3
<1>4. CASE ReadState
  <2>1. /\ UNCHANGED <<files, snapFirst>> /\ backup.pc = "ledger"
        /\ backup' = [backup EXCEPT !.pc = "rows", !.state = state]
    BY <1>4 DEF ReadState
  <2>2. BackupOK'
    BY <1>1, <2>1 DEF BackupOK, Taken, LiveOK
  <2>3. FilesOK' /\ CopyOK'
    BY <1>0, <1>1, <2>1 DEF FilesOK, CopyOK
  <2> QED BY <1>1, <1>2, <2>2, <2>3
<1>5. CASE WriteLedgerFile
  <2>1. /\ backup.pc = "rows" /\ backup' = [backup EXCEPT !.pc = "ledger_file"]
        /\ files' = [files EXCEPT !.ledger = backup.ledger] /\ snapFirst' = FALSE
    BY <1>5 DEF WriteLedgerFile
  <2>2. files'.ledger = backup.ledger /\ files'.manifest = files.manifest
    BY <2>1 DEF FilesOK
  <2>3. BackupOK'
    BY <1>1, <2>1, <2>2 DEF BackupOK
  <2>4. FilesOK'
    BY <1>1, <2>1, <2>2 DEF FilesOK, BackupOK
  <2>5. CopyOK'
    BY <1>0, <2>1 DEF CopyOK
  <2> QED BY <1>1, <1>2, <2>3, <2>4, <2>5
<1>6. CASE WriteStateFile
  <2>1. /\ backup.pc = "ledger_file" /\ backup' = [backup EXCEPT !.pc = "state_file"]
        /\ files' = [files EXCEPT !.state = backup.state] /\ UNCHANGED snapFirst
    BY <1>6 DEF WriteStateFile
  <2>2. /\ files'.state = backup.state /\ files'.manifest = files.manifest
        /\ files'.ledger = files.ledger
    BY <2>1 DEF FilesOK
  <2>3. BackupOK'
    BY <1>1, <2>1, <2>2 DEF BackupOK
  <2>4. FilesOK'
    BY <1>1, <2>1, <2>2 DEF FilesOK, BackupOK
  <2>5. CopyOK'
    BY <1>0, <2>1, <2>2 DEF CopyOK
  <2> QED BY <1>1, <1>2, <2>3, <2>4, <2>5
<1>7. CASE WriteManifest
  <2> DEFINE m == [ledger |-> files.ledger, state |-> files.state,
                   max_seq |-> Len(backup.ledger), checksum |-> state]
  <2>1. /\ backup.pc = "state_file" /\ backup' = [backup EXCEPT !.pc = "idle"]
        /\ files' = [files EXCEPT !.manifest = m] /\ UNCHANGED snapFirst
    BY <1>7 DEF WriteManifest
  <2>2. files.ledger = backup.ledger /\ files.state = backup.state
    BY <2>1 DEF BackupOK
  <2>3. /\ m \in Manifest /\ m.ledger = backup.ledger /\ m.state = backup.state
        /\ m.max_seq = Len(backup.ledger) /\ m.checksum = state
    BY <2>2 DEF BackupOK, Manifest, LiveOK
  <2> HIDE DEF m
  <2>4. ManifestOK(m, ledger, state)
    BY <1>1, <2>1, <2>3 DEF BackupOK, ManifestOK
  <2>5. files'.manifest = m /\ files'.ledger = files.ledger /\ files'.state = files.state
    BY <2>1 DEF FilesOK
  <2>6. BackupOK'
    BY <1>1, <2>1 DEF BackupOK
  <2>7. FilesOK'
    BY <1>1, <2>1, <2>3, <2>4, <2>5 DEF FilesOK
  <2>8. CopyOK'
    BY <1>0, <2>1, <2>5 DEF CopyOK
  <2> QED BY <1>1, <1>2, <2>6, <2>7, <2>8
<1>8. CASE BackupDies
  <2>1. UNCHANGED <<files, snapFirst>> /\ backup' = [backup EXCEPT !.pc = "idle"]
    BY <1>8 DEF BackupDies
  <2>2. BackupOK'
    BY <1>1, <2>1 DEF BackupOK
  <2>3. FilesOK' /\ CopyOK'
    BY <1>0, <1>1, <2>1 DEF FilesOK, CopyOK
  <2> QED BY <1>1, <1>2, <2>2, <2>3
<1> QED BY <1>3, <1>4, <1>5, <1>6, <1>7, <1>8

LEMMA RestoreSteps ==
  ASSUME RecoveryInv, RefuseRestore \/ RestoreLedger \/ VerifyRestore
  PROVE  RecoveryInv'
<1> USE DEF RecoveryInv
<1>0. UNCHANGED <<vars, state, backup, files, vault, copied, snapFirst, root>>
  BY DEF RefuseRestore, RestoreLedger, VerifyRestore
<1>1. ArchiveInv' /\ LiveOK' /\ ledger' = ledger /\ state' = state
  BY <1>0, WorldStays
<1>2. BackupOK' /\ FilesOK'
  BY <1>0, <1>1 DEF BackupOK, FilesOK
<1>3. CASE RefuseRestore
  <2>1. target' = [target EXCEPT !.pc = "refused"]
    BY <1>3 DEF RefuseRestore
  <2>2. TargetOK' /\ target'.pc = "refused"
    BY <1>1, <2>1 DEF TargetOK, Restored
  <2>3. CopyOK'
    BY <1>0, <2>2 DEF CopyOK, Restored
  <2> QED BY <1>1, <1>2, <2>2, <2>3
<1>4. CASE RestoreLedger
  <2> DEFINE new == [pc |-> "replayed", ledger |-> files.ledger,
                     state |-> Replay(files.ledger), rows |-> files.state,
                     manifest |-> files.manifest]
  <2>1. /\ target' = new /\ files.ledger # None /\ files.state # None /\ files.manifest # None
        /\ files.manifest.ledger = files.ledger /\ files.manifest.state = files.state
    BY <1>4 DEF RestoreLedger, Integrity, FilesPresent
  <2>2. ManifestOK(files.manifest, ledger, state) /\ Replay(files.ledger) \in Rows
    BY <2>1 DEF FilesOK, Taken
  <2>3. TargetOK'
    BY <1>1, <2>1, <2>2 DEF FilesOK, TargetOK, Restored
  <2>4. CopyOK'
    BY <1>0, <2>1 DEF CopyOK
  <2> QED BY <1>1, <1>2, <2>3, <2>4
<1>5. CASE VerifyRestore
  <2> DEFINE pc == IF target.state = target.manifest.checksum THEN "verified" ELSE "diverged"
  <2>1. target.pc = "replayed" /\ target' = [target EXCEPT !.pc = pc]
    BY <1>5 DEF VerifyRestore
  <2>2. TargetOK' /\ target'.ledger = target.ledger /\ target'.pc \in Restored
    BY <1>1, <2>1 DEF TargetOK, Restored
  <2>3. CopyOK'
    BY <1>0, <2>1, <2>2 DEF CopyOK, Restored
  <2> QED BY <1>1, <1>2, <2>2, <2>3
<1> QED BY <1>3, <1>4, <1>5

(* The bytes of an event that was read from the ledger are in the store.   *)
LEMMA TakenHasBytes ==
  ASSUME ArchiveInv, NEW events, Taken(events, ledger, state)
  PROVE  \A e \in IngestEvents(events) : objects[Ref("source", e.sha512)] = "Complete"
<1>1. ledger \in Seq(LedgerRow) /\ events \in Seq(LedgerRow) /\ IsPrefixOf(events, ledger)
  BY DEF ArchiveInv, EventsTyped, LedgerRow, Taken
<1>2. IngestEvents(events) \subseteq IngestEvents(ledger)
  BY <1>1, PrefixEvents
<1> QED BY <1>2 DEF ArchiveInv, RowsHaveBytes, ingested

LEMMA CopySteps ==
  ASSUME RecoveryInv, StartCopy \/ (\E o \in AllObjects : CopyObject(o)) \/ RestoreRoot
  PROVE  RecoveryInv'
<1> USE DEF RecoveryInv
<1>0. UNCHANGED <<vars, state, backup, files, target>>
  BY DEF StartCopy, CopyObject, RestoreRoot
<1>1. /\ ArchiveInv' /\ LiveOK' /\ ledger' = ledger /\ state' = state
      /\ AllObjects = Kinds \X Digests
  BY <1>0, WorldStays DEF AllObjects
<1>2. BackupOK' /\ FilesOK' /\ TargetOK'
  BY <1>0, <1>1 DEF BackupOK, FilesOK, TargetOK
<1>3. CASE StartCopy
  <2>1. /\ vault = None /\ vault' = [o \in Kinds \X Digests |-> "Absent"]
        /\ snapFirst' = (files.ledger # None) /\ UNCHANGED <<copied, root>>
    BY <1>1, <1>3 DEF StartCopy
  <2>2. copied = {} /\ (root = None \/ Kinds \X Digests = {})
    BY <2>1 DEF CopyOK
  <2>3. vault' \in [Kinds \X Digests -> DirStates]
    BY <2>1 DEF DirStates
  <2>4. root # None => root = vault'
    BY <2>1 DEF CopyOK
  <2> QED BY <1>0, <1>1, <1>2, <2>1, <2>2, <2>3, <2>4 DEF CopyOK, CopyHolds
<1>4. ASSUME NEW o \in AllObjects, CopyObject(o)
      PROVE  RecoveryInv'
  <2>1. /\ vault # None /\ o \notin copied /\ o \in Kinds \X Digests
        /\ vault' = [vault EXCEPT ![o] = objects[o]] /\ copied' = copied \cup {o}
        /\ UNCHANGED <<snapFirst, root>>
    BY <1>1, <1>4 DEF CopyObject
  <2>2. vault' \in [Kinds \X Digests -> DirStates]
    BY <2>1 DEF CopyOK, ArchiveInv, ArchiveTypeOK
  <2>3. vault' # None
    BY <2>2, ArchiveConstants DEF Kinds, DirStates
  <2>4. root = None
    BY <2>1 DEF CopyOK
  <2>5. ASSUME NEW events, Taken(events, ledger, state), CopyHolds(events, vault, copied)
        PROVE  CopyHolds(events, vault', copied')
    <3>1. \A e \in IngestEvents(events) : objects[Ref("source", e.sha512)] = "Complete"
      BY <2>5, TakenHasBytes
    <3>2. vault \in [Kinds \X Digests -> DirStates]
      BY <2>1 DEF CopyOK
    <3>3. \A p \in copied : p \in Kinds \X Digests
      BY DEF CopyOK
    <3> QED BY <2>1, <2>5, <3>1, <3>2, <3>3 DEF CopyHolds
  <2>6. snapFirst => /\ files.ledger # None /\ CopyHolds(files.ledger, vault', copied')
                     /\ target.pc \in Restored => CopyHolds(target.ledger, vault', copied')
    <3>1. target.pc \in Restored => Taken(target.ledger, ledger, state)
      BY DEF TargetOK, ManifestOK
    <3> QED BY <2>5, <3>1 DEF CopyOK, FilesOK
  <2>7. CopyOK'
    BY <1>0, <2>1, <2>2, <2>3, <2>4, <2>6 DEF CopyOK
  <2> QED BY <1>1, <1>2, <2>7
<1>5. CASE RestoreRoot
  <2>1. copied = Kinds \X Digests /\ root' = vault /\ UNCHANGED <<vault, copied, snapFirst>>
    BY <1>1, <1>5 DEF RestoreRoot
  <2> QED BY <1>0, <1>1, <1>2, <2>1 DEF CopyOK
<1> QED BY <1>3, <1>4, <1>5

LEMMA RecoveryInit_Inv ==
  ASSUME ArchiveInit, RecoveryInit
  PROVE  RecoveryInv
<1>1. ArchiveInv
  BY ArchiveInit_Inv
<1>2. ledger = <<>> /\ state = [k \in Subjects |-> 0]
  BY DEF ArchiveInit, RecoveryInit
<1>3. LiveOK
  <2> DEFINE At(k) == {i \in DOMAIN <<>> : ledger[i].type = "SemanticAsserted" /\ ledger[i].key = k}
             Row(S) == IF S = {} THEN 0 ELSE CHOOSE i \in S : \A j \in S : j <= i
  <2>1. Replay(ledger) = [k \in Subjects |-> Row(At(k))]
    BY <1>2 DEF Replay
  <2>2. \A k \in Subjects : At(k) = {}
    OBVIOUS
  <2>3. Replay(ledger) = [k \in Subjects |-> 0]
    BY <2>1, <2>2
  <2> HIDE DEF At, Row
  <2> QED BY <1>2, <2>3 DEF LiveOK, Rows
<1>4. BackupOK
  BY DEF RecoveryInit, BackupOK, Rows
<1>5. FilesOK
  BY DEF RecoveryInit, FilesOK
<1>6. TargetOK
  BY DEF RecoveryInit, TargetOK, Restored, Rows
<1>7. CopyOK
  BY DEF RecoveryInit, CopyOK
<1> QED BY <1>1, <1>3, <1>4, <1>5, <1>6, <1>7 DEF RecoveryInv

LEMMA RecoveryStays ==
  ASSUME RecoveryInv, UNCHANGED <<vars, rvars>>
  PROVE  RecoveryInv'
<1>1. /\ ArchiveInv' /\ LiveOK' /\ ledger' = ledger /\ state' = state
  BY WorldStays DEF RecoveryInv, rvars
<1>2. UNCHANGED <<backup, files, vault, copied, snapFirst, target, root>>
  BY DEF rvars
<1> QED BY <1>1, <1>2 DEF RecoveryInv, BackupOK, FilesOK, TargetOK, CopyOK

LEMMA RecoverySound == RecoverySpec => []RecoveryInv
<1>1. ArchiveInit /\ RecoveryInit => RecoveryInv
  BY RecoveryInit_Inv
<1>2. RecoveryInv /\ [RecoveryNext]_<<vars, rvars>> => RecoveryInv'
  BY ClientsStep, BackupSteps, RestoreSteps, CopySteps, RecoveryStays
     DEF RecoveryNext, RecoveryStep
<1> QED BY <1>1, <1>2, PTL DEF RecoverySpec

(* The three reads squeeze the state between two equal tables.             *)
LEMMA ExactRestore ==
  ASSUME RecoveryInv
  PROVE  VerifiedRestoreIsExact
<1> SUFFICES ASSUME target.pc = "verified"
             PROVE  /\ target.manifest.max_seq = Len(target.ledger)
                    /\ IsPrefixOf(target.ledger, ledger)
                    /\ target.rows = target.state
  BY DEF VerifiedRestoreIsExact
<1> DEFINE m == target.manifest
<1>1. /\ ManifestOK(m, ledger, state) /\ m.ledger = target.ledger /\ m.state = target.rows
      /\ target.state = Replay(m.ledger) /\ target.state = m.checksum
  BY DEF RecoveryInv, TargetOK, Restored
<1> HIDE DEF m
<1>2. m.state \in Rows /\ m.checksum \in Rows
  BY <1>1 DEF ManifestOK, Manifest
<1>3. \A k \in Subjects : m.checksum[k] <= m.state[k] /\ m.state[k] <= m.checksum[k]
  BY <1>1 DEF ManifestOK, Behind
<1>4. \A k \in Subjects : m.checksum[k] = m.state[k]
  BY <1>2, <1>3 DEF Rows
<1>5. m.state = m.checksum
  BY <1>2, <1>4 DEF Rows
<1> QED BY <1>1, <1>5 DEF ManifestOK, Taken, m

LEMMA QuietRestore ==
  ASSUME RecoveryInv
  PROVE  QuietBackupRestores
<1> SUFFICES ASSUME target.pc = "diverged",
                    \A i \in DOMAIN ledger : i > Len(target.ledger) =>
                      ledger[i].type # "SemanticAsserted"
             PROVE  FALSE
  BY DEF QuietBackupRestores
<1> DEFINE m == target.manifest
<1>1. /\ ManifestOK(m, ledger, state) /\ m.ledger = target.ledger
      /\ target.state = Replay(m.ledger) /\ target.state # m.checksum
  BY DEF RecoveryInv, TargetOK, Restored
<1> HIDE DEF m
<1>2. m \in Manifest /\ Taken(m.ledger, ledger, state)
  BY <1>1 DEF ManifestOK
<1>3. ledger \in Seq(LedgerRow) /\ state \in Rows /\ state = Replay(ledger)
  BY DEF RecoveryInv, ArchiveInv, EventsTyped, LedgerRow, LiveOK
<1>4. Replay(m.ledger) = state
  BY <1>1, <1>2, <1>3, ReplayPrefix DEF Taken
<1>5. m.state \in Rows /\ m.checksum \in Rows
  BY <1>2 DEF Manifest
<1>6. \A k \in Subjects : /\ state[k] <= m.state[k] /\ m.state[k] <= m.checksum[k]
                          /\ m.checksum[k] <= state[k]
  BY <1>1, <1>4 DEF ManifestOK, Behind
<1>7. \A k \in Subjects : m.checksum[k] = state[k]
  BY <1>3, <1>5, <1>6 DEF Rows
<1>8. m.checksum = state
  BY <1>3, <1>5, <1>7 DEF Rows
<1> QED BY <1>1, <1>4, <1>8

LEMMA ClosedRestore ==
  ASSUME RecoveryInv
  PROVE  RestoredEventsHaveBytes
<1> SUFFICES ASSUME snapFirst, root # None, target.pc = "verified",
                    NEW e \in IngestEvents(target.ledger)
             PROVE  root[Ref("source", e.sha512)] = "Complete"
  BY DEF RestoredEventsHaveBytes
<1>1. root = vault /\ copied = Kinds \X Digests /\ CopyHolds(target.ledger, vault, copied)
  BY DEF RecoveryInv, CopyOK, Restored
<1>2. Taken(target.ledger, ledger, state) /\ ledger \in Seq(LedgerRow)
  BY DEF RecoveryInv, TargetOK, Restored, ManifestOK, ArchiveInv, EventsTyped, LedgerRow
<1>3. e \in ingested
  BY <1>2, PrefixEvents DEF Taken, ingested
<1>4. Ref("source", e.sha512) \in Kinds \X Digests
  BY <1>3, IngestTyped DEF RecoveryInv, ArchiveInv, IngestRow, Ref, Kinds
<1> QED BY <1>1, <1>4 DEF CopyHolds

(* A restore that verifies is one moment of the system, a backup taken in  *)
(* quiet restores, and the restored events have their bytes: with calls,   *)
(* assertions and crashes between the three reads of backup_postgres, runs *)
(* that die between two files, and a copy of the root that races uploads.  *)
THEOREM RestoresAreExact == RecoverySpec => []RestoresAreFaithful
<1>1. RecoveryInv => RestoresAreFaithful
  BY ExactRestore, QuietRestore, ClosedRestore DEF RestoresAreFaithful
<1> QED BY <1>1, RecoverySound, PTL

(* The archive stays consistent while it is backed up and restored.        *)
THEOREM ArchiveSurvivesBackups == RecoverySpec => []ArchiveConsistent
<1>1. RecoveryInv => ArchiveConsistent
  BY ArchiveInvConsistent DEF RecoveryInv
<1> QED BY <1>1, RecoverySound, PTL

-----------------------------------------------------------------------------
(* Alignments                                                              *)

Cell == Nat \X Nat
Below(a, b) == a[1] <= b[1] /\ a[2] <= b[2]

(* The walk through the cost table.                                        *)
IsWalk(f, cost, start, N) ==
  f = [k \in 0..N |-> IF k = 0 THEN start ELSE Back(cost, f[k - 1])]

LEMMA WalkExists ==
  ASSUME NEW cost, NEW start
  PROVE  \A N \in Nat : \E f : IsWalk(f, cost, start, N)
<1> DEFINE S == {N \in Nat : ~ \E f : IsWalk(f, cost, start, N)}
<1> SUFFICES ASSUME S # {} PROVE FALSE
  OBVIOUS
<1>1. PICK N \in S : \A M \in S : N <= M
  BY LeastExists
<1>2. CASE N = 0
  <2>1. PICK f : f = [k \in 0..N |-> start]
    OBVIOUS
  <2>2. \A k \in 0..N : k = 0
    BY <1>2
  <2>3. IsWalk(f, cost, start, N)
    BY <2>1, <2>2 DEF IsWalk
  <2>4. QED
    BY <1>1, <2>3
<1>3. CASE N # 0
  <2>1. N \in Nat /\ N - 1 \in Nat /\ N - 1 \notin S
    BY <1>1, <1>3
  <2>2. PICK f : IsWalk(f, cost, start, N - 1)
    BY <2>1
  <2>3. \A k \in 0..(N - 1) : f[k] = IF k = 0 THEN start ELSE Back(cost, f[k - 1])
    BY <2>2, Zenon DEF IsWalk
  <2>4. PICK g : g = [k \in 0..N |-> IF k = N THEN Back(cost, f[N - 1]) ELSE f[k]]
    OBVIOUS
  <2>5. \A k \in 0..N : k # N => k \in 0..(N - 1) /\ g[k] = f[k]
    BY <2>1, <2>4
  <2>6. \A k \in 0..N : k # 0 => k - 1 \in 0..N /\ g[k - 1] = f[k - 1]
    BY <2>1, <2>5
  <2>7. \A k \in 0..N : g[k] = IF k = 0 THEN start ELSE Back(cost, g[k - 1])
    <3> TAKE k \in 0..N
    <3>1. CASE k = N
      BY <1>3, <2>4, <2>6, <3>1
    <3>2. CASE k # N
      BY <2>3, <2>5, <2>6, <3>2
    <3>3. QED
      BY <3>1, <3>2
  <2>8. IsWalk(g, cost, start, N)
    BY <2>4, <2>7 DEF IsWalk
  <2>9. QED
    BY <1>1, <2>8
<1>4. QED
  BY <1>2, <1>3

(* Every turn moves down, by at least one unit, whatever the costs are.    *)
LEMMA BackDescends ==
  ASSUME NEW cost, NEW c \in Cell
  PROVE  /\ Back(cost, c) \in Cell /\ Below(Back(cost, c), c)
         /\ c[1] + c[2] > 0 => Back(cost, c)[1] + Back(cost, c)[2] < c[1] + c[2]
         /\ c[1] + c[2] = 0 => Back(cost, c) = c
<1>1. c = <<c[1], c[2]>> /\ c[1] \in Nat /\ c[2] \in Nat
  BY DEF Cell
<1>2. CASE c[1] > 0 /\ c[2] > 0
  <2>1. \/ Back(cost, c) = <<c[1] - 1, c[2] - 1>>
        \/ Back(cost, c) = <<c[1] - 1, c[2]>>
        \/ Back(cost, c) = <<c[1], c[2] - 1>>
    BY <1>2, Zenon DEF Back, Previous
  <2>2. QED
    BY <1>1, <1>2, <2>1 DEF Cell, Below
<1>3. CASE ~ (c[1] > 0 /\ c[2] > 0)
  BY <1>1, <1>3 DEF Back, Cell, Below
<1>4. QED
  BY <1>2, <1>3

(* The walk stays in the table, descends, and is at the origin in the end. *)
LEMMA WalkDescends ==
  ASSUME NEW f, NEW cost, NEW start \in Cell, NEW N \in Nat, IsWalk(f, cost, start, N)
  PROVE  /\ \A k \in 0..N : f[k] \in Cell /\ (f[k] = <<0, 0>> \/ f[k][1] + f[k][2] + k <= start[1] + start[2])
         /\ \A k \in 0..N : \A m \in 0..k : Below(f[k], f[m])
<1> DEFINE Good(k) == /\ f[k] \in Cell
                      /\ (f[k] = <<0, 0>> \/ f[k][1] + f[k][2] + k <= start[1] + start[2])
                      /\ \A m \in 0..k : Below(f[k], f[m])
           Bad == {k \in 0..N : ~ Good(k)}
<1>1. \A k \in 0..N : f[k] = IF k = 0 THEN start ELSE Back(cost, f[k - 1])
  BY Zenon DEF IsWalk
<1>2. Bad = {}
  <2> SUFFICES ASSUME Bad # {} PROVE FALSE
    OBVIOUS
  <2>1. Bad \in SUBSET Nat
    OBVIOUS
  <2>2. PICK k \in Bad : \A m \in Bad : k <= m
    BY <2>1, LeastExists
  <2>3. k \in 0..N
    OBVIOUS
  <2>4. CASE k = 0
    <3>1. f[k] = start /\ \A m \in 0..k : m = k
      BY <1>1, <2>3, <2>4
    <3>2. Good(k)
      BY <2>4, <3>1 DEF Cell, Below
    <3>3. QED
      BY <2>2, <3>2
  <2>5. CASE k # 0
    <3>1. k - 1 \in 0..N /\ ~ (k <= k - 1) /\ k \in Nat
      BY <2>3, <2>5
    <3>2. k - 1 \notin Bad
      BY <2>2, <3>1, Zenon
    <3>3. Good(k - 1)
      BY <3>1, <3>2
    <3> DEFINE a == f[k - 1]
               b == f[k]
    <3>4. b = Back(cost, a)
      BY <1>1, <2>3, <2>5
    <3>5. a \in Cell /\ (a = <<0, 0>> \/ a[1] + a[2] + (k - 1) <= start[1] + start[2])
      BY <3>3
    <3>6. \A m \in 0..(k - 1) : Below(a, f[m])
      BY <3>3
    <3> HIDE DEF a, b, Good
    <3>7. /\ b \in Cell /\ Below(b, a)
          /\ a[1] + a[2] > 0 => b[1] + b[2] < a[1] + a[2]
          /\ a[1] + a[2] = 0 => b = a
      BY <3>4, <3>5, BackDescends
    <3>8. b = <<0, 0>> \/ b[1] + b[2] + k <= start[1] + start[2]
      BY <3>1, <3>5, <3>7 DEF Cell
    <3>9. \A m \in 0..k : Below(b, f[m])
      <4> TAKE m \in 0..k
      <4>1. CASE m = k
        BY <3>7, <4>1 DEF Below, Cell, b
      <4>2. CASE m # k
        <5>1. m \in 0..(k - 1)
          BY <3>1, <4>2
        <5>2. Below(a, f[m])
          BY <3>6, <5>1
        <5>3. m \in 0..N /\ (m < k)
          BY <2>3, <3>1, <5>1
        <5>4. m \notin Bad
          BY <2>2, <2>3, <5>3
        <5>5. f[m] \in Cell
          BY <5>3, <5>4 DEF Good
        <5>6. QED
          BY <3>5, <3>7, <5>2, <5>5 DEF Below, Cell
      <4>3. QED
        BY <4>1, <4>2
    <3>10. Good(k)
      BY <3>7, <3>8, <3>9 DEF Good, b
    <3>11. QED
      BY <2>2, <3>10
  <2>6. QED
    BY <2>4, <2>5
<1>3. QED
  BY <1>2

(* A path goes up on both sides, and never past a unit: no pairs cross.    *)
Rises(pairs) == \A x, y \in DOMAIN pairs : x < y => Below(pairs[x], pairs[y])

LEMMA PathRises ==
  ASSUME NEW method, NEW A, left \in Seq(A), right \in Seq(A)
  PROVE  DtwPath(method) \in Seq(Cell) /\ Rises(DtwPath(method))
<1> DEFINE cost == Cost(method)
           start == <<Len(left), Len(right)>>
           N == Len(left) + Len(right)
           f == CHOOSE g : IsWalk(g, cost, start, N)
           ends == {k \in 0..N : f[k] = <<0, 0>>}
           path == [m \in 1..Min(ends) |-> Paired(f[Min(ends) - m])]
<1>1. DtwPath(method) = path
  BY Zenon DEF DtwPath, IsWalk
<1>2. N \in Nat /\ start \in Cell
  BY DEF Cell
<1>3. IsWalk(f, cost, start, N)
  <2> HIDE DEF cost, start
  <2> QED
    BY <1>2, WalkExists, Zenon
<1> HIDE DEF f, cost
<1>4. /\ \A k \in 0..N : f[k] \in Cell /\ (f[k] = <<0, 0>> \/ f[k][1] + f[k][2] + k <= start[1] + start[2])
      /\ \A k \in 0..N : \A m \in 0..k : Below(f[k], f[m])
  <2> HIDE DEF start, N
  <2> QED
    BY <1>2, <1>3, WalkDescends
<1>5. ends # {}
  <2>1. N \in 0..N /\ start[1] + start[2] = N
    BY <1>2
  <2>2. f[N] \in Cell /\ (f[N] = <<0, 0>> \/ f[N][1] + f[N][2] + N <= N)
    BY <1>4, <2>1
  <2>3. f[N] = <<0, 0>>
    <3> HIDE DEF N
    <3> QED
      BY <1>2, <2>2 DEF Cell
  <2>4. QED
    BY <2>1, <2>3
<1> HIDE DEF N
<1>6. Min(ends) \in 0..N
  <2>1. ends \in SUBSET Nat
    BY <1>2
  <2>2. PICK n \in ends : \A m \in ends : n <= m
    BY <1>5, <2>1, LeastExists
  <2>3. Min(ends) \in ends
    BY <2>2, Zenon DEF Min
  <2>4. QED
    BY <2>3
<1>7. PICK n \in 0..N : n = Min(ends)
  BY <1>6
<1>8. path = [m \in 1..n |-> Paired(f[n - m])]
  BY <1>7
<1> HIDE DEF path, ends
<1>9. \A m \in 1..n : n - m \in 0..N /\ f[n - m] \in Cell /\ path[m] = Paired(f[n - m])
  BY <1>2, <1>4, <1>8
<1>10. \A c \in Cell : Paired(c) \in Cell
  BY DEF Paired, Cell
<1>11. path \in [1..n -> Cell]
  BY <1>8, <1>9, <1>10
<1>12. path \in Seq(Cell) /\ DOMAIN path = 1..n
  BY <1>2, <1>11, MapIsSequence
<1>13. ASSUME NEW c \in Cell, NEW d \in Cell, Below(c, d) PROVE Below(Paired(c), Paired(d))
  BY <1>13 DEF Below, Paired, Cell
<1>14. ASSUME NEW x \in 1..n, NEW y \in 1..n, x < y PROVE Below(path[x], path[y])
  <2>1. n - y \in 0..(n - x)
    BY <1>14
  <2>2. Below(f[n - x], f[n - y])
    BY <1>4, <1>9, <2>1
  <2>3. QED
    BY <1>9, <1>13, <2>2
<1>15. QED
  BY <1>1, <1>12, <1>14 DEF Rises

LEMMA ScenesArePairs ==
  ASSUME NEW A, left \in Seq(A), right \in Seq(A)
  PROVE  ScenePath \in Seq(Cell)
<1> DEFINE one(i, j) == IF left[i].scene = right[j].scene THEN <<<<i, j>>>> ELSE <<>>
           row(i) == [j \in DOMAIN right |-> one(i, j)]
           rows == [i \in DOMAIN left |-> FlattenSeq(row(i))]
<1>1. DOMAIN left = 1..Len(left) /\ DOMAIN right = 1..Len(right) /\ Len(left) \in Nat /\ Len(right) \in Nat
  OBVIOUS
<1>2. \A i \in 1..Len(left), j \in 1..Len(right) : one(i, j) \in Seq(Cell)
  <2>1. \A i \in 1..Len(left), j \in 1..Len(right) : <<i, j>> \in Cell
    BY <1>1 DEF Cell
  <2>2. \A c \in Cell : <<c>> \in Seq(Cell)
    OBVIOUS
  <2>3. <<>> \in Seq(Cell)
    OBVIOUS
  <2>4. QED
    BY <2>1, <2>2, <2>3, Zenon
<1> HIDE DEF one
<1>3. \A i \in 1..Len(left) : FlattenSeq(row(i)) \in Seq(Cell)
  <2> TAKE i \in 1..Len(left)
  <2>1. row(i) \in [1..Len(right) -> Seq(Cell)]
    BY <1>1, <1>2
  <2> HIDE DEF row
  <2>2. row(i) \in Seq(Seq(Cell))
    BY <1>1, <2>1, MapIsSequence
  <2>3. QED
    BY <2>2, FlattenKeeps
<1>4. ScenePath = FlattenSeq(rows)
  BY Zenon DEF ScenePath, one
<1> HIDE DEF row
<1>5. rows \in [1..Len(left) -> Seq(Cell)]
  BY <1>1, <1>3
<1> HIDE DEF rows
<1>6. rows \in Seq(Seq(Cell))
  BY <1>1, <1>5, MapIsSequence
<1>7. QED
  BY <1>4, <1>6, FlattenKeeps

(* A plan is what build_plan makes of a sequence of pairs.                 *)
IsPlanOf(p) ==
  p.status = "plan" =>
    /\ p.pairs \in Seq(Cell)
    /\ p.reordering = DetectReordering(p.pairs)
    /\ p.assumption = "PARALLEL_MONOTONE" => Rises(p.pairs)

LEMMA PlansAreBuilt ==
  ASSUME NEW A, left \in Seq(A), right \in Seq(A), NEW method, NEW assumption
  PROVE  IsPlanOf(AlignManyToMany(method, assumption))
<1>1. ASSUME NEW path \in Seq(Cell), NEW m, NEW asm, NEW t, asm = "PARALLEL_MONOTONE" => Rises(path)
      PROVE  IsPlanOf(BuildPlan(path, m, asm, t))
  BY <1>1 DEF IsPlanOf, BuildPlan
<1>2. ASSUME NEW d, NEW m, NEW asm, NEW t PROVE IsPlanOf(DtwPlan(d, m, asm, t))
  <2>1. DtwPath(d) \in Seq(Cell) /\ Rises(DtwPath(d))
    BY PathRises
  <2>2. IsPlanOf(Failed)
    BY DEF IsPlanOf, Failed
  <2>3. QED
    BY <1>1, <2>1, <2>2 DEF DtwPlan
<1>3. CASE assumption = "PARALLEL_MONOTONE"
  <2>1. AlignManyToMany(method, assumption) = DtwPlan("timecode-dtw", "timecode-dtw", "PARALLEL_MONOTONE", 0)
    BY <1>3, Zenon DEF AlignManyToMany, AlignMonotoneParallel
  <2>2. QED
    BY <1>2, <2>1
<1>4. CASE assumption # "PARALLEL_MONOTONE"
  <2>1. \/ AlignManyToMany(method, assumption) = BuildPlan(ScenePath, "scene-order-dtw", assumption, 0)
        \/ AlignManyToMany(method, assumption) = DtwPlan("embedding", "embedding", assumption, 35)
        \/ AlignManyToMany(method, assumption) = DtwPlan("timecode-dtw", "timecode-dtw", assumption, 0)
    <3>1. CASE method = "scene-order-dtw"
      BY <1>4, <3>1 DEF AlignManyToMany, AlignSceneOrder
    <3>2. CASE method = "embedding"
      BY <1>4, <3>2 DEF AlignManyToMany, AlignEmbeddings
    <3>3. CASE method \notin {"scene-order-dtw", "embedding"}
      BY <1>4, <3>3 DEF AlignManyToMany, AlignTimecode
    <3>4. QED
      BY <3>1, <3>2, <3>3
  <2>2. QED
    BY <1>1, <1>2, <1>4, <2>1, ScenesArePairs
<1>5. QED
  BY <1>3, <1>4

(* Two pairs out of order are announced, and nothing else is.              *)
LEMMA ReorderingTold ==
  ASSUME IsPlanOf(plan) PROVE ReorderingTellsCrossings
<1> SUFFICES ASSUME plan.status = "plan" PROVE ReorderingTellsCrossings
  BY DEF ReorderingTellsCrossings
<1> DEFINE ps == plan.pairs
           Num(c) == SeqNumbered(left, c[1]) /\ SeqNumbered(right, c[2])
           told == {c \in ToSet(ps) : Num(c)}
<1>1. ps \in Seq(Cell) /\ plan.reordering = DetectReordering(ps)
  BY DEF IsPlanOf
<1>2. DOMAIN ps = 1..Len(ps) /\ Len(ps) \in Nat /\ ToSet(ps) = {ps[x] : x \in 1..Len(ps)}
      /\ \A x \in 1..Len(ps) : ps[x] \in Cell
  BY <1>1 DEF ToSet
<1>3. DetectReordering(ps) <=>
        \E x, y \in 1..Len(ps) : /\ x < y /\ Num(ps[x]) /\ Num(ps[y])
                                 /\ (ps[x][1] < ps[y][1]) # (ps[x][2] < ps[y][2])
  BY <1>2 DEF DetectReordering
<1> HIDE DEF ps, Num
<1>4. ASSUME NEW a \in told, NEW b \in told, Crossing(a, b) PROVE plan.reordering
  <2>1. PICK x \in 1..Len(ps), y \in 1..Len(ps) : ps[x] = a /\ ps[y] = b
    BY <1>2
  <2>2. a \in Cell /\ b \in Cell /\ Num(a) /\ Num(b)
    BY <1>2
  <2>3. (a[1] < b[1]) # (a[2] < b[2]) /\ (b[1] < a[1]) # (b[2] < a[2]) /\ a # b
    BY <1>4, <2>2 DEF Crossing, Cell
  <2>4. x < y \/ y < x
    BY <2>1, <2>3
  <2>5. CASE x < y
    BY <1>1, <1>3, <2>1, <2>2, <2>3, <2>5
  <2>6. CASE y < x
    BY <1>1, <1>3, <2>1, <2>2, <2>3, <2>6
  <2>7. QED
    BY <2>4, <2>5, <2>6
<1>5. ASSUME \A a, b \in told : a # b => (a[1] < b[1] /\ a[2] < b[2]) \/ (a[1] > b[1] /\ a[2] > b[2])
      PROVE  ~ plan.reordering
  <2>1. SUFFICES ASSUME NEW x \in 1..Len(ps), NEW y \in 1..Len(ps), Num(ps[x]), Num(ps[y]),
                        (ps[x][1] < ps[y][1]) # (ps[x][2] < ps[y][2])
                 PROVE  FALSE
    BY <1>1, <1>3
  <2>2. ps[x] \in told /\ ps[y] \in told /\ ps[x] \in Cell /\ ps[y] \in Cell
    BY <1>2, <2>1
  <2>3. ps[x] # ps[y]
    BY <2>1, <2>2 DEF Cell
  <2>4. (ps[x][1] < ps[y][1] /\ ps[x][2] < ps[y][2]) \/ (ps[x][1] > ps[y][1] /\ ps[x][2] > ps[y][2])
    BY <1>5, <2>2, <2>3
  <2>5. QED
    BY <2>1, <2>2, <2>4 DEF Cell
<1>6. QED
  BY <1>4, <1>5 DEF ReorderingTellsCrossings, ps, Num

EventsRise(events) ==
  \A e, f \in ToSet(events) :
    e.assumption = "PARALLEL_MONOTONE" => ~ Crossing(<<e.left, e.right>>, <<f.left, f.right>>)

AlignInv ==
  /\ \E A : left \in Seq(A) /\ right \in Seq(A)
  /\ IsPlanOf(plan)
  /\ \E S : appended \in Seq(S)
  /\ \A n \in DOMAIN appended : EventsRise(appended[n])

LEMMA AppendedRise == ASSUME AlignInv, plan.status = "plan" PROVE EventsRise(AlignedEvents)
<1> DEFINE ps == plan.pairs
           evs == AlignedEvents
<1>1. ps \in Seq(Cell) /\ (plan.assumption = "PARALLEL_MONOTONE" => Rises(ps))
  BY DEF AlignInv, IsPlanOf
<1>2. DOMAIN evs = DOMAIN ps /\ DOMAIN ps = 1..Len(ps) /\ Len(ps) \in Nat
      /\ \A k \in DOMAIN ps : /\ evs[k].left = ps[k][1] /\ evs[k].right = ps[k][2]
                              /\ evs[k].assumption = plan.assumption
  BY <1>1 DEF AlignedEvents
<1>3. ToSet(evs) = {evs[k] : k \in DOMAIN ps}
  BY <1>2 DEF ToSet
<1> HIDE DEF evs, ps
<1>4. ASSUME NEW k \in DOMAIN ps, NEW m \in DOMAIN ps, plan.assumption = "PARALLEL_MONOTONE"
      PROVE  ~ Crossing(ps[k], ps[m])
  <2>1. ps[k] \in Cell /\ ps[m] \in Cell
    BY <1>1, <1>2
  <2>2. Rises(ps)
    BY <1>1, <1>4
  <2>3. CASE k < m
    <3>1. Below(ps[k], ps[m])
      BY <2>2, <2>3 DEF Rises
    <3>2. QED
      BY <2>1, <3>1 DEF Below, Crossing, Cell
  <2>4. CASE m < k
    <3>1. Below(ps[m], ps[k])
      BY <2>2, <2>4 DEF Rises
    <3>2. QED
      BY <2>1, <3>1 DEF Below, Crossing, Cell
  <2>5. CASE k = m
    BY <2>1, <2>5 DEF Crossing, Cell
  <2>6. QED
    BY <1>2, <2>3, <2>4, <2>5
<1>5. ASSUME NEW k \in DOMAIN ps, NEW m \in DOMAIN ps, evs[k].assumption = "PARALLEL_MONOTONE"
      PROVE  ~ Crossing(<<evs[k].left, evs[k].right>>, <<evs[m].left, evs[m].right>>)
  <2>1. ~ Crossing(ps[k], ps[m])
    BY <1>2, <1>4, <1>5
  <2>2. QED
    BY <1>2, <2>1 DEF Crossing
<1>6. QED
  BY <1>3, <1>5 DEF EventsRise, evs

LEMMA AlignInductive == AlignInv /\ [AlignNext]_alignVars => AlignInv'
<1> SUFFICES ASSUME AlignInv, [AlignNext]_alignVars PROVE AlignInv'
  OBVIOUS
<1>1. ASSUME NEW method, NEW assumption, Align(method, assumption) PROVE AlignInv'
  <2>1. PICK A : left \in Seq(A) /\ right \in Seq(A)
    BY DEF AlignInv
  <2>2. IsPlanOf(AlignManyToMany(method, assumption))
    BY <2>1, PlansAreBuilt
  <2>3. plan' = AlignManyToMany(method, assumption) /\ UNCHANGED <<left, right, appended>>
    BY <1>1 DEF Align
  <2>4. IsPlanOf(plan)'
    BY <2>2, <2>3 DEF IsPlanOf, DetectReordering, SeqNumbered
  <2>5. QED
    BY <2>3, <2>4 DEF AlignInv
<1>2. CASE AppendPlan
  <2>1. plan.status = "plan" /\ UNCHANGED <<left, right, plan>> /\ appended' = Append(appended, AlignedEvents)
    BY <1>2 DEF AppendPlan
  <2>2. EventsRise(AlignedEvents)
    BY <2>1, AppendedRise
  <2>3. PICK S : appended \in Seq(S)
    BY DEF AlignInv
  <2>4. IsPlanOf(plan)'
    BY <2>1 DEF AlignInv, IsPlanOf, DetectReordering, SeqNumbered
  <2> DEFINE evs == AlignedEvents
             T == S \cup {evs}
  <2>5. appended \in Seq(T) /\ evs \in T
    <3>1. \A i \in 1..Len(appended) : appended[i] \in T
      BY <2>3
    <3>2. Range(appended) \subseteq T
      BY <2>3, <3>1, RangeIs
    <3>3. QED
      BY <2>3, <3>2, SequenceOfItsRange
  <2> HIDE DEF T, evs
  <2>6. /\ Append(appended, evs) \in Seq(T)
        /\ \A n \in DOMAIN Append(appended, evs) :
             Append(appended, evs)[n] = evs \/ (n \in DOMAIN appended /\ Append(appended, evs)[n] = appended[n])
    BY <2>5
  <2>7. \A n \in DOMAIN appended' : EventsRise(appended'[n])
    BY <2>1, <2>2, <2>6 DEF AlignInv, evs
  <2>8. QED
    BY <2>1, <2>4, <2>6, <2>7 DEF AlignInv, evs
<1>3. CASE UNCHANGED alignVars
  BY <1>3 DEF alignVars, AlignInv, IsPlanOf, DetectReordering, SeqNumbered
<1>4. QED
  BY <1>1, <1>2, <1>3 DEF AlignNext

(* Whatever the units and their costs: a plan announces every crossing of  *)
(* its numbered pairs and none that is not there, and no pairs appended as *)
(* parallel and monotone cross.                                            *)
THEOREM AlignmentsTellTheirOrder ==
  AlignSpec => [](ReorderingTellsCrossings /\ MonotoneLabelHonest)
<1>1. AlignInit => AlignInv
  <2> SUFFICES ASSUME AlignInit PROVE AlignInv
    OBVIOUS
  <2>1. left \in Seq(Units) /\ right \in Seq(Units)
    <3>1. PICK n \in 0..MaxUnits : left \in [1..n -> Units]
      BY DEF AlignInit
    <3>2. PICK m \in 0..MaxUnits : right \in [1..m -> Units]
      BY DEF AlignInit
    <3>3. QED
      BY <3>1, <3>2, MapIsSequence
  <2>2. IsPlanOf(plan)
    BY DEF AlignInit, IsPlanOf, Unplanned
  <2>3. \A S : <<>> \in Seq(S)
    OBVIOUS
  <2>4. QED
    BY <2>1, <2>2, <2>3 DEF AlignInit, AlignInv
<1>2. AlignInv => ReorderingTellsCrossings /\ MonotoneLabelHonest
  BY ReorderingTold DEF AlignInv, MonotoneLabelHonest, EventsRise
<1>3. QED
  BY <1>1, <1>2, AlignInductive, PTL DEF AlignSpec
===============================================================================
