---------------------------- MODULE EvidenceStore ----------------------------
(***************************************************************************)
(* The segment table and the evidence table, and the only two ways stages  *)
(* write them: SegmentRegistry.register over PostgresSegmentStore.put, one *)
(* transaction per segment, and PostgresEvidenceRepository.record, one     *)
(* transaction per batch.  Neither updates a row: both insert with ON      *)
(* CONFLICT DO NOTHING on the identity of the row.                         *)
(*                                                                         *)
(* A structural path such as chapter/1/paragraph/2 is its level and its    *)
(* numbers; a segment row is named by its source, modality and path, the   *)
(* parts of its deterministic_key (the sha512 of a source never changes).  *)
(***************************************************************************)
EXTENDS Naturals, SequencesExt

VARIABLES
    segment,   \* rows of table segment: [source, modality, path]
    evidence   \* rows of table evidence: see Record

P(level, at) == [level |-> level, at |-> at]
NoPath == P("none", <<>>)

\* A locator of an evidence row: a path, under the prefix of its branch.
Loc(stream, path) == [stream |-> stream, path |-> path]

\* What _build derives from a SegmentInput: the identity put inserts under.
Segment(source, modality, path) ==
    [source |-> source, modality |-> modality, path |-> path]

\* The path whose row id _segment_row_ids maps a path of the source to, NoPath
\* when the source has no such row.
RowAt(source, path) ==
    IF \E s \in segment : s.source = source /\ s.path = path THEN path ELSE NoPath

Record(source, kind, locator, digest, owner, content) ==
    [source |-> source, kind |-> kind, locator |-> locator, digest |-> digest,
     segment |-> owner, content |-> content]

\* uq_evidence_identity, and the dedup_key of one batch.
EvidenceIdentity(r) == <<r.source, r.locator, r.kind, r.digest>>

\* record: each row of the batch in order, the later of two with one identity
\* dropped, whether the earlier is in the table or in the batch.
Recorded(rows, batch) ==
    rows \cup {batch[i] : i \in {k \in DOMAIN batch :
                  /\ \A x \in rows : EvidenceIdentity(x) # EvidenceIdentity(batch[k])
                  /\ \A j \in 1..(k - 1) : EvidenceIdentity(batch[j]) # EvidenceIdentity(batch[k])}}
=============================================================================
