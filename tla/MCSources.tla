------------------------------ MODULE MCSources ------------------------------
EXTENDS Recovery, TextStages, MediaExtraction, SequenceAlignment

CONSTANTS r1, r2, r3, d1, d2, w1, w2

VARIABLE scenario
mcvars == <<vars, rvars, textVars, mediaVars, alignVars, scenario>>

MCRequests == {r1, r2, r3}
MCDigests == {d1, d2}
MCWorkers == {w1, w2}

\* Documents: a heading line and paragraphs in every format, what its parser
\* rejects, a PDF without text, and a picture.
H(l, t) == [kind |-> "heading", level |-> l, text |-> t]
T(t) == [kind |-> "prose", level |-> 0, text |-> t]
D(format, medium, sound, blocks) ==
    [id |-> 1, format |-> format, media |-> medium, sound |-> sound, blocks |-> blocks]
MCDocuments ==
    {D("txt", "text", TRUE, <<T(1), H(1, 2), T(3)>>),
     D("markdown", "text", TRUE, <<T(1), H(1, 2), T(3), H(2, 4)>>),
     D("epub", "text", TRUE, <<H(1, 1), T(2), T(3)>>), D("epub", "text", FALSE, <<>>),
     D("pdf", "text", TRUE, <<>>), D("pdf", "unknown", TRUE, <<T(1)>>),
     D("png", "image", TRUE, <<>>)}

\* A video with sound, a bitmap subtitle track and two equal text tracks.
Utt(backed, low, words) == [backed |-> backed, low |-> low, words |-> words]
Track(bytes, text, events) == [bytes |-> bytes, text |-> text, events |-> events]
Video == [tracks |-> <<"video", "audio">>, scenes |-> 1, shots |-> 1, frames |-> 0,
          utterances |-> <<Utt(TRUE, 0, 2)>>, energetic |-> TRUE, music |-> 0, sounds |-> 0,
          subtitles |-> <<Track(8, FALSE, 0), Track(9, TRUE, 1), Track(9, TRUE, 1)>>]
Image == [panels |-> 1, regions |-> 1, ocr |-> 1]
Audio == [utterances |-> <<Utt(TRUE, 1, 2), Utt(FALSE, 0, 1)>>, energetic |-> TRUE,
          music |-> 1, sounds |-> 1]
Subtitles == [subtitles |-> <<Track(9, TRUE, 2)>>]
Medium(kind, output) == [id |-> 1, bytes |-> 1, kind |-> kind, output |-> output]
MCMedia == {Medium("video", Video), Medium("image", Image), Medium("audio", Audio),
            Medium("subtitle", Subtitles)}

Unit(at, scene, emb, numbered) ==
    [mid |-> at, scene |-> scene, emb |-> emb, numbered |-> numbered]
MCUnits == {Unit(0, "s", "a", TRUE), Unit(1, "t", "b", TRUE), Unit(3, "s", "", FALSE)}

Started == {r \in Requests : req[r].pc # "idle"}

\* "same_bytes": three calls that all upload d1, at most one of them particular.
\* "uploads": two calls with any bytes.  "restores": one upload and the assertions of other clients
\* beside two runs of backup_postgres and a restore.  "copies": two uploads of
\* the same bytes beside one run of each backup and their restores.  "text"
\* and "media": the stages that decompose one source of that kind.
\* "alignment": how the segments of two sources correspond.
Scenarios == {"same_bytes", "uploads", "restores", "copies"}

MCInit ==
    /\ ArchiveInit /\ RecoveryInit /\ TextInit /\ MediaInit /\ AlignInit
    /\ scenario \in Scenarios \cup {"text", "media", "alignment"}
    /\ scenario # "text" => doc = D("png", "image", TRUE, <<>>)
    /\ scenario # "media" => media = Medium("image", Image) /\ providers = <<"gated">>
    /\ scenario # "alignment" => left = <<>> /\ right = <<>>

Plain(r) ==
    /\ req'[r].door = "handler" /\ req'[r].asked = None /\ req'[r].sha512 \in {d1, None}
    /\ r \notin Started => req'[r].pc = "put"

\* The client names the source, or a work without a row, or stores an artifact.
Particular(call) ==
    call.source \in NamedIds \/ call.asked \in GhostWorks \/ call.door = "artifact"

Limit ==
    CASE scenario = "same_bytes" -> /\ \A r \in Started' : req'[r].sha512 \in {d1, None}
                                    /\ \A r \in Started' \ Started : Particular(req'[r]) =>
                                         ~ \E q \in Started : Particular(req[q])
      [] scenario = "uploads"    -> Cardinality(Started') <= 2
      [] scenario = "restores"   -> /\ Cardinality(Started') <= 1 /\ vault' = None
                                    /\ \A r \in Started' : Plain(r)
      [] scenario = "copies"     -> /\ Cardinality(Started') <= 2 /\ backups' <= 1
                                    /\ state' = state
                                    /\ \A r \in Started' : Plain(r)

\* After a crash or a failed read the text stages run one execution at a time.
OneAtATime ==
    textCrashes' + outages' > 0 => Cardinality({w \in TextWorkers : exec'[w].at # "idle"}) < 2

MCNext ==
    /\ UNCHANGED scenario
    /\ \/ /\ scenario \in {"same_bytes", "uploads"} /\ ArchiveNext /\ Limit
          /\ UNCHANGED <<rvars, textVars, mediaVars, alignVars>>
       \/ /\ scenario \in {"restores", "copies"} /\ RecoveryNext /\ Limit
          /\ UNCHANGED <<textVars, mediaVars, alignVars>>
       \/ /\ scenario = "text" /\ TextNext /\ OneAtATime
          /\ UNCHANGED <<vars, rvars, mediaOwn, alignVars>>
       \/ /\ scenario = "media" /\ MediaNext
          /\ UNCHANGED <<vars, rvars, textOwn, alignVars>>
       \/ /\ scenario = "alignment" /\ AlignNext
          /\ UNCHANGED <<vars, rvars, textVars, mediaVars>>
MCSpec == MCInit /\ [][MCNext]_mcvars
MCMediaSpec == MCInit /\ scenario = "media" /\ [][MCNext]_mcvars

Interchangeable == Permutations(MCRequests) \cup Permutations(MCWorkers)

\* Nothing recorded is rewritten: bytes in the archive stay as they were
\* written, and a late execution of a stage adds no row.
NothingIsRewritten ==
    /\ ArchiveImmutable
    /\ LateExecutionsAddNothing

==============================================================================
