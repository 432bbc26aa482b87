--------------------------- MODULE MediaExtraction ---------------------------
(***************************************************************************)
(* LOW_LEVEL_EXTRACTION of an image, audio, video or subtitle source: the  *)
(* worker's output becomes a plan of segments and evidence, the segments   *)
(* are registered, the evidence is linked to their rows and recorded.  A   *)
(* video also has the audio track transcribed and each embedded subtitle   *)
(* track made a source of its own.                                         *)
(*                                                                         *)
(* The decoders run in a sandbox and are external: what they find is the   *)
(* constant output of the source.  The provider that reads speech or text  *)
(* (ASR, OCR) is "reference" when none is configured, "gated" when the     *)
(* configured one is not installed, "model" when it runs.                  *)
(***************************************************************************)
EXTENDS EvidenceStore, FiniteSets

CONSTANTS
    MediaSources,   \* the sources a run may extract: [id, bytes, kind, output]
    MediaWorkers,
    Uploads,        \* ids of sources other clients may upload meanwhile
    MaxRuns,        \* bound: executions of the stage
    MaxFaults,      \* bound: sandbox or database errors a branch swallows
    MaxMediaCrashes \* bound: workers that die

\* What the decoders find is counted.  What a parser finds in a track depends on
\* its bytes alone, a track is not the video it is in, and the ids derived for
\* tracks are nobody else's.
ASSUME MediaConstants ==
    /\ MaxRuns \in Nat /\ MaxFaults \in Nat
    /\ \A m \in MediaSources :
         LET o == m.output
         IN  /\ m.id \in Nat /\ m.kind \in {"image", "audio", "video", "subtitle"}
             /\ m.kind = "image" => o.panels \in Nat /\ o.regions \in Nat /\ o.ocr \in Nat
             /\ m.kind \in {"audio", "video"} =>
                  /\ o.utterances \in Seq(Range(o.utterances))
                  /\ o.music \in Nat /\ o.sounds \in Nat
             /\ m.kind = "video" =>
                  /\ o.tracks \in Seq(Range(o.tracks))
                  /\ o.scenes \in Nat /\ o.shots \in Nat /\ o.frames \in Nat
             /\ m.kind \in {"video", "subtitle"} =>
                  /\ o.subtitles \in Seq(Range(o.subtitles))
                  /\ \A t \in Range(o.subtitles) : t.events \in Nat
             /\ m.kind = "subtitle" => o.subtitles # <<>>
             /\ m.kind = "video" =>
                  /\ \A i \in DOMAIN o.subtitles :
                       o.subtitles[i].bytes # m.bytes /\ m.id * 10 + i \notin Uploads
                  /\ \A s, t \in Range(o.subtitles) : s.bytes = t.bytes => s.events = t.events

VARIABLES
    media,          \* the source whose stage this is
    providers,      \* what the speech and text providers were able to do, now last
    sourceRows,        \* rows of table source: [id, bytes]; bytes are unique
    mexec,          \* [MediaWorkers -> the execution of the stage]
    runs, faults, mediaCrashes

provider == providers[Len(providers)]
mediaOwn == <<media, providers, sourceRows, mexec, runs, faults, mediaCrashes>>
mediaVars == <<segment, evidence, mediaOwn>>

----------------------------------------------------------------------------
(* Plans: what each modality registers and records for a worker's output *)

Numbered(level, n) == [i \in 1..n |-> P(level, <<i>>)]
Planned(kind, stream, path, digest, content) ==
    [kind |-> kind, locator |-> Loc(stream, path), digest |-> digest, content |-> content]
Each(kind, stream, paths, digest, content) ==
    [i \in DOMAIN paths |-> Planned(kind, stream, paths[i], digest, content)]
Plan(modality, segments, records) ==
    [modality |-> modality, segments |-> segments, records |-> records]

\* _observations of VideoPipeline: about the picture when there is one, about
\* the scenes always, about the sound when there is any.
Observations(o) ==
    (IF "video" \in Range(o.tracks) THEN <<"picture">> ELSE <<>>) \o <<"scenes">>
    \o (IF "audio" \in Range(o.tracks) THEN <<"sound">> ELSE <<>>)

VideoSegments(o) ==
    <<P("file", <<1>>)>> \o Numbered("track", Len(o.tracks))
    \o Numbered("scene", o.scenes) \o Numbered("shot", o.shots) \o Numbered("frame", o.frames)

\* build_video_evidence_plan; _video_branch gives it no config digest.
SceneRecords(o) ==
    Each("scene_boundary", "video", Numbered("scene", o.scenes), "", "scene")
    \o Each("video_interval", "video", Numbered("scene", o.scenes), "", "scene_time")
    \o Each("scene_boundary", "video", Numbered("shot", o.shots), "", "shot")
    \o Each("frame", "video", Numbered("frame", o.frames), "", "frame")
VideoRecords(o) ==
    Each("metadata", "video", Numbered("track", Len(o.tracks)), "", "inventory")
    \o SceneRecords(o)
    \o [i \in DOMAIN Observations(o) |->
           Planned("metadata", "video", P("file", <<1>>), "", Observations(o)[i])]
    \o <<Planned("timing", "none", NoPath, "", "timing"),
         Planned("metadata", "video", P("composition", <<1>>), "", "composition")>>

\* run_asr: an engine that cannot run is replaced by the reference one.
Transcriber(engine) == IF engine = "model" THEN "model" ELSE "reference"

\* filter_hallucinations on one utterance: no speech under it, no energy under
\* the transcript, or words of low confidence.
Decision(u, o) ==
    CASE ~u.backed -> "filtered: no speech"
      [] u.backed /\ ~o.energetic -> "filtered: no energy"
      [] u.backed /\ o.energetic /\ u.low = u.words -> "filtered: low confidence"
      [] u.backed /\ o.energetic /\ u.low \in 1..(u.words - 1) -> "kept without low words"
      [] OTHER -> "kept"

\* build_audio_evidence_plan: every utterance keeps its transcript, whatever
\* the filter decided about it, beside a speaker candidate and the decision.
UtteranceRecords(o, digest, by) ==
    LET utts == Numbered("utterance", Len(o.utterances))
    IN  Each("audio_interval", "audio", utts, digest, by)
        \o Each("speaker_observation", "audio", utts, digest, "candidate")
        \o [i \in DOMAIN utts |-> Planned("metadata", "audio", utts[i], digest,
                                          Decision(o.utterances[i], o))]
SoundRecords(o, digest) ==
    Each("music", "audio", Numbered("music", o.music), digest, "music")
    \o Each("sound_event", "audio", Numbered("sound_event", o.sounds), digest, "sound")
    \o <<Planned("timing", "none", NoPath, digest, "timing"),
         Planned("metadata", "audio", P("language", <<1>>), digest, "language")>>
AudioPlan(o, digest, by) ==
    Plan("audio",
         Numbered("utterance", Len(o.utterances)) \o Numbered("music", o.music)
         \o Numbered("sound_event", o.sounds),
         UtteranceRecords(o, digest, by) \o SoundRecords(o, digest))

\* config_digest_of(audio_config_from_env()): the engine that is configured.
AudioConfigDigest(engine) == IF engine = "reference" THEN "reference" ELSE "model"
\* _video_audio_config_digest: the engine that ran.
VideoAudioDigest(by) == IF by = "model" THEN "video audio model" ELSE "video audio reference"

\* build_subtitle_evidence_plan for one track.
SubtitlePlan(events) ==
    LET paths == Numbered("subtitle_event", events)
    IN  Plan("subtitle", <<P("track", <<1>>)>> \o paths,
             <<Planned("metadata", "subtitle", P("track", <<1>>), "", "track")>>
             \o Each("subtitle_event", "subtitle", paths, "", "event"))

\* process_raster; the digest is of the configuration that ran, and the OCR
\* regions are not segments.
PanelRecords(o, by) ==
    FlattenSeq([i \in 1..o.panels |->
        <<Planned("panel", "image", P("panel", <<i>>), by, "panel"),
          Planned("object_observation", "image", P("panel", <<i>>), by, "object")>>])
RegionRecords(o, by) ==
    Each("page_region", "image", Numbered("region", o.regions), by, "region")
    \o Each("ocr_region", "image", Numbered("ocr", o.ocr), by, by)
    \o (IF o.ocr > 0 THEN <<Planned("text_span", "image", P("page", <<1>>), by, by)>> ELSE <<>>)
RasterPlan(o, by) ==
    Plan("image", <<P("page", <<1>>)>> \o Numbered("panel", o.panels) \o Numbered("region", o.regions),
         <<Planned("metadata", "image", P("page", <<1>>), by, "page")>>
         \o PanelRecords(o, by) \o RegionRecords(o, by))

\* What the execution is registering and recording now.
PlanOf(x) ==
    CASE x.phase = "asr" -> AudioPlan(media.output, VideoAudioDigest(x.by), x.by)
      [] x.phase = "track" -> SubtitlePlan(media.output.subtitles[x.track].events)
      [] x.phase = "main" /\ media.kind = "image" -> RasterPlan(media.output, x.by)
      [] x.phase = "main" /\ media.kind = "audio" -> AudioPlan(media.output, x.digest, x.by)
      [] x.phase = "main" /\ media.kind = "video" ->
           Plan("video", VideoSegments(media.output), VideoRecords(media.output))
      [] x.phase = "main" /\ media.kind = "subtitle" ->
           SubtitlePlan(media.output.subtitles[1].events)

\* _link_evidence, and the resolver of the raster branch: a record whose
\* locator names a registered segment carries the id of its row.
Linked(source, stream, records) ==
    [i \in DOMAIN records |->
        Record(source, records[i].kind, records[i].locator, records[i].digest,
               IF records[i].locator.stream = stream
               THEN RowAt(source, records[i].locator.path) ELSE NoPath,
               records[i].content)]

----------------------------------------------------------------------------
(* Executions *)

Resting == [at |-> "idle", phase |-> "main", put |-> 0, track |-> 0, source |-> 0,
            by |-> "none", digest |-> "none", clean |-> TRUE]

MediaInit ==
    /\ media \in MediaSources
    /\ segment = {} /\ evidence = {}
    /\ providers \in {<<"reference">>, <<"gated">>}
    /\ sourceRows = {[id |-> media.id, bytes |-> media.bytes]}
    /\ mexec = [w \in MediaWorkers |-> Resting]
    /\ runs = 0 /\ faults = 0 /\ mediaCrashes = 0

\* A first execution, a retry, a rerun, or a second execution after a lease
\* ran out.
StartExtraction(w) ==
    /\ mexec[w].at = "idle" /\ runs < MaxRuns
    /\ runs' = runs + 1
    /\ mexec' = [mexec EXCEPT ![w] = [Resting EXCEPT !.at = "decode", !.source = media.id]]
    /\ UNCHANGED <<segment, evidence, media, providers, sourceRows, faults, mediaCrashes>>

\* The sandboxed worker answers: invoke_*_baseline, process_raster with the
\* fallback of _raster_branch, invoke_subtitle_parse.
Decode(w) ==
    /\ mexec[w].at = "decode"
    /\ mexec' = [mexec EXCEPT ![w] = [@ EXCEPT !.at = "register", !.put = 1,
                                              !.by = Transcriber(provider),
                                              !.digest = AudioConfigDigest(provider)]]
    /\ UNCHANGED <<segment, evidence, media, providers, sourceRows, runs, faults, mediaCrashes>>

\* After the plan of a phase is recorded or given up: the audio track of a
\* video, then its subtitle tracks one by one.
AfterPlan(x, clean) ==
    CASE x.phase = "main" /\ media.kind = "video" -> [x EXCEPT !.at = "asr", !.clean = clean]
      [] x.phase = "main" /\ media.kind # "video" -> [x EXCEPT !.at = "finish", !.clean = clean]
      [] x.phase \in {"asr", "track"} ->
           [x EXCEPT !.at = "track", !.phase = "track", !.track = @ + 1, !.clean = clean]

\* _video_audio_asr_branch: nothing without an audio track, and nothing but a
\* warning when the engine is gated.
TranscribeVideo(w) ==
    /\ mexec[w].at = "asr"
    /\ LET x == mexec[w]
       IN  mexec' = [mexec EXCEPT ![w] =
              IF "audio" \notin Range(media.output.tracks) \/ provider = "gated"
              THEN [AfterPlan([x EXCEPT !.phase = "asr"], x.clean) EXCEPT !.by = "none"]
              ELSE [x EXCEPT !.at = "register", !.put = 1, !.phase = "asr",
                             !.by = Transcriber(provider)]]
    /\ UNCHANGED <<segment, evidence, media, providers, sourceRows, runs, faults, mediaCrashes>>

Holding(bytes) == {s \in sourceRows : s.bytes = bytes}
Subtitle(w) == media.output.subtitles[mexec[w].track]

\* Mutant: a track whose bytes are a source already counts as done.
OnlyNewTracks(w) ==
    /\ mexec[w].at = "track"
    /\ LET x == mexec[w]
       IN  mexec' = [mexec EXCEPT ![w] =
              IF x.track > Len(media.output.subtitles) THEN [x EXCEPT !.at = "finish"]
              ELSE IF ~Subtitle(w).text \/ Holding(Subtitle(w).bytes) # {}
              THEN [x EXCEPT !.track = @ + 1]
              ELSE [x EXCEPT !.at = "ensure"]]
    /\ UNCHANGED <<segment, evidence, media, providers, sourceRows, runs, faults, mediaCrashes>>

\* _subtitle_tracks_branch up to find_source_by_sha512: a track that is no text
\* is passed over, one whose bytes are already a source becomes that source.
FindTrack(w) ==
    /\ mexec[w].at = "track"
    /\ LET x == mexec[w]
       IN  mexec' = [mexec EXCEPT ![w] =
              IF x.track > Len(media.output.subtitles) THEN [x EXCEPT !.at = "finish"]
              ELSE IF ~Subtitle(w).text THEN [x EXCEPT !.track = @ + 1]
              ELSE IF Holding(Subtitle(w).bytes) = {} THEN [x EXCEPT !.at = "ensure"]
              ELSE [x EXCEPT !.at = "register", !.put = 1,
                             !.source = (CHOOSE s \in Holding(Subtitle(w).bytes) : TRUE).id]]
    /\ UNCHANGED <<segment, evidence, media, providers, sourceRows, runs, faults, mediaCrashes>>

\* ensure_source: a plain INSERT under the id derived from the video and the
\* track.  When the bytes became a source since they were looked up, the
\* unique constraint fails the whole stage.
EnsureTrack(w) ==
    /\ mexec[w].at = "ensure"
    /\ LET id == media.id * 10 + mexec[w].track
       IN  IF Holding(Subtitle(w).bytes) # {}
           THEN mexec' = [mexec EXCEPT ![w] = Resting] /\ UNCHANGED sourceRows
           ELSE /\ sourceRows' = sourceRows \cup {[id |-> id, bytes |-> Subtitle(w).bytes]}
                /\ mexec' = [mexec EXCEPT ![w] = [@ EXCEPT !.at = "register", !.put = 1,
                                                          !.source = id]]
    /\ UNCHANGED <<segment, evidence, media, providers, runs, faults, mediaCrashes>>

\* One put of SegmentRegistry.register.
PutMediaSegment(w) ==
    /\ mexec[w].at = "register"
    /\ LET x == mexec[w]
           plan == PlanOf(x)
       IN  /\ x.put <= Len(plan.segments)
           /\ segment' = segment \cup {Segment(x.source, plan.modality, plan.segments[x.put])}
           /\ mexec' = [mexec EXCEPT ![w] = [@ EXCEPT !.put = x.put + 1]]
    /\ UNCHANGED <<evidence, media, providers, sourceRows, runs, faults, mediaCrashes>>

\* _link_evidence and record, when every segment of the plan has its row.
RecordPlan(w) ==
    /\ mexec[w].at = "register"
    /\ LET x == mexec[w]
           plan == PlanOf(x)
       IN  /\ x.put > Len(plan.segments)
           /\ evidence' = Recorded(evidence, Linked(x.source, plan.modality, plan.records))
           /\ mexec' = [mexec EXCEPT ![w] = AfterPlan(x, x.clean)]
    /\ UNCHANGED <<segment, media, providers, sourceRows, runs, faults, mediaCrashes>>

\* The except clauses around a decoder and around register and record: the
\* branch gives up what it was doing with a warning, and the stage goes on.
Swallow(w) ==
    /\ \/ mexec[w].at \in {"decode", "asr", "register"}
       \/ mexec[w].at = "track" /\ mexec[w].track = 1
    /\ faults < MaxFaults /\ faults' = faults + 1
    /\ LET x == mexec[w]
       IN  mexec' = [mexec EXCEPT ![w] =
              IF x.at \in {"decode", "track"} \/ (x.at # "asr" /\ x.phase = "main")
              THEN [x EXCEPT !.at = "finish", !.clean = FALSE]
              ELSE AfterPlan(IF x.at = "asr" THEN [x EXCEPT !.phase = "asr"] ELSE x, FALSE)]
    /\ UNCHANGED <<segment, evidence, media, providers, sourceRows, runs, mediaCrashes>>

FinishExtraction(w) ==
    /\ mexec[w].at = "finish"
    /\ mexec' = [mexec EXCEPT ![w] = Resting]
    /\ UNCHANGED <<segment, evidence, media, providers, sourceRows, runs, faults, mediaCrashes>>

MediaCrash(w) ==
    /\ mexec[w].at # "idle" /\ mediaCrashes < MaxMediaCrashes
    /\ mediaCrashes' = mediaCrashes + 1
    /\ mexec' = [mexec EXCEPT ![w] = Resting]
    /\ UNCHANGED <<segment, evidence, media, providers, sourceRows, runs, faults>>

\* Another client uploads a subtitle file equal to an embedded track.
UploadSubtitle ==
    /\ media.kind = "video"
    /\ \E u \in Uploads, i \in DOMAIN media.output.subtitles :
         /\ \A s \in sourceRows : s.id # u
         /\ Holding(media.output.subtitles[i].bytes) = {}
         /\ sourceRows' = sourceRows \cup {[id |-> u, bytes |-> media.output.subtitles[i].bytes]}
    /\ UNCHANGED <<segment, evidence, media, providers, mexec, runs, faults, mediaCrashes>>

\* An operator configures an engine, or installs its weights.
ChangeProvider ==
    /\ \E p \in CASE provider = "reference" -> {"gated", "model"}
                  [] provider = "gated" -> {"model"}
                  [] OTHER -> {} :
         providers' = Append(providers, p)
    /\ UNCHANGED <<segment, evidence, media, sourceRows, mexec, runs, faults, mediaCrashes>>

MediaNext ==
    \/ \E w \in MediaWorkers :
         \/ StartExtraction(w) \/ Decode(w) \/ TranscribeVideo(w) \/ FindTrack(w)
         \/ EnsureTrack(w) \/ PutMediaSegment(w) \/ RecordPlan(w) \/ Swallow(w)
         \/ FinishExtraction(w) \/ MediaCrash(w)
    \/ UploadSubtitle \/ ChangeProvider
MediaSpec == MediaInit /\ [][MediaNext]_mediaVars

----------------------------------------------------------------------------
(* Properties *)

MediaTypeOK ==
    /\ media \in MediaSources /\ Range(providers) \subseteq {"reference", "gated", "model"}
    /\ \A s \in segment : \E x \in sourceRows : x.id = s.source
    /\ \A r \in evidence :
         /\ \E x \in sourceRows : x.id = r.source
         /\ r.segment # NoPath => \E s \in segment : s.source = r.source /\ s.path = r.segment
    /\ \A w \in MediaWorkers :
         /\ mexec[w].at \in {"idle", "decode", "asr", "track", "ensure", "register", "finish"}
         /\ mexec[w].phase \in {"main", "asr", "track"}
    /\ runs \in 0..MaxRuns /\ faults \in 0..MaxFaults

\* An execution that ends without a swallowed error.
EndedClean(w) == mexec[w].at = "finish" /\ mexec[w].clean

Holds(source, digest, p) ==
    \E r \in evidence : /\ r.source = source /\ r.kind = p.kind /\ r.content = p.content
                        /\ r.locator = p.locator /\ r.digest = digest

\* What the evidence module of the video promises to emit: every planned row,
\* the candidate observations included, is in the table when the stage ends.
PlannedEvidenceKept ==
    \A w \in MediaWorkers : EndedClean(w) /\ media.kind = "video" =>
      \A p \in Range(VideoRecords(media.output)) : Holds(media.id, p.digest, p)

\* Everything else a stage planned is in the table when it ends: the rows of
\* an image, and of a video all but its observations, though the row of a
\* scene's bounds and the row of its times share a locator.
PicturesAreKept ==
    \A w \in MediaWorkers : EndedClean(w) =>
      /\ media.kind = "video" =>
           \A p \in Range(VideoRecords(media.output)) :
             p.locator.path # P("file", <<1>>) => Holds(media.id, p.digest, p)
      /\ media.kind = "image" =>
           \A p \in Range(RasterPlan(media.output, mexec[w].by).records) :
             Holds(media.id, p.digest, p)

\* Every embedded text track of a video is a source with all its events when
\* the stage ends, however often workers died on the way, and whoever made
\* the bytes a source first.
TracksComplete ==
    \A w \in MediaWorkers : EndedClean(w) /\ media.kind = "video" =>
      \A i \in DOMAIN media.output.subtitles :
        LET t == media.output.subtitles[i]
        IN  t.text => \E s \in Holding(t.bytes) :
              \A p \in Range(SubtitlePlan(t.events).records) : Holds(s.id, p.digest, p)

\* The bytes of a track are one source, and its evidence never lands on
\* another (_subtitle_tracks_branch beside a client's upload).
OneSourcePerTrack ==
    /\ \A s, t \in sourceRows : s.bytes = t.bytes => s = t
    /\ \A r \in evidence : r.kind = "subtitle_event" /\ media.kind = "video" => r.source # media.id

\* A transcript of a video is by an engine that was the configured one and
\* ran: a gated engine leaves no transcript, not even that of the reference
\* engine it fell back to (_video_audio_asr_branch).
TranscriptsAreHonest ==
    \A r \in evidence : media.kind = "video" /\ r.kind = "audio_interval" =>
      r.content \in Range(providers)

\* A rerun of a video after its engine changed records the transcript of the
\* new engine beside that of the old one.
RerunRecordsItsEngine ==
    \A w \in MediaWorkers : EndedClean(w) /\ media.kind = "video" /\ mexec[w].by # "none" =>
      \A i \in DOMAIN media.output.utterances :
        \E r \in evidence : /\ r.kind = "audio_interval" /\ r.content = mexec[w].by
                            /\ r.locator.path = P("utterance", <<i>>)

\* Evidence about a registered segment is linked to its row, for good: rows are
\* never updated, so a row recorded before its segment would stay unlinked.
EvidenceIsLinked ==
    \A r \in evidence : \A s \in segment :
      s.source = r.source /\ s.path = r.locator.path /\ s.modality = r.locator.stream
        => r.segment = s.path

\* The evidence of a media source is whole when its stage commits without a
\* swallowed error: pictures and tracks, each once, linked, and the transcripts
\* of a video by the engine they name.  (Of the transcripts of a standalone audio
\* source nothing is said.)
MediaIsWhole ==
    /\ MediaTypeOK
    /\ PicturesAreKept
    /\ TracksComplete
    /\ OneSourcePerTrack
    /\ TranscriptsAreHonest
    /\ RerunRecordsItsEngine
    /\ EvidenceIsLinked
=============================================================================
