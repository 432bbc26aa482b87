----------------------------- MODULE TextStages -----------------------------
(***************************************************************************)
(* The four stages of ProductionStageRegistry that decompose a text        *)
(* source: FORMAT_ANALYSIS, BASIC_SEGMENTATION, LOW_LEVEL_EXTRACTION and   *)
(* STRUCTURAL_ANALYSIS, with the dispatch that parses its bytes and the    *)
(* segmenter of each format.                                               *)
(*                                                                         *)
(* A worker that lost its lease goes on beside the one that claimed the    *)
(* stage after it, a worker may die between any two transactions and the   *)
(* stage is then claimed again; claiming and committing a stage is the     *)
(* subject of StageExecution and is one action here.                       *)
(*                                                                         *)
(* A document is its blocks in reading order.  A heading of level 1 is a   *)
(* "Chapter N" line, an H1 or the start of an EPUB spine item; text is a   *)
(* number, 0 for the text of the whole document.                           *)
(***************************************************************************)
EXTENDS EvidenceStore, TLC

CONSTANTS
    Documents,     \* the sources a run may decompose
    TextWorkers,
    MaxOutages,    \* bound: reads of the source bytes that fail
    MaxTextCrashes \* bound: workers that die

VARIABLES
    doc,           \* the source being decomposed
    exec,          \* [TextWorkers -> the execution of a stage]
    dispatched,    \* workers whose _dispatch_cache holds the parsed source
    committed,     \* [stage -> "no", or what its committed execution did]
    outages,
    textCrashes

textOwn == <<doc, exec, dispatched, committed, outages, textCrashes>>
textVars == <<segment, evidence, textOwn>>

Stages == <<"FORMAT_ANALYSIS", "BASIC_SEGMENTATION", "LOW_LEVEL_EXTRACTION",
            "STRUCTURAL_ANALYSIS">>

\* _is_text_media
IsTextMedia(d) == d.media \notin {"image", "raster", "video", "audio", "subtitle"}

----------------------------------------------------------------------------
(* Parsers and segmenters *)

Heading1(b) == b.kind = "heading" /\ b.level = 1
Prose(blocks) == SelectSeq(blocks, LAMBDA b : b.kind = "prose")
TextsOf(blocks) == [i \in DOMAIN Prose(blocks) |-> Prose(blocks)[i].text]

\* _chapter_boundaries and _paragraphs: a header line opens a chapter only when
\* the chapter before it has text; otherwise it is a paragraph like any other.
Chapters(blocks) ==
    LET cut == FoldLeft(LAMBDA cs, b :
                            IF Heading1(b) /\ cs[Len(cs)] # <<>>
                            THEN Append(cs, <<>>)
                            ELSE [cs EXCEPT ![Len(cs)] = Append(@, b.text)],
                        << <<>> >>, blocks)
    IN  IF Len(cut) > 1 /\ cut[Len(cut)] = <<>> THEN Front(cut) ELSE cut

\* segment_txt; one "sentence" stands for the sentences and tokens below a
\* paragraph.
TxtPaths(blocks) ==
    FlattenSeq([c \in DOMAIN Chapters(blocks) |->
        <<P("chapter", <<c>>), P("section", <<c, 1>>)>> \o
        FlattenSeq([p \in DOMAIN Chapters(blocks)[c] |->
            <<P("paragraph", <<c, 1, p>>), P("sentence", <<c, 1, p, 1>>)>>])])

\* segment_markdown: paragraphs are numbered through the document, and what
\* precedes the first H1 is filed under chapter 1.
MarkdownPaths(blocks) ==
    LET Chap(a) == IF a.chapter = 0 THEN 1 ELSE a.chapter
        Walk(a, b) ==
            CASE Heading1(b) ->
                   [a EXCEPT !.chapter = @ + 1, !.section = 0,
                             !.paths = Append(@, P("chapter", <<a.chapter + 1>>))]
              [] b.kind = "heading" /\ b.level = 2 ->
                   [a EXCEPT !.section = @ + 1,
                             !.paths = Append(@, P("section", <<Chap(a), a.section + 1>>))]
              [] b.kind = "prose" ->
                   [a EXCEPT !.para = @ + 1,
                             !.paths = Append(@, P("paragraph", <<Chap(a), a.para + 1>>))]
              [] OTHER -> a
    IN  FoldLeft(Walk, [chapter |-> 0, section |-> 0, para |-> 0, paths |-> <<>>], blocks).paths

\* segment_epub over extract_epub: a spine item is a chapter, and its
\* paragraphs are numbered from 1.
EpubPaths(blocks) ==
    LET Walk(a, b) ==
            IF Heading1(b)
            THEN [item |-> a.item + 1, para |-> 0,
                  paths |-> Append(a.paths, P("chapter", <<a.item + 1>>))]
            ELSE IF b.kind = "prose"
            THEN [a EXCEPT !.para = @ + 1,
                           !.paths = Append(@, P("paragraph", <<a.item, a.para + 1>>))]
            ELSE a
    IN  FoldLeft(Walk, [item |-> 0, para |-> 0, paths |-> <<>>], blocks).paths

\* The branch of dispatch_text: an unknown format is read as plain text.
Parser(d) == IF d.format \in {"markdown", "epub", "pdf"} THEN d.format ELSE "txt"

\* dispatch_text: EPUB and PDF parsers may reject the bytes, and a PDF without
\* a text layer is left to the raster route.
Route(d) ==
    IF Parser(d) \in {"epub", "pdf"} /\ ~d.sound THEN "degraded"
    ELSE IF Parser(d) = "pdf" /\ Prose(d.blocks) = <<>> THEN "image_raster"
    ELSE "text"

\* TextDispatchResult.segment: the segments registered, in the order of the
\* batch, and the texts of the paragraphs in reading order.
PathsOf(d) ==
    <<P("document", <<1>>)>> \o
    CASE Parser(d) = "markdown" -> MarkdownPaths(d.blocks)
      [] Parser(d) = "epub" -> EpubPaths(d.blocks)
      [] OTHER -> TxtPaths(d.blocks)
ParagraphTexts(d) ==
    IF Parser(d) \in {"markdown", "epub"} THEN TextsOf(d.blocks)
    ELSE FlattenSeq(Chapters(d.blocks))

\* Mutant: the digest names the execution.
DigestPerRun(d, w) == <<Parser(d), w>>

\* _dispatch_evidence_config_digest: parser and decoder versions.
DispatchDigest(d, w) == Parser(d)

----------------------------------------------------------------------------
(* Evidence *)

\* _structural_path_key, on the paths of the paragraphs of one document.
PathBefore(p, q) ==
    \E i \in DOMAIN p.at : p.at[i] < q.at[i] /\ \A j \in 1..(i - 1) : p.at[j] = q.at[j]

IsParagraph(p) == p.level = "paragraph"

\* Mutant: texts are paired with the rows created, then with the ones found.
PositionalPairing(created, existing) == SelectSeq(created \o existing, IsParagraph)

\* The order in which registered paragraphs meet the texts of the document.
ParagraphOrder(created, existing) ==
    SortSeq(SelectSeq(created \o existing, IsParagraph), PathBefore)

\* _emit_low_level_text_evidence: the whole text on the document and the text
\* of each paragraph on its segment; a segment without a row is skipped.
SpanRecords(created, existing, w) ==
    LET order == ParagraphOrder(created, existing)
        Span(path, text) == Record(doc.id, "text_span", Loc("text", path),
                                   DispatchDigest(doc, w), RowAt(doc.id, path), text)
        n == IF Len(order) < Len(ParagraphTexts(doc)) THEN Len(order)
             ELSE Len(ParagraphTexts(doc))
    IN  SelectSeq(<<Span(P("document", <<1>>), 0)>> \o
                  [i \in 1..n |-> Span(order[i], ParagraphTexts(doc)[i])],
                  LAMBDA r : r.segment # NoPath)

\* _structural_analysis over _paragraph_segments: the findings about each
\* paragraph, under its bare path; when paragraphs and texts do not match, the
\* document is analysed as one chapter.
FindingRecords(created, existing, w) ==
    LET order == ParagraphOrder(created, existing)
        Finding(path, text) == Record(doc.id, "finding", Loc("structure", path),
                                      DispatchDigest(doc, w), NoPath, text)
        texts == ParagraphTexts(doc)
    IN  IF Len(order) = Len(texts)
        THEN [i \in DOMAIN texts |-> Finding(order[i], texts[i])]
        ELSE [i \in DOMAIN texts |-> Finding(P("paragraph", <<1, i>>), texts[i])]

\* _record_format_evidence and _record_media_format_evidence.
FormatRecord(w) ==
    Record(doc.id, "metadata", Loc("format_analysis", NoPath), DispatchDigest(doc, w), NoPath, 0)
MediaFormatRecord ==
    Record(doc.id, "metadata", Loc("format_analysis", NoPath), "media-format", NoPath, 0)

----------------------------------------------------------------------------
(* Executions *)

Idle == [stage |-> "none", at |-> "idle", todo |-> <<>>, created |-> <<>>,
         existing |-> <<>>, did |-> "no"]

TextInit ==
    /\ doc \in Documents
    /\ segment = {} /\ evidence = {}
    /\ exec = [w \in TextWorkers |-> Idle]
    /\ dispatched = {}
    /\ committed = [s \in Range(Stages) |-> "no"]
    /\ outages = 0 /\ textCrashes = 0

\* A lease on the next stage, or a second execution of it after the first
\* worker's lease ran out.
Claim(w, i) ==
    /\ exec[w].at = "idle"
    /\ committed[Stages[i]] = "no"
    /\ \A j \in 1..(i - 1) : committed[Stages[j]] # "no"
    /\ exec' = [exec EXCEPT ![w] = [Idle EXCEPT !.stage = Stages[i], !.at = "read"]]
    /\ UNCHANGED <<segment, evidence, doc, dispatched, committed, outages, textCrashes>>

\* _dispatch_text: a parsed source is kept for the life of the worker, a read
\* that fails is not, and the next stage tries again.
DispatchText(w, route) ==
    \/ w \in dispatched /\ route = Route(doc) /\ UNCHANGED <<dispatched, outages>>
    \/ /\ w \notin dispatched /\ route = Route(doc)
       /\ dispatched' = dispatched \cup {w} /\ UNCHANGED outages
    \/ /\ w \notin dispatched /\ outages < MaxOutages /\ route = "unread"
       /\ outages' = outages + 1 /\ UNCHANGED dispatched

Finish(w, did) == [exec[w] EXCEPT !.at = "finish", !.did = did, !.todo = <<>>]
Register(w) == [exec[w] EXCEPT !.at = "register", !.did = "text", !.todo = PathsOf(doc)]

At(w, stage, at) == exec[w].stage = stage /\ exec[w].at = at

\* _format_analysis; the row of a media source needs its bytes, not a parser.
FormatAnalysis(w) ==
    /\ At(w, "FORMAT_ANALYSIS", "read")
    /\ \E route \in {"text", "image_raster", "degraded", "unread", "media"} :
         /\ IF IsTextMedia(doc) THEN DispatchText(w, route)
            ELSE /\ UNCHANGED dispatched
                 /\ \/ route = "media" /\ UNCHANGED outages
                    \/ route = "unread" /\ outages < MaxOutages /\ outages' = outages + 1
         /\ evidence' = IF route \in {"degraded", "unread"} THEN evidence
                        ELSE Recorded(evidence, <<IF route = "text" THEN FormatRecord(w) ELSE MediaFormatRecord>>)
         /\ exec' = [exec EXCEPT ![w] = Finish(w, route)]
    /\ UNCHANGED <<segment, doc, committed, textCrashes>>

\* _basic_segmentation: nothing to do when the source has any segment at all.
BasicSegmentation(w) ==
    /\ At(w, "BASIC_SEGMENTATION", "read")
    /\ IF ~IsTextMedia(doc) \/ \E s \in segment : s.source = doc.id
       THEN exec' = [exec EXCEPT ![w] = Finish(w, "skipped")] /\ UNCHANGED <<dispatched, outages>>
       ELSE \E route \in {"text", "image_raster", "degraded", "unread"} :
              /\ DispatchText(w, route)
              /\ exec' = [exec EXCEPT ![w] = IF route = "text" THEN Register(w) ELSE Finish(w, route)]
    /\ UNCHANGED <<segment, evidence, doc, committed, textCrashes>>

\* _low_level_extraction and _structural_analysis begin alike: dispatch, and
\* register the segments again whatever is there.
ReadAndRegister(w, stage) ==
    /\ At(w, stage, "read")
    /\ IF ~IsTextMedia(doc)
       THEN exec' = [exec EXCEPT ![w] = Finish(w, "media")] /\ UNCHANGED <<dispatched, outages>>
       ELSE \E route \in {"text", "image_raster", "degraded", "unread"} :
              /\ DispatchText(w, route)
              /\ exec' = [exec EXCEPT ![w] = IF route = "text" THEN Register(w) ELSE Finish(w, route)]
    /\ UNCHANGED <<segment, evidence, doc, committed, textCrashes>>

LowLevelExtraction(w) == ReadAndRegister(w, "LOW_LEVEL_EXTRACTION")
StructuralAnalysis(w) == ReadAndRegister(w, "STRUCTURAL_ANALYSIS")

\* One put of SegmentRegistry.register; after the last the batch is returned.
PutSegment(w) ==
    /\ exec[w].at = "register"
    /\ LET row == Segment(doc.id, "text", Head(exec[w].todo))
           next == IF Len(exec[w].todo) > 1 THEN "register"
                   ELSE IF exec[w].stage = "BASIC_SEGMENTATION" THEN "finish"
                   ELSE "record"
           moved == [exec[w] EXCEPT !.todo = Tail(@), !.at = next]
       IN  /\ exec' = [exec EXCEPT ![w] =
                 IF row \in segment THEN [moved EXCEPT !.existing = Append(@, row.path)]
                 ELSE [moved EXCEPT !.created = Append(@, row.path)]]
           /\ segment' = segment \cup {row}
    /\ UNCHANGED <<evidence, doc, dispatched, committed, outages, textCrashes>>

RecordSpans(w) ==
    /\ At(w, "LOW_LEVEL_EXTRACTION", "record")
    /\ evidence' = Recorded(evidence, SpanRecords(exec[w].created, exec[w].existing, w))
    /\ exec' = [exec EXCEPT ![w] = Finish(w, "text")]
    /\ UNCHANGED <<segment, doc, dispatched, committed, outages, textCrashes>>

RecordFindings(w) ==
    /\ At(w, "STRUCTURAL_ANALYSIS", "record")
    /\ evidence' = Recorded(evidence, FindingRecords(exec[w].created, exec[w].existing, w))
    /\ exec' = [exec EXCEPT ![w] = Finish(w, "text")]
    /\ UNCHANGED <<segment, doc, dispatched, committed, outages, textCrashes>>

\* The first execution to finish commits the stage; a late one is fenced.
Commit(w) ==
    /\ exec[w].at = "finish"
    /\ committed' = IF committed[exec[w].stage] # "no" THEN committed
                    ELSE [committed EXCEPT ![exec[w].stage] = exec[w].did]
    /\ exec' = [exec EXCEPT ![w] = Idle]
    /\ UNCHANGED <<segment, evidence, doc, dispatched, outages, textCrashes>>

TextCrash(w) ==
    /\ textCrashes < MaxTextCrashes /\ exec[w].at # "idle"
    /\ textCrashes' = textCrashes + 1
    /\ exec' = [exec EXCEPT ![w] = Idle]
    /\ dispatched' = dispatched \ {w}
    /\ UNCHANGED <<segment, evidence, doc, committed, outages>>

TextNext ==
    \E w \in TextWorkers :
      \/ \E i \in DOMAIN Stages : Claim(w, i)
      \/ FormatAnalysis(w) \/ BasicSegmentation(w)
      \/ LowLevelExtraction(w) \/ StructuralAnalysis(w)
      \/ PutSegment(w) \/ RecordSpans(w) \/ RecordFindings(w)
      \/ Commit(w) \/ TextCrash(w)
TextSpec == TextInit /\ [][TextNext]_textVars

----------------------------------------------------------------------------
(* Properties *)

Spans == {r \in evidence : r.locator.stream = "text"}
TextSegments == {s \in segment : s.modality = "text"}

TextTypeOK ==
    /\ doc \in Documents /\ dispatched \subseteq TextWorkers
    /\ \A s \in TextSegments : s.source = doc.id
    /\ \A w \in TextWorkers :
         /\ exec[w].at \in {"idle", "read", "register", "record", "finish"}
         /\ exec[w].at # "idle" => exec[w].stage \in Range(Stages)
    /\ \A i, j \in DOMAIN Stages :
         i < j /\ committed[Stages[j]] # "no" => committed[Stages[i]] # "no"
    /\ outages \in 0..MaxOutages /\ textCrashes \in 0..MaxTextCrashes

\* The n-th paragraph of the document, by the path its segmenter gave it: no
\* matter how many executions registered which part of the batch, the evidence
\* of a segment carries the text of that segment and no other
\* (_emit_low_level_text_evidence, _paragraph_segments).
SpanPinsItsParagraph ==
    LET home == SelectSeq(PathsOf(doc), IsParagraph)
    IN  \A r \in evidence : IsParagraph(r.locator.path) =>
          \E i \in DOMAIN home : /\ home[i] = r.locator.path
                                 /\ ParagraphTexts(doc)[i] = r.content

\* A committed LOW_LEVEL_EXTRACTION that could read the source left every
\* segment and the text of every paragraph, though BASIC_SEGMENTATION accepts
\* the part of the batch a dead worker left behind.
ExtractionIsWhole ==
    committed["LOW_LEVEL_EXTRACTION"] = "text" =>
      /\ \A p \in Range(PathsOf(doc)) : Segment(doc.id, "text", p) \in segment
      /\ \A p \in Range(PathsOf(doc)) : IsParagraph(p) =>
           \E r \in Spans : r.segment = p

\* Bytes that are not text are never quoted: a document the parser rejects, a
\* PDF of images and a media source own no text segment and no text evidence.
NoFabricatedText ==
    \/ ~IsTextMedia(doc)
    \/ Parser(doc) \in {"epub", "pdf"} /\ ~doc.sound
    \/ Parser(doc) = "pdf" /\ Prose(doc.blocks) = <<>>
    =>
      TextSegments = {} /\ \A r \in evidence : r.locator.stream \notin {"text", "structure"}

\* The decomposition of a text is whole when its stages commit, each span pins
\* the paragraph it was read from, and bytes that are no text yield none.
TextIsWhole ==
    /\ TextTypeOK
    /\ SpanPinsItsParagraph
    /\ ExtractionIsWhole
    /\ NoFabricatedText

\* After the stage committed, the executions that lost it add no row: the same
\* source, parser and version give the same identities.
LateExecutionsAddNothing ==
    [][committed["LOW_LEVEL_EXTRACTION"] = "text" =>
         TextSegments' = TextSegments /\ Spans' = Spans]_textVars
=============================================================================
