# Verification of the Universe Media Database

TLA+ models of the Universe Media Database (`src/src/umd`), TLC runs over small instances of
them, and proofs checked by TLAPS. Paths below are relative to `src/src/umd` unless they start
with `src/`.

The database ingests media sources, lets extractors and models derive semantic assertions from
them, and keeps the result as an append-only ledger of events. Everything a reader sees is a
projection of that ledger: Tier-0 (`current_state`) is folded inside the append's own transaction,
Tier-1 (edges, search, vectors) is rebuilt by replay. Jobs drive a fixed DAG of stages over a
source; a scheduler (Hatchet) delivers stage callbacks to workers.

## 1. Inventory

| Component | State | Operations | Hard behaviour | What makes it correct |
|---|---|---|---|---|
| Semantic ledger (`storage/postgres/ledger.py`) | `semantic_event`, its sequence, `semantic_assertion` | `append`, `complete_and_append` | READ COMMITTED interleavings, idempotency lookups before inserts, seqs visible out of order, aborts | one commit per key, all or nothing, tokens that name the commit |
| Tier-0 reducer (`storage/postgres/reducer.py`) | `current_state` rows | `reduce`, `replay` | precedence of users over machines, locks, last-writer-wins | inline fold equals wipe-and-replay; a user's winner stands |
| Projection driver (`projections/base.py`, `checkpoint.py`, `poison.py`) | checkpoints, projection tables, the driver's `applied_seq` | `run` (incremental, wiping, forced) | advisory locks, pauses at authority events, retries | checkpoints cover what they claim, never regress, pause until forced |
| Production projection pass (`jobs/production.py:2345-2414`) | as above | edges, then search | appends between the two, lagging edges | search never publishes over older edges; the pass ends |
| Consistency guard (`api/consistency.py`) | two semaphores | `ensure_read` | rebuilds between polls, deadlines, waiters at the bound | an admitted read sees its write; every read ends |
| Stage executor (`jobs/stage_execution.py`, `storage/postgres/stage_repository.py`) | `stage_run` | `run` | redelivery, concurrent duplicates, death between transactions, cross-job replay | effective-once completion, evidence with each completion |
| Jobs (`application/jobs.py`, `storage/postgres/job_repository.py`) | `job` | submit, cancel, retry, rerun, status | commands against running callbacks, read-derive-write | honest statuses |
| Runner and worker callback (`jobs/runner.py`, `jobs/hatchet.py`) | the scheduler's workflow runs | `submit_workflow_runs`, `handler` | lost workers, cancelled stages that are acknowledged | no stage before its upstream's completion |
| DAG, manifest, planner (`jobs/dag.py`, `manifest.py`, `invalidation.py`) | none | keys, closures | - | equal evidence gives equal keys |
| OCFL store (`storage/ocfl/store.py`) | objects on disk, the storage root | `create`, `put_immutable`, `get_range` | two puts of a digest, a copy that dies, processes starting together | write-once, verified before use; one root |
| Ingestion (`api/routers/sources.py`, `application/ingestion.py`) | source, work, membership, artifact rows | uploads, command ingestion, artifacts | a chain of transactions that another upload or a death cuts | no row without its bytes; equal bytes are one source, with one event per spelling of its id |
| Backup and restore (`recovery/`) | dumps and copies | backup, restore, verification | appends and uploads during a backup, backups that die | a verified restore is one moment |
| Segment and evidence rows (`storage/postgres/repositories.py`) | `segment`, `evidence` | put, record | inserts that skip what is there | identities that keep apart what differs |
| Text stages (`jobs/production.py:500-777,1160-1320,1725-1999`, `extractors/`, `segmentation/`) | the parsed document of a worker | format analysis, segmentation, extraction, structure | late executions, deaths between two segments | a text is whole and its spans quote it |
| Media stage (`jobs/production.py:1322-1677,1832-1910`, `audio/`, `video/`, `raster/`, `subtitle/`) | embedded sources | one branch per medium | swallowed errors, uploads of a track's bytes, changes of engine | evidence whole and linked, a video's transcripts by the engine they name |
| Alignment (`alignment/align.py`) | Aligned events | align, append | ties, crossings | the cheapest path; honest labels |
| Entity resolution (`resolution/service.py`, `resolution.py`) | CANONICAL_IDENTITY rows | cluster, establish, alias, review | retries over a half-written batch, user decisions meanwhile | runs converge; users win; no mention is lost |
| Splits (`resolution/resolution.py`, `mentions.py`) | mention rows, quarantine | split | four transactions, two splits | each reference is bound or quarantined |
| Reconciliation (`reconciliation/reconciler.py`) | assertions | map, append | appends without keys, identities that change | uncertainty stays; the last run decides |
| Edge projection (`projections/edges.py`) | `active_semantic_edge` | run | runs cut anywhere, locks before the checkpoint | the edges are the ledger's |
| Generations (`projections/publish.py`) | generation rows, schemas | build, publish, retire, reap | pooled readers during a swap | one published; readers keep their grace |
| Entity reads (`projections/query.py`) | none | pages, alias lookups | a listing that moves between transactions | a walk misses nothing steady |
| Search (`projections/search.py`, `vector.py`) | documents, the probe of the extension | rebuild, hybrid search | rows that change family, mentions written once from a checkpoint | scoped search is the scoped read; what is found is current |
| Queries (`projections/query.py`, `question.py`, `api/routers/query.py`) | none | structured, questions, traversal | one guard, chosen before the compilation; rebuilds that write over later appends | answers from the guarded store reach the token |
| Locators (`resolution/locator_resolver.py`, `segmentation/registry.py`) | none | register, resolve | re-segmentation between issue and use | what was issued resolves |
| Rate limiter (`api/ratelimit.py`) | buckets | `allow` | a clock read before the lock | a bounded number of admissions |
| Operations (`operations/controller.py`) | rebuild rights | rebuild | refusals, pauses and errors on one cap | rights are exact |
| Tier-1 rebuild of `current_state` (`projections/current.py`) | `current_state` | fold and upsert | races inline appends | its checkpoint claims no more than its rows have |
| Semantic analysis, providers, linkage, sandbox, audit, observability, configuration, schema | logs, metrics, tables | - | - | not modelled (section 7) |

How they interact: API commands and stage work write semantics only through `append`; stage
completion uses `complete_and_append`, which puts the `stage_run` update and the event in one
transaction. An upload stores bytes, then rows, then the event, then submits a job; the stages of
the job decompose the source into segments and evidence, resolve mentions to identities and
reconcile observations to assertions. The projection stage, the last of the DAG, runs the replay
driver over the ledger. Clients read projections through the guard, carrying the seq that `append`
returned. Jobs and stage runs share rows: a run key leaves the job id out, so jobs replay each
other's completed stages.

## 2. Modules

| Module | Models | State | Actions |
|---|---|---|---|
| `Tier0Reducer` | `reducer.py` as pure operators | - | `Reduce`, `ApplyChange`, `Persisted` |
| `SemanticLedger` | `ledger.py` | `ledger`, `nextSeq` (a sequence: not transactional), `tier0`, `mirror`; per writer the statement it is at and what it has read | every SELECT of `append` is one action, the upserts one action with the COMMIT, `Abort` |
| `Tier0Authority` | what the ledger promises: batches in seq order, Tier-0 their fold | `log`, `state` | `AppendAt` |
| `LedgerAuthority` | the refinement mapping: the committed events in seq order are the log, the stored rows the state; a variable `serial` says which behaviours it speaks of | `serial` | those of `SemanticLedger` |
| `ProjectionReplay` | `base.py`, `checkpoint.py`, `poison.py`, the pass of `production.py` | `checkpoint`, `store`, `edgeDocs`, the driver's `memory`, `pass`; the ledger as seqs with a kind | `LockRun`, `LoadEvents`, `FinishRun`, `RetryPass`, `FailRun`, `Crash`, appends |
| `ReadYourWrites` | `consistency.py` over `ProjectionReplay` | `read`, `slots` | `Enter`, the polls of both wait loops, `GiveUp` (503), `CaughtUp`, `Answer` |
| `StageExecution` | `stage_execution.py` and the claim | `runs` (`stage_run`), `completions` (StageCompleted events), `task` | one action per transaction of `run`, `Die` |
| `JobLifecycle` | `application/jobs.py`, `job_repository.py`, the callback of `hatchet.py`, over `StageExecution` | `job`, `created` (order of row creation), `flows`, `callback`, `command` | commands split at their reads and writes; `Deliver`, `Gate`, `Resolve`, `Run`, `Finish`, `WorkerDies` |
| `SourceArchive` | the OCFL store, both front doors of ingestion, artifacts | `objects` (Absent, Bare, Described, Complete), `works`, `sources`, `memberships`, `artifacts`, `ledger`, `submitted` (ids with their spelling), `req` | one step per transaction or file operation of a call; `Crash` |
| `Recovery` | `postgres_backup.py`, `ocfl_backup.py` beside `SourceArchive` | `state`, `backup`, `files`, `vault`, `target`, `root` | the three reads and three writes of a backup, the copy object by object, both restores, `BackupDies` |
| `OcflRoot` | `SourceStore.create` | `entries`, `staged`, `lockHolder`, `starter` | `Proceed` (one step of a starting process), `DieBuilding` |
| `EvidenceStore` | segment and evidence rows, their identities and links | `segment`, `evidence` | inserts that skip what exists |
| `TextStages` | the four text stages over `EvidenceStore` | `doc`, `exec`, `dispatched`, `committed` | `Claim` (also of a late duplicate), one action per transaction, `TextCrash` |
| `MediaExtraction` | LOW_LEVEL_EXTRACTION of video, audio, image and subtitle sources | `media`, `providers`, `sourceRows`, `mexec` | `Decode`, `TranscribeVideo`, the subtitle tracks, `RecordPlan`, `Swallow`, crashes, uploads, changes of engine |
| `SequenceAlignment` | `align.py` | `left`, `right`, `plan`, `appended` | `Align`, `AppendPlan` |
| `EntityResolution` | ENTITY_RESOLUTION: seeds, clustering, commands, identity fold | `profile` (the corpus), `extracted`, `identity`, `queue` (the commands each run has left), `keys`, `locks`, `mentionRows` | `BeginResolution`, `ApplyCommand`, `CrashResolution`; user: confirm, invalidate, lock, align |
| `IdentitySplit` | `Resolver.split` and its enumerators | `mentioned`, `mentionEnt`, `splitter` (the plan of each split), `rebounds`, `quarantined` | one action per transaction of a split; attachments meanwhile; `SplitDies` |
| `Reconciliation` | SEMANTIC_RECONCILIATION | `canon`, `pending`, `asserted`, `factRows` | `BeginReconciliation`, `AppendNext`, `ReconciliationDies`, changes of identity, user overrides |
| `ActiveEdges` | `edges.py` beside the inline Tier-0 of `Tier0Reducer` | `history`, `edges`, `edgeSeq`, `tier0Rows` | `AppendCommand` (assertions of machine and operator, overrides, corrections, invalidations, contradictions, locks; typed or not), `RunEdges` (incremental or wiping) |
| `ProjectionPublish` | `publish.py`, pooled readers | `gens`, `schemas`, `deployer`, `reaper`, `pinned`, `clock` | the transactions of a deployment and of the reaper, `StartPublish` (the clock a swap goes by is read before its transaction), `PinSearchPath`, `CheckIn`, `Tick` |
| `EntityReads` | entity pages and aliases of `query.py` | `identityRows`, `entityRows`, `walker` | a page as its three transactions; rows that come and go |
| `SearchDocuments` | `search.py`, `vector.py` over `EntityReads` | `facts`, `mentions` (the EntityMentioned events), `docs`, `applied` (the checkpoint), `extension`, `probed` | changes of rows, `MentionRecorded`, `SearchRun` (wiping or from the checkpoint), `HybridSearch` |
| `StructuredReads` | `structured`, `traverse`, `question.py`, the query router | `head`, per projection its `content` and `checkpoint`, `rebuilding`, `request`; `graph`, `traversal` | `Asks`, `GuardPasses`, `GuardTimesOut`, `Reads`, `ContradictionFails`; `Commits` (with its inline fold), `ProjectsEdges`, `LoadsLedger` and `WritesCurrentState` (a rebuild of `current_tier1`); `Level` (one SELECT of a traversal) |
| `LocatorResolution` | `locator_resolver.py`, `registry.py` | the bytes of the source, both segment stores, issued locators, the answer | `RegisterPath`, `Resolve` (decoding with replacement, and encoding again) |
| `RateLimiter` | `ratelimit.py` | `bucket`, the clock, callers between clock and lock | `Arrive`, `Allow`, `AdvanceClock` |
| `RebuildRights` | `ReindexCoordinator`, `ProjectionController.rebuild` | `active`, `rebuild`, `pausedNames` | `AskRebuild`, `AcquireRight`, `EndRebuild` |
| `*Proofs` | proofs about the module they are named for. `SemanticLedgerProofs` also covers `LedgerAuthority`; `ProjectionReplayProofs` also `ReadYourWrites`; `RecoveryProofs` also `SourceArchive` and `SequenceAlignment`; `InterpretationProofs` is about `IdentitySplit`, `EntityResolution`, `Reconciliation` and `MediaExtraction`; `ServingProofs` about the modules of the read side (section 4) | | |
| `SequenceFacts` | lemmas: least members, and what concatenation, mapping and flattening keep of a sequence | | |
| `MC*` | instances for TLC | | |

`SemanticLedger` and `ProjectionReplay` meet at the ledger: the replay driver only needs seqs, their
visibility and the poison class of an event, and `ProjectionReplay` lets appends commit in any
order, as `SemanticLedger` does. `StageExecution` takes from `SemanticLedger` that one idempotency
key commits once (`OneCommitPerKey`, proved) and models the ledger as the set of StageCompleted
events. `JobLifecycle` runs the executor's own actions, and the run `jobs` checks `StageSpec` as a
property: whatever the scheduler and the clients do is a behaviour of the executor's specification
(proved: `SchedulerImplementsExecutor`), so what is proved of `StageSpec` holds under them. The
models of ingestion, resolution, splits, reconciliation and edges use the ledger as `Tier0Authority`
gives it: an append is atomic and a key commits once. So does `StructuredReads`, whose guards are
about the projections; what a commit out of seq order does to a guard is the question of `read_gap`.
The stages of `TextStages` and `MediaExtraction` take from `StageExecution` that a late duplicate
may run beside its successor and that one of them commits. `ActiveEdges` folds each event a second
time with `Tier0Reducer`, so that the two read sides can be compared.

Two choices of the ledger model need a reason. A mirror row's SELECT is merged into the COMMIT
because the append has by then upserted, hence locked, the Tier-0 row of the same fact. And
`Abort` stands for every way a transaction ends without its COMMIT, among them the victim of a
deadlock on row locks.

In the scheduler model a run key is the stage, the rerun causation and the evidence of the
upstream stages. `created` is the order of `created_at`; a tie of two timestamps, which the code
refuses with `AmbiguousRequiredEvidenceError`, is left out. A stage that was cancelled, and one
whose work failed, is acknowledged, so its dependents are delivered and fail on missing evidence.
A dead worker's task is delivered again; no other scheduler failure is assumed.

### Composition

Three MC modules put components side by side that share no step: `MCSources`
(`SourceArchive` with `Recovery`, `TextStages`, `MediaExtraction`, `SequenceAlignment`),
`MCInterpretation` (`JobLifecycle`, `EntityResolution`, `IdentitySplit`, `Reconciliation`) and
`MCServing` (the read side). Their variable `scenario`, or `part`, is chosen initially and says
which component moves; the others keep one initial state. So a run explores the union of the
components' state spaces and not their product; the interactions that matter (backup beside
ingestion, scheduler beside executor, search over entity rows, projection beside the guard) are
inside the modules that compose them by EXTENDS.

Numbers stand for data where the code compares it: digests, names and texts are model values or
small numbers, a confidence is an integer on the scale of its thresholds, a structural path is
the sequence of its numbers, the clock of the rate limiter ticks.

## 3. Runs

| Run | Asks | Bounds |
|---|---|---|
| `ledger` | two modes, chosen initially (`WorkloadSpec`): two writers on different entities, every interleaving of their statements, or, with `serial`, one writer with every event type but Unlocked, which implements `Tier0Authority` (`ImplementsAuthority`); in both `TypeOK`, `OneCommitPerKey`, `TokensNameTheirCommit`, `RowsBackedByLedger`, `Tier0IsReplay`, `UserDecisionsStand` | 2 writers, 2 entities, batches of up to 2 events, 4 seqs; both writers share a key |
| `ledger_race` (violation) | do user overrides stand when two writers meet on a row? No | 2 writers, 1 entity |
| `ledger_unlock` (violation) | does an Unlocked event release the entity? No | 1 writer |
| `replay_production` | two workers run the production pass beside appends, crashes and errors: `ReplaySafe`, `CheckpointNeverRegresses`, `PassEnds` | 2 drivers, 2 seqs, 2 attempts |
| `read_operator` | a reader waits while operators run wiping, incremental and forced rebuilds: `GuardSafe`, `AnswersReflectToken`, `AuthorityPauses`, `ReadEnds` | 1 driver, 1 reader, 2 seqs, one append in flight |
| `read_gap` (violation) | is an admitted read fresh when two appends are in flight? No | 1 driver, 1 reader, 2 seqs, 2 appends in flight |
| `jobs` | part `lifecycle`: two jobs share run keys while a client submits, cancels, retries and reruns, and workers die (`LifecycleSafe`, `CompletionHasEvidence`, `OneCompletion`, `ObservationsAttributeCommittedWork`, `StageSpec`); parts `resolution`, `split`, `reconciliation`: what the interpreting stages write (`BatchesConverge`, `IdentitiesStand`, `SplitsComplete`, `ReconciliationFaithful`) | 2 workers, 2 jobs, 1 client with 2 commands, 2 workflow runs, 1 death, 2 attempts, a chain of 2 stages; 5 corpora of 3 mentions in 2 sources, 3 stage runs, 1 user decision; 2 splitters, 2 splits, 2 targets; 3 analyses, 2 canonicals, 2 runs, 2 changes |
| `jobs_failure` (violation) | does a job with a failed stage say so? No | 1 worker, 1 job, 1 command |
| `jobs_status` (violation) | does a complete status always stand for committed stages? No | 1 worker, 2 jobs, 4 commands, 2 causations |
| `sources` | scenarios `same_bytes`, `uploads`: `ArchiveConsistent`; `restores`, `copies`: `RestoresAreFaithful`; `text`: `TextIsWhole`; `media`: `MediaIsWhole`; `alignment`: `AlignmentIsHonest`; and `NothingIsRewritten` | 3 calls, 2 digests, 1 crash; 2 backups, 3 events; 2 workers, 7 documents of every format, 1 failed read, 1 crash; 4 media, 2 executions, 1 swallowed error, 1 upload, 1 change of engine; sequences of up to 3 units |
| `video_observations` (violation) | does a video stage that ends clean keep every record it planned? No | scenario `media` |
| `serving` | parts `edges` (`EdgesAreReplay`, `EdgesFollowDecisions`), `generations` (`GenerationsServe`), `walk` (`PagesAreTheListing`), `search` and `vectors` (`SearchFollowsRows`), `queries` and `traversals` (`AnswersHonoured`), `root` (`RootComesUp`), `locators` (`LocatorsResolve`), `requests` (`AdmissionBounded`), `rebuilds` (`RebuildRightsExact`) | 3 events of every type on one entity, 1 relationship type, 2 values; 3 generations, grace 2, clock 6; 3 refs, 4 metas, 3 mention events, pages of 1, 3 changes; up to 2 patterns in a question, every operation under 6 scopes, a ledger of 2, 3 graphs, 2 rows a level; 2 starters, 1 death; 5 texts, 2 versions; 6 requests, 6 ticks; 3 rebuild calls on 2 projections |

Several properties are conjunctions of named parts that concern one component; each part is
stated and commented where the module defines it:

| Property | Parts |
|---|---|
| `UserDecisionsStand` | `UserOverrideWins`, `LockedRowsFrozen`, `MirrorKeepsUser` |
| `ReplaySafe` | `TypeOK`, `EdgeDocsCoverCheckpoint` |
| `GuardSafe` | `ReadTypeOK`, `SlotsAccounted`, `CheckpointCovered` |
| `AuthorityPauses` | `StopsAtAuthority`, `PausedUntilForced` |
| `LifecycleSafe` | `LifecycleTypeOK`, `UpstreamCommittedFirst`, `FoldedCompleteIsHonest` |
| `BatchesConverge` | `EstablishedOncePerBatch`, `RerunConverges`, `NoMentionLost` |
| `IdentitiesStand` | `SupportedMentionsStay`, `UserIdentityKept`, `MembershipAccumulates` |
| `SplitsComplete` | `NothingDropped`, `RowsFollowLedger` |
| `ReconciliationFaithful` | `UncertainNeverConfirmed`, `EveryObservationAsserted`, `LastValueWins` |
| `ArchiveConsistent` | `ArchiveTypeOK`, `RowsHaveBytes`, `SameBytesSameSource`, `OneIngestEventPerSource`, `JobsFollowTheLedger`, `MembershipGap` |
| `RestoresAreFaithful` | `VerifiedRestoreIsExact`, `QuietBackupRestores`, `RestoredEventsHaveBytes` |
| `TextIsWhole` | `TextTypeOK`, `SpanPinsItsParagraph`, `ExtractionIsWhole`, `NoFabricatedText` |
| `MediaIsWhole` | `MediaTypeOK`, `PicturesAreKept`, `TracksComplete`, `OneSourcePerTrack`, `TranscriptsAreHonest`, `RerunRecordsItsEngine`, `EvidenceIsLinked` |
| `AlignmentIsHonest` | `PathIsBest` (against all warping paths), `ReorderingTellsCrossings`, `MonotoneLabelHonest` |
| `NothingIsRewritten` | `ArchiveImmutable`, `LateExecutionsAddNothing` |
| `EdgesFollowDecisions` | `UserWinnerIsActive`, `OneUserEdge`, `InvalidatedStaysDown` |
| `GenerationsServe` | `OnePublished`, `PinnedReadersHaveGrace` |
| `PagesAreTheListing` | `WalkCoversSteady`, `ScopePredicatesAgree`, `AliasWindowSuffices` |
| `SearchFollowsRows` | `ScopedSearchAgrees`, `NothingStaleSearchable`, `BackendDisclosedHonestly` |
| `AnswersHonoured` | `AnswersReachToken`, `ScopeNeverIgnored`, `TraversalIsBoundedReach` |
| `RootComesUp` | `RootBuiltOnce`, `StartsEnd` (liveness) |
| `LocatorsResolve` | `RangeIsExact`, `IssuedLocatorsResolve`, `AnswerNamesItsVersion` |

The bounds are the smallest at which the cases the properties are about occur. Ledger: one seq
allocated before and committed after another, a key submitted twice, a batch whose second event
depends on its first, a lock and an unlock around a claim. Replay: an authority event between two
others would need a third seq only to repeat what the second shows; a second driver is needed for
the locks and a second attempt for the retry. Jobs: two jobs for a cross-job replay, two workers
for a concurrent duplicate, two stages for the upstream barrier, two attempts for the retry; with
one client the commands still interleave with all callbacks, but not with each other: two clients
multiply the state space beyond what a run can cover. Sources: three calls are a race of two and
one that comes after; two backups are needed for files of both in one destination; two equal
subtitle tracks in the video are the smallest collision of embedded bytes. Interpretation: three
mentions are two that join and one that must not, in two sources so that a second stage runs over
the first one's identities; two splits of one entity overlap. Serving: three events are a
decision, what contradicts it, and one more; a third generation is the deployment over an
abandoned build; pages of one over three refs make a walk of several pages; six ticks are two
windows and the idle reset.

Five restrictions of the instances: in scenario `copies` no assertions are appended and in
`restores` the objects are not copied, each because the property about the other pair is checked in
the other scenario (`Limit`); in `same_bytes` a call that names its source, names a work without a
row or stores an artifact (`Particular`) starts only when no such call has started before it, since
`uploads` has two calls of any kind; after a crash or a failed read the text stages run one
execution at a time (`OneAtATime`), and before it two, so late duplicates and deaths are both
explored but not multiplied; the `search` part has rows of two refs; and the values of part `edges`
are interchangeable, so a ledger names one of them first (`NamesInOrder`).

In `ledger` concurrent writers keep to their own entity because `ledger_race` shows that on a
shared row the properties fail; the serial mode leaves out Unlocked for the same reason
(`ledger_unlock`); and the implementation of the atomic specification fails as soon as two appends
overlap, since a later seq can become visible first. The runs `jobs`, `jobs_failure`,
`jobs_status`, `sources`, `video_observations` and `serving` disable the deadlock check: when the
commands, uploads or events of the bound are used up and everything has settled, the system rests.
Symmetry is used where only safety is checked.

Every property of a passing run is paired with a mutant, a named wrong version of one definition
kept next to it (`LoadNoRows`, `FinalizeAlone`, `CompleteUnkeyed`, ...), under which TLC finds the
property violated. The mutants are not part of any specification.

### Fairness

`FairSpec` (replay) is strong fairness of a driver's steps. PostgreSQL queues the waiters of an
advisory lock in arrival order, so a run that waits is served before later rebuilds; weak fairness
would let it starve. Appends, failures and crashes are not fair. `FairReadSpec` is strong fairness
of a reader's steps: each wait loop of the guard has a deadline, so it cannot poll for ever, and
the semaphore wakes its waiters. The projections are not assumed to make progress there.
`RootFair` is weak fairness of each starting process that was not killed: nothing it waits for but
the directory lock, which the kernel releases when its holder dies. `StartsEnd` then says that a
start ends, ready or refused. The other components claim no liveness: no document promises any,
and what a scheduler or a client must do for it is not in this code.

## 4. What is proved

For every value of the constants, by TLAPS. The assumptions are those named in the modules:
bounds are naturals, requests are well-formed, `None` and `NoRow` differ from the values they
stand beside.

`SemanticLedgerProofs`, about `Spec` of `SemanticLedger`:

* `TypeCorrect`: `TypeOK`. The invariant is strengthened with the well-formedness of the sessions
  (what `seqs`, `folded` and `req` say in each phase); the lemmas about `Reduce` show that the
  fold stays in the type of rows.
* `IdempotentAppend`: `OneCommitPerKey`. The unique index decides: a key is held by at most one
  transaction between its insert and its end, and none inserts a committed key.
* `TokenIsCommit`: `TokensNameTheirCommit`.
* `Tier0Provenance`: `RowsBackedByLedger`. The strengthening says that rows in a session's local
  state are backed by the ledger or by the session's own inserted events, so an abort that drops
  the session leaves nothing behind.
* `UserDecisionsAreKept`: `UserDecisionsStand`, while no two appends in flight address one entity
  (`[]EntitiesApart`: `ledger_race` shows that it is false otherwise), and when an Unlocked event
  shares no batch with a change event, as the command service appends it (`commands.py:227-254`).
  The strengthening says what a session has loaded of the rows of its entities and that folding
  keeps it (`Respects`): a user's row stays a user's in the session's state, and the rows of an
  entity with a stored marker stay as they are.
* `InlineFoldIsReplay`: `Tier0IsReplay`, while no two appends in flight address one entity. The
  replay is a recursive function over the positions of the ledger; that it exists and what its
  prefixes share is shown at the least position where it would fail (`WFMin` on a set of naturals,
  since the provers cannot instantiate the induction theorems). `SeqInv` says that seqs are drawn
  once and that those of an append in flight lie above every committed row about its entities.
  `FoldInv` says that what a session has folded is, for its entities, that part of the replay of the
  ledger followed by the session's own first rows (`PartOf`, `StoredAs`); an event reads only the
  rows and the lock of its own entity, so the commit appends exactly what was folded.

* `SerialAppendsImplementAuthority`, about `ModesSpec` of `LedgerAuthority`: a behaviour whose
  appends run one at a time and that commits no Unlocked event is a behaviour of `Tier0Authority`
  (`ImplementsAuthority`). Both hypotheses are needed, as `ledger_race` and `ledger_unlock` show.
  Every step but COMMIT keeps ledger and rows, so it stutters above. A COMMIT appends the writer's
  events at the end of the log, because what it has drawn lies above every committed seq
  (`TailInv`, `SeqInv`), and the rows it stores are the fold of that log by `InlineFoldIsReplay`.

`StageExecutionProofs`, about `StageSpec` of `StageExecution`, all from one inductive invariant
`StageInv`: `StageTypeCorrect`; `CompletionEvidence` (`CompletionHasEvidence`); `EffectiveOnce`
(`OneCompletion`: the completion's idempotency key is its run key, and a task that is about to
write one has read that none is there or is answered with it); `ObservationsHonest`
(`ObservationsAttributeCommittedWork`). `CommittedOutputs` adds that a row that says complete names
an output of the work: the conjunct that the scheduler's evidence needs.

`JobLifecycleProofs`, about `LifecycleSpec` of `JobLifecycle`:

* `SchedulerImplementsExecutor`: `LifecycleSpec => StageSpec`. Every step of a client, of a
  delivery or of a worker is a step of the executor or leaves its variables alone, because a
  callback holds an executor's task exactly while its call of `run` lasts (`TasksDelivered`), and
  the run key it executes is one the executor accepts.
* `SchedulingIsSafe`: `LifecycleSafe`. The invariant carries the types of jobs, commands, flows
  and callbacks, and two facts about dependencies: what runs, and what has a row, has upstream
  stages that committed a completion (`TasksBehindUpstream`, `RowsBehindUpstream`). A key is
  formed from the outputs of complete rows, `StageInv` turns those into events, and events stay.
* `ScheduledRunsKeepTheirPromises`: the executor's properties, by the refinement.

`ProjectionReplayProofs`, about `Spec` of `ProjectionReplay`. The invariant `ReplayInv`: types, a
pass is at a run of its plan, a projection's lock has one holder, seqs are drawn once, a run that
has loaded its events still starts at the checkpoint it read, and checkpoints name committed seqs.

* `PausesAtAuthority`: `AuthorityPauses`: a rebuild that ends paused has applied neither the event
  it paused at nor anything behind it, and only a forced run ends a pause. Forced runs and runs of
  `semantic_edges`, which ignore the poison policy, do apply authority events.
* `CheckpointsOnlyAdvance`: `CheckpointNeverRegresses`, when every run of a plan wipes and ignores
  the poison policy (`WipingPlans`), as the runs of the production pass do. An incremental run of
  another driver can save the old `applied_seq` of its memory, so without it the statement is false.
* `EdgeDocsKeepUp`: `ReplaySafe`, when plans take edges before search (`EdgesFirst`, the pass's
  order) and appends become visible in seq order (`[]AppendsInOrder`). The second hypothesis is
  the gap that `read_gap` shows: PostgreSQL does not promise it, because appends run concurrently.
  It is met where appends are one at a time (the lemma `SerialAppendsInOrder`).
* `CheckpointsCover`: under the same hypothesis, what lies at or below a checkpoint was applied,
  or is noise, or is behind a pause. A run's events are then a prefix of the ledger after its start
  (`LoadedPrefix`), which is what makes it inductive.

The second part of that module, about `ReadSpec` of `ReadYourWrites`, rests on these:

* `SlotsNeverLeak`: the semaphore count is that of the reads inside, through every exit.
* `GuardIsSafe` and `ReadsSeeTheirWrites`: `GuardSafe` and `AnswersReflectToken`, with appends in
  seq order. The invariant `TokensReached` says that a token at or below the checkpoint a
  read saw is in the store, or the projection is paused, and that every run about to finish has
  loaded it: a wiping rebuild refolds in one transaction, so it cannot lose it.

`RecoveryProofs`, about `ArchiveSpec` of `SourceArchive` and `RecoverySpec` of `Recovery`, for any
number of calls, digests, works, crashes and backups:

* `ArchiveIsConsistent`: `ArchiveConsistent`. The strengthening (`ArchiveInv`) says what each call
  may rely on at its step (`CallOK`: from `stored` on its bytes are whole; once it has settled on a
  source the row has its bytes; before it dispatches the ledger has the event; an id that was drawn
  is spelled in hex, so its events share one key) and who inserted a row (`InsertedByTheirCalls`),
  which is why only a call cut between two transactions leaves a source without its membership.
* `StoredBytesStay`: `ArchiveImmutable`, the part of `NothingIsRewritten` about the store.
* `RestoresAreExact`: `RestoresAreFaithful`. `RecoveryInv` is `ArchiveInv` with one chain of
  inequalities: the fold of the ledger that was read, the rows that were read and the checksum are
  read in this order, and each table only grows, so each is at most the next, row by row. A restore
  verifies when its first equals its last; what is between them is then equal too, and the restore
  is the moment of the middle read. `CopyOK` says what the copy of the root has passed of the bytes
  that an earlier read of the ledger names.
* `ArchiveSurvivesBackups`: the archive's consistency under `RecoverySpec`.
* `AlignmentsTellTheirOrder` (`AlignSpec` of `SequenceAlignment`): `ReorderingTellsCrossings` and
  `MonotoneLabelHonest`, the parts of `AlignmentIsHonest` about what a plan says of itself. The
  trace through the cost table never turns back, whatever the costs are: each turn lowers the sum of
  the two indices until both are 0, so the reversed walk rises on both sides and cannot cross. Only
  its being the cheapest (`PathIsBest`) is left to TLC.

`ServingProofs`:

* `RightsAreExact` (`RebuildSpec`): `RebuildRightsExact`. Inductive with its types; the counting is
  by the cardinality theorems.
* `GenerationsAlwaysServe` (`PubSpec`): `GenerationsServe`. The invariant says that the generation
  in the making is the deployer's and the last (`InTheMaking`), that one serves and is whole
  (`Serving`), and that a retired row carries the deadline of its retirement and what the reaper
  selected has passed it (`Retiring`).
* `AdmissionIsBounded` (`BucketSpec`): `AdmissionBounded`, assuming `BurstRefills`: refilling an
  idle bucket for the two windows after which it is reset would have filled it anyway. The invariant
  balances what passed since any admission and what is left against the capacity and the refills
  (`SpentAndLeft`), and bounds the debt that old clocks leave (`BucketOK`). The configured defaults
  (1000 requests a minute, burst 50) meet it for stalls up to 57 seconds; without it the statement
  is false, as TLC shows with one request a tick, a window of one tick and a burst of three.
* `EdgesReplayTheLedger` (`EdgeSpec`): `EdgesAreReplay`, for a ledger of any length. `EdgeInv`
  places the edges at their checkpoint in the fold from nothing; a run behind the checkpoint goes on
  with the same locks because it folds every event again (`EdgeFoldResumes`).
* `DecisionsReachEdges` (`EdgeSpec`): `EdgesFollowDecisions`. Every prefix of a ledger folds well
  (`FoldedWell`): rows and edges keep their types and carry seqs of the prefix, an edge that an
  invalidation aims at was written after it (`DownIn`), without corrections aimed at one value or
  fact a fact has one active user edge (`OneUserIn`), and a user's Tier-0 winner has its edge or was
  invalidated since (`WinnersIn`). Each part has a lemma for one event.
* `AnswersAreHonoured` (`QuerySpec`): `AnswersHonoured`, for any rows, graphs, requests and ledgers.
  `QueryInv` says that no checkpoint claims more than its store holds, that a rebuild of
  `current_tier1` has loaded what its checkpoint claimed, so writing over later appends takes back
  nothing a guard let through (`StoresKnown`), and that a request that reads has waited for the one
  projection its guard is for (`GuardHeld`). `TraversalInv` follows the levels: what has been met is
  within the depth read, and while no level was cut it is everything there.
* `SearchAnswersFromRows` (`SearchSpec`): `SearchFollowsRows`, for any refs, facts, mention events
  and runs. `SearchInv` says that the mention documents are what a wiping run over some prefix of
  the ledger would have written, no shorter than the checkpoint and all of it after a run; that is
  what an upsert from the checkpoint keeps. The other documents are those of the rows the last run
  saw. A scoped search is compared with the SQL predicate of the read.
* `EntityPagesAreTheListing` (`EntitySpec` of `EntityReads`): `PagesAreTheListing`, for any refs,
  scopes, page length and changes. A ref is told by its rank, the number of listed refs below it.
  `WalkInv` compares ranks with how far the pages have come (`Reached`): while nothing left the
  listing, what was listed all along and ranks below that is in the client's hands or on its page;
  while nothing entered, whatever it holds and is still listed ranks below that, so the next page
  brings none twice; while neither happened, it holds exactly those, in order. A row that enters
  only raises ranks and a row that leaves only lowers them (`RankMoves`). The part about scopes,
  that what SQL selects passes the check in Python and that the reverse fails only for an empty list
  of tuples, and the part about the alias window hold of every state: the first w raw rows are those
  of the first k refs, with k all of them or w at most 2k (`WindowHolds`), and so for every offset
  and limit (`AliasPageIs`). It assumes finitely many refs, numbered in their order
  (`RefsAreOrdered`), and pages of at least one (`PagesHaveRoom`; `api/routers/entities.py:63`
  refuses less).
* `StorageRootBuiltOnce` (`RootSpec`): `RootBuiltOnce`, the safety part of `RootComesUp`, for any
  number of processes. As long as none is killed, the one that is inside holds the directory lock,
  and what is in the root and what is staged make up the whole root (`RootWhole`).

`InterpretationProofs`, about `SplitSpec` of `IdentitySplit`, `ResSpec` of `EntityResolution`,
`ReconSpec` of `Reconciliation` and `MediaSpec` of `MediaExtraction`:

* `SplitsLoseNothing`: `SplitsComplete`. The invariant follows a plan through the reads of its
  split (`PlanOK`): what each read enumerates is decided by it, the later kinds of references are
  still where they hung when the split began, and what is refused is in quarantine before the
  commit. `CommitSplitStep` then finds every binding of the plan among the rebindings.
* `ReconciliationIsFaithful` (`ReconSpec` of `Reconciliation`): `ReconciliationFaithful`, for any
  corpus, identities and number of runs, deaths and changes. While nothing but the latest run has
  touched the facts, that run has appended exactly the first n of the assertions the mapping gives
  now (`RunAt`), every row it wrote holds the value of the last of them or a user's decision
  (`RowsKeep`), and at its end n is all of them. `ReconcileKeeps` says that removing duplicates
  keeps one assertion per key.
* `MediaStagesAreWhole` (`MediaSpec`): `MediaIsWhole`, for any source, decoder output, uploads and
  number of workers, runs and crashes. `MediaInv` has three parts. Every row of `source` is the
  video or holds the bytes of one of its tracks, one row per bytes and per id (`RowsOK`). Every
  segment and every evidence row is of a plan that may be carried out on its source (`PlanFits`),
  and two such plans of one modality register the same segments (`SameSegments`): what makes a row
  recorded by one execution say what another would have written, and be linked. And every execution
  has what its phase has behind it (`ExecOK`): the segments put so far, the scenes before the
  transcript, the transcript before the tracks, and the tracks before the present one.
  `PlanRecorded` says that a batch leaves a row for each of its identities, `ScenesHeld`,
  `PanelsHeld`, `TranscriptHeld` and `EventsHeld` that this row says the same whichever plan wrote
  it.
* `IdentitiesStandWhole` (`ResSpec`): `IdentitiesStand`, for any corpus of finitely many mentions
  and any number of runs, deaths, alignments and user decisions. Its part `SupportedMentionsStay`
  (`MentionsStayTheirs`) is about what clustering computes: joining two components keeps every
  mention in its own and at most one seed in each (`JoinKeeps`, carried along all links by
  `JoinAllKeeps`), so a component takes the seed of any mention in it that has one (`RefIs`), and
  the seed of a supported mention is an identity that supports it or one an accepted alignment
  connects with it (`SeedStays`). That a mention without a seed is not taken for one with an
  identity needs the state: identities are finitely many, have ages, and each has evidence
  (`IdentitiesNamed`), because every establishment still queued has (`BatchesSound`). The other two
  parts, `UserIdentitiesKept` and `MembershipsKept`, need the shape of the identity rows alone.
* `BatchesLoseNothing` (`ResSpec`): the parts `EstablishedOncePerBatch` and `NoMentionLost` of
  `BatchesConverge`. `BatchCommandsAre` says of a batch that it establishes a new reference once and
  has a command or a review for every mention of its source; the invariant follows the commands
  that are left, and `MentionsAnswered` the mentions whose row is still to be written.

The assumptions about constants are named where the modules declare them (`LedgerConstants`,
`StageConstants`, `ReplayConstants`, `ReadConstants`, `ArchiveConstants`, `PublishConstants`,
`LimiterConstants`, `RebuildConstants`, `SplitConstants`, `ResConstants`, `AbsentIsNoRow`,
`NoneIsNoPredicate`, `MediaConstants`, ...): bounds are naturals, a cap on concurrent rebuilds is
one, the ids calls draw are none that a client may name, `None` is no value. TLC evaluates each on
its run. What a theorem assumes beyond them is in its ASSUME, or to the left of its arrow.

Only model-checked:

* Liveness (`PassEnds`, `ReadEnds`, `StartsEnd`), which needs fairness and ENABLED.
* `PathIsBest` of `AlignmentIsHonest`: the cheapest path is a minimum over sums along sequences, an
  induction over data. `LocatorsResolve`: what its folds over sequences of the community modules
  compute. A least counterexample takes the place of such an induction where the model has the fold
  as a recursive function, as `Tier0IsReplay`, `EdgesAreReplay` and the trace of an alignment have
  it. `RestoresAreExact` gets by without: it compares folds, and only needs that a longer ledger
  never lowers a row, which follows from the definition as a maximum.
* `RerunConverges` of `BatchesConverge`: it compares the clusters of two runs whose seeds differ,
  and the second one's scores, links and targets with those of the first.
* `TextIsWhole`: which paths a document has and in which order its paragraphs are read is data that
  `SelectSeq`, `SortSeq` and folds over the documents compute.

## 5. Where the code disagrees with what the repository says

* `ledger_race`: a machine append that loaded its row before a user's override committed writes
  its own winner over it (`storage/postgres/ledger.py:473`).
* `ledger_unlock`: an Unlocked event leaves the stored LOCKED marker (`ledger.py:469`).
* `read_gap`: a read whose token lies below the checkpoint is admitted although its event became
  visible after the projection had passed it (`api/consistency.py:152`).
* `jobs_failure`: a failed stage keeps its dependents from ever having a row, and the derived
  status asks for all rows before it looks for failures (`application/jobs.py:360`).
* `jobs_status`: a rerun does not reset the stored status, and the status of a rerun without rows
  is the stored one: a second rerun is reported complete before any of its stages ran
  (`application/jobs.py:357`).
* `video_observations`: the candidate observations of a video share one identity, so the evidence
  table keeps only one of them (`video/evidence.py:251`).

Met while modelling, and not given a run because no sentence of the repository is firm enough to
check against, or because the case is one line of data code:

* Ledger and reads: `expected_version` is compared with a tail read before the insert, and nothing
  holds that tail until then (`storage/postgres/ledger.py:212`), so two appends that expect one
  version can both commit; the model follows the code, no property claims more, and no caller in
  `src` passes a version. An incremental run that sees no event saves the driver's old `applied_seq`
  (`projections/base.py:240`), so a new process can save 0; the guard tests the pause once, before
  the lag loop (`consistency.py:152`); a wipe of `current_state` upserts its fold over rows that an
  inline append commits meanwhile (`projections/current.py:65`): `StructuredReads` lets it, and an
  answer past the guard then shows the rows of the ledger the rebuild had loaded.
* Jobs: the claim of a stage run and its completion are two transactions where
  `src/docs/consistency.md:71` says one; a late duplicate's failure overwrites a complete row
  (`jobs/stage_execution.py:385`); a status refresh can overwrite a cancellation
  (`application/jobs.py:345`) and two partial cancellations can lose one (`:157`); a retry after a
  rerun is not counted (`:199`); a job that only replayed owns no row and stays running
  (`storage/postgres/job_repository.py:142`).
* Sources: the id of a found source is spelled in hex (`storage/postgres/repositories.py:405`) and
  the key of its event is made from the spelling (`api/routers/sources.py:235`), so a source that a
  client named with dashes gets a second SourceIngested, and a second job, when its bytes are
  uploaded again. The comment there, "so a retried ingest of the same source is idempotent", holds
  per spelling, which is what `OneIngestEventPerSource` says. A directory that a dead copy left is
  refused by every later put of the digest (`storage/ocfl/store.py:176`); a re-upload names a work
  the row does not carry (`api/routers/sources.py:206`); the job id is twelve characters of the
  source id (`:245`); a rejected restore has already committed (`recovery/postgres_backup.py:320`)
  and keeps the projection checkpoints (`:284`); `verify_ocfl` does not see a directory without
  inventory (`recovery/ocfl_backup.py:62`).
* Extraction: a failed read commits the stage on fallback references (`jobs/production.py:1850`);
  when `record` fails after `register`, segments stay without evidence (`:1417`); a standalone
  audio source keeps fallback rows under the digest of the configured engine (`:1459`); a Markdown
  H2 before the first H1 shares its path with a later one (`segmentation/segmenters.py:262`).
* Interpretation: assertions carry no idempotency key, so a retried stage repeats them
  (`application/commands.py:106`), and a plan of alignments sent twice is appended twice
  (`alignment/align.py:488`); establishing an identity again after its invalidation is answered as
  a replay (`resolution/resolution.py:516`); the quarantine of a rolled-back split stays (`:595`);
  a surface of two canonicals goes to the row that is read first
  (`reconciliation/reconciler.py:301`), and a CONFIRMED row of the identity that loses the surface
  stays when that identity becomes uncertain: no later run asserts the row again, so none repairs
  it, which TLC shows with five changes of identity and is why `UncertainNeverConfirmed` speaks of
  the rows the run asserts.
* Serving: a machine re-assertion reactivates an edge beside the user's
  (`projections/edges.py:244`); two concurrent deployments draw one number
  (`projections/publish.py:76`); `_run` pages without an ORDER BY (`projections/query.py:1250`);
  `contradictions()` reads a column it does not select (`:855`); documents are written for
  INVALIDATED identities (`projections/search.py:184`); an empty side of an alignment raises
  (`alignment/align.py:174`); the first number of a structural path is taken for the paragraph
  (`resolution/locator_resolver.py:261`); bytes that are not UTF-8, and a character that
  `max_range_bytes` cuts, come back as a replacement character of three bytes, so from there on
  start and end name no bytes of the source (`:250`, `:266`), and `RangeIsExact` promises the place
  in the source only while no byte before the end was replaced; a retired generation keeps its rows
  for the grace less the wait of its deployment, because the clock is read before the transaction
  (`projections/publish.py:109`); a burst larger than two idle windows refill comes back at once
  when an idle bucket is reset, so such a configuration admits more than the rate and the burst
  (`api/ratelimit.py:46`).
* Scopes: an entity with `tuples: []` is selected by no scope of a read, because SQL asks whether
  the key is there (`projections/query.py:404`), but passes the check in Python, which falls back to
  the arrays (`:452`) and whose docstring says it mirrors the SQL; `POST /v1/entities` stores such a
  dict as it is sent. `ScopePredicatesAgree` says that SQL implies Python, and that this is the only
  difference.
* Search: a mention's document keeps the reference of its event when a split or a merge moves the
  mention (`projections/search.py:104`); and when the extension becomes usable between the probe
  and the search, pgvector answers under the disclosure "exact-fallback-active" (`:592`,
  `projections/vector.py:257`).
* Questions: the guard is chosen by a look at the words, before the compilation
  (`api/routers/query.py:45`). A question that names a relationship type but compiles to an
  operation over `current_state` waits for the edges only, against `requires_edge_guard`'s docstring
  ("True when this question compiles to the RELATIONSHIP_EDGES op"); the hybrid search of a question
  about an entity reads documents no guard waited for; `constraints.continuity_id` is accepted and
  read by nothing (`projections/question.py:62`); a level of a traversal takes 500 edges without an
  order, and `total` is the length of what was left (`projections/query.py:1039`).

## 6. Plan

Done: the ledger with Tier-0, replay and reads, stage execution and jobs; the sources with their
archive, recovery and extraction; resolution, splits and reconciliation; the read side. Next:

1. The rows that a rebuild of `current_state` writes while an inline append commits
   (`projections/current.py`), over `SemanticLedger`: `StructuredReads` has them as positions in
   the ledger.
2. Two clients in `JobLifecycle` on a smaller instance (a cancellation against a status refresh, two
   partial cancellations), and the invalidate command.
3. Two deployers in `ProjectionPublish`.

Theorems worth proving next: `RerunConverges`, from what the seeds of a rerun add;
`SpanPinsItsParagraph` of the text stages; that the cost table holds the cheapest sums
(`PathIsBest`).

## 7. Not modelled

* What the Tier-1 rebuild of `current_state` writes, row by row (planned; which events its rows
  reflect is in `StructuredReads`), and the drain of old DAG universes, which
  nothing in production calls.
* MERGE of identities: one append of the entity router (`resolution/resolution.py:470-489`) whose
  event neither the stage nor a split reads.
* Probabilistic linkage (floating-point estimation that no stage calls), ranking and embeddings,
  semantic analysis and model providers, and the decoding and recognition inside the media
  pipelines: numeric or external code; the models take its result as an input.
* The schema and its migrations: the constraints and triggers are modelled where a component relies
  on them.
* The sandbox, audit, observability, configuration and startup: operating system and logging.
* Request plumbing: authentication, schemas, error bodies; the routers that change state are
  modelled with the component they call.
* Inside modelled files: confidences and alternatives of the reducer,
  `ProjectionController.set_checkpoint`, the audit rows, memberships of entities whose tuples are
  shorter than three, corrections with a prior value and contradictions recorded by callers that
  `src` does not have, graphs that change while a traversal reads its levels, worker start-up and
  tenant discovery, the in-process runner that only tests use, syntax of locators, reviews, budgets
  and reports of the operations package.
