# PodDown in TLA+

PodDown turns Markdown sources into finished podcast episodes: it segments a script, renders several takes of every
segment with paid speech providers, transcribes and scores them, picks the best take, repairs what failed, masters,
packages and publishes. This directory holds TLA+ models of the parts of that program where processes, threads,
tasks, crashes and retries meet durable state, and of its path from a source to a package; the TLC configurations
that check them on small instances; and TLAPS proofs for all instances.

Contents: [inventory](#1-inventory), [modules](#2-the-modules-and-the-code),
[runs](#3-runs-bounds-and-what-they-show), [fairness](#4-fairness), [proofs](#5-proofs),
[findings](#6-disagreements-found), [what is left out](#7-what-is-not-modelled), [what is next](#8-what-is-next).
Run `tlc -workers 2 -config X.cfg MCX.tla` and `tlapm X_proofs.tla` here. Paths below are relative to
`src/src/poddown/`.

## 1. Inventory

Three groups of processes share a filesystem and a SQLite database:

```
  HTTP clients -> API processes (api/)  ----> SQLite: episodes, receipts, usage (persistence.py)
                                               ^
  lifecycle workers (episode_service.py) ------+------> packages, publications (files, S3, RSS)

  client (orchestration.py) -> Temporal server -> workflow worker (audio/workflow.py)
                                    |
                                    +-> activity workers (audio/activities.py)
                                          -> durable render service (audio/render.py) -> provider
                                          -> transcriber (providers/)
                                          -> evidence stores on a shared filesystem (audio/storage.py)
```

| Component | State it keeps | Operations | What is hard | What makes it correct |
|---|---|---|---|---|
| Durable render service, `audio/render.py` | file locks (claims), one per take and key; threads of the default executor | `render_takes`: claim every take, replay or render each, release | tasks and processes on one key; crash between payment and record; locks waited for and released in one bounded pool | one payer at a time; payments beyond the first replace lost ones; what is returned is durable; one cost event per take; every call ends |
| Evidence stores, `audio/storage.py` | artifacts, render, quality and transcription records, all written by hard link | `put`, `read`, `save`, `find` | two writers of one name; damaged bytes | written once; equal evidence accepted, different evidence refused |
| Render activity, `audio/activities.py`, `diagnostics.py` | `_TRANSCRIPTION_CLAIMS` (process locks), claim files | render, look up quality, diagnose, transcribe under the claim, save | attempts that timed out keep running beside their successor; errors between the two locks | one paid transcript; verdicts agree and rest on records; claims end with their holder |
| Episode workflow, `audio/workflow.py`, `selection.py` | segment, attempt, last error, decisions | fan out, gather, accept, repair, fail | retries, timeouts, late answers, several errors of one attempt | only the best passing take; repair only what failed; failure evidence is true |
| Workflow clients, `audio/orchestration.py` | none (the workflow id is the digest of the snapshot) | `run_episode` | repeated and concurrent calls | one outcome, everybody answered |
| Episode lifecycle, `episode_service.py` | `EpisodeRecord` with a version | create, `transition`, publish | workers with stale versions | stages in order, evidence for each, no lost update |
| SQLite adapters, `persistence.py` | tables of episodes, receipts, usage events | one transaction each: create, get, replace, submit, replay, record; schema migration | transactions of one request interleave with all others; crash in the migration | keys bind once; compare-and-swap on the version; no evidence lost or counted twice |
| HTTP API, `api/` | none of its own | create, render, publish | one request is several transactions; a lost answer is repeated | the same receipt for the same command; gates that cannot be passed by staleness |
| Publishing, `publishing.py` | publication directories, objects, RSS items and feeds; receipts and mutation attempts in memory | publish, update and delete over four adapters | one lock per key, none per destination; renames, pruning of parents, rollback, unknown outcome of a mutation; a restart forgets receipts | a receipt's bytes are there; a key takes effect once; feeds list what was receipted |
| Content stores, `artifacts.py`, `object_storage.py` | objects and metadata sidecars in shared directories | put, read, delete, prune | crash between object and sidecar, delete against put, a directory removed under an open descriptor | what was stored stays readable until it is removed |
| Packages, `packages.py`, `package_generation.py` | artifacts, one manifest per version | commit, replay, generate the artifacts | crash before the manifest, replay with other evidence, damage | the first manifest wins and all it names is there |
| Reference demo, `demo.py` | run status, master, package, ledger, publication, result | run, resume | crash between any two of ten writes, reruns with other evidence | a result is backed by everything behind it; a rerun repairs or refuses, never replaces |
| Content preparation, `content/` | none | scan, resolve metadata, adapt, repair, extract and bind tokens, segment | block boundaries, repeated occurrences, claims against anchors, the character limit | no line lost, tokens stay where they were, segments partition the turns |
| Mastering and final QA, `audio/mastering.py`, `qa/` | none | assemble, transcribe, judge, package | order of takes, takes faithful alone but not together | what is packaged says the script's critical words |
| Provider routes, evidence rules, `provider_routes.py`, `evidence.py`, `rendering.py` | none | choose routes, classify evidence | ceilings of cost along fallbacks | never above the ceiling |
| Rights, contracts, `audio/rights.py`, `audio/contracts.py`, `domain.py` | none | validation | - | a refused request costs nothing |
| Provider adapters, local renderers, runtime, readiness, CLI, MCP | none that lasts | HTTP calls, child processes, wiring, probes | - | see section 7 |

`PROJECT.json` lists the same components with the modules that cover them, and under `hazards` the lines where they
are exposed, with the property that would notice.

## 2. The modules and the code

### RenderEvidence, DurableRender

`RenderEvidence` is the promise of the render service and nothing else: evidence of a take is written once, a call
is answered with the evidence of its takes, the cost event of a take goes to one call.

`DurableRender` is `DurableRenderService.render_takes` step by step. A member of `Callers` is one call, in the
process `Home` gives it; a retry, and an execution that timed out but still runs, are further callers. `pc` is its
place in the code:

| Action | Code |
|---|---|
| `Refuse`, `RenderTakes` | validation and preflight; the sorted keys of the window |
| `WaitForClaim`, `TakeClaim`, `OpenClaimFails` | `_claim`: `to_thread(flock)` occupies a pool thread until it is granted |
| `FindRecords`, `FindRecordsFails` | `find` of every take with its validation and the artifact check; a record or an artifact that cannot be read, or is not what it should be |
| `Dispatch`, `ProviderReturns`, `ProviderFails` | the paid call and the validation of what it returns |
| `PutArtifact`, `PutArtifactFails`, `SaveRecord`, `SaveRecordFails` | the two commits, artifact first; each may end in a filesystem error, before its link or after it |
| `Finish`, `ReleaseClaim` | the `AsyncExitStack`: one claim at a time, last first, each through the pool |
| `Crash`, `DamageArtifact` | external: a process dies with its file locks; stored bytes change |

A claim file cannot be opened, a provider fails or lies, bytes are damaged, a disk is full: each ends the call
through `abort`, which gives the claims back like the normal path. `dispatches[t][c]` counts the provider calls of
call c for take t, for the bound on spending. `PoolSize` bounds the threads of a process.

### RenderActivity

`RenderActivity` is `_run_render_activity` in its provider-backed form, and composes with the module above through
its promise: its render step is an action of `RenderEvidence` (`INSTANCE`), so what is proved of `DurableRender` is
what is assumed here. Actions follow the code in order: `RunRenderActivity` or `RejectPayload`,
`RenderNew`/`RenderAnswers`/`RenderFails`, `FindQuality`/`MissQuality`, `ReadAndDiagnose`, the two locks
(`AcquireProcessLock`, `OpenClaimFileFails`, `AcquireFileLock`), `FindTranscript` or `Transcribe` and its outcome,
`StoreTranscript`, `ReleaseLocks`, `SaveQuality` or `SaveQualityCollides`, `Crash`. Every access to a record may
end in a filesystem error (`FindQualityFails`, `FindTranscriptFails`, `StoreTranscriptFails`, `SaveQualityFails`),
a save before its link or after it. The transcriber answers differently every time (`request` names the call),
which is what makes agreement between executions a question. An activity without heartbeats is not cancelled:
zombies are members of `Execs`.

### EpisodeWorkflow

`EpisodeWorkflow` is the workflow and what Temporal does around it. `phase`, `try` and `result` are the server's
view of each take of the current attempt, `worker[t][k]` is try k of take t on its worker, which may go on after
the server has given it up. `StartTry`, `TimeOut` and `Complete` are the retry policy; `FindQuality`, `Evaluate`,
`SaveQuality`, `SaveQualityCollides`, `TryFails` and `LoseTry` are the activity as the workflow can tell, reduced
to what `RenderActivity` shows of it (a verdict is a function of durable records; a second save may collide).
`AcceptCandidate`, `RepairSegment`, `StopSegment`, `RejectOutput` and `ExhaustAttempts` are the outcomes of
`_run_segment`, `Decide` and `FailEpisode` those of `run`. A replay of the workflow after a crash of its own worker
is a stuttering step. Clients start or join the workflow by its id (`RunEpisode`), `REJECT_DUPLICATE`.

### EpisodeLifecycle, CommandApi

`EpisodeLifecycle` is the promise of `episode_service.py`: `Begin`, `Advance` one stage and one version, `Fail`
before publication, a package set once.

`CommandApi` is the HTTP API over the SQLite adapters with lifecycle workers beside it. A call is its transactions
and anything may happen between two of them: `CreateEpisode` (insert or replay) and `Submit`; `RenderEpisode`
(read), `ReplayRender` (lookup, then the gate on the state read earlier) and `Submit`; `PublishEpisode` (read and
gate) and `Submit`. A worker's `Transition` reads, checks and builds the next version; `Replace` is the
compare-and-swap, which writes or ends in a version conflict. `LoseRequest` and `LoseTransition` are the crash, or
the "database is locked", in between. All queries are scoped by tenant, so one tenant is modelled.

### ObjectStore, PublicationCalls, three adapters, Publishing

`Publishing` composes five modules by `EXTENDS`, each with its own variables and a `...Step(t)` action that leaves
the others' alone. `PublicationCalls` holds what they share: a thread `t` of the process is in one call, `pc[t]` is
its place in the code, `left[t]` the files it has yet to treat.

| Module | Actions | Code |
|---|---|---|
| `Publishing` | `StartCall`, `AnswerFromReceipt`, `StartPublication`, `RecordReceipt`, `FailPublication` | `PublicationService.publish` under the lock of its key |
| | `AnswerFromMutation`, `StartScan`, `RefuseMutation`, `DispatchMutation`, `RecordMutation`, `FailMutation` | `update` and `delete`: the scan of the attempts of all keys, dispatch, and the outcome that stays unknown |
| | `PublishTransistor`, `MutateTransistor` | the adapter that answers from a recording |
| | `Crash` | external: receipts, attempts, RSS items and locks are gone, files are not |
| `FilesystemPublication` | `MakeParent`, `MakeStaging`, `WriteFiles`, `LookForDestination`, `CompareFile`, `Rename`, `RenameFails`, `DropStaging`, `CleanUp` | staging, the rename, comparison with what is there, pruning |
| | `LookForUpdate`, `WriteUpdate`, `ListTree`, `UnlinkFile`, `RemoveTree` | update record, `rmtree(ignore_errors=True)` entry by entry |
| `S3Publication` over `ObjectStore` | `EnterS3`, `ReadObject`, `StartPut`, `LinkObject`, `LinkSidecar`, `AbortPut`, `CompleteS3`, `FailS3`, `RollBackS3` | a put is a link of the object and one of the sidecar; a failure drops the target's references and leaves the store as it is |
| | `StartRemove`, `UnlinkObject`, `UnlinkSidecar`, `PruneObject`, `AbortRemove` | `delete` of the store and the removal of empty directories |
| `RssPublication` | `CheckItem`, `SetItem`, `BuildFeed`, `StoreFeed` | the item, the feed built from all items, the file that replaces the last |

### PackageStore, ReferenceDemo

`PackageStore` is what a package is made of and how it is committed: `StoreArtifact` by artifact, then
`CommitManifest`, a link that never replaces. `ReferenceDemo` is `run_reference_demo`, one action per write, in the
code's order: `Start`, `Ingest`, `Prepare` (`IdentityMismatch`), `LookForResult`, `RejectRender`, `RenderTake`,
`FinishRendering`, `ValidateResume`, `EvaluateMaster`, `RecordMaster`, `CommitPackage`, `StoreArtifact`,
`CommitManifest`, `RecordPackaged`, `RecordUsage`, `Publish`, `WriteUsage`, `WritePublication`, `RecordPublished`,
`WriteResult`, `Complete`. `Crash` is the death of the process, or an error of its renderer or its disk, at any
point of a run; `Damage` changes or removes a package file, a published one, `publication.json` or `result.json`
between two runs. A `Forged` file is one with contents no run has written. Evidence is reduced to what two runs can
differ in: renderer, whether its first render was rejected, and how many renders it made.

### SourceBlocks, CriticalTokens, ContentPreparation, EpisodeAssembly

The way of one request through the content pipeline, a pipeline of stages that each may refuse:

| Module | What | Code |
|---|---|---|
| `SourceBlocks` | the block scanner, a line at a time: `SkipBlank`, `OpenBlock`, `ContinueBlock`, `ContinueList`, `EndWithLine`, `EndBlock` | `content/source.py` |
| `CriticalTokens` | matches of a text, layered lexicon and its merge, search for spans, fidelity of a transcript (operators) | `content/tokens.py`, `content/lexicon.py`, `qa/fidelity.py` |
| `ContentPreparation` | `LoadProfile`, `ReadFrontmatter`, `Scan`, `ResolveMetadata`, `AdaptSource`, `RepairTurn`, `ExtractTokens`, `MergeMatch`, `EndMerge`, `BindToken`, `EndBinding`, `SegmentScript` (its checks), `AddTurn`, `EndSegments` | `content/service.py`, `content/profiles.py`, `content/adaptation.py`, `content/segmentation.py` |
| `EpisodeAssembly` | `DeliverTakes` (in any order), `JudgeTakes`, `MasterAudio`, `Transcribe`, `EvaluateMaster`, `GeneratePackage` | `audio/mastering.py`, `qa/final_master.py`, `package_generation.py` |

Text is a sequence of words and not of characters: a text of n words is 2n-1 wide. A line is its mark, its
indentation, the number of cells that its pipes make, and its words; what kind of line the scanner takes it for,
and whether it goes on with the open block, follows from these as in the code (`Kind`, `Continues`,
`ContinuesItem`). `Inside[w]` names the critical words whose letters occur in the word w, `Starts[w]` and `Ends[w]`
the words it starts and ends with, since the code looks for phrases letter by letter ("2 kg" in "12 kg"). The loops
that merge the lexicon's matches, bind tokens and group turns into segments are one step per match, token and turn,
as the code runs them, and not folds: a step has a proof. Audio is the sequence of words it says. `Transcribe` may
lose or insert one word, give no usable times, or answer for another audio.

## 3. Runs, bounds and what they show

Every property of a passing run has a mutant in `PROJECT.json`: a definition changed the way a plausible bug would
change the code (the operators marked "Mutant" in the modules), under which TLC finds the property violated with
the same configuration. So no property holds by construction.

| Run | Instance | Distinct states | Result |
|---|---|---|---|
| `durable_render` (`DurableRender.cfg`) | 3 calls (2 tasks of one process, 1 of another), 2 takes whose keys sort against their index, 1 artifact, 2 pool threads; up to the names of the tasks | 341,265 | pass |
| `durable_render_pool` | 3 tasks of one process for one take, 2 threads | - | `EveryCallSettles` violated (finding 1) |
| `render_activity` | 3 executions (an attempt and its retry in one process, one of another workflow), 1 take, 2 token lists; opening a claim file may fail; up to the names of executions and lists | 323,496 | pass |
| `render_activity_collision` | the same with one token list | - | `RejectsOnlyConflicts` violated (finding 2) |
| `render_activity_leak` | executions over one take, opening may fail | - | `ClaimsEndWithTheirHolder` violated (finding 3) |
| `episode_workflow` | 2 clients, 2 segments, 2 attempts, 2 takes, 2 tries, 3 verdicts, 3 errors and timeouts | 318,148 | pass |
| `episode_workflow_repair` | 1 segment, 2 attempts of 3 takes, 1 try | - | `TerminalErrorsStopRepair` violated (finding 4) |
| `command_api` | 3 requests, 2 workers, 2 keys, 1 source, 2 packages; symmetric | 486,160 | pass |
| `command_api_identity` | 2 requests with one key | - | `IdentityIsExact` violated (finding 5) |
| `publishing` | 2 threads, up to 3 calls from one of six menus, 1 crash; 2 episodes, 5 packages, a target of each kind, 3 keys, 2 shards | 111,720 | pass |
| `reference_demo` | any number of runs, 2 renderers, 2 segments of 2 takes, 2 artifacts, up to 2 crashes, 1 damage | 258,106 | pass |
| `episode_assembly` | every document of up to 2 lines of 30 shapes, of 3 lines of 23 shapes, of 4 lines of 7 shapes; some thousand requests for documents of up to 5 words | 496,492 | pass |

**`durable_render`** asks: do claims, records and artifacts protect money and evidence? Two payers never overlap
(`OneSpender`); a call pays for a take at most once, and of all that paid at most one has not lost what it paid for
(`SpendBoundedByLosses`): whoever else did has failed or died, and the record is not its answer; a call that
returns holds what is durable, and an artifact precedes its record (`AnswersAreDurable`); a cost event reaches one
caller (`OneCostEvent`); a recorded take is never paid again (`NoDispatchAfterRecord`); the whole implements
`RenderEvidence` (`KeepsPromise`); and sorted claims cannot wait in a circle (`EveryCallSettles`). Two calls are
enough for every race on a key and for a circle of two claims; the third meets what a crash of one and the
completion of the other left behind. A window of the code has up to three takes (`MaxTakeCount`); two are enough
for partial windows and for locks taken in two orders. One artifact lets two takes share bytes, the case in which
damage reaches both. Each process has as many threads as calls of the run could wait, so the pool is not what stops
them; the next run takes one thread away.

**`render_activity`** asks the same of transcription and verdicts: `CallsBoundedByLosses`, `VerdictsAgree`,
`VerdictsAreBacked`, `RecordsAreFinal`, and `EveryExecutionSettles`. The last excuses executions behind a leaked
claim; that claims do leak is finding 3 and the business of `ClaimsEndWithTheirHolder` alone. Two processes are
needed because the claim is two locks; the same process twice because the process lock matters only there; two
token lists because verdicts are cached per list while transcripts are shared. Takes are independent (no execution
holds the claims of two), so one is enough. Deadlock is not checked: a leaked lock does stop the executions behind
it.

**`episode_workflow`**: the workflow decides on durable verdicts only (`ResultsAreDurable`), whichever of several
overlapping tries reported; accepts the best passing take whatever the order of answers (`AcceptsOnlyTheBest`);
repairs only what failed and moves on only from what succeeded (`RepairsOnlyFailures`); its result adds up
(`EpisodeAddsUp`); its failure evidence is true (`FailureIsHonest`); a closed workflow stays closed
(`OutcomeIsFinal`); every client is answered (`EveryClientAnswered`). The code has 3 takes and 3 tries; two of each
already give a late try beside its successor, an exhausted retry, ties, a passing and a failing take. The verdicts
include one with the best score that fails a hard gate; the errors are one of each class of the retry policy and of
the repair rule.

**`command_api`**: keys bind once (`KeysBindOnce`); repeated commands get the same receipt (`AnswersAgree`); an
episode without a create receipt has a create on its way, lost or refused for its key (`EpisodesAreReceipted`); a
publish is accepted only for an episode that passed QA and has a package, though it is checked in an earlier
transaction (`PublishedArePackaged`); a repeated render is not refused by the publication that followed it
(`ReplaysAreNotRefused`); the table implements `EpisodeLifecycle` for racing workers with stale versions
(`KeepsLifecycle`). Three requests are the least for "create, render, the same again"; two workers the least for a
lost update; two packages the least for one to replace another. The named constraint `OneEpisodeAtWork` lets
workers take up one episode: others exist and hold keys, and the compare-and-swap relates only workers of one
episode. The symmetry is sound because no liveness is checked. Deadlock is not checked: all requests may have been
answered.

**`publishing`** asks what is left when calls with different keys meet in an adapter. A receipt of the filesystem
stands for a directory with exactly the package's bytes, unless a delete of it has overlapped or followed
(`PublishedBytesAreExact`); a key takes effect once, through retries, failures, unknown outcomes and two threads
(`EffectsHappenOnce`); a feed lists exactly the receipted episodes, unless the publication that stored it last had
met another one in the adapter (`FeedListsReceipts`); an object that was stored can be read back, after a crash
too, until its removal begins (`ObjectsStayReadable`); no lock is left behind (`CallsEnd`). A menu holds the calls
that can meet in one adapter: the same and other bytes for one destination; publish against update and delete;
objects that share a shard, a name or their bytes; feeds. Two threads are the least that race; the third call, and
the crash, find what the race has left. Audio of the same length but other bytes, and bytes with one checksum
prefix, are in the menus because the code tells items by length and directories by prefix. Deadlock is not checked,
since all calls may have been made; `CallsEnd` stands in for it.

**`reference_demo`** asks what a crash, a rerun and a damaged file can do to a result. A completed run leaves a
result that manifest, artifacts, publication and ledger back (`ResultIsBacked`); committed evidence is never
replaced (`EvidenceIsImmutable`); without damage a run is refused only for a package that it could not have built
itself (`RefusesOnlyWithCause`); an operator who keeps resuming gets a result, but for one case (`DemoCompletes`,
section 6). Two crashes let the second meet the repairs after the first; damage once, because a run that meets it
either repairs it or refuses, and each kind of file is tried. The number of runs is not bounded. One audio artifact
and one that carries the evidence are enough, because artifacts differ only in whether their bytes depend on how
the run went.

**`episode_assembly`**: the blocks of a document contain each line that is not blank exactly once, in order, and
neither begin nor end with a blank line unless a fence is open; a heading is a block by itself, quotes are with
quotes and items in their list, except where the source says otherwise: a table goes on over any line with a pipe,
a fence hides what is under it, and a list keeps what is indented into its latest item (`BlocksTileTheSource`);
tokens are bound in the order of the script and share no word of it, and repeated ones of one claim go to different
occurrences in that order (`TokensKeepTheirPlace`); segments partition the turns in order, within the renderer's
limit, and none could have taken the next turn too (`SegmentsPartitionTurns`); a package says what its script says:
every segment once and in order, and after the loss of a word only if that word is no negation and no one-word
token needs each of its occurrences (`PackagesAreFaithful`). The 30 shapes of line are the marks the scanner knows
(blank, heading, quote, text, rule, two kinds of item, one without content, two fences, one with an info string,
delimiter row) and, of these, the ones that it treats differently when they are indented by 2, 3, 4 or 7 columns or
have one or two cells; every pair of them is a document, every triple of 23, and every sequence of four of the 7
that open, continue and end lists and fences. The requests vary one field each from one that passes, so that every
refusal is met, and combine limits, lexicon layers, claims and anchors where these interact. Deadlock is not
checked: a request ends packaged or rejected.

Type invariants are theorems (`TypeCorrect`, section 5), and most runs spend their time on the other properties.
For `EpisodeAssembly` the proofs state what types they need in their own invariants (`ScanTypeOK`, `InputInv`,
`BoundInv`).

## 4. Fairness

`DurableRender` and `RenderActivity` assume weak fairness of each started call (`FairSpec`): the event loop runs
its tasks, the kernel grants a free file lock, and provider calls have timeouts. No fairness is given to starting a
call, crashing, or damaging a file; a call whose process died has settled. Both runs leave out behaviours that only
rename others (`UpToNames`: two tasks of one process start in their order, and the list of the third execution is
called k1). Symmetry sets would not do with liveness; this constraint does, since it cuts only steps that start a
call, and no fairness asks for one. `EpisodeWorkflow` gives weak fairness to the server (dispatch, timeout,
workflow tasks, answers to clients) and none to activity workers: they may die or hang for ever, and the timeouts
(`start_to_close_timeout` of 30 s, with a retry policy) still end every take. `CommandApi` has no liveness: a
request may always be lost. `Publishing` gives weak fairness to the steps of a thread that is in a call (no adapter
waits for the outside), and none to starting one. `ReferenceDemo` gives weak fairness to the steps of a run and
strong fairness to `Start(r, TRUE)`, the operator who resumes again and again with each renderer; nobody can
promise that but the operator, which is why `DemoCompletes` says so. `EpisodeAssembly` has no liveness: it is one
pass through the stages.

## 5. Proofs

Eight modules hold proofs, for every value of the constants, from the named assumptions only (`...Assumption` in
each module: types, order and distinctness of keys, numbers that are positive, and that the "nothing" value is not
a real one):

| Module | Theorems | For every |
|---|---|---|
| `DurableRender_proofs` | `TypeCorrect`, `OneSpenderHolds`, `OneCostEventHolds`, `AnswersAreDurableHolds`, `NoDispatchAfterRecordHolds`, `SpendBoundedHolds`, `KeepsPromiseHolds` (refinement of `RenderEvidence`) | set of calls, processes, takes, artifacts; order of keys; pool size |
| `RenderActivity_proofs` | `TypeCorrect`, `VerdictsAreBackedHolds`, `VerdictsAgreeHolds`, `RecordsAreFinalHolds`, `CallsBoundedHolds` | set of executions and processes, takes, token lists, transcripts |
| `EpisodeWorkflow_proofs` | `TypeCorrect`, `ResultsAreDurableHolds`, `EpisodeAddsUpHolds`, `AcceptsOnlyTheBestHolds`, `RepairsOnlyFailuresHolds`, `FailureIsHonestHolds`, `OutcomeIsFinalHolds` | number of clients, segments, attempts, tries; set of takes and verdicts; order of ids |
| `CommandApi_proofs` | `TypeCorrect`, `KeysBindOnceHolds`, `AnswersAgreeHolds`, `EpisodesAreReceiptedHolds`, `PublishedArePackagedHolds`, `ReplaysAreNotRefusedHolds`, `KeepsLifecycleHolds` (refinement of `EpisodeLifecycle`) | set of requests, workers, keys, sources, packages |
| `Publishing_proofs` | `EffectsHappenOnceHolds`, `FeedListsReceiptsHolds`, `PublishedBytesAreExactHolds`, `ObjectsStayReadableHolds`, `TypeCorrect` (of the service and all its adapters) | set of threads, keys, targets, packages, menus, contents, shards and clients of the store; number of calls and crashes |
| `ReferenceDemo_proofs` | `TypeCorrect`, `ResultIsBackedHolds`, `RefusesOnlyWithCauseHolds`, `EvidenceIsImmutableHolds` | set of renderers and artifacts; number of segments, takes, crashes, damages |
| `EpisodeAssembly_proofs` | `BlocksTileTheSourceHolds`, `TokensKeepTheirPlaceHolds`, `SegmentsPartitionTurnsHolds` | set of requests: documents, scripts, lexicon layers, claims, repairs and limits of any size; vocabularies |
| `EpisodePackages_proofs` | `PackagesAreFaithfulHolds` | the same, and what each word of a number or unit sounds like; order of the takes; place of the fault |

Beside types and the "nothing" values, these are assumed: the record of an update is none of a package's files
(`FilesystemAssumption`), the audio is one of them (`RssAssumption`), an open block is not "nothing"
(`SourceAssumption`). What callers ask for has the types the code's constructors check: keys of pronunciations and
overrides are not empty, the category of a pronunciation is one of four, which negation is not, and the shortest
audio that mastering accepts is not silence (`RequestsAssumption`). Numbers, units and negations are different
words, as the patterns of `tokens.py` have it, the negations that are counted are among those that are extracted,
and numbers and units sound like something (`CriticalTokensAssumption`).

*Render service.* The properties are not inductive: they speak of what calls hold, and say nothing of who holds a
claim. The invariant `IndInv` adds that a claim is held by a running call for a take of its window (`ClaimInv`),
that from lookup to last save a call holds every claim of its window (`AllClaimed`), and that what a call knows of
a take is therefore the take's record (`KnowsRecords`): nobody else can write it. A record names the call that paid
(`FreshIsRecorded`), so two callers cannot both have been charged. The refinement maps a save to `Persist`, the
release of the last claim to `Answer`, and everything else to a stutter. The bound on spending follows from what
has become of each payment (`PaidInv`): whoever paid for a take is storing the answer, or has made it the take's
record, or has failed or died. Of two payers that have lost nothing neither can have recorded while the other is
storing, since the claim keeps writers apart, and a record has one author: they are one.

*Render activity.* `IndInv` says that an execution past its render was delivered the evidence of its take
(`DeliveryInv`, from the promise of `RenderEvidence`), that it works on a transcript only under the file lock, and
pays for one only if there is none (`ClaimInv`), that what it has heard is the transcript on record, or the one it
is about to store (`HeardInv`), and that transcripts and qualities were made from the records they name
(`TranscriptInv`, `QualityInv`). Agreement follows although executions share no state but the records. `PaidInv`
strengthens it for the bound on transcriptions, by the same argument as above: an execution calls the transcriber
once, and after that it is storing the answer, has recorded it, or has failed or died.

*Episode workflow.* `IndInv` ties the server's view to the tries (`PhaseInv`: a result exactly when closed, a try
left unless closed), says that whoever has evaluated or saved has the take's one verdict (`VerdictInv`), and that
decisions are as many as segments (`EpisodeAddsUp`). Durability then makes a statement about `result` one about
`verdict`, which is what the action properties speak of: the first error in take order exists because the naturals
are well-founded (`FirstTake`), so that the terminal code is the error of some take (`TerminalErrorIsRaised`).

*Command API.* `IndInv` says of a write that is under way that it is at most one version ahead of the row, and that
if it is, it was made from the row as it is now (`PendingInv`): versions only grow, so a write whose version fits
has not been overtaken. With that, each row is at the stage of its version with the evidence of its stage
(`RecordInv`), a checked publish stays publishable because evidence is never taken back (`CallInv`), and answers
are receipts on record (`AnswerInv`). A successful `Replace` is one step of the lifecycle, a create is its
beginning. `CreateInv`, on top, follows a create from its first transaction to its second. That replays are not
refused is a matter of one step: only the one after the lookup refuses, and it looks for the receipt in the same
transaction in which it decides.

*Publishing.* `KeyInv` says that a thread's step belongs to its operation (`CallInv`), that a thread inside a call
holds the lock of its key and that a key being published has no receipt (`LockInv`), and that what has happened
once has left a receipt or an attempt (`OnceInv`). A crash starts the count anew, because receipts are in memory.
`KindInv` adds that a publication goes through the steps of its target's adapter only, so that each adapter has an
invariant of its own.

*Files.* Nothing locks a destination, so a receipt is true for another reason: `rename` replaces nothing that has
files in it, a publication that finds its destination compares it file by file, and only a delete takes files away.
`FileInv` says that a receipt, or a publication, whose key no delete has touched has nobody deleting at its
destination (`ReceiptInv`, `WriterInv`), that a publication has agreed with each file it has compared, and with all
of them when it is done. The comparison goes on while others rename and write, because what it has seen stays.

*Feeds.* A thread that has met no other in the adapter builds its feed from the items as they still are when it
stores it (`AloneInv`), so that what such a thread stored last is what there is (`ServedInv`); and the items are
those of the receipts and of the publications that are about to get one (`ItemsInv`). With nobody in the adapter,
the two give `FeedListsReceipts`.

*Object store.* `ReadInv` says that the shard of every object exists, and that a shard which is held open does and
is the one of the file at hand, because pruning takes only empty ones and the handles of those with it
(`ShardInv`); that a put no removal has crossed shares its object with no removal and keeps what it has linked
(`CrossInv`); and that nobody is removing what is kept (`KeptInv`). The last two hold each other up: a link adds to
`kept` what `CrossInv` says is there, and a removal leaves both as it begins. The attempt to prove type correctness
beside it failed for a reason: the type of `finals` read `SUBSET ObjectRef \cup {Nothing}`, which is `SUBSET
(ObjectRef \cup {Nothing})`, and no run had noticed since none gave it as an invariant. It is corrected.

*Reference demo.* `IInv` says what a resumed run knows of the result it found (`ReplayInv`), what is on disk after
each step of a run whatever was damaged (`CommitInv`), and what more is there while nothing was (`TidyInv`).
`ResultIsBacked` follows because each stage checks or writes what the next relies on.

*Blocks.* `BlocksTileTheSource` speaks of a scan that has ended. Before, `TileInv` says, each line behind the scan
is blank, in a block, or in the open block (`CoverInv`), the blocks found so far are tiles in order (`TilesInv`),
and what the open block may hold follows from its kind (`OpenInv`): a code block has not been closed after its
first line yet; a list knows the fence that is open in it (`HasFence`) and the column of its latest item
(`HasItem`), so that a heading or a quote in it is under the one or the other; a table took its headings for their
pipes; and when the line before the scan is blank, either a fence is open or more of the list is ahead (`IsAhead`),
which is what the lookahead over blank lines has found out. So a list that ends does not end with a blank line: the
line ahead would have continued it.

*Tokens.* `TokenInv` says that no two matches found so far share a word, structural ones because a unit has its
number before it and words are of one class (`StructuralFacts`), merged ones because a merge refuses every overlap
but one (`MergeFacts`); so the next match begins after all that are bound (`BoundInv`). Its place in the claim is
at or after the start of the search (`FindSpanFacts`), and that is after the last of its kind, because those before
it have kept their place (`SearchFromFacts`): the property is part of its own invariant. When extraction and
binding were folds over the matches, none of this could be stated about a step; as loops they are as the code has
them.

*Segments.* Until the last turn is taken, the segments found so far follow one another up to `NextTurn`, each is
within the limit, and the first turn of the next would have broken it (`IsSegment` in `SegmentInv`); widths are
differences of places in the script (`Width`), so that the sum over a segment's turns never has to be taken. That a
token belongs to one segment is an argument of another kind: anchors that are cited later lie behind those cited
earlier, and a token is inside exactly one of them (`IsChecked`), so no anchor of another segment overlaps it; and
it is not empty, because a phrase that was found has a word (`SaidInv`). `SaidInv` ties a token to what the script
says in its place, `RefusalInv` says where a request can be refused, and all four make `ScriptInv`.

*Packages.* `AudioInv` says, stage by stage, what the takes, the master and the transcript are. Takes come in any
order, but a list of parts sorted by positions that are all different and go from 1 to their number is the list of
segments (the order is an injection of an interval into itself that grows), so the master is `ScriptSpeech`: the
words of consecutive segments, appended, are the words of the whole script (`FlattenParts`). In it each token has a
place of its own, one after the other; tokens of one phrase therefore map one to one into the phrase's occurrences,
and only an occurrence after a negation is not counted. Negations heard and expected are as many, because each
negation of the script is inside a token (`NegationsAreCovered`), which holds from extraction through merging to
binding. A word more or less changes the count of negations by one if it is one, and the occurrences of the
one-word phrase that it is by one (`OneMore`).

*Induction over data.* What `FlattenSeq` yields is needed by both, and the library's induction theorems cannot be
instantiated. The module states induction over numbers about a set instead of a predicate: numbers that are bounded
below have a least one (`LeastNumber`, from the well-foundedness of the naturals), hence a set that has the first
and with each its successor has all (`Induct`). With it, `FlattenSeq`, sums of lengths and the cardinalities of
counted places are followed along the sequence.

Every safety property of the passing runs is a theorem, beside `TypeOK` of two of them, which `TypeCorrect` proves.
Only model-checked is liveness (`EveryCallSettles`, `EveryExecutionSettles`, `EveryClientAnswered`, `CallsEnd`,
`DemoCompletes`): fairness and ENABLED are out of the prover's reach.

## 6. Disagreements found

Five runs end in a counterexample; `PROJECT.json` quotes the text each contradicts.

1. `audio/render.py:103`: a claim is waited for in, and released through, the same default executor. When as many
   tasks of a process wait for a key as there are pool threads, the holder cannot release it and all of them hang.
   The pool has `min(32, cpus + 4)` threads; `runtime.py` does not limit the concurrent activities of the worker.
2. `audio/storage.py:330`: when two executions save the same quality under a cache key, the loser reads the record
   by the wrong name and fails for good, although both agree.
3. `audio/activities.py:71`: an `OSError` while the claim file is opened leaves the process lock locked.
4. `audio/workflow.py:564`: of several errors of an attempt only the first, in take order, decides; a transcription
   error hides a malformed artifact and the segment is repaired.
5. `persistence.py:582`: a key identifies one command of the tenant, not one of an episode and command as
   documented.

Limits the models show and no document denies, so that no run reports them (the properties name the exceptions
instead):

- *API.* A repeated publish whose episode has failed since is refused, because only render looks for its receipt
  before its gate. A publish that was checked before its episode failed is accepted after it:
  `PublishedArePackaged` asks for QA and package, which a failed episode keeps, and not for its stage.
- *Render service, render activity.* The bounds on payments speak of payments that were lost, and a filesystem
  error between an answer and its record loses one as a crash does.
- *Publishing.* `read` takes a missing sidecar in an existing shard for damage, which the S3 adapter raises
  (`publishing.py:474`): an object that is new in a directory that is not cannot be published through S3, though
  `put` would store it. The rollback of a failed S3 publication drops references of an earlier one to the same
  target (`:486`), and nothing reads them. `rmtree(ignore_errors=True)` reports a delete that left files behind
  (`:416`), and with part of a destination there, later publications to it are refused. The same bytes under
  another name are a sidecar conflict. An RSS item knows its audio by length only. Overlapping RSS publications can
  leave an episode out of the feed until the next one. The scan of the attempts may meet a dictionary that grows
  and raise (`:747`). `mkdtemp` fails outside of the `try` when its parent was pruned (`:348`).
- *Reference demo.* After a crash between manifest and result in a run whose first render was rejected, no later
  run can build that package again and all are refused (`Orphaned`). A rerun without `resume` after such a
  completed run is refused too. A replay does not look at `usage.json`.
- *Content.* Spans are found letter by letter, so a token may be bound inside another word ("no" in "now"). A claim
  wider than its anchor may bind a token to an earlier occurrence, of another turn's. A token of several words that
  crosses a line break only in source or script passes preparation and can never be packaged. Pronunciation
  overrides of a document apply whether or not the profile lets documents override.
- *Fidelity.* A token right after a negation never passes, also where a segment ends with the one and the next
  begins with the other. Without critical tokens an inserted negation goes unnoticed; "none" is extracted as a
  negation and not counted as one. A token said inside another's phrase may cover one that was lost.
  `PackagesAreFaithful` names the loss of one-word tokens; that of a word of a longer phrase is left to the check,
  which looks for whole phrases.

## 7. What is not modelled

- Of the modelled parts: damaged record files (they end a call like damaged artifacts); the thread pool in
  `RenderActivity` (finding 1 covers it; the run takes the pool to be large enough); a try that still runs when its
  take is closed, and records of past attempts (their keys are never read again); requests refused before they
  write anything; more than one tenant. The worker `runtime.py:95` builds scores locally, without a transcriber or
  quality records: that form of the activity has neither claim nor records beyond the render service's, and is not
  modelled apart.
- `Publishing`: refusals for authorization or by a receipt of another process change nothing; one tenant and
  project; directories above the parent and the shard, which are made and pruned the same way.
- `ReferenceDemo` and packages: one process at a time (the demo writes temporaries under fixed names); two package
  committers at once, so that `EvidenceIsImmutable` and `KeepsLifecycle` say nothing of the manifest that the first
  of them wins (`packages.py:292`); the bytes of the files.
- Content and assembly: the mapping-based compatibility adapters (`content/service.py:475` to 854,
  `content/lexicon.py:83` to 150, `content/segmentation.py:256` to 326), text normalisation, the vocabulary of the
  token categories (number, unit and negation stand for single words, phrases and negations), two occurrences of a
  form inside one word, what a crossfade does to the words that it overlaps, URL intake; wording, rounding to
  milliseconds and layout of VTT, chapters and notes; loudness; more than one fault of a transcript.
- The in-memory repository and dispatcher: process-local twins used by tests and the default app.
  `LocalEpisodeWorkflowService` is part of `ReferenceDemo.RenderTake`.
- The migration of a legacy usage table (`persistence.py:267`): it runs once per database and shares no state with
  what is modelled.
- Provider routes and evidence rules: a choice over a validated table without a step between two reads; what is
  chosen is external to the modules.
- Provider adapters, renderers and FFmpeg: external behaviour, which the modelled callers see as an answer, an
  error or a timeout. Wiring, configuration, readiness, CLI, MCP, wording of prompts and reports: no state that
  lasts, or data no property is about.

## 8. What is next

1. Two package committers at once, and `PackageStore` as a refinement of a write-once manifest.
2. `UsageLedger`: the migration whose rename is committed before the copy.
3. Route choice under a cost ceiling, with a reference definition.
