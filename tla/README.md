# ProvenLoop in TLA+

ProvenLoop records what happens in a coding agent's sessions, turns it into
canonical facts in a local SQLite database, builds knowledge from the facts and
gives it back to later sessions. Its value rests on promises that no single
process keeps alone: an event is not lost and becomes one fact however often it
is delivered; what the user deletes is gone for good, with all that was derived
from it; the search says what the store says; a model's lessons yield to the
user; an upgrade that fails gives back what it took. These promises cross
several processes, a directory of files, a database and a host program, any of
which may stop between two steps. This directory models them, checks them with
TLC on small instances, and proves the central ones with the TLA+ proof system
(TLAPS) for every instance.

Paths in this file are relative to `src/packages/`.

## Inventory

| Component | State | Operations | What makes it correct |
| --- | --- | --- | --- |
| Capture writer and buffer (`copilot-adapter/src/async-writer.ts`, `capture-buffer.ts`), inside the Copilot extension | buffered events, gap records, draining and scheduled flags, retry timer | `submit`, `flush`, `stop`, the drain and its retries | never blocks a callback; every event that is given up is counted by a gap record; accepted events are stored once and in order; work is never forgotten |
| Durable capture queue (`platform-windows/src/capture-queue.ts`), a directory several processes open | item files, source indexes, `.active` and `.acknowledged` names, deletion barrier, tombstones, reset cutoff | enqueue, claim, acknowledge, retry, dead-letter, recover, prune, barrier, block, delete, clear, initialize | a crash or write error between any two file operations amounts to a step of the one-step queue, or none |
| Capture worker (`host/src/capture-worker.ts`, `cli/src/run-worker.ts`) | the run in progress, `projection-dirty.json` | prune, recover, claim, ingest, settle, project, unmark | at-least-once delivery with one fact per event; a stopped run leaves the marker for the next |
| Canonical store (`storage-sqlite/src/canonical-store.ts`) | raw events by deduplication key, parser errors, deletion operations, tombstones, learning tables, knowledge, ... | `ingestQueueItem`, deletion operations, projections, learning, restore, reset | each call is one transaction; a deleted identity does not come back |
| Deletion service (`host/src/deletion-service.ts`) | the call in progress; the operation and its plan in the store; the barrier in the queue | `delete`, resumed after any failure | what a completed deletion erased stays gone, with everything that names it; one operation at a time; capture resumes |
| Capture retention (`host/src/capture-retention.ts`) | a plan | plan, apply (through `delete` with a preflight) | only closed, unreferenced sessions go; the plan is checked again under the barrier |
| Process leases and maintenance (`platform-windows/src/process-lease.ts`, `upgrade-maintenance.ts`) | named pipes the operating system closes with their process; a maintenance file | acquire, release, wait, begin and end maintenance | one holder; a dead holder holds nothing; nobody changes the database while an upgrade migrates |
| Projectors, marker and knowledge index (`host/src/*-projector.ts`, `retrieval/src/projection.ts`) | episodes, corrections, knowledge, FTS index, dirty marker | rebuild, synchronize, mark, unmark | the index has what is due, or there is a mark; no writer overtakes another |
| Records reset (`cli/src/reset-records.ts`) | a journal file, cutoffs in queue and store | resumable clear of store, queue and index | a reset that began is finished before capture resumes; nothing from before its cutoff returns |
| Backup and restore (`canonical-store.ts`) | `<database>.restore.lock`, generation file | restore, rollback, recovery by hand | nobody uses a database that is half restored; what the user decided survives |
| Adapter (`copilot-adapter/src/copilot-cli-adapter.ts`, `operational-state.ts`, `refresh-plugin-files.ts`) | plugin and marketplace registration, adapter state, a borrowed host setting, runtime locator | install, upgrade, enable, disable, uninstall | a failed upgrade gives back what it took; the setting is returned |
| Session registry (`platform-windows/src/extension-lifecycle.ts`) | markers and leases of running sessions, a shutdown request | register, shut down, cancel | nobody is inside while something is replaced |
| Extension runtime (`copilot-adapter/src/extension-runtime.ts`, `event-mapper.ts`, `extension-entry.ts`) | workspace and its generation, refresh in progress, tool calls, capabilities | handle event, refresh workspace, shutdown, restart | an overtaken refresh does not overwrite newer context; evidence is of where its tool ran |
| Trusted context (`copilot-adapter/src/trusted-session-context.ts`, `cli/src/run-mcp-server.ts`) | a file with the workspace and the user's approval | publish, believe, propose, approve, apply | what is published is current; feedback is applied only as approved |
| Reconciler (`copilot-adapter/src/capture-reconciler.ts`, `cli/src/reconcile-capture.ts`) | cursor, pending tool calls and repairs, observation window | re-read a session's file, enqueue what is missing, enrich what is poor | takes all that was observed and nothing else |
| Automatic learning (`host/src/learning-coordinator.ts`, `cli/src/run-learning.ts`, learning tables) | marks, prompt work, jobs with state, attempts, deadline and expiry; daily budget | mark, schedule, reserve, infer, commit, archive | no change is forgotten; attempts are bounded; no late or superseded result is committed; no model works on what was erased |
| Lessons and discovery (`canonical-store.ts`, `host/src/discovery-enrichment.ts`) | lessons, conflicts, notices, descriptions | commit, dispute, replace, archive, revive, announce, describe | an answer yields to the user; a lesson is announced once and described as it is |
| Episode, correction and knowledge builders (`domain/src`) | none: functions of the log | group sessions, find corrections and opportunities, build and admit knowledge | grouping does not depend on the mode; knowledge does not prove itself |
| Knowledge control (`host/src/knowledge-control-service.ts`, projectors) | knowledge rows, feedback, receipts | rebuild, review, revoke, replace, remember, mute | only allowed transitions, whatever the worker read before |
| Retrieval (`retrieval/src`) | what was returned to a session | search page by page, revalidate, record use, take feedback | an answer is sound though the index moves; nothing is given twice |
| Circuit breaker, inference supervisor, contracts, evaluation, testkit, plugin assets | - | - | not modelled, see below |

How they interact. Copilot's callbacks call `submit`; the writer's drain, the
reconciler and the adapter's self-test put events in the queue; the worker
process, which holds the capture-worker lease, claims them, calls
`ingestQueueItem` and settles the claims, and then rebuilds projections from the
events under the knowledge-projection lease. That lease is shared by everybody
who publishes the index: worker, learner, the user's control and an upgrade.
The deletion service runs in a command-line process and stops the others by a
barrier file in the queue and by the status of its operation in the store. A
learner run holds a lease of its own, which a deletion takes for a moment before
it erases anything. Sessions read the index through a read worker and check
every row against the store. An upgrade asks the registered sessions to stop,
waits until they have, and holds the registry until it is done. Nothing else
synchronises these processes.

What is hard about it: several processes at one directory with only file
operations as atoms; a crash between any two of them; delivery that repeats;
claims that expire under a live run; rows read, worked on for seconds and
written when they have changed; a marker that says only that it exists; calls
that die at any point and are resumed by another; timers and answers that come
late. `PROJECT.json` lists these hazards at their lines, with the properties
that address each, or the reason why none does.

## Modules

| Module | Models | About |
| --- | --- | --- |
| `CaptureIdentities` | - | the constants the capture modules share: source keys and deletion ids |
| `CaptureDelivery` | - | abstract specification: what capture promises for an event that is durably queued |
| `CaptureQueue` | `capture-queue.ts` | one step per operation; the contract the rest builds on |
| `CaptureQueueFiles` | `capture-queue.ts` | the same operations as sequences of file writes, with crashes and write errors; implements `CaptureQueue` |
| `CanonicalStore` | `canonical-store.ts` | raw events, parser errors and deletion operations, one transaction one step |
| `CapturePipeline` | `capture-worker.ts`, `run-worker.ts` | composes queue and store under a worker run; implements `CaptureDelivery` |
| `Deletion` | `deletion-service.ts`, `run-worker.ts` | composes a `delete()` call with the pipeline |
| `CaptureWriter` | `async-writer.ts`, `capture-buffer.ts` | the producer inside the extension |
| `KnowledgeProjection` | `run-worker.ts`, `run-learning.ts`, `knowledge-control-service.ts`, leases | marker, leases and index, and everybody who uses them |
| `KnowledgeSearch` | `retriever.ts`, read worker | a search of that index |
| `RecordsReset` | `reset-records.ts` | the journalled reset |
| `CanonicalRestore`, `ExtensionSessions` | `canonical-store.ts`, `extension-lifecycle.ts` | restore and its journal; the registry of sessions |
| `CopilotAdapter` | `copilot-cli-adapter.ts`, `operational-state.ts` | composes both with the commands of an installation |
| `LearningJobs` | `learning-coordinator.ts`, `run-learning.ts`, learning tables | a learner run beside capture, deletion and the switch |
| `LearnedLessons` | `canonical-store.ts`, `discovery-enrichment.ts`, `run-learning.ts` | what becomes of a model's answer |
| `ErasureClosure` | `canonical-store.ts`, `deletion-service.ts` | what goes with what is erased |
| `VerificationProof`, `EpisodeBuilder`, `CorrectionCapture`, `KnowledgeAdmission`, `KnowledgeLifecycle` | `domain/src` | the builders, as operators over a log of events |
| `Knowledge` | projectors, `knowledge-control-service.ts`, `context-service.ts` | composes them: captured, built, recalled, judged |
| `EventMapper`, `ContextPublisher`, `ExtensionRuntime` | `copilot-adapter/src`, `extension-entry.ts` | the extension's process, each on top of the one before |
| `SessionContext` | `run-mcp-server.ts`, `trusted-session-context.ts` | composes it with the MCP server and the user |
| `CaptureReconciler` | `capture-reconciler.ts`, `reconcile-capture.ts` | recovery from the session's file |
| `MC...` | - | values of the constants for TLC, and state constraints |
| `...Proofs` | - | the theorems, see below |

### CaptureQueue and CaptureQueueFiles

`item`, `source`, `barrier`, `blocked` and `cutoff` are the files' contents as a
caller can tell them apart: an item's state, attempts, failures, holder and
whether its deadline has passed; for a key, the item a valid index names. Times
are not numbers: `elapsed` is the one fact the code tests (the claim expired,
the retry is due, the acknowledged item is older than the retention). Each
public method is an action with its name. A bulk operation takes the set of
items it reached, so that one that stopped half way is a step too.

`CaptureQueueFiles` opens an operation into the order of its writes. `op` is the
operation that holds the queue's lease: the record says which item is at hand
and, in `pc`, which file is written next. `Crash` ends the operation and the
process' memory at any point, and `WriteError` makes the next write throw, with
what the code does in its `catch`. Its refinement mapping is `source <-
ValidSource`: an index file that names no item of its key counts as absent,
which is how `#validatedSourceIndex` reads it.

### CanonicalStore and CapturePipeline

The store's `raw` is the row of a deduplication key. `Kind` fixes per key how
ingestion classifies its envelope, which depends on the envelope alone.
`run` is what `runCaptureWorkerOnce` has in memory: the claim (`id`, `worker`,
`attempts`), the store's answer (`result`), and `marked` for `projectionMarked`.
`pc` names the awaits: between two of them another process may act. `Transition`
gives the three outcomes of a queue call: it succeeds, it throws before or after
its write took effect, or it throws because the claim is not active any more.
`dirty` is `projection-dirty.json`, `projected` the events the projections were
built from; they are read (`ReadEvents`) and written (`WriteProjections`) in two
steps. `EndBatch` stands for every way out of the loop: batch size, no item,
capture disabled, circuit breaker.

### Deletion and ErasureClosure

`del` is a `delete()` call: the id it was given, the operation it works on, and
where it is. The steps are the awaits of the code. `DeadBarrier` is the recovery
at the start of a call; a `checked` call is the retention's, whose preflight runs
behind the barrier before there is an operation. `DeleteFails` is every `catch`,
`DeleteCrashes` the death of the process. The gate's evidence is represented by
what it asserts, `Remaining`, which looks for items of the target that the queue
holds (`Held`) and rows the store has.

`ErasureClosure` is the store's half in detail: which rows follow from a source,
a session, an episode or a piece of knowledge, the plan that is written into the
operation before the erasure and that a resumed call goes on from, the rebuild of
what can be rebuilt around the hole, and what the gate looks for. Rows are
records of what they refer to (`stored`), a reference is a kind and an id;
`operation` is the operation that is not completed and `call` where delete() is in it.
What is followed on and on (events that refer to selected ones, proposals reviewed
against forgotten lessons, rows that name lost ones) is `Reached` from a set along
edges. The queue and the barrier are left to `Deletion`.

### CaptureWriter

An action is what one callback does between two awaits. `draining` says what the
drain awaits; `held` is the gap it has taken out of the buffer meanwhile. Sizes
come from constants; whether a gap record fits `maxGapBytes` is a choice, so
both branches are taken. `submitted`, `degraded`, `lost`, `late`, `stored` and
`reported` record the history the properties speak about. An `enqueue` that
throws has published nothing, because the rename is the last thing `#write` does
for a pending item.

### KnowledgeProjection and KnowledgeSearch

`KnowledgeProjection` is about when the index is published. `at` says where each
actor - worker, learner, the user's control, an upgrade - is, `lease` who holds
which lease, `read` the rows an actor has read to publish them, `change` the row
it has changed and not yet marked or published. `marker` is a file anybody may
write and only the worker removes, without looking at what it says: that is the
hazard. An actor that dies loses its leases and its memory.

`KnowledgeSearch` is about reading the index while that happens. A request's
routes are asked page by page (`readWorker`, `reads`); the worker may time out,
break and be replaced; each page is checked against the store when it comes and
once more before it is answered. `MCKnowledgeProjection` gives a behaviour to one
of the two (its variable `part`).

### RecordsReset

`reset` and `del` say where the two calls are, `journal` what the reset's file
says, `queueCutoff` and `storeCutoff` are the two records it leaves, `generation`
what makes an open handle stale. `reader` is any process with the store open. Events have
a time, and are captured, ingested and projected beside the reset.

### CanonicalRestore, ExtensionSessions and CopilotAdapter

A `CopilotAdapter` command is a sequence of host commands and file writes; `cmd`
is what it has in memory, with the place it is at. What the host and the files
say is in variables of their own, so that a command that dies leaves them as they
are. `CanonicalRestore` gives it the database file and the restore's journal as
the steps between which a process may die; `ExtensionSessions` gives it the
markers, leases and the shutdown request. `wish` (what the user had set) and
`unowned` are history.

### LearningJobs and LearnedLessons

A window is what the code calls one: a prompt, or an agent's summary, with the
events around it. `content` is the revision of its sources, `changes` and `work`
are the tables `learning_event_changes` and `learning_prompt_work`, `jobs` the
latest job of each window (an earlier one is superseded for good, and its
attempts and expiry are carried over). `learner` is what `run()` has in memory:
`now` is the time it began at, by which it judges expiry until the model's answer
is there; `left` the page it works off; `seen` the revisions read with it;
`before` the attempts before the call. A step is what the run does between two
accesses to the store that another process may come between; `pc` names them.
`Fail` is the `catch` of `run()`; `transitionLearningJob`, which refuses under a
deletion, is `Transition`. Beside the run, `Capture` marks changes, `Toggle`
switches learning, `Die` ends the process, and a deletion begins, waits for the
learner's lease (`Drain`, the `transientCleanup` of the deletion service), erases
a task and completes. `charged` counts the calls of the model, independently of
the jobs' own `attempts`; `refused` records the windows that were refused a job
because of a deletion.

`LearnedLessons` takes up where a job has its answer. Its variables are the
tables a commit writes. The model is shown the lessons there are, and the commit
judges its answer against what they have become. Its names differ from those of
`Knowledge` (`ProseNext`, `proseVars`, `now` for a clock, `Nothing` for null), since
`MCLessons` extends both. A notice is claimed and
published by another process, and an idle run has a model describe a lesson for
the search, whose sources may change while it does.

### Knowledge and the builders

The builders have no state: they are operators over a log of events, which
`Knowledge` applies in the worker's transactions, one step each. `worker` holds what was computed
and not yet written, so that feedback, reviews and new events come between.
`request` is one session's request for knowledge, `review` what the user was
shown. `MCKnowledge` gives small scripts of sessions: a correction that recurs,
one that is contested, a rule that is remembered, and sessions to be grouped.
`MCLessons` joins `Knowledge`, `LearnedLessons` and `ErasureClosure` in one run;
a behaviour is of one of the three (its variable `side`), which is why no name of
one of them is that of another, and why their proofs share a module.

### EventMapper, ContextPublisher, ExtensionRuntime and SessionContext

They extend each other, as the objects of the extension's process hold each
other. `EventMapper` has the workspace and the operations under way,
`ContextPublisher` the phases of the publisher and its file, `ExtensionRuntime`
the refresh in the background, capability changes and the shutdown that waits
for both, and `SessionContext` the MCP server, which believes the file while the
publisher holds its lease, and the user, whose own message approves. `here`,
`head` and `running` are the truth of the session that the host knows and the
extension learns late.

### CaptureReconciler

A session's file has numbered lines, to which the host appends. `progress` is
what the process remembers between two passes - cursor, pending tool calls,
repairs -, `pass` what a pass has looked at so far. `live` is the copy the live
capture is about to submit, `queue` and `row` where a copy is. `unseen` records
the lines of a time when nothing was to be captured.

## Runs

The passing runs finish with no error. Deadlock is not checked: with every event
submitted and every fault spent the models may rightly stop.

| Run | Instance | Shows |
| --- | --- | --- |
| `pipeline` | 2 items, 2 keys (one supported, one invalid), 2 workers, 2 attempts, 3 faults, fairness | `SettledIsExplained`, `LagIsMarked`, `CommittedKeepsBudget`; `NothingIsLost` and `EverythingIsAnswered`: it implements `CaptureDelivery`, without and with its fairness, and every fact is projected |
| `files` | 2 processes, 2 items of different keys, a barrier with deletion and reset, 1 attempt, 1 fault | `ImplementsContract`: the files implement `CaptureQueue` |
| `deletion` | 1 item, 2 keys, 3 deletions of which 2 have the same target, 2 faults, fairness | `ErasedForGood`, `DeletionsFinish` |
| `writer` | 5 events in 2 workspaces and none, buffer of 2 items or 3 bytes, 2 gap records, 2 faults, fairness | `LossIsAccounted`, `FlushedIsDurable`, `EventuallyDrained` |
| `learning` | 1 window, 2 revisions, 2 tasks to delete, 2 attempts, 2 calls a day, clock to 3, 1 fault, 1 switch, fairness | `NoChangeIsForgotten`, `NoModelOnTheErased`, `AttemptsAreCounted`, `LessonsAreOfTheMoment`, `RunningIsTakenUp` |
| `projection` | 2 events and a lesson, 1 fault, 1 switch, fairness; the search: 3 rules of which 2 say the same, 2 requests, 2 orders of the index, pages of 1, 3 candidates, 2 searches, 1 edit, 1 mishap | `LagIsExplained`, `NoWriterIsOvertaken`, `TheIndexCatchesUp`; `AnswersAreSound` |
| `reset` | 2 events of which one is deleted, clock to 2, 2 resets, 2 faults, fairness | `ClearedStaysOut`, `BegunIsFinished` |
| `upgrade` | all commands, 1 session, a fact and a feedback row, a process of the old runtime, recovery by hand, 2 faults | `NobodyIsInside`, `FailureIsUndone`, `SettingIsReturned`, `WritesAreKept` |
| `knowledge` | 3 scripts of corrections and one of grouping, 2 requests; 3 lessons, 3 wordings, 3 windows, 3 answers; 3 events of 2 linked sessions with 2 jobs, 3 lessons, a rule, 2 deletions; 1 fault each | `GroupingIsSound`, `ReturnedOnce`, `ReplacedStays`, `RefutedIsWithheld`; `ToldOnce`, `DescribedAsItIs`, `ProofStands`, `AnswersYield`; `ErasedIsGone` |
| `session_context` | a directory and a repository, 1 tool, 1 operation, 3 events, 2 calls | `CapturedInPlace`, `PublishedIsCurrent`, `ApprovalsAreHonoured` |
| `reconciler` | 3 lines (a tool's start, its completion, a message), 1 too long, 1 deleted, 2 lines a pass, 1 pending call, 1 switch, fairness | `OnlyTheObserved`, `EverythingIsRecovered` |
| `knowledge_versions` | a topic corrected to A, to B and to A again | **violates** `LatestVersionStands` |

`knowledge_versions` records where code and documentation part. "A later verified
behavior version supersedes the older active version" (`docs/architecture.md:1290`),
but when the user goes back to a behaviour that was superseded, the lifecycle
(`domain/src/knowledge-lifecycle-builder.ts:333-385`) makes its old row active
and `#retainSupersededKnowledge` (`canonical-store.ts:6717-6743`) turns it back
to superseded in the same write: no version of the topic is active any more, and
no further correction to either brings one back.

Each property has a mutant in `PROJECT.json`: a definition of the code with a
plausible mistake in it (an operator named after the definition, marked
`Mutant:` in the module), under which the run finds the property violated.

What the properties except, they name: `NoChangeIsForgotten` the windows in
`refused`, `AnswersYield` lessons just `archived`, `EverythingIsRecovered` the
`refused` repairs, `AnswersAreSound` a search that ended with a route unread,
`OnlyTheObserved` a line taken by a pass that was under way when capture was
switched off, `SettingIsReturned` a setting `unowned`. Each of these is a
behaviour of the code described under [Observations](#observations). In
`RunningIsTakenUp` a job whose deadline lies past the bound of the clock is left
out: the model's time ends before it comes.

Why the bounds suffice. One item of a key and one more of another are enough for
a duplicate, since a key can be published again once its item is pruned. Two
attempts distinguish the last failure from the one before, the last of a task's
budget from the one before; two revisions carry it. `MaxFaults` counts crashes,
failed calls and overtaken claims; two let a second one strike during the
recovery from the first. Four events with content fill a buffer of two and its
two gap records, and a fifth makes them merge. Two events of which the worker
has read one are a projection from a stale snapshot; a lesson beside them is
the row another publisher cares about. Three lines are a call, its answer and one
that follows, of which a pass of two leaves one over. Where a theorem below covers
the property, the bounds only matter to the liveness of the same run.
`MaxClaims` bounds the attempts of an item in `CaptureQueueFiles`;
the constraints `SelfTestsApart`, `Followed` and the symmetry sets keep runs
within minutes and are named in the `MC` modules and the `.cfg`s.

## Fairness

- `CapturePipeline!FairSpec`: the installed entry runs the worker again and
  again, so a run that meets no fault goes on (`WF(RunNext /\ NoFault)`); time
  passes; an item that is claimable again and again is claimed, because a run
  walks the whole `.active` listing in the order of creation (`SF(ClaimNext)`).
  Faults are bounded, so they end.
- `Deletion!DeletionFairSpec`: a call that meets no fault goes on, and the user
  calls `delete` again while the deletion is unfinished. Nothing in the code
  retries a deletion by itself; this is an assumption about the user, and without
  it a failed deletion keeps capture blocked, which the documentation intends.
- `LearningJobs!FairSpec`: time passes (`WF(Tick)`) and a run that can take a step
  takes one (`WF(Run)`); the extension starts runs every little while. The property
  itself assumes that learning stays on and deletions are brought to their end.
- `CaptureWriter!FairWriterSpec`: Node runs the callbacks that are due and an enqueue
  comes to an end, with a result or an error.
- `KnowledgeProjection`: the worker is started again and again and goes on
  (`WF(WorkerStep)`); nothing is assumed of the others.
- `RecordsReset!FairSpec`: a call goes on, events are ingested, and a reset whose
  journal stands is called again (`SF`): the journal blocks capture, and every
  command says so.
- `CaptureReconciler!FairReconcilerSpec`: passes are started by the extension's timer and go
  on; capture hands over what it has; the user's deletion is brought to its end.
- `CaptureQueueFiles!FairSpec` and `CopilotAdapter!FairSpec` state what their
  operations would need; no run uses them.

## Proofs

A module `<M>Proofs` holds what is proved of `<M>`, and `CanonicalStoreProofs` what is
proved of `Knowledge`, `LearnedLessons` and `ErasureClosure`, for every value of the
constants that satisfies the named `ASSUME`s: any sets of events, items, keys,
deletions, sessions, rows, any budgets and any number of faults. Each safety
property is derived from an inductive invariant, which TLC checked on the
instance of the run before it was proved. The assumptions say only that special
values such as `None` are not members of the sets they stand beside, that maps
given as constants (`Kind`, `Target`, `Task`, `Completes`) are functions of the
right type, that limits are positive, that a turn of a session has events, that
events, jobs and associations are finite in number, and that ids of different kinds
differ. TLC evaluates them in every run whose module has them.

| Module | Theorem | States |
| --- | --- | --- |
| `CaptureFilesProofs` | `FilesImplementContract` (of `CaptureQueueFiles`) | `ImplementsContract`: the sequences of file writes, cut short anywhere, implement `CaptureQueue` |
| | `OnlyTheObservedIsTaken` (of `CaptureReconciler`) | `OnlyTheObserved` |
| `CapturePipelineProofs` | `SettlementsAreSound`, `LagIsAlwaysMarked`, `TypesAreCorrect`, `RunsAreHonest` | `SettledIsExplained`, `LagIsMarked`, and parts of the invariant |
| | `BudgetIsKept`, `DeliveryIsImplemented` | `CommittedKeepsBudget`; `NothingIsLost`, the refinement of `CaptureDelivery`'s safety part |
| | `ErasureIsForGood` (of `Deletion`, which extends it) | `ErasedForGood` |
| `LearningProofs` | `ErasedIsLeftAlone`, `ChangesAreRemembered`, `BudgetIsHonest`, `LessonsAreTimely` | `NoModelOnTheErased`, `NoChangeIsForgotten`, `AttemptsAreCounted`, `LessonsAreOfTheMoment` |
| `KnowledgeProjectionProofs` | `LagIsAlwaysExplained`, `NobodyIsOvertaken` | `LagIsExplained`, `NoWriterIsOvertaken` |
| | `AnswersAreAlwaysSound` (of `KnowledgeSearch`) | `AnswersAreSound` |
| `RecordsResetProofs` | `ClearedNeverReturns` | `ClearedStaysOut` |
| `CanonicalStoreProofs` | `RepliesDoNotRepeat`, `ReplacedKnowledgeStays`, `RefutedKnowledgeIsWithheld` (of `Knowledge`) | `ReturnedOnce`, `ReplacedStays`, `RefutedIsWithheld` |
| | `ToldAtMostOnce`, `DescriptionsAreOfTheLesson`, `AnswersAlwaysYield`, `LessonsAreTyped` (of `LearnedLessons`) | `ToldOnce`, `DescribedAsItIs`, `AnswersYield`, `TypeOK` |
| | `ErasedStaysGone` (of `ErasureClosure`) | `ErasedIsGone` |
| `CopilotAdapterProofs` | `NobodyIsEverInside`, `FailureIsAlwaysUndone`, `SettingIsAlwaysReturned`, `WritesAreAlwaysKept` | `NobodyIsInside`, `FailureIsUndone`, `SettingIsReturned`, `WritesAreKept` |
| `ExtensionProofs` | `CaptureIsInPlace`, `PublishedIsAlwaysCurrent`, `ApprovalsAreAlwaysHonoured` (of `SessionContext`) | `CapturedInPlace`, `PublishedIsCurrent`, `ApprovalsAreHonoured` |
| | `LossIsAlwaysAccounted`, `FlushedIsAlwaysDurable` (of `CaptureWriter`) | `LossIsAccounted`, `FlushedIsDurable` |

Each module also has its invariant as a theorem (`InvariantHolds`,
`DeletionInvariantHolds`, `JobsAreInOrder`, `WriterInvariantHolds`,
`SearchInvariantHolds`, `ReconcilerInvariantHolds`, `KnowledgeInvariantHolds`,
`LessonsInvariantHolds`, `ErasureInvariantHolds`).

**The queue's files** (`IInv`). An operation chooses its items by a scan and
writes them one by one; the one-step queue chooses and writes at once. So the
invariant says of the operation that holds the lease (`OpHolds`) what it found
when it began and still relies on: nothing else writes the files while it holds
the lease, and no deadline passes between two of its writes, so what a scan chose
- expired claims, old acknowledged items, a claimable one - is still so at each
rewrite. A source is reserved before its item is published (`Enqueuing`),
tombstones are written before the first item is unlinked and what is left of the
deletion is exactly its list (`Deleting`), and an index about to go has no item
(`Emptied`). A step then either changes nothing the contract sees or is one of
its actions: the rename of an item is its enqueue, claim or settlement, or a
recovery of that one item; an unlink is a pruning or deletion of one item; the
barrier, tombstone, cutoff and index writes are themselves. A crash is a stutter.

**Pipeline** (`PipelineInv`). `SettledIsExplained` is not inductive: the step that
acknowledges relies on what the run remembers. `RunIsHonest` says that this
memory is true: from the commit until the settlement the store's answer still
stands, and the item the run names, if it still exists, is the same event. With
it the steps are simple. Every queue operation but enqueue and prune is `quiet` -
it changes states and counters of items, never their keys, and settles none - or
settles the item in hand (`SettledStep`); one lemma per class carries the
invariant over. `LagIsMarked` needs that a run past `MarkDirty` has set the marker
and that a run about to unmark has projected everything there is. For the
refinement, the captured events only grow: an item goes away only by pruning, when
it is acknowledged and its event recorded, or by a deletion.

**Deletion.** The invariant follows a call through its steps (`CallIsOnItsWay`):
the rows once erased stay away while the operation is unfinished, because nothing
is ingested or projected then, and after it is completed because its tombstones
are looked at (`GoneForGood`); the queue's tombstones do the same for its items. A
call that dies begins again from the erasure.

**Learning.** `NoModelOnTheErased` speaks of the run that waits for a model.
`IInv` adds why it holds: a deletion that had the learner's lease is alone, since
a run begins only while no deletion is active; nothing is left of an erased task,
and no step of a run makes a job where there was none but for a window of its
page; so pages and choices of later runs are of other tasks. `JInv`, on top of
it, follows the run: its page and its chosen job are open, nothing else makes or
counts a job meanwhile, jobs of one task share expiry and count (`SameExpiry`,
`Counted`), and what changed since the page was read is marked again
(`SeenIsCurrent`, `DoneIsSeen`).

**Projection** (`IInv`). Whoever reads rows, writes the index or publishes a
command has the projection lease (`Holding`), so neither the index nor what is
revoked changes between its read and its write. Without the marker, everything
due is a row and in the index or explained (`Lag`); and the worker removes the
marker only when what it was meant to publish has come, through the rows and what
was read, into the index, whoever wrote it (`Publishing`).

**Search** (`SearchInv`). The rules a route finds are numbered from 0 without a gap
(`FoundAreNumbered`): rows are ordered by rank and then by id, so no two have the
same place (`SearchAssumption`). Hence a page that comes back short is the last of its route
(`ShortPageIsLast`). A read that bears the number of the search under way is for a
route that waits for it, from that route's offset, and no route waits for two
(`ReadsAreOwn`); what is left of searches that gave up bears another number. While
neither store nor index has changed, its reply is still the page, and every rule
before a route's offset, and every rule of a route that is done, is among the
hits, not to be had, or said by what was found (`Looked`). When something did
change only the last look (`Revalidate`) speaks for the answer.

**Reset** (`IInv`). The store never has a row of before its cutoff
(`StoreIsFresh`), and whoever has read one has a handle of an older generation.
Queue and index may have some while the journal is there (`QueueIsFresh`,
`IndexIsFresh`), but the journal goes only after both have been emptied behind the two cutoffs, and no worker
and no deletion runs before that (`Alone`).

**Reconciler** (`ReconcilerInv`). While capture is on and the extension has joined, the later of
the two times is after every line of a time when nothing was captured
(`JoinedLater`); a pass keeps the time it looked at, and what it observed since is no
such line (`ObservedSince`).

**Knowledge** (`KnowledgeInv`). A word counts only when it is no older than the row
it is about, and each rebuild gives a row its age anew, from the corrections that
the worker read; so a rebuild could make a word count for nothing. It cannot: what is
derived is as old as some correction of its key in the log (`Dated`, of keys, of what
the worker has computed and not yet written, and of rows), the log only gets more of
them and later ones (`LogGrows`), and whoever said something said it of a row there
was, hence after a correction of that key or after the user's rule (`Founded`). So
admission, which a search asks at its end, has seen every word said until then, though
the row's state may not show it; between that moment and the answer the request keeps
the time it began at (`AnsweredUntil`). The builders enter the proof only by what they
leave alone: a candidate has the id and the age of its key (`LifecycleIs`), and what is
said of a row changes neither (`UpdatedIs`), so a rebuild, a replacement or a judgement
is one of a few steps (`WriteDates`, `SpeakingDates`). A receipt of a rule of the user
is of a row that stays (`ReceiptsAreKept`), and such rows have a name of their own, so
no new one has a receipt. For `ReturnedOnce`, a request that searches knows all that was
given to its session and is the only one of it (`RequestsAreServed`).

**Lessons** (`LessonsInv`). `ToldOnce` is not inductive: an answer that is only kept
beside the others writes no notice, so it must not make a lesson eligible. It cannot,
because a known lesson always rests on a reviewed answer with its wording and its source
(`Rested`), and of the answers from the window at hand the only current one is the
answer itself (`OnlyThisRevision`). `Noticed` counts a notice that is claimed and
one that was seen together; only a forgotten lesson loses the memory of either.
`Held` says what a run may still rely on of a lesson it has read - while it archives
it the lesson keeps its text, while it describes it the lesson's job keeps its digest
- though its state, the user's word and its sources may change. Every way to commit
an answer is one of three (`RecordIsOneOfThree`): a dispute, a text written with the
answer it rests on, or the answer alone; none of them touches what was judged.
The proof also corrected the property: that an answer on its own leaves one voice
on offer holds only of what it was compared with (see Observations).

**Erasure** (`ErasureInv`). The proof rests on what is reached being the least closed set
(`ReachedIs`, by an argument on the number of elements that are not reached yet): a
second call, after the first ended anywhere, selects no event, job or lesson that is
not in the plan, because the plan is closed (`Planned`, `PlanIsWhole`). A lesson has its
job, its proposal and that job's event (`LessonsHaveJobs`, `JobsHaveEvents`), so none is
met by the search for rows that name what goes: lessons go with their jobs, by the plan,
or stay whole. A row that stays cannot be taken for one that went (`SelvesDiffer`; of
other tables the id says what the row is), and what went does not come back while the
operation lasts (`DependentsStayAway`), for an episode or an association that went is of
a session nothing is left of. What is then rebuilt from the events that are left
names nothing that went (`ProjectionIsClean`), and every other row is `RowIsClean` by
its kind of references (`HasShape`): only a rule of the user's names other knowledge and
stays. When the gate passes, what it looked at is all there is, and the tombstones
keep it so: nothing that names them is ingested or projected (`TombsAreFree`), and
what is suppressed is not learned again (`SuppressedIsGone`).

**Adapter** (`IInv`). `Quiet`: an upgrade has the registry from its shutdown to its
cancel, and after its look nobody is inside. `Owned`: what is tracked of the setting is
what the user wanted. `Course`: how far, at each place of a command, the
registration is from the one it found. `Restoring` and `JournalIsSafe`: the
snapshot is part of the database, which is part of the migrated content, and a
journal that may bring back a previous content has in it every row of its
replacement.

**Session context** (`IInv`). An answer of Git may come late, after the session has
moved on. A refresh that is still fresh asked about the directory the mapper is in;
one that is not has another behind it (`Refreshing`), and until that one has
answered the publisher says nothing of the repository (`InPlace`); outside of a
recheck the mapper's workspace is Git's word (`Mapping`). A start of a tool call is
recorded only while capture is on and where the call runs (`Recordings`). What the
publisher has not to write, it is writing or has written (`Written`). What was shown
carries its own code and version (`Proposals`), every approval that is held,
written or being read is the code of something shown (`Approvals`), and one that
names this publisher is what the user said last (`LastWord`).

**Capture writer** (`WriterInv`). A report is a member of a set, so the account
would lose one that looks like another: gaps that are kept or reported began with
different events (`AreApart`), and every aggregation and merge keeps where its gap
began. A step then extends what is kept by one gap, or by one loss of a gap
(`Extends`), moves its first to the reports, or joins its first two; each has its
law of the sums. The sums are over sequences and sets of any size, and their laws
need induction: the library's induction theorems take an operator, which the
provers cannot be given, but that `<` is well founded on Nat can be used as it is, so a
set of naturals has a least element (`Least`), and what holds of 0 and is passed on holds
of all (`Induct`). The order of the events (`IsWithout`) is carried from step to
step by what the drain does: the head is stored before it is shifted.

### What is only model-checked

- Liveness (`EverythingIsAnswered`, `DeletionsFinish`, `EventuallyDrained`,
  `RunningIsTakenUp`, `TheIndexCatchesUp`, `BegunIsFinished`,
  `EverythingIsRecovered`): the prover has no ENABLED, so no fairness.
- `GroupingIsSound` and `ProofStands` of `Knowledge`: they are about what the builders
  compute by following chains of evidence and merging clusters, which takes
  induction over the log.

## Observations

What the models showed of the code beside the finding. None of them is a
disagreement with a promise that a run states; they are what a maintainer would
want to know, and what the exceptions in the properties stand for.

*Queue and worker.* An ingestion that is refused because a deletion is unfinished
is charged to the item like a failure (`host/src/capture-worker.ts:219`); when a
deletion failed before its barrier, the worker spends the attempts of unrelated events
on it.

*Deletion.* Forgetting a lesson erases the other lessons of its job too; a rule of
the user with `supersedes` or `conflictsWith` on such another lesson is only archived
or not touched (`canonical-store.ts`, the strip loop at 4473-4535 handles the
target alone), the gate then reports the remaining identifier on every retry and
capture stays blocked. `ErasedStaysGone` proves that this is the only trace a gate finds.
An episode's id is a hash of its sessions: deleting an episode by an id that
regrouping has replaced selects nothing yet tombstones the id, and if grouping
comes back to it the projection refuses it for good. Deleting a source also erases
a rule of the user that supersedes an erased lesson.

*Learning.* `run()` takes a window off the list (`learning-coordinator.ts:105`)
whether or not a job was made of it, and none is made while any deletion is
active (`canonical-store.ts:2638`); only a later event of the window brings it
back, which `NoChangeIsForgotten` excepts by `refused`. `archiveExpiredLearning`
reads a row before its transaction, so a confirmation in between is overwritten
(`AnswersYield` excepts `archived`). A discovery job that was superseded while its lesson
was not eligible for a moment is not scheduled again. A publisher that dies
after claiming a notice leaves it unsent. A convention that replaces one lesson is
compared with no other of its concept (`canonical-store.ts:2898` passes over a proposal
with relations), so two wordings may be on offer until an answer without relations
disputes them; `AnswersYield` speaks of such answers. While a revoked or archived lesson of a
concept exists, no differing lesson can be learned without a relation to it.

*Knowledge.* Admission at retrieval looks only at what a row's evidence leads back
to, so a later failure bound to a correction counts against what was derived from
it only after the next rebuild (`docs/architecture.md:577` says "immediately").
Confirming a disputed older version makes it active beside the newer one until
then, and feedback recorded between the lifecycle's read and its write waits for
the next projection. One recalled re-verification makes a candidate refused for
good. Nothing makes grouping decisions: they come only through an argument of
`WorkEpisodeProjector.rebuild`. Actions of the UI use knowledge control with a lease
that does nothing.

*Search.* When the last pages asked were empty and the candidates' budget leaves
no page for another open route, the search ends as complete although that route
was not read (`retriever.ts:129-134, 171`); `AnswersAreSound` excepts it by
`search'.done = Routes`. A duplicate dropped in favour of equal guidance that
revalidation then removes leaves neither in the answer. A broken read worker is replaced
only by a write.

*Reset and restore.* A reset that failed before its barrier cannot always be
finished (`BegunIsFinished` speaks of those that have theirs), and an interrupted restore
leaves its lock until somebody recovers it by hand.

*Adapter.* The experimental setting is written before its ownership is recorded
(install 887, 894; enable 1051, 1058): a crash between leaves it set, which
`SettingIsReturned` excepts by `unowned`. A crash between the migration (629) and
the mark (631) loses the mark; a row another process writes between the snapshot
(617) and the digest (633) is lost by a rollback. A crash between the two plugin files makes the in-place
refresh refuse. The shutdown request of an upgrade that died keeps every new
session refused until another explicit command.

*Session.* A publisher that starts during a refresh writes the host's unverified
word first (`extension-entry.ts`, about 361-385). The last message of a failed
start can be replayed, to no harm.

*Reconciler.* A line taken between the pass' look at the state and its read of
the file is taken though capture was switched off in between; a repair refused
because of a deletion is given up until a fresh pass.

## Not modelled

- *Queue*: temporary files, quarantine of corrupt ones; `list` and `depth`, which only
  read.
- *Learning*: the upgrade path of inputs that were too large, page limits and their
  rotation, the debounce of a turn, deletions inside a task; receipts and their
  predicates, reevaluation, `set_scope`, several proposals in an answer, other
  canonical keys; the enrichment's page of 32 rows and its `retryAfter`.
- *Retention*: the selection of sessions.
- *Search*: health check, ranking score, token budget, rendering and explanation,
  the order of store reads inside one revalidation.
- *Session*: `head_changed`, commit parents, ages, heartbeat, hooks and automatic
  context, tool contracts, metrics; redaction and the conversion of fields.
- *Reconciler*: malformed, oversized, incompatible and replaced files, deadlines,
  internal sessions, the persisted observation file, more than one session.
- *Adapter*: purge, autoCollect, sources that are not version-pinned, the refusal
  of an unknown marketplace, the deletion key, the other capabilities.
- The circuit breaker (a threshold; its effect is `EndBatch`), the inference
  supervisor (processes of the operating system), contracts (schemas; the record
  sets of the modules are their types), evaluation and release gates (offline
  reports), testkit and plugin assets.

## Plan

What is left to do is in the models: the capture retention's selection and the
learner's page limits.

## Running

    tlc -workers 2 -config CapturePipeline.cfg MCCapturePipeline
    tlapm CapturePipelineProofs.tla

Each `.cfg` goes with the module that `PROJECT.json` names for its run; the runs
take between 20 seconds and 4 minutes, the proof modules between one and ten.
