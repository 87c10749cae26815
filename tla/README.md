# Verification of the background work of Memmy

Memmy is a desktop agent with a local memory. Three groups of processes matter
for correctness:

* the **memory service** (`Memory/`): a Node process with a SQLite database and
  an HTTP API. It records turns, and turns them into memories with durable
  background jobs;
* the **agent** (`App/memmy-agent/`): the agent loop, tools, channels, scheduled
  tasks and the session DAG;
* the **desktop backend, shell and migrations** (`App/backend`, `App/shell`,
  `Migrations/`): local API, scans of other agents' histories, configuration
  and upgrades.

The modules here model the memory service's background work, and of the agent
the session DAG queue, the queue of turns of a session and the scheduled tasks:
they are the parts whose errors are silent (a job that never runs, a message
that is recorded twice or lost, a vector that is stale) and which depend on
orders of steps that no test of the repository produces. They are TLA+ specifications, checked by TLC on small
instances and, for the properties listed under "Proofs", proved by TLAPS for
every value of the constants.

## Inventory

| component | state | operations | hard behaviour | what makes it correct |
|---|---|---|---|---|
| evolution job queue (`storage/repositories.ts`, `service/worker/`) | table `evolution_jobs`; the batches in progress | enqueue, merge, re-arm, lease, dispatch, complete, fail, defer, hold, give back, reconcile | overlapping runs, expired leases, crashes, a budget that pauses between two awaits | FIFO per scope, attempts count failures, no stranded or duplicated row |
| Work Memory extraction (`service/work-memory/`) | cursor and flush row per session | turn, compaction, close, idle flush | the flush row is re-armed while a worker holds it | each turn extracted exactly once; a flush pending while it is not |
| background drain (`server/http.ts`) | flags, three timers | schedule, health check, drain, listeners, dispose | callbacks in any order, overwritten timer handles | nothing due is left without a wake-up; dispose is final |
| embedding retries (`service/worker/`, `service/embedding/`) | table `embedding_retry_queue`, vectors | enqueue, rebuild, claim, apply, fail, requeue | answers that arrive after the claim or the text is gone | done means fresh; vectors advance; retries end |
| sessions and turns (`service/session/`) | sessions, raw turns, episodes, source captures | open, start, complete, close, roll over, import | retries of one turn, captures out of order | a turn is captured once |
| import and processing states (`service/import/`) | `memory_processing_state`, capture claims | import, summarise, embed, retry | the same memory processed by two paths | every memory becomes ready or failed |
| token budget (`memory-token-budget-ledger.ts`) | usage ledger, pause flag | record, reconcile, pause | reconciliation races usage | never paused by mistake, never exceeded silently |
| L3 world models (`service/l3-world-model/`) | batches, targets, scopes | freeze, update, delete | deletion while an update runs | updates in order, none lost |
| session DAG (`App/memmy-agent/src/session-dag/`) | queue per session, slots, turn store | enqueue, wake, claim, build, retry, fall back, close, wait until processed | early wakes, restarts, deletion while the model is called | every turn is built, no slot lost, compaction drops only what the DAG has |
| turns of a session, message queue (`core/agent-runtime/loop.ts`, `core/runtime-messages/`) | bus, turn slots, line of the session's lock, steers, transfers on disk, history | send, steer, queue, steer out of the queue, remove, reorder, stop, cancel, recover | steers put back at the end of a turn, stops and failures after the model has read a message, crashes between two saves | recorded at most once, a promised message never lost, order kept, nobody waits for ever |
| goals and subagents (`goal-runtime.ts`, `subagent.ts`) | goals, inbox, reserved turns | start, continue, pause, settle | a reserved inbox entry whose turn is cancelled | one turn per goal, no entry lost |
| managed execution (`managed-execution.ts`, `exec-session.ts`) | child processes, output buffers | start, read, kill, time out | exit races timeout | one outcome per process |
| scheduled tasks (`cron/`) | store in memory and on disk, action log, timer, runs, outbox | start, stop, add, edit, remove, run by timer or by hand, merge | edits and manual runs during a loop, a second process, crashes, overdue deadlines | no wake-up, edit or deadline lost; a deadline begun twice only after a crash before the save |
| migrations (`Migrations/`) | lock, state file | acquire, migrate, record | crash between migration and record | no migration skipped |
| scans, idempotency, plugins, configuration (`App/backend`) | journals, keys, processes | scan, replay, install, sync | concurrent requests | one effect per key |
| retrieval, model providers, user interface, native drivers, prompts | none of interest here | | | not modelled |

The four first rows, the session DAG, the turns of a session and the scheduled
tasks are modelled now, with the parts of storage, sessions and L3 world models
they touch. `PROJECT.json` lists every component with its status
and every hazard with its line.

How they interact: HTTP handlers enqueue jobs in the transaction of the request
and call `schedule()`; the drain calls `runWorkerOnce` until a run leases
nothing, then sets a timer for `nextWorkerRunAt`; `POST /api/v1/worker/run`
calls the same `runWorkerOnce` concurrently; job handlers enqueue further jobs;
the token budget and the configuration are read at each step of a run. In the
agent, channels and scheduled tasks publish messages on the bus; the loop turns
each into a turn slot or a steer; the end of a turn saves the session, enqueues
it for the DAG and sends the steers it could not take back to the queue.

## Modules

The service is one Node process and its SQLite calls are synchronous, so all
code between two awaits is one action. Time is an integer clock. A crash loses
the variables of the process and keeps the tables. In all modules 0 stands for
SQL `NULL` or `undefined` in a deadline.

### EvolutionJobs

`job` is the table, one row per element of `Job`, absent rows included;
`lastSeq` is the last `scope_seq` per scope; `run` holds for each worker run the
jobs it has leased and not started (`held`), those of them that belong to the
parallel batch in progress (`batch`), started (`active`) and still executing for
a run that has rejected (`stray`); `dropped` are the rows that a rejected run
gave up without an execution. `TypeOf`, `ScopeOf` and `KeyOf` give each row its job
type, FIFO scope and dedupe key, so an instance chooses which special cases it
contains.

The operators on a table (`RequeueLeased`, `Lease`, `Fail`, ...) are the SQL
statements; the actions compose them as the handlers do:

| action | code |
|---|---|
| `Insert`, `Merge` | `enqueueJobInTransaction`, `insertImmutableJob`, `mergeJobPayload` |
| `Arm` | `armWorkMemoryIdleFlush` |
| `DeleteWorldModel` | `deleteScopeMemory` |
| `StartupReconcile` | `reconcileWorkerStartup`, called by the first drain |
| `RunStart` | head of `runWorkerOnce`: backfill, retry failures, lease |
| `Dispatch` | its loop: give back what a pause forbids, start the next chunk. Inside a parallel batch only a pause that stops the type of the batch counts (`GoesOn`) |
| `JobSucceeds`, `JobFails`, `JobDefers`, `JobHeld` | `completeLeasedWorkerJob`, `failLeasedWorkerJob`, `holdUnconfiguredSummaryJob` |
| `RunRejects` | the `UPDATE` of `failJob` violates the unique index inside a catch block |
| `SetPaused`, `SetConfigured`, `Tick`, `Crash` | budget, configuration, clock, process |

Abstractions: the handlers' effects on memories are their outcome; `LIMIT` and
`ORDER BY` within one priority are a free choice; priorities are those of
ordinary targets; `max_attempts` and `SUMMARY_WORKER_CONCURRENCY` (`Concurrency`,
the size of a chunk) are constants. `fails` and `dropped` are history variables.
Left out: after a rejection inside an embedding batch the outer catch of
`runLeasedEmbeddingJobs` (`worker-runner.ts:564-572`) may settle items of the
batch a second time; a second settlement by one run is otherwise covered by the
late settlements of `stray`.

A row that a rejected run gives up is the one kind of row that may stay behind:
when its lease expires it is leased again only if it has an attempt left
(`repositories.ts:3659`), and at its last attempt it stays leased until the next
start. `NoRowStranded` names it (`dropped`); with the drain alone `NoRunRejects`
shows that there is none.

One detail is kept although it is easy to miss: while the budget is paused the
allowed types come from a list that does not contain `work_memory_idle_flush`,
so flushes stop even if their model is not budgeted (`Stopped`), whereas giving
back unstarted jobs asks `jobTypeConsumesMemoryBudget` (`BudgetTypes`).

### WorkMemoryFlush

`session` holds status, last trace, its time and the cursor; `jobs` counts the
extraction jobs that contain a turn's question and answer; `flush` is the
session's only flush row and `held` the sessions whose row a worker has leased;
`armed` is history. `CompleteTurn`, `HideTurn`, `Compact` and `CloseSession` are
the operations on the session; `LeaseFlush`, `GiveBack`, `FlushIdle`,
`FlushFails`, `RetryFlush` and `Restart` are the flush row's life under one
worker run. `FlushIdle` is the handler together with the `completeJob` that the
runner calls right after it. Left out: the deduplication of extraction jobs by
the hash of their text (`work-memory-pipeline.ts:349-359`), which takes a turn
whose text was extracted before as done; each turn has a text of its own here.

### AutoWorkerDrain

`d` is the record of `createAutoWorkerDrain`'s variables and of its position
between two awaits (`phase`); `job` is a queue reduced to what decides whether
the drain runs. `Schedule`, `Drain`, `NextDue`, `LoopTest` and `Finish` are the
functions of the closure as operators on `d`; the actions are the requests, the
two listeners, `dispose()`, the four timer callbacks and the steps of a drain in
progress. Since `schedule()` and the end of a drain store their timers in the
same variable, callbacks are counted apart from the handle that `dispose()` can
still clear. `LeftBehind` are the rows that an earlier life of the server can have
left, and that the first run reconciles. Left out: worker runs over HTTP, pauses, the additional wake-up
times of the budget, and jobs still running after a rejected run.

### EmbeddingRetryQueue

`row` is the table, `text` the version of each memory's text, `vec` the version
its vector was computed from, `claims` the claims each run has not settled. A
claim carries the row as it was read and the lease deadline, which is the token
that the `...Claimed` statements compare. `Checked` are the Skill and L3
memories, whose text the code compares before it writes a vector. `Rebuild`
enqueues the raw `memoryValue` (version 0), as `rebuildEmbeddings` does.

### SessionDagQueue

`turns` and `last` are the session's SQLite store, which survives a `Restart`;
`pc` says whether the session has a queue object and where its worker is
(`idle`, in line, at the head of `process()`, awaiting the model, writing the
log), `timer` is the time left of `retryTimer`, `active` and `waiters` are the
slots of `runWithSlot`. `comp` and `consolidated` are the compaction that waits
for a turn and the last turn whose messages one has dropped.

| action | code |
|---|---|
| `Enqueue` | `enqueueSessionDagTurn`, `enqueueSavedTurn`, `upsertTurn` |
| `Claim`, `ClaimNone`, `StopClosed` | the head of `process()`, `claimNextTurn` |
| `BuildOk`, `Applied` | `buildAndApply` up to `applyPatch`, and its log |
| `BuildRetry`, `Fallback`, `Block` | its catch block: `markTurnRetry`, `applyDeterministicFallback`, `markTurnBlocked` |
| `TimerFires`, `Tick` | `scheduleRetry`'s callback, the clock |
| `CompactStart`, `CompactGiveUp`, `CompactCommit` | DAG compaction and `waitUntilProcessed` |
| `CloseSession`, `RemoveFiles` | `closeSession`, `deleteSessionDag` |

Deadlines are kept as time left, so that the clock needs no bound. Turns are
numbered in message order. The session's turn lock, under which the loop
compacts, saves and deletes, is a guard (`comp[s] = 0`, `~closed[s]`). Between
the return of `process()` and the end of `runWithSlot` there are only promise
reactions, so the return of a worker and the grant of its slot are one step
(`queue.ts:71-82`, `155-158`): what comes in between and finds `running` still
set is not seen. Left out: what a patch does to the graph, the fit of a snapshot
(a free choice), a second save of the same turn, and a `createBuilder` or
`claimNextTurn` that throws (`queue.ts:186-200`), which means a broken
configuration or database.

### MessageLedger and TurnQueue

`MessageLedger` is what the queue promises for one message: it is *held* in
memory, *promised* once it was moved from the queue into a running turn, and
then *recorded* for ever; only a held message can be lost, and a lost one does
not come back. `TurnQueue` is the mechanism, for one session:

| variable | code |
|---|---|
| `bus` | `bus.inbound`, with the admission each message asks for |
| `line` | the waiters of the session's `AsyncMutex`; `st` tells a cancelled task and a slot already taken out of the queue |
| `at`, `lastAt` | `metadata.queued_at`, `lastQueuedAtBySession` |
| `root`, `phase`, `outcome`, `stopped` | the slot that holds the lock, where `runTurnWithinLock` is, its `stopReason`, `isCancelled()` |
| `pending`, `injected` | `pendingSteer`; what the runner has taken and `stateSave` has not saved |
| `admission` | `queueSteerAdmissionsBySession` |
| `transfer`, `history` | on disk: the steer transfers, the messages of the session |
| `recovering` | the transfers that `recoverQueueSteerTransfers` still has to handle |

| action | code |
|---|---|
| `Send`, `ReceiveSteer`, `ReceiveQueue` | `publishInbound`, `tryAdmitDirectSteer`, `runMessageLoop` |
| `Grant`, `GrantGone`, `GrantCancelled` | `AsyncMutex.runExclusive` resumes the next waiter |
| `Begin`, `StartStopped`, `PersistRoot`, `Prepared`, `Inject`, `MaxFinalization`, `EndRun`, `Save` | `runTurnWithinLock`, `stateBuild`, `stateRun`, `drainPendingQueue`, `stateSave` |
| `WorkspaceLost`, `Throws` | its two kinds of failure |
| `FinalizeKeep`, `FinalizeDone`, `FinalizeRequeue` | `finalizeQueueSteerAdmissions`, a message at a time |
| `EndFailed`, `Successor`, `EndTurn` | `dispatchSlot` after a turn |
| `SteerQueued`, `RemoveQueued`, `ReorderQueue` | `steerQueuedWebuiMessage`, `removeQueuedMessage`, `reorderQueuedWebuiMessages` |
| `StopTurn`, `CancelAll` | `stopExpectedTurn`, `cancelActiveTasks` |
| `Crash`, `RecoverKeep`, `RecoverDone`, `RecoverQueue` | end of the process; `recoverQueueSteerTransfers` |

The refinement mapping `StatusOf` reads the ledger off the durable state first:
a message in the history is recorded, one with a transfer promised, one that is
anywhere in memory held. A message that is recorded twice maps to a value the
ledger does not have, so `ImplementsLedger` implies `AtMostOnce`.

Abstractions: all messages are text of the desktop composer on one route, so
guards about surfaces, routes and sources hold; the bus and the steers of a slot
are sets; the announcement of a queued message succeeds; the revision counter
of the queue, by which a client's stale order is refused, is left out. A slot is
made and its gate opened in one step, so a cancel between the two, which returns
without the cleanup of a cancelled waiter (`loop.ts:5812-5813`), is not seen.

### CronService

`mem` and `disk` are the store and its file, `log` the action log, `cli` the
action that a command line process has derived from what it read and not yet
appended. `running`, `timer`, `loop` and `executed` are the service's fields,
`runs` its `activeJobRuns`: the run of the timer loop (`LoopRun`) and the manual
runs by number, any number of which may overlap.

| action | code |
|---|---|
| `Start`, `Stop` | `start` with `recomputeNextRuns`, `stop` |
| `AddJob`, `RemoveJob`, `EnableJob`, `DisableJob`, `UpdateJob` | the edits, each with `loadStore`, `saveStore` and `armTimer` (`Edit`) |
| `TimerFires`, `TimerIgnored` | `onTimer` up to the first callback, or its early return |
| `LoopStarts`, `LoopRunEnds`, `LoopEnds` | its loop: `mergeAction`, the choice of a task, the rest of `executeJob`, the final save |
| `RunNow(j)`, `RunNowEnds(h)` | `runJob` with `force`: it counts the service as running and restores what it found when it ends |
| `RunRefused` | `runJob` of a task that is missing or disabled |
| `Read` | `listJobs`, `getJob`, `status`, and the early returns of the edits: `loadStore`, which takes the action log and does not arm the timer |
| `CliAdds`, `CliRemoves`, `CliRenames`, `CliAppends` | the same edits in a process whose service is not running: `appendAction` |
| `Crash`, `Tick` | process, clock; a crash may fall between the two writes of `mergeAction` (`service.ts:207-208`) |

A task is a one-time task or an interval; a cron expression is an interval with
another `computeNextRun`. Five variables are history: `begun` is the last deadline
of a task that the loop began, kept over crashes until the user sets the task
again; `lost` are the tasks whose begun run a crash has undone, because the loop
had not saved yet; `unarmed` are the tasks that a read has taken from the log
since the timer was set; `owed` are the one-time tasks set and not begun;
`external` those that the command line has touched. A
completion compares the identity of the task and schedule objects, which the
field `same` of a run stands for: an edit that replaces either ends it, enabling
a task does not. Left out: system tasks, the removal of a session's tasks (which
is `RemoveJob` for each, or `Read` if there is none), edits in the service's own
process while it is stopped, a command line that reads the file while a merge is
writing it, a corrupt file, the run history and the results that a merge keeps.

### Proof and model modules

`MCEvolutionJobs` and `MCSessionDagQueue` give their modules small instances;
the other modules are run directly. `EvolutionJobsProofs`,
`WorkMemoryFlushProofs`, `AutoWorkerDrainProofs`, `EmbeddingRetryProofs`,
`SessionDagProofs`, `TurnQueueProofs` and `CronServiceProofs` hold the theorems
about the module of their name (that of `EmbeddingRetryQueue`, `SessionDagQueue`);
`LeastNumber` has the two facts about natural numbers that they use. Operators whose comment starts with "Mutant" are faulty variants used to test that a property can fail; no
specification uses them.

## Runs

| run | instance | shows |
|---|---|---|
| `jobs_drain` | drain alone; two Work Memory jobs of a scope and two embeddings of one key, or an observation, a flush and an L3 update with delays, or two observations with chunks of one (`OneGroup`); clock to 2, 2 attempts, 1 crash | `ScopeFIFO`, `AttemptsCountFailures`, `LeasesOwned`, `NoRunRejects`, `TerminalStable`, over deferred, held, re-armed and deleted jobs too |
| `jobs_overlap` | drain and an HTTP run; a profile scan and two embeddings of one key | `NoRowStranded`, `DedupeUnique` although rows are settled twice |
| `flush` | one session, 3 turns, clock to 5, 1 restart | `ExactlyOnce`, `ClosedExtracted` |
| `flush_pending` | the same | **violated**: the re-armed flush is lost |
| `drain` | two jobs, 2 cycles, delay 1, one listener call, one rejected run, fair | `StoppedForGood`, `SleepIsCovered`, `QueuedJobsRun` |
| `retry_queue` | one memory, two runs, 3 attempts, 2 texts, 1 crash | `DoneIsFresh`, `VectorsAdvance`, `AttemptsNeverLost` |
| `retry_end` | two memories, one run, fair | **violated**: a retry stranded in progress |
| `dag_queue` | two sessions, three turns in all, one slot, 2 attempts, delay 1, fair | `NeverStranded`, `RunningIsHeld`, `SlotsAccounted`, `DeletedQuiescent`, `TurnsSettle`, `DeletionCompletes` |
| `dag_compact` | one session of two turns, 3 attempts, delays 0 and 1 | **violated**: messages of an unbuilt turn dropped |
| `turn_queue` | three messages, 1 crash, fair | `AtMostOnce`, `SteersAreDurable`, `OnePlace`, `QueueKeepsOrder`, `AnswersAreTrue`, `NobodyWaits`, and `ImplementsLedger`: the queue implements `MessageLedger` |
| `turn_removed` | two messages, 1 crash | **violated**: a removed or rejected message runs after a restart |
| `cron` | one one-time task, one interval, clock to 3, 2 edits, 1 manual run, 1 action of the command line, 1 crash or stop, reads and refused runs at any time, fair | `WakeIsSet`, `NothingToLose`, `DeadlineOnce`, `OwedIsOnDisk`, `DueJobsRun` |

Bounds. A lease of 1 and a clock of 2 to 5 let a lease expire while its job
runs and be taken over; two attempts give every row a failure, a retry and a
last failure; two jobs of one scope or one key suffice for every pair that the
statements compare; one crash can fall between any two steps. In `AutoWorkerDrain`
two cycles stand for 40, so that both the last and a middle cycle occur, and a
batch of one makes the queue longer than a batch. In `SessionDagQueue` a delay of
one lets a wake come before the deadline, two attempts give a turn a retry and a
last attempt, three turns put two in one session while the other waits for the
slot; restarts are unbounded. In `TurnQueue` three messages are
a running turn, one that is steered and put back, and one that waits behind it;
a message is sent once but may go round the queue as often as turns take it. In
`CronService` a period of 2 in a clock of 3 makes an interval due twice, and
two edits suffice to add a task and to change it during a run, while the command
line adds the other one. The safety properties were also checked with two manual
runs, which may overlap (1,081,273 states); liveness makes that instance too slow
for the run, and the proofs are for any number. Every counter that the code
leaves unbounded has a `Max...` constant in the guard of its action; the proofs
do not use these bounds, except that versions and turns are intervals.

Deadlock is checked except in the runs of `AutoWorkerDrain`, `SessionDagQueue`,
`TurnQueue` and `CronService`: a drain with nothing to do or disposed of, queues
whose sessions are all deleted, a session without messages and a stopped service
rightly stop.

Fairness. `AutoWorkerDrain!Fairness` assumes that timers fire, that promises of
`runWorkerOnce` and of the handlers settle and that time passes: Node guarantees
the first and the last, and the handlers' calls of models have time limits. No
action of a client, of the listeners or of the environment is fair.
`EmbeddingRetryQueue!Fairness` assumes that the drain starts, claims what is due
and gets an answer from the embedder, good or bad. `SessionDagQueue!Fairness`
assumes that workers go on, that model calls end either way (providers time
out), that timers fire and time passes, and that a deletion removes the files
once its close has resolved; nothing is assumed of the agent loop.
`TurnQueue!Fairness` assumes that the loop takes messages, that the lock passes
on and that a turn goes through its states, since model calls end either way; no
user, stop or crash is fair. `CronService!Fairness` assumes that timers fire and
callbacks of tasks end; neither the clock nor a client is fair.

## Findings

1. **Lost re-arm of the idle flush** (`flush_pending`,
   `work-memory-pipeline.ts:227`). `flushIdle` finds a turn that is too recent
   and re-arms the session's flush row, which is the row being executed; the
   runner then completes that row by id. Until another turn arms it again the
   session is not extracted, unless it is closed or compacted.
2. **Stranded embedding retry** (`retry_end`, `repositories.ts:4025`). A retry
   enqueued for a row in progress clears the claim and keeps the status, after
   which no statement but the one at startup matches the row.
3. **Turns built out of order** (`dag_compact`, `store.ts:128`). A turn whose
   retry is not due is passed over in favour of a later one, which becomes the
   last processed turn. `hasProcessedThrough` then holds for the earlier turn
   too, and a compaction replaces its messages by a snapshot that lacks it. For the
   same reason the last processed turn moves back when the earlier turn is built
   after all, and later compactions wait their whole time for a turn that is done.
4. **Refused message comes back** (`turn_removed`, `loop.ts:2279`). A steer that
   the turn did not take is put back into the queue with its transfer still on
   disk, to be cleared when its own turn records it. Removing it from the queue,
   or cancelling it there, leaves the transfer; after a restart the recovery
   queues the message and runs it.

Further facts were met and have no run. With a worker run over HTTP beside
the drain, settling a job by id alone (`repositories.ts:3751`) lets a job and its
successor of one scope execute together once a lease has expired; `ScopeFIFO` is
therefore claimed for the drain alone. And `scheduleNextDueJob` (`http.ts:425`)
keeps a timer that the budget listener set during the drain although a job was
given an earlier time since, so `SleepIsCovered` says that a sleeping drain has a
timer, not when it fires. Of the scheduled tasks:

* the loop saves what its runs have changed only when it ends
  (`service.ts:361`), so a deadline that was run to its end is run again if the
  process dies during a later task of the same loop (`lost` in `DeadlineOnce`);
* `mergeAction` empties the action log before it saves the store
  (`service.ts:207-208`): a crash in between loses what the command line did;
* a read takes the log over without arming the timer (`service.ts:218`), so a
  task that the command line added can be late by up to `maxSleepMs` (`unarmed` in
  `WakeIsSet`);
* `runJob` restores `running` as it found it (`service.ts:696`): a `stop()` during
  a manual run is undone when it ends, and two overlapping manual runs on a
  stopped service leave it running if the first to start is the first to end.

## Proofs

Each theorem has the form `Spec => []Inv` (or an action property, or the
refinement of a specification) and holds for any finite set of jobs and any sets
of runners, sessions, memories, tasks and messages, under the named assumptions
of the modules (`ConstantsAssumption`, `FlushKeyAssumption`,
`ImmutableKeyAssumption`, `FlushAssumption`, `DrainAssumption`,
`RetryAssumption`, `DagAssumption`, `TurnAssumption`, `CronAssumption`), which TLC
evaluates in the runs. Every invariant and every action property that a run
checks is now proved. The strengthened invariants were checked by TLC before
they were proved.

* **EvolutionJobsProofs**, for overlapping runs: `TypeCorrect`,
  `RowsStayInHand`, `KeysStayUnique`. The inductive invariant is `TypeOK`,
  `Works` (what is left of a batch has not been started) and `Sound`, the attempts
  and keys of a table; `Hands`, over it, says that a lease is in a run's hands
  unless a rejected run gave it up. Each table operator has a lemma that it
  preserves soundness of a table, so that one lemma per action composes them as
  the action does. Uniqueness of keys needs the re-armed flush rows to have keys
  of their own, and `FailRaises` to stop the one statement that could bring a
  finished row back.
* **EvolutionJobsProofs**, for the drain as the only runner (`DrainAlone`, the
  case without worker runs over HTTP): `ScopesStayInOrder`, `FailuresAreCounted`,
  `LeasesAreInHand`, `RunsNeverReject` and the action property
  `FinishedRowsRest`. The invariant `DInv` is about the rows that the run has in
  hand (`InHand`): each is leased and holds the attempt of its lease, unless it
  is a flush that was armed again or the update of a deleted world model, which
  counts as done and may still fail; and no two are of one scope. After
  the reconciliation every lease is in hand (`Owned`), before it nothing is. With
  empty hands nothing is leased, so a run never takes over an expired lease:
  this is what an HTTP run breaks, and why the five results need `DrainAlone`.
  `Numbered` (a scope hands out each number once) turns "no unfinished
  predecessor" of `NextInScope` into an order. `Stable` says of each table
  operator that it wakes no finished row.
* **WorkMemoryFlushProofs**: `FlushTypeCorrect`, `ExtractedExactlyOnce`,
  `ClosedSessionsExtracted`. `ExactlyOnce` is inductive only together with
  `ClosedExtracted` (the cursor never overtakes the last trace), and typing the
  attempts needs that a leased row has taken one.
* **AutoWorkerDrainProofs**: `DrainTypeCorrect`, `SleepIsAlwaysCovered` and the
  action property `DisposeIsFinal`. Besides the types of the rows and of the batch
  the invariant says which flags each phase allows (`Flags`); that a leased row is
  in the batch, once the drain has reconciled (`Held`); that a call that leased nothing
  found the queue idle, and it still is unless somebody has asked for another
  drain (`Drained`); and that what sleeps is covered (`Covered`). The last three hold
  until a run rejects.
* **EmbeddingRetryProofs**: `RetryTypeCorrect`, `DoneRetriesAreFresh`,
  `VectorsOnlyAdvance`, `AttemptsAreKept`. The invariant says that unfinished
  rows have an attempt left, that neither rows nor claims nor vectors are newer
  than the memory's text, and that a row held under a claim's token has the
  claim's text and attempts. The last part is what makes a late outcome harmless.
* **SessionDagProofs**: `DagTypeCorrect`, `RetriesNeverStranded`,
  `RunningRowIsHeld`, `DeletionIsQuiet`, `SlotsAreAccounted`. Three facts make the
  invariant inductive: the line for a slot holds waiting queues only, each once
  (`Line`), so a slot never goes to a queue that is gone or has one; a turn that
  was never built has no deadline (`FreshIsDue`), so a worker that finds nothing
  to claim has only retries left, for which it sets the timer; and only an open
  queue at rest has a timer (`TimerAtRest`). `ReturnStep` and `WakeStep` say what
  the two shared steps do to all queues, and `StepOfOne` reduces each action to
  the session it is about. For the slots, `Slots` adds that the holders of a slot
  are finitely many, `active` of them, and that nobody waits while a slot is
  free; a slot that passes to a waiter changes the holders by one in, one out.
* **TurnQueueProofs**: `TurnTypeCorrect`, `RecordedAtMostOnce`,
  `AdmittedIsOnDisk`, `MessageInOnePlace` and the refinement
  `QueueImplementsLedger`. The invariant says for each message (`MsgOK`) that it
  is in one place of the memory; that a recorded one is in none and, if its
  transfer is still on disk, was recorded for the turn named there (this is why
  asking whether it is persisted is enough to never record it twice); that an
  admission belongs to the running turn and has its transfer; that what waits
  outside the queue without an admission has none; and that what is to be
  recovered is nowhere else. `Unique(line)` keeps a message from waiting twice:
  insertion, removal and the sort of `reorderWaiters` each have a lemma. Every
  action has a lemma that it keeps the invariant and is, for the ledger, a step
  that loses (`Loses`), records, promises or sends; the refinement follows from
  these four kinds of step.
* **TurnQueueProofs**, two more invariants over that one: `AnswersStayTrue` (until
  a crash a refused message, like the root of a failed turn that is about to be
  refused, is held nowhere and has no admission, and a turn that is saved has not
  failed: `Honest`, `FailedRoot`, `SavedTurn`) and
  `OrderIsKept` (the waiters are sorted by their priorities, which are the times
  shown: `Sorted`, `Timed`).
  The proof of the second showed that its first, strict form was wrong: after a
  reorder, two steers and a crash, two messages can be recovered with equal
  times. `QueueKeepsOrder` now allows equal times; the instance of three messages
  is too small to tell.
* **CronServiceProofs**: `CronTypeCorrect`, `WakeIsAlwaysSet`, `NothingIsLost`,
  `OwedTasksAreOnDisk` and the action property `DeadlinesRunOnce`. The run of the
  loop is of a task it has executed, whose deadline is over, and no begun deadline
  lies in the future (`InLoop`). A deadline that is still wanted is later than the
  last one begun (`Fresh`), except for the task in the loop's hand (`Held`), for
  what the loop has executed and not saved, in the file (`OnDisk`) as opposed to
  memory (`InMemory`), and for what a crash has undone: so a second beginning
  (`TakeOnce`, `LoopRunStarts`) is of a later deadline or of a task in `lost`. A
  one-time task is wanted at its deadline and at no other time (`Punctual`); what
  is owed is in memory and on disk (`Kept`), and no run in progress may settle it
  (`Unclaimed`). `Merged`, the recursive function of `mergeAction`, is described
  by induction over the length of the log (`MergesTo`), the timer's minimum by
  the least number principle (`WakeAtFacts`).

`LeastNumber` derives both from the well-foundedness of `<` on the naturals, with
sets in the place of predicates: what is proved by induction is a set of
numbers, so no operator has to be passed to a theorem.

Only model-checked: liveness, which is outside what TLAPS can prove
(`QueuedJobsRun`, `TurnsSettle`, `DeletionCompletes`, `NobodyWaits`,
`DueJobsRun`).

## Not modelled

The components without modules in the inventory. Within the modelled parts:
failures of SQLite itself, the switch that turns memory writing off, the
processing state of memories, the texts and vectors themselves, and the worker
runs of other processes on the same database (the service is its only user).

## Plan

1. theorems: an abstract queue per scope that `EvolutionJobs` implements while
   the drain is alone (`Numbered`, `Ordered` and `InHand` are what its refinement
   mapping needs; the late failure of a deleted L3 update is the step to look at),
   and one for the embedding retries; `FlushPending` under the condition that the
   idle flush finds no turn that is too recent;
2. `GoalWork`: the goal inbox, reserved entries and continuations, beside
   `TurnQueue`; `MigrationRunner`: lock, state file, crash between `up` and the
   record; `SourceCapture`, `ProcessingState`, `ManagedExecution`, `Idempotency`;
3. a composition of `EvolutionJobs` and `AutoWorkerDrain` with HTTP worker runs.
