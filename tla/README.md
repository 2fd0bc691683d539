# A TLA+ model of state-machine-amz-go

`state-machine-amz-go` is a Go implementation of an Amazon-States-Language
interpreter. Executions are saved in PostgreSQL, tasks travel through a Redis
queue (asynq), and very large batches are streamed in *micro-batches* that are
joined with a Redis barrier. This directory models its concurrent core in TLA+,
checks small instances with TLC, and proves the central safety properties for
all parameter values with TLAPS.

## 1. Inventory

| Component (source) | State it keeps | Operations | Interacts with |
|---|---|---|---|
| Micro-batch orchestrator (`pkg/batch/orchestrator.go`, `workflows/microbatch_orchestrator.json`) | Redis: id list, cursor, dispatched markers, lock; its document, carried in the execution row | `Run`/`RunBulk`, `handleDispatch`, `handleEvaluate`, `handleCheckResume`, `SignalMicroBatchComplete`, `ResumeOrchestrator`, cleanup | is itself an execution of the persistent state machine; enqueues tasks; is resumed by workers |
| Barrier (`pkg/batch/barrier.go`) | one Redis counter per micro-batch | `Init` (SET NX), `Decrement` (Lua: DECR, DEL at 0) | dispatch handler, workers |
| Metrics, evaluator, resume controller (`pkg/batch/metrics.go`, `evaluator.go`, `resume.go`) | outcome window, per-micro-batch rates, counters, resume key | record, snapshot, evaluate, signal / revoke / check | workers, evaluate handler, operators |
| Worker handler (`pkg/handler`) | none | `HandleExecution`, `HandleTimeout`, `HandleBatchExecution` | queue, persistent state machine, barrier |
| Persistent state machine (`pkg/statemachine/persistent`) | execution row, history, correlation row | `Execute`, `RunExecution`, pause, `ResumeExecution`, timeout trigger, local batches | repository, queue, states |
| Queue (`pkg/queue`, asynq) | task sets by id, retries, scheduled timeouts | enqueue, schedule, cancel, deliver, retry, aggregate | workers |
| Message delivery (`pkg/executor`) | in-memory paused executions | `Message`, resume, time out | repository, persistent state machine |
| Recovery (`pkg/recovery`, `pkg/execution`) | scanner flag, recovery metadata | scan, recover by strategy, start / stop | repository, persistent state machine |
| State types (`internal/states`) | none | Task (retry, catch), Choice, Wait, Parallel, Message, Pass, Succeed, Fail, JSON paths | interpreter |
| Validator, factory, registry, errors, types | none | pure functions | start-up |
| Repository (`pkg/repository`) | tables | save (upsert), find, count, link | everything above |

What is hard here: an orchestrator execution is advanced by goroutines started
in *worker* processes; its row, its correlation record, the Redis keys and the
queue are four stores that are written one after another without a transaction;
tasks are redelivered; messages, timeouts and crashes race with all of it.
`PROJECT.json` lists the hazards by source line.

Properties that make each part correct:

* orchestrator: every id enqueued exactly once; micro-batches joined in order; a
  paused batch is eventually answered; failure is reported as failure;
* barrier: one winner, elected after every member has an outcome; never stuck;
* message states: one of message and timeout wins, nothing is lost;
* recovery: only dead executions are recovered, a bounded number of times, and
  recovering repeats no dispatch;
* local batch: at most `ConcurrentBatches` at a time, always returns;
* pure parts: choice, merge, retry and graph validation agree with their
  reference definitions.

## 2. Modules

| Module | Models |
|---|---|
| `MicroBatch` | orchestrator runs of `Run`, Redis, queue, workers, the orchestrator's row and correlation |
| `MicroBatchInv` | the inductive invariant of `MicroBatch` |
| `MicroBatchProofs` | TLAPS proofs about `MicroBatch` |
| `ForkJoin` | abstract specification of a fork-join over groups of tasks |
| `MicroBatchForkJoin` | `MicroBatch` implements `ForkJoin` when nothing is redelivered |
| `MicroBatchForkJoinProofs` | TLAPS proof of that refinement |
| `BulkDispatch` | `RunBulk`: several orchestrators of one batch, lock, group tasks, metrics, evaluator |
| `MessageWait` | one execution in a Message state with a timeout: starter, messages, timeout task and worker |
| `Recovery` | executions of the persistent machine, crashes, the recovery manager and its scanner |
| `Repository` | the tables, both implementations of the persistence interface, the definition cache |
| `BatchLocal` | `ExecuteBatch` and `ExecuteBulk` without micro-batches |
| `BulkDispatchProofs`, `MessageWaitProofs`, `RecoveryProofs`, `RepositoryProofs`, `BatchLocalProofs` | inductive invariants and TLAPS proofs of these five |
| `JSONPath` | documents, paths, template expansion |
| `ChoiceRules` | rules of a Choice state: validation, comparisons |
| `Nested` | what recurs over nested data: `mergeMaps` and `evaluateChoice` |
| `Definition` | state factory, `Validate` of every state type, the validator's graph checks |
| `Interpreter` | the loops of both state machines and `Execute` of every state type but Message |
| `InterpreterProofs` | soundness of the graph checks, inductive invariant and TLAPS proofs of `Interpreter` |
| `MCInterpreter` | the definitions, inputs and task results the interpreter is checked on |
| `MCRepository` | the symmetry under which `Repository` is checked |

`JSONPath`, `ChoiceRules`, `Definition` and `Interpreter` extend one another in that
order; the merge of maps and the evaluation of a rule, which follow data to any depth, are
their constant operators `MergeMaps` and `EvaluateChoice`, which the run sets to the
definitions of `Nested` and of which the proofs assume nothing. The other modules are separate: each takes what it needs of the neighbouring
component at the level its own properties require (`Recovery` a document as the set of
states in it, `Repository` a machine that only saves), because the product of two of them
is beyond TLC.

### MicroBatch

One batch of `TotalCount` source executions is run once.

* **Runs.** `Runs` are the goroutines that execute the orchestrator's states: run
  0 belongs to `Orchestrator.Run`, run k+1 is started by the barrier winner of
  micro-batch k (`ResumeOrchestrator`, which spawns `ResumeExecution`). Each has a
  program counter `pc`, the document it carries `doc`, the ids it has still to
  enqueue `left`, and `snap`, the row it was started from. The states of the JSON
  definition become `DispatchComplete` / `DispatchNext` / `EnqueueNext` /
  `MarkDispatched`, `CheckIfComplete`, `MessageReceived` /
  `SaveMessageCorrelation` / `PauseExecution`, `EvaluateMicroBatch`, `Terminate`.
  Every step that touches a store other goroutines see is an action of its own;
  what happens between two such steps is folded into one of them.
* **Document.** `Doc` keeps the distinctions the code makes: is it a Go struct or a
  map, does it carry `batch_id`/`total_count`, the last `dispatchResult`, and the
  received-message marker. `MergeDispatchResult` is `MergeInputs` on it: a struct
  is replaced, maps are merged key by key.
* **Redis.** `cursor`, `dispatched`, `barrier`, `cleaned`. A Lua script is one action.
* **Repository.** `rec` (status, current state, output) and `corr`. Each is saved
  by its own statement, in the code's order. The UPDATE never writes `input`, so
  the input column is not a variable.
* **Queue and workers.** `tpc[i]` follows the task of item i through delivery,
  execution, signal and (winner only) resume. `AfterAttempt` is asynq's rule: an
  error redelivers until `MaxRetry` is used up, then archives. `StartExecution`'s
  second disjunct is both early returns of the handler: source output missing, and
  `Execute` refusing a name that exists (always so for a redelivery).
* **Failures.** `TaskStateError` (a Redis or queue error inside a Task state, caught
  by `States.ALL`) and `AttemptLost` (worker death, definition load error, Redis or
  lookup error) happen at most `MaxFaults` times.

Abstractions. Group enqueue is in `BulkDispatch`;
24 h timers and TTLs do not fire; `EvaluateMicroBatch` allows every result of the
evaluator, and `PathTrue` says why none has an effect (a JSON path cannot enter a Go
struct, so `EvaluationDecision` always takes its default); the PauseBatch loop
behind it is therefore never entered and has no actions. `ResumeOrchestrator` reads
the correlation and then the row; the model does both in one step, which loses
nothing, since only this winner's own resume changes the correlation it looks for. `markDispatched`
sends its two SETs in one pipeline and the model applies them together; with that,
the "already dispatched" branch of `DispatchNext` is taken in `BulkDispatch` only.
Enqueueing a task whose id is in use fails, as in asynq. An execution started by a
worker ends (asynq's task timeout cancels it otherwise).

### ForkJoin and MicroBatchForkJoin

`ForkJoin` states the barrier's promise without counters: tasks are forked, finish,
and a group is joined once, after all of its tasks. The mapping takes *forked* from
the enqueue history, *done* from the tasks with an outcome and *joined* from the
elections. It holds for `MaxRetry = 0`. With redelivery it does not: the barrier counts
attempts, not tasks, and a task that signals twice opens it while another one runs.
`JoinSound` is therefore stated for micro-batches without a redelivered task.

### BulkDispatch

`Callers` are calls of `RunBulk` for one batch id; each has its own orchestrator row and
correlation, and all share the Redis keys. `RunBulk` takes the lock, which is never
deleted and expires after a day (`LockExpires`, for a batch that is over, dead or stuck by
then; the TTL of the code also ends under a batch that still runs, which is not modelled). The bulk dispatch handler is `DispatchComplete`, `SkipDispatched`, `InitBarrier`,
`MarkDispatched`, `EnqueueNext`: marked before enqueued, hence at most once.
asynq moves the `pending` tasks of a micro-batch into a batch task with the fixed id
`batch-<group>` (`Aggregate`), `HandleBatchExecution` runs one goroutine per task
(`ExecuteItem`, `RecordOutcome`, `Decrement`, `SnapshotMicroBatchRate`,
`ResumeOrchestrator`), and `FinishBatchExecution` fails the whole group if one task
failed. A redelivered execution finds its name in use and counts as a failure.
`Evaluate` is the evaluator on the outcome window and the snapshots. Rates are exact: they
are counted in a unit, of which the constant `Whole` is the rate 1, that every length up to
`WindowN` divides (for any window there is one, its factorial). The code divides floats;
their rounding is not modelled. A verdict changes nothing, for the reason
given under `MicroBatch`. `Crash` (orchestrator), `WorkerCrash`, `LoadFails`,
`TaskStateError` and refused Redis commands share the budget `MaxFaults`.

### MessageWait

One execution of a machine `Task -> Wait -> Next | TimeoutPath` (or starting at
`Wait`). The processes are the goroutine of `Execute`, one goroutine per message and
the worker that holds the timeout task; they share the execution row `row`, the
correlation `corr` and the queue's `task`. Each reads or writes one of them per step,
in the order of the code: `SaveCorrelation`, `ScheduleTimeout`, `Pause` are
`handleWaitingState`; `ResumeExecution` (status check and correlation update),
`CancelTimeout`, `SaveRunning` are `ResumeExecution`; `CheckCorrelation`,
`CheckPaused`, `RecheckCorrelation`, `FetchForTimeout` are `HandleTimeout` and
`ProcessTimeoutTrigger`. `ctx[p]` is the copy of the execution a process works on,
stale as soon as another one writes the row.

A message is delivered in one of three ways: `direct`, the resume of
`examples/message_timeout_complete` (Output left nil, so the run uses Input);
`registered`, `executor.Message` with a persistent state machine (Output read from
the row, so the run uses Output); `loaded`, `executor.Message` with a definition it
loads itself (a plain state machine that saves nothing). A document is the set of
things the Message state looks for: the data with the correlation value, the received
marker, the timeout trigger. A missing Output column reads back as an empty map.

asynq: a task id stays in use while the task is scheduled, active, retried, retained
or archived; `DeleteTask` removes it in any state but active. `Crash` kills any process
at any point; asynq redelivers the task of a dead worker.

### Recovery

Executions are chains of `NumStates` states, a document is the set of states whose
results it holds, with 0 for the input the execution was started with. The goroutine of
`Execute` and the scanner of each process work on copies `run[g]` of an execution.
`StateOutput` is what a state returns: its result alone or, for the states in `keeps`, added
to its input (a ResultPath that is not `$`). `ExecuteState` writes just that to the history
row, merges it into the input in memory (`Advance`) and goes on without saving the execution;
`PersistExecution` saves it at the end, with the output of the last state alone. A scanner lists
RUNNING rows that are `old` (`ScanAndRecover`), reads each again (`GetExecution`), builds
the context from row and history (`Reconstruct`: the input is the output of the last
successful state, `RecoveryInput`) and runs, fails or pauses it by strategy.
`UpdateRow` has the columns of the UPDATE, which leaves out the recovery metadata.
`CancelContext` is `checkContext`: CANCELLED is saved with the cancelled context, so the
row stays RUNNING. `StopBackgroundScanner` closes a channel that a later start reuses:
the new goroutine ends at once, and a second stop panics (`Kill`).

What a recovered run works on is therefore less than what the run before it had. If states do
not keep their input, the execution's input is lost by the first recovery, and the results of
the states before the last successful one come back only because recovery of a RUNNING row
starts again at state 1. So `SucceededIsComplete` and `InputIsComplete` have two parts: what
holds always (every state has a SUCCEEDED history row, and the output of the last one is
saved), and what holds of whole documents only where every state keeps its input (`AllKeep`).

`late[e]` counts the recoveries that `GetExecution` began from a row of e that was no
longer RUNNING: `RecoverExecution` reads the row again but does not look at its status, so
a manager whose list is stale takes up an execution that finished, paused or failed since,
in the middle of the chain. Even with `AllKeep` two of them may do harm: with three processes
and three states, a late run that starts from a FAILED row at state 1 counts on from the
number saved there and writes state 1 again under number 2; a second late recovery, of the row
that a run in between left FAILED at state 3, finds two rows with the highest number, takes
the output of state 1, and runs state 3 without the output of state 2. What is said of
documents is therefore said of executions taken up late at most once (`AtMostOneLate`), and
without `AllKeep` of executions never taken up late.

### Repository

Tables are sets of rows; each call of the `Repository` interface is one step and one tick
of the clock, so ticks also serve as start times. `strategy` chooses
between the two implementations, which differ in keys (`GormKey`, `PgKey`), in upserts, and
in what `GetExecution` selects. A message reads the record of a waiting execution
(`FindWaiting`) and runs it later, whatever happened since (`ResumeExecution`, which like the
code accepts a RUNNING record). An execution may thus be run by several goroutines at once:
`run[e]` is the one that is scheduled and `others[e]` holds the rest (`Switch`). `disturbed`
remembers the executions this, a crash, a removal, a restart under the same id or a failed
link save happened to; the properties that do not hold for them say so. Callers are taken
not to reuse the id of an execution that is running. An execution runs, records states, waits, pauses, resumes,
ends, is cut off by `Crash` and started again under the same id; rows are deleted and
archived meanwhile. The queries (`ListExecutions`, `CountExecutions`,
`FindOrphanedExecutions`, the link queries, `GetExecutionOutput`) are operators on the
tables and the invariants relate them to one another. `SaveStateMachine` /
`InvalidateCache` and `FetchStateMachine` / `StoreStateMachine` are the two halves of the
cached definition calls.

### BatchLocal

A call lists its items (`ListSources`, where ApplyUnique drops linked sources), then
enqueues them or starts one goroutine per item: semaphore (`Acquire`), the unsynchronised
`stopProcessing` (`CheckStop`, `SetStop`), name check, insert, link, run, error channel of
capacity one (`ReportError`), `Release`. A call returns when all goroutines are done. Saving
a link may fail, which the code only logs (`PersistLink`, `unlinked`).

A call by queue returns when its tasks are enqueued. `task[c][i]` follows each of them through
a worker, which calls `Execute` with the name and the source of the task (`WorkerCheckName`,
`WorkerSave`, `WorkerLink`, `WorkerDone`), during the call or long after it; a failure at any
of these points, or the death of the worker, lets asynq try the task again or archive it
(`WorkerFails`). The task id is the execution's name and cannot be enqueued while it is in use
(`InQueue`). `overlap` counts the workers of a call as part of it (`Active`): the uniqueness of
`ApplyUnique` rests on links that the workers write, and a second call that lists its sources
before they did enqueues the same ones again, under another prefix.

### JSONPath, ChoiceRules, Nested, Definition, Interpreter

Values are records tagged with their type; a failing operation returns an error value and
a panicking one a panic value. A path is a sequence of keys and indices; a text that is no
path, or whose index is no number, has the part `Malformed` and fails where it is used. `New` is `CreateState` and `Validate` on the definition
(`REJECTED` or `READY`). Thread 0 interprets; threads 1.. are branches of a Parallel
state; a handler with a timeout is one more goroutine that the timeout abandons
(`TimeoutFires`, `AbandonedReturns`). Handlers return a result, an error, panic or hang.
A panic is recovered in thread 0 only and elsewhere ends the process (`CRASHED`). In
memory each state gets the input of the execution; the persistent loop merges outputs.
Texts are the few that `Texts` lists, with what the parsers make of them. The two
depth-first searches of the validator are recursive functions: `markReachable` adds one
unmarked name at a time to the set it marks, `canReachAnyEndState` carries the copy of
`visited` of its path. `DefinitionsAssumption` says which definitions are covered: finite
ones, with at most `MaxBranches` branches in a Parallel state and no Parallel state inside a
branch.

## 3. Runs

| Run | Result | Bounds | States | Shows |
|---|---|---|---|---|
| `dispatch` | pass | 3 items, size 2, 1 retry, 1 failure; fair | 153 k | `OneWinner`, `EnqueueOnce`, `JoinSound`, `CleanupAfterDispatch`; `IInv`, the invariant of the proofs; `WinnerElected`: a dispatched micro-batch is always joined |
| `forkjoin` | pass | 3 items, size 2, 0 retries, 1 failure | | `ImplementsForkJoin` |
| `bulk` | pass | 2 calls, 3 inputs, size 2, windows 2, 1 retry, 1 failure; fair | 580 k | `AtMostOnce` and `OneWinner` over all calls; `DropsAreFaults`: marking first loses at most one micro-batch per failure; `VerdictMatchesCounters`; `GroupJoins`: an enqueued micro-batch is joined |
| `timeout` | pass | 2 messages, all ways, both machines, 1 retry, 1 crash; fair | 787 k | `TimeoutOnce`: a redelivered timeout task does not run the TimeoutPath again; `CancelIsFinal`: after a successful cancel no TimeoutPath; `WaitResolves`: waiting ends |
| `recovery` | pass | 1 execution of 2 states, each keeping its input or not, 2 processes, 2 failures; fair | 1.23 M | `SucceededIsComplete` and `InputIsComplete`: overlapping recoveries skip no state, and which results reach the states and the row; `OrphanResolved`: no orphan stays RUNNING beside a live scanner |
| `repository` | pass | 2 executions, 2 processes, 7 calls; symmetry | 1.22 M | `ListShowsCurrent`, `LinksAgree`: queries agree; `LastSaveSurvives` deletion and archiving; `WaitingNotFinished`, `LinkedOnce`, `GormLatestOutput`; `ReadYourWrites` of the cache |
| `local` | pass | 2 calls, 2 items, 1 slot; fair | 1.37 M | `ReturnIsTrue`: what a call returns is what happened; `StopsAtFirstError`; `SequentialCallsUnique`, workers included; `BatchReturns` |
| `interpreter` | pass | definitions of `MCInterpreter`, 2 branches, 4 states; fair | 48 k | `AcceptedCanEnd`: the graph checks against reachability by sets; `NotFoundIsUnchecked`, `AcceptedRulesDecide`: how an accepted definition can still fail; `InputSurvives`, `ParallelSound`, `TimedTaskEnds` |
| `wakeup` | violation | 1 item; fair | | `PausedIsResumed`: the wake-up is lost when the worker is faster than the correlation save |
| `lost_message` | violation | 1 registered message | | `ResumedMeansContinued`: told RESUMED, waits again |
| `reexecution` | violation | as `recovery` | | `NoReexecution`: recovery runs states the history shows as SUCCEEDED |
| `stale_output` | violation | as `repository` | | `StateOutputIsLatest`: with the postgres strategy an older output is returned |

**Bounds.** Three items in micro-batches of two give a full and a short
micro-batch, hence two barriers, a cursor that does not end on a multiple of the
size, two runs, and workers of both micro-batches at once. One retry gives a
second decrement of one barrier; one failure, taken at any point, gives a lost
signal, a lost resume, a half-enqueued micro-batch and a failed evaluation. The
proofs remove the bounds for the safety properties. Two calls of `RunBulk` meet at every
key of a batch. Two messages, so that one can be stale with respect to another; one
retry, as the code sets; one crash, at any point of any process. Two states and two
failures allow a recovery that itself dies and is recovered by the other process while
the first run still lives; the strategy SKIP does what RETRY does and is not enumerated.
Seven calls are enough to save, pause, resume, archive and save again one execution, or to
chain two and restart one. One slot and two items make an item wait for another one's
error; with more slots `StopsAtFirstError` is false, as its comment explains. The
definitions have two or three states of every type with valid and invalid targets, paths
(those of Choice states too), rules, retry and catch policies.

**Symmetry.** `repository` checks invariants only, and no action or invariant of it tells two
executions or two processes apart, so permuting them is sound. The other runs use none.

**Deadlock** checking is off: executions, batches and calls end, and so does every
behaviour.

**Fairness.** Weak fairness for goroutines (they are scheduled), for queue and worker
steps (asynq servers keep polling, and a delivered task is worked on), for the polling
caller and the scanner (tickers), and for the passing of the orphan threshold. Failures, redeliveries, messages
and cancellations are not fair. `WinnerElected` needs `MaxRetry >= MaxFaults`: a task
archived before it signals leaves the barrier above 0. `WaitResolves` names its two
exceptions: a process died, or both attempts of the timeout task failed and asynq archived
it. `GroupJoins` names its own: a signal Redis refused is only logged, and the rest of a
split group waits behind an archived part. In
`BatchLocal` some goroutine of the calls that can go on does, no particular one, and workers need
not; this is enough for `BatchReturns`. In `Interpreter` only timers are fair, so
`TimedTaskEnds` holds although a handler may hang.

## 4. Proofs

`MicroBatchProofs` proves, for every `TotalCount`, `MicroBatchSize`, `MaxRetry` and
`MaxFaults` (`ConstantsAssumption`: the first two positive), that `Spec` implies
`[]IInv`, and from it `TypeOK`, `OneWinner`, `EnqueueOnce`, `JoinSound` and
`CleanupAfterDispatch`.

None of these is inductive. `EnqueueOnce` depends on who may move the cursor, and
nothing in the code locks it. The argument, in `IInv`:

* `Roles`: only runs 0 and 1 ever exist. Run 0 pauses at the first Message state,
  because its document has no marker. The correlation therefore names micro-batch 0,
  only its winner starts a run, and that run carries the marker in its document for
  ever (merging keeps it), so it never waits and nobody else is resumed.
* `Cursor`: as long as some run may still dispatch (`MayDispatch`), the cursor is at a
  slice boundary, all items before it were enqueued once and none after it
  (`Frontier`); while a run is enqueuing, the same holds with its `left` set.
* `Tasks`: each task belongs to the micro-batch whose `Span` holds its item.
* `Winners`: a barrier is missing before `Init`, present until the election, and
  missing after it; a winner about to resume is the only one of its micro-batch.
* `Counted`: without redelivery the counter equals the number of members that have
  not signalled, so it reaches 0 only when all have.

The proof has one lemma per action and, below it, one step per conjunct; the lemmas
`CursorKept`, `TasksKept`, `RolesRun0`, `RolesRun1` and `RunsKept` carry what an action
does not touch, and `SpanDisjoint`, `IndexOfMultiple` and `SliceIsSpan` the arithmetic of slices.

`MicroBatchForkJoinProofs` proves `Spec => ImplementsForkJoin` for `MaxRetry = 0`: the
initial state maps to the initial state and each action to a fork (`EnqueueNext`), a finish
(`FinishExecution`), a join (the winning `Decrement`) or a stutter. The join step is the one with content: it needs
`Counted` (nothing was redelivered, so counter 1 means one member is left, the signalling
one) and `WholeGroups`, an invariant of its own: a micro-batch whose barrier was initialised
has all ids of its span as members, so that members that finished are all tasks of the group.

**MessageWait** (`MessageWaitProofs`), for every set of messages and ways, `MaxRetry`
and `MaxCrashes`: `TypeOK`, `TimeoutOnce`, `CancelIsFinal`. The last two are about messages that carry
their marker (`MarkersCarried`), and so is the main part of `IInv`: `Begun` (until the
goroutine of `Execute` has scheduled the timeout nothing else happened), `Delivered` (a
message that resumes goes through Wait to Next, never to the TimeoutPath), `TimedOut` (a
worker past the first check is the first one on the TimeoutPath, and where it has resumed, the
correlation is closed, so a redelivery stops at the check), `Undisturbed` (a task
cancelled before its first delivery does not come back).

**Recovery** (`RecoveryProofs`), for every number of executions, processes, states and
failures and every set of states that keep their input: `TypeOK`, `SucceededIsComplete`,
`InputIsComplete`. `Trail(e)` holds however often e was recovered: contexts and the row have
the states before their current one in the history (`Behind`, `Stored`). `Sound(e)`, for
executions taken up late at most once, is about documents: outputs accumulate where every state
keeps its input (`Outputs`), a state has the results of the states before it (`Working`), a
RUNNING row is the one `Execute` inserted (`Saved`), and as long as no late recovery has begun
sequence numbers count states (`Sequence`, `InStep`, `Numbered`), which is what makes the
history row with the highest number the latest one for `Reconstruct`.

**Repository** (`RepositoryProofs`), for every set of ids and processes, any number of
calls and both strategies: `TypeOK` with the primary keys, `LastSaveSurvives`,
`ReadYourWrites`, `GormLatestOutput`, `WaitingNotFinished`, `LinkedOnce`, `LinksAgree`,
`ListShowsCurrent`. `IInv` adds the clock (`Clocked`), the versions fetched and cached
(`Definitions`), what the records in messages and the further goroutines of an execution hold
(`Concurrent`: an execution with such goroutines is disturbed), and for the others
`Undisturbed(e)`: no trace before the first
save (`Fresh`), one row, whose start is that of the run (`OneRow`), a WAITING correlation only
while the run waits or rests (`Waits`), the link before the run (`Linked`), and with
gorm-postgres history numbered in the order of time up to the number saved in the row
(`Ordered`). That `LIMIT 1` and `DISTINCT ON` find a latest row is `LatestRow`, a
well-foundedness argument (`Greatest`). Each action has one lemma; `Bystander` carries the
executions it does not concern, `OwnSaveStep` and `HistoryStep` what saving actions share.

**BatchLocal** (`BatchLocalProofs`), for every number of calls, items and slots: `TypeOK`,
`ReturnIsTrue`, `StopsAtFirstError`, `SequentialCallsUnique`. `Local(c)` describes one call
(an item without a result is still running or was left out after an error that is in the channel
or about to be sent); with one slot, a failed item holds it until `stopProcessing` is
set (`OneSlot`). `Queued(c)` says where tasks come from, and that an execution is saved before
it is linked. `Sequential`, for calls that do not overlap, workers included, says that one call
is active (`Alone`), that a name found free is still free at the save (`NamesFree`), that what
a call or a worker of it is still going to save (`Pending`) was not processed before, and that
what was processed is linked, or about to be, unless its link was lost (`Linking`). A task that
is tried again after its save stops at the name, which is why `Pending` asks for a free one. The semaphore bound is part of
`TypeOK`.

**BulkDispatch** (`BulkDispatchProofs`), for every set of calls, number of inputs,
micro-batch size, both windows, `MaxRetry` and `MaxFaults`:
`TypeOK`, `OneWinner`, `AtMostOnce`, `DropsAreFaults`, `VerdictMatchesCounters`. `IInv` has three layers, each
inductive given the one before:

* `Base`: types, a cursor that is at a micro-batch boundary (`Aligned`), and runs that hold
  inputs of the micro-batch they dispatch (`Loaded`).
* `Counting`, which gives `OneWinner`: nothing of a micro-batch has left the orchestrator
  before its marker is set (`Unmarked`), so a barrier can be initialised again only
  while no winner exists; goroutines belong to the running batch task (`Workers`); after the
  election the key is missing for good (`Elected`).
* `Dispatching`, which gives `AtMostOnce`. The lock alone does not: it expires, and a call
  whose runs are all at rest comes back when a winner resumes it. `Live(c)` says that
  call c works or may still be resumed, where a micro-batch that is `Closed` (marked,
  nobody dispatching it, nothing left in the queue) elects nobody any more; `Exclusive` says
  that one call is live, and holds the lock. Within a call, `Roles` says that run 0 gives
  way once it waits and that the only other run is the one of the winner of that micro-batch.
  Hence one run at a time is between `InitBarrier` and the last `EnqueueNext`
  (`Sole`), and what it is about to mark or to enqueue is new (`Untouched`, `Delivered`).

`DropsAreFaults` needs all of it: the only step that lets go of inputs of a marked micro-batch
is a fault in `Enqueue` (the conflict of task ids, which would do it without one, cannot happen
by `Delivered`), and a slice has at most `MicroBatchSize` inputs (`SliceSize`). The effect
of each action is one lemma (`...Effect`), used by the three layers; `Quietly` is what steps
of a run that share nothing have in common. `LockExpires` carries the assumption stated
above: a batch still running after 24 hours is not covered.

`VerdictMatchesCounters` rests on a fourth layer, `Agreeing`: as long as no outcome was lost
and the counters were not deleted (`Trusted`), an item that signals, a winner and a verdict
come after a recorded outcome, so the window is never empty when a rate is taken, and window
and snapshots hold only successes, or only failures, whenever the counters say so
(`Measured`). It is inductive given `IInv`. That the rolling average of zeros is 0
(`ZeroSum`) is the one fact about a fold: the community module defines it by a recursive
function, so the proof shows that its equation has a solution and then takes a smallest
set on which the sum is not 0.

**Interpreter** (`InterpreterProofs`), for every set of finite definitions, inputs, task
results and errors, any number of branches and any operators `MergeMaps` and
`EvaluateChoice`: `AcceptedCanEnd`, `ParallelSound`, `NotFoundIsUnchecked`.

* `AcceptedCanEnd` is about the searches. A recursive function is `CHOOSE` of a solution of
  its equation, so there are two things to show. A solution exists: the least set closed under
  the search (`Exiting`, `Closure`) is one. And any solution is sound (`CanSound`, `MarkSound`):
  if a state outside a closed set were marked, or a search from inside a closed set without end
  state succeeded, there would be such a call with the fewest unvisited states
  (`Smallest`), and the call it makes has one less. Finiteness of the definition is what makes
  the searches end, and is used only there.
* `ParallelSound` and `NotFoundIsUnchecked` need `IInv`: only a validated definition runs
  (`Checked`), nothing runs outside an execution (`Idle`), the phase of thread 0 fits the type of
  its state and a name not looked up by `Validate` came from a Choice or a Catch (`Placed`),
  branches exist only in the join of the Parallel state that defines them (`Forked`), and as long
  as an execution with a failed branch runs, the error is still in some finished branch
  (`Remembered`). The last one is what makes the second half of `ParallelSound` inductive:
  `JoinBranches` waits for all branches, so it sees the error.
* Each action has a lemma that names its effect on the goroutines (`Ended`, `Moved`, `Stayed`,
  `Started`, `Branched`), and each effect a lemma that it keeps `IInv`.

The assumptions are those named in the modules (`BatchAssumption`, `BulkAssumption`, `MessageWaitAssumption`,
`ConstantsAssumption`, `RepositoryAssumption`, `InterpreterAssumption`, `DefinitionsAssumption`):
positive sizes, natural bounds, disjoint sets of model values, and finite definitions. TLC evaluates them in the runs, and each inductive invariant
was checked with TLC before it was proved.

Only model-checked: liveness (`WinnerElected`, `WaitResolves`, `OrphanResolved`,
`BatchReturns`, `GroupJoins`, `TimedTaskEnds`), which is out of the prover's reach; and
`InputSurvives` and `AcceptedRulesDecide`, which are about what `mergeMaps` and
`evaluateChoice` compute on nested data, an induction over data through RECURSIVE operators.

## 5. Findings

Four statements of the repository's comments and documents are refuted by runs; the
`findings` of `PROJECT.json` quote them: the lost wake-up of the orchestrator, the message
that is lost on a registered machine, recovery that runs completed states again, and the
older output that the postgres strategy returns.

Behaviours the models have and no property is about:

* `MicroBatch`: a winner between the correlation and the PAUSED save resumes from a row
  that is not yet PAUSED and completes the batch early; after the first micro-batch the
  received marker stays in the document, so later ones are not waited for; a Fail state
  returns no error, so a failed batch ends SUCCEEDED.
* `MessageWait`: a message and the timeout that both read WAITING both run; a worker that
  dies after marking TIMEOUT leaves the row PAUSED; a `loaded` machine saves nothing, so
  the correlation stays WAITING and the timer armed.
* `Recovery`: attempts are counted in memory only, so their limit is never reached; history
  and row hold the output of one state, so with the default ResultPath a recovered execution
  goes on without its input and, when it is taken up late, without earlier results.
* `Repository`: a message between the WAITING correlation and the PAUSED save
  (`persistent.go:333` and `:349`), and two messages that read one record, start a second run
  of an execution, which numbers its history from the same point and may finish it while the
  other one waits again; the postgres strategy has no working `FindOrphanedExecutions` (a column
  that does not exist) and no `ListNonLinkedExecutions`; archiving a row that is already
  archived fails, and with it every later archiving that covers it.
* `BatchLocal`: `ConcurrentBatches = 0` never returns; overlapping calls process a source
  twice and reuse names, and calls by queue overlap until the workers of the first are done
  (the payload does not say ApplyUnique, `persistent.go:811`, and a worker does not look);
  a link that is not saved is only logged, and its source is processed again.
* `Interpreter`: a panic in a handler with a timeout, or in a branch, ends the process;
  task Parameters are expanded twice; an End task whose Catch applies ends SUCCEEDED
  without running the target; a Task with neither Next nor End ends SUCCEEDED in memory
  and FAILED in the persistent machine; the first positive MaxAttempts governs every
  retry policy; only the persistent machine chains outputs.

## 6. Plan

Every invariant that a run checks has a theorem, and so has every action property but
`InputSurvives` and `AcceptedRulesDecide`. What is left: further action properties derived from
the same invariants (a marker is never removed, a finished row never goes back to RUNNING
except by recovery), a lock that expires while its batch still runs, which `LockExpires`
excludes, and Parallel states inside branches.

## 7. Not modelled

* The PauseBatch loop of the orchestrator and its resume controller: no document leads
  there (`PathTrue`).
* Group enqueue on the `Run` path (as in `BulkDispatch`), `EnsureDefinition`, and the entry
  points that only build an orchestrator.
* Repository statistics, partitions, health checks, paging and sort orders, SQL text and
  JSON encoding: pure I/O.
* Input transformers and task handlers: supplied by the application.
* A Parallel state inside a branch of another one (its branches would be a second level of
  goroutines).
* In-memory executions of `executor.Message`: the library never gives them correlation data.
* `ValidateJSONPath`: not called by `New`.
* Saves of execution rows that fail (only logged by `persistExecution`), except under a
  cancelled context (`Recovery`); a task that asynq delivers again while its first worker still
  runs (`BatchLocal`); a batch lock that expires under a running batch (`BulkDispatch`).
* Registry, errors, shared types (containers), and the examples.
