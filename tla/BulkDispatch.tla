---------------------------- MODULE BulkDispatch ----------------------------
(***************************************************************************)
(* The bulk orchestrator (RunBulk) with group enqueue: RunBulk may be      *)
(* called several times for one batch id, also after the lock of a batch   *)
(* at rest has expired; a micro-batch is marked as dispatched before its   *)
(* inputs are enqueued;                                                    *)
(* asynq aggregates the tasks of a micro-batch into batch tasks, which     *)
(* HandleBatchExecution runs and asynq delivers again as a whole when one  *)
(* of them failed.  Workers record outcomes and signal the barrier; the    *)
(* winner resumes every orchestrator execution waiting for the micro-batch.*)
(*                                                                         *)
(* What differs from module MicroBatch is modelled step by step; choices   *)
(* between two steps of one orchestrator run that touch nothing shared are *)
(* part of the step before.  All calls pass the same inputs.  Keys with a  *)
(* lifetime of a week (inputs, markers, cursor, metrics) do not expire.    *)
(***************************************************************************)
EXTENDS Integers, FiniteSets, Sequences, FiniteSetsExt

CONSTANTS
    Callers,         \* calls of RunBulk for the batch
    NumInputs,       \* len(inputs)
    MicroBatchSize,
    WindowN,         \* outcomes in the metrics window
    Whole,           \* the rate 1, in a unit that makes the rate of every window an integer
    WindowM,         \* micro-batches in the rolling average
    MaxRetry,        \* redeliveries of a batch task
    MaxFaults        \* bound: infrastructure failures and crashes

ASSUME BulkAssumption ==
    /\ NumInputs \in Nat \ {0} /\ MicroBatchSize \in Nat \ {0}
    /\ WindowN \in Nat \ {0} /\ WindowM \in Nat \ {0}
    /\ Whole \in Nat \ {0} /\ \A n \in 1..WindowN : Whole % n = 0
    /\ MaxRetry \in Nat /\ MaxFaults \in Nat

Items == 0..(NumInputs - 1)
MBs   == 0..((NumInputs - 1) \div MicroBatchSize)
Runs  == 0..(((NumInputs - 1) \div MicroBatchSize) + 1)
NoMB    == -1
Missing == -1

VARIABLES
    \* Redis
    lock, cursor, dispatched, barrier, window, processed, failed, rate,
    \* orchestrator runs: run 0 is the goroutine of RunBulk, run k + 1 the one
    \* started by the winner of micro-batch k
    call, pc, doc, left, snap,
    \* repository: orchestrator rows, correlations, names of target executions
    row, corr, named,
    \* asynq: tasks waiting for aggregation, the batch task of each group
    pending, group,
    \* the goroutine of each item inside HandleBatchExecution
    ipc, failure,
    faults,
    \* history
    enq, wins, lostOutcomes, lostSignal, cleaned, verdict

redisVars == <<lock, cursor, dispatched, barrier, window, processed, failed, rate>>
orchVars  == <<call, pc, doc, left, snap>>
repoVars  == <<row, corr, named>>
queueVars == <<pending, group>>
itemVars  == <<ipc, failure>>
histVars  == <<enq, wins, lostOutcomes, lostSignal, cleaned, verdict>>
vars == <<redisVars, orchVars, repoVars, queueVars, itemVars, faults, histVars>>

\* The document of a run: fresh is the Go struct of RunBulk, batch tells whether it
\* has batch_id and total_count, marker whether it holds a received message.
BulkOrchestratorInput == [fresh |-> TRUE, batch |-> TRUE, marker |-> FALSE, mb |-> NoMB]
NoRow == [status |-> "none", cur |-> "Dispatch", mb |-> NoMB]

Init ==
    /\ lock = FALSE /\ cursor = 0 /\ dispatched = {}
    /\ barrier = [k \in MBs |-> Missing]
    /\ window = <<>> /\ processed = 0 /\ failed = 0 /\ rate = [k \in MBs |-> Missing]
    /\ call = [c \in Callers |-> "new"]
    /\ pc = [c \in Callers |-> [r \in Runs |-> "none"]]
    /\ doc = [c \in Callers |-> [r \in Runs |-> BulkOrchestratorInput]]
    /\ left = [c \in Callers |-> [r \in Runs |-> {}]]
    /\ snap = [c \in Callers |-> [r \in Runs |-> NoRow]]
    /\ row = [c \in Callers |-> NoRow] /\ named = {}
    /\ corr = [c \in Callers |-> [status |-> "none", mb |-> NoMB]]
    /\ pending = [k \in MBs |-> {}]
    /\ group = [k \in MBs |-> [status |-> "none", items |-> {}, retried |-> 0]]
    /\ ipc = [i \in Items |-> "idle"] /\ failure = [i \in Items |-> FALSE]
    /\ faults = 0
    /\ enq = [i \in Items |-> 0] /\ wins = [k \in MBs |-> 0]
    /\ lostOutcomes = 0 /\ lostSignal = {} /\ cleaned = FALSE
    /\ verdict = "none"

Fault == faults < MaxFaults /\ faults' = faults + 1

Goto(c, r, from, to) == pc[c][r] = from /\ pc' = [pc EXCEPT ![c][r] = to]

\* A run that ends leaves nothing in memory.
Ends(c, r) ==
    /\ pc' = [pc EXCEPT ![c][r] = "ended"]
    /\ doc' = [doc EXCEPT ![c][r] = BulkOrchestratorInput]
    /\ left' = [left EXCEPT ![c][r] = {}]
    /\ snap' = [snap EXCEPT ![c][r] = NoRow]

Slice(k) == {i \in Items : i \div MicroBatchSize = k}
MbOf(i)  == i \div MicroBatchSize

-----------------------------------------------------------------------------
(* RunBulk.                                                                *)

\* Variant: the lock is not looked at.
RunBulkUnlocked(c) ==
    /\ call[c] = "new"
    /\ call' = [call EXCEPT ![c] = "locked"]
    /\ lock' = TRUE
    /\ UNCHANGED <<cursor, dispatched, barrier, window, processed, failed, rate,
                   pc, doc, left, snap, repoVars, queueVars, itemVars, faults, histVars>>

\* SETNX of the batch lock. A call that finds it set is refused and changes nothing; it
\* may be made again later.
RunBulk(c) ==
    /\ call[c] = "new" /\ ~lock
    /\ call' = [call EXCEPT ![c] = "locked"]
    /\ lock' = TRUE
    /\ UNCHANGED <<cursor, dispatched, barrier, window, processed, failed, rate,
                   pc, doc, left, snap, repoVars, queueVars, itemVars, faults, histVars>>

\* storeBulkInputs (appends; only the first NumInputs entries are ever read), load the
\* definition, start the goroutine whose Execute saves the row; on an error RunBulk
\* returns and the lock stays.
StoreBulkInputs(c) ==
    /\ call[c] = "locked"
    /\ \/ /\ call' = [call EXCEPT ![c] = "running"]
          /\ pc' = [pc EXCEPT ![c][0] = "Dispatch"]
          /\ row' = [row EXCEPT ![c].status = "RUNNING"]
          /\ UNCHANGED faults
       \/ /\ Fault
          /\ call' = [call EXCEPT ![c] = "error"]
          /\ UNCHANGED <<pc, row>>
    /\ UNCHANGED <<lock, cursor, dispatched, barrier, window, processed, failed, rate,
                   doc, left, snap, corr, named, queueVars, itemVars, histVars>>

AtRest(c, r) == pc[c][r] \in {"none", "ended"}

\* asynq has nothing left to run for micro-batch k.
Quiet(k) == \/ group[k].status = "archived"
            \/ group[k].status \in {"none", "done"} /\ pending[k] = {}

\* The lock's 24 hours end. Batches are taken to be over, dead or stuck by then: for
\* one that is still going the lock would let a second orchestrator in beside it.
LockExpires ==
    /\ lock
    /\ \A c \in Callers : call[c] # "locked" /\ \A r \in Runs : AtRest(c, r)
    /\ \A k \in MBs : Quiet(k)
    /\ lock' = FALSE
    /\ UNCHANGED <<cursor, dispatched, barrier, window, processed, failed, rate,
                   orchVars, repoVars, queueVars, itemVars, faults, histVars>>

-----------------------------------------------------------------------------
(* The orchestrator's states.                                              *)

\* cleanupBatchResources: finds the batch id only in a map. The list of inputs, the
\* markers, the rates and the lock stay.
CleanupBatchResources(d) ==
    IF d.fresh \/ ~d.batch
    THEN UNCHANGED <<cursor, window, processed, failed, cleaned>>
    ELSE cursor' = 0 /\ window' = <<>> /\ processed' = 0 /\ failed' = 0 /\ cleaned' = TRUE

\* handleDispatchBulk finds the cursor at the end, or a document without total_count.
DispatchComplete(c, r) ==
    /\ ~doc[c][r].batch \/ cursor >= NumInputs
    /\ Goto(c, r, "Dispatch", "Completed")
    /\ CleanupBatchResources(doc[c][r])
    /\ UNCHANGED <<lock, dispatched, barrier, rate, call, doc, left, snap, repoVars,
                   queueVars, itemVars, faults, enq, wins, lostOutcomes, lostSignal,
                   verdict>>

\* MergeInputs of the handler's result: a struct is replaced by it.
Dispatched(d, k) == [d EXCEPT !.mb = k, !.batch = ~d.fresh /\ @, !.fresh = FALSE]

\* The marker says the micro-batch was dispatched: only the cursor advances.
SkipDispatched(c, r) ==
    LET k == cursor \div MicroBatchSize IN
    /\ doc[c][r].batch /\ cursor < NumInputs /\ k \in dispatched
    /\ Goto(c, r, "Dispatch", "Wait")
    /\ cursor' = cursor + Cardinality(Slice(k))
    /\ doc' = [doc EXCEPT ![c][r] = Dispatched(@, k)]
    /\ UNCHANGED <<lock, dispatched, barrier, window, processed, failed, rate,
                   call, left, snap, repoVars, queueVars, itemVars, faults, histVars>>

\* Variant: the barrier is initialised to the configured size.
InitBarrierFull(c, r) ==
    LET k == cursor \div MicroBatchSize IN
    /\ doc[c][r].batch /\ cursor < NumInputs /\ k \notin dispatched
    /\ Goto(c, r, "Dispatch", "Mark")
    /\ barrier' = [barrier EXCEPT ![k] = IF @ = Missing THEN MicroBatchSize ELSE @]
    /\ doc' = [doc EXCEPT ![c][r] = Dispatched(@, k)]
    /\ left' = [left EXCEPT ![c][r] = Slice(k)]
    /\ UNCHANGED <<lock, cursor, dispatched, window, processed, failed, rate,
                   call, snap, repoVars, queueVars, itemVars, faults, histVars>>

\* Barrier.Init, a SET NX.
InitBarrier(c, r) ==
    LET k == cursor \div MicroBatchSize IN
    /\ doc[c][r].batch /\ cursor < NumInputs /\ k \notin dispatched
    /\ Goto(c, r, "Dispatch", "Mark")
    /\ barrier' = [barrier EXCEPT ![k] = IF @ = Missing THEN Cardinality(Slice(k)) ELSE @]
    /\ doc' = [doc EXCEPT ![c][r] = Dispatched(@, k)]
    /\ left' = [left EXCEPT ![c][r] = Slice(k)]
    /\ UNCHANGED <<lock, cursor, dispatched, window, processed, failed, rate,
                   call, snap, repoVars, queueVars, itemVars, faults, histVars>>

\* Variant: the cursor is advanced, the marker forgotten.
MarkDispatchedCursorOnly(c, r) ==
    LET k == doc[c][r].mb IN
    /\ Goto(c, r, "Mark", "Enqueue")
    /\ cursor' = k * MicroBatchSize + Cardinality(Slice(k))
    /\ UNCHANGED <<lock, dispatched, barrier, window, processed, failed, rate,
                   call, doc, left, snap, repoVars, queueVars, itemVars, faults, histVars>>

\* markDispatched: marker and cursor in one pipeline, before the inputs are enqueued.
MarkDispatched(c, r) ==
    LET k == doc[c][r].mb IN
    /\ Goto(c, r, "Mark", "Enqueue")
    /\ dispatched' = dispatched \cup {k}
    /\ cursor' = k * MicroBatchSize + Cardinality(Slice(k))
    /\ UNCHANGED <<lock, barrier, window, processed, failed, rate,
                   call, doc, left, snap, repoVars, queueVars, itemVars, faults, histVars>>

\* Variant: the loop ends one task early.
EnqueueNextButLast(c, r, i) ==
    LET k == doc[c][r].mb IN
    /\ i \in left[c][r] /\ \A j \in left[c][r] : i <= j
    /\ Goto(c, r, "Enqueue", IF Cardinality(left[c][r]) <= 2 THEN "Wait" ELSE "Enqueue")
    /\ left' = [left EXCEPT ![c][r] = @ \ {i}]
    /\ pending' = [pending EXCEPT ![k] = @ \cup {i}]
    /\ enq' = [enq EXCEPT ![i] = @ + 1]
    /\ UNCHANGED <<redisVars, call, doc, snap, repoVars, group, itemVars, faults,
                   wins, lostOutcomes, lostSignal, cleaned, verdict>>

\* enqueueBulkInputs and EnqueueExecutionGroup, one task; a task id still in use is
\* an error, which Catch routes to BatchFailed.
EnqueueNext(c, r, i) ==
    LET k == doc[c][r].mb IN
    /\ i \in left[c][r] /\ \A j \in left[c][r] : i <= j
    /\ IF i \in pending[k]
       THEN /\ Goto(c, r, "Enqueue", "Failed")
            /\ UNCHANGED <<left, pending, enq>>
       ELSE /\ Goto(c, r, "Enqueue", IF left[c][r] = {i} THEN "Wait" ELSE "Enqueue")
            /\ left' = [left EXCEPT ![c][r] = @ \ {i}]
            /\ pending' = [pending EXCEPT ![k] = @ \cup {i}]
            /\ enq' = [enq EXCEPT ![i] = @ + 1]
    /\ UNCHANGED <<redisVars, call, doc, snap, repoVars, group, itemVars, faults,
                   wins, lostOutcomes, lostSignal, cleaned, verdict>>

\* A Redis or queue error inside a Task state: Catch States.ALL routes to BatchFailed.
TaskStateError(c, r) ==
    /\ pc[c][r] \in {"Dispatch", "Mark", "Enqueue", "Evaluate"}
    /\ Fault
    /\ pc' = [pc EXCEPT ![c][r] = "Failed"]
    /\ UNCHANGED <<redisVars, call, doc, left, snap, repoVars, queueVars, itemVars,
                   enq, wins, lostOutcomes, lostSignal, cleaned, verdict>>

\* The process of a run dies; its row and Redis keep what they have.
Crash(c, r) ==
    /\ ~AtRest(c, r)
    /\ Fault
    /\ Ends(c, r)
    /\ UNCHANGED <<redisVars, call, repoVars, queueVars, itemVars,
                   enq, wins, lostOutcomes, lostSignal, cleaned, verdict>>

\* WaitForBulkMicroBatchCompletion with a received message in its input (the marker of
\* an earlier micro-batch counts): the output is the original input again.
MessageReceived(c, r) ==
    /\ doc[c][r].marker
    /\ Goto(c, r, "Wait", "Evaluate")
    /\ doc' = [doc EXCEPT ![c][r].batch = TRUE]
    /\ UNCHANGED <<redisVars, call, left, snap, repoVars, queueVars, itemVars, faults, histVars>>

\* handleWaitingState: first the correlation...
SaveMessageCorrelation(c, r) ==
    /\ ~doc[c][r].marker
    /\ Goto(c, r, "Wait", "Pause")
    /\ corr' = [corr EXCEPT ![c] = [status |-> "WAITING", mb |-> doc[c][r].mb]]
    /\ UNCHANGED <<redisVars, call, doc, left, snap, row, named, queueVars, itemVars,
                   faults, histVars>>

\* ... then the row.
PauseExecution(c, r) ==
    /\ pc[c][r] = "Pause"
    /\ row' = [row EXCEPT ![c] = [status |-> "PAUSED", cur |-> "Wait", mb |-> doc[c][r].mb]]
    /\ Ends(c, r)
    /\ UNCHANGED <<redisVars, call, corr, named, queueVars, itemVars,
                   faults, histVars>>

\* Terminal states: FailState.Execute returns no error, so both end SUCCEEDED.
Terminate(c, r) ==
    /\ pc[c][r] \in {"Completed", "Failed"}
    /\ Ends(c, r)
    /\ row' = [row EXCEPT ![c] = [status |-> "SUCCEEDED", cur |-> pc[c][r],
                                  mb |-> doc[c][r].mb]]
    /\ UNCHANGED <<redisVars, call, corr, named, queueVars, itemVars,
                   faults, histVars>>

\* ResumeExecution on the row the winner read.
ResumeExecution(c, r) ==
    /\ IF snap[c][r].status \in {"PAUSED", "RUNNING"}
       THEN /\ Goto(c, r, "Resume", snap[c][r].cur)
            /\ corr' = IF snap[c][r].cur = "Wait" THEN [corr EXCEPT ![c].status = "RECEIVED"]
                                                  ELSE corr
            /\ row' = IF snap[c][r].status = "PAUSED"
                      THEN [row EXCEPT ![c] = [snap[c][r] EXCEPT !.status = "RUNNING"]]
                      ELSE row
       ELSE Goto(c, r, "Resume", "ended") /\ UNCHANGED <<row, corr>>
    /\ snap' = [snap EXCEPT ![c][r] = NoRow]
    /\ UNCHANGED <<redisVars, call, doc, left, named, queueVars, itemVars,
                   faults, histVars>>

-----------------------------------------------------------------------------
(* Metrics and evaluation.                                                 *)

Failures(w) == Cardinality({j \in 1..Len(w) : w[j] = 1})

\* Variant: the bits are read the wrong way round.
ComputeSuccessRate(w) == IF w = <<>> THEN 0 ELSE (Len(w) - Failures(w)) * (Whole \div Len(w))

ComputeFailureRate(w) == IF w = <<>> THEN 0 ELSE Failures(w) * (Whole \div Len(w))

\* RPUSH and LTRIM to the last WindowN entries.
PushOutcome(w, bit) ==
    LET all == Append(w, bit) IN
    IF Len(all) > WindowN THEN SubSeq(all, Len(all) - WindowN + 1, Len(all)) ELSE all

\* Whether the average of the snapshots of the last WindowM micro-batches is at least
\* the soft threshold, 0.2; missing snapshots are left out.
RollingAtLeastSoft(k) ==
    LET S == {j \in MBs : k - WindowM + 1 <= j /\ j <= k /\ rate[j] # Missing} IN
    S # {} /\ 5 * MapThenSumSet(LAMBDA j : rate[j], S) >= Whole * Cardinality(S)

Evaluate(k) ==
    IF 2 * ComputeFailureRate(window) >= Whole THEN "severe"
    ELSE IF RollingAtLeastSoft(k) THEN "below" ELSE "healthy"

\* handleEvaluateBulk fails without a dispatchResult. EvaluationDecision cannot look
\* into the Go struct it returns: the Default, Dispatch, is taken whatever the verdict.
EvaluateBulkMicroBatch(c, r) ==
    LET k == doc[c][r].mb IN
    /\ Goto(c, r, "Evaluate", IF k = NoMB THEN "Failed" ELSE "Dispatch")
    /\ verdict' = IF k = NoMB THEN verdict ELSE Evaluate(k)
    /\ UNCHANGED <<redisVars, call, doc, left, snap, repoVars, queueVars, itemVars, faults,
                   enq, wins, lostOutcomes, lostSignal, cleaned>>

-----------------------------------------------------------------------------
(* asynq.                                                                  *)

\* Tasks of group k become one batch task, at any time after the first; its task id
\* batch-k must be free. Members' own task ids are free again.
Aggregate(k) ==
    /\ pending[k] # {} /\ group[k].status \in {"none", "done"}
    /\ group' = [group EXCEPT ![k] = [status |-> "queued", items |-> pending[k], retried |-> 0]]
    /\ pending' = [pending EXCEPT ![k] = {}]
    /\ UNCHANGED <<redisVars, orchVars, repoVars, itemVars, faults, histVars>>

AfterAttempt(g) ==
    IF g.retried < MaxRetry THEN [g EXCEPT !.status = "queued", !.retried = @ + 1]
                            ELSE [g EXCEPT !.status = "archived"]

\* A worker starts HandleBatchExecution: a goroutine per task (the limit is at least 10).
HandleBatchExecution(k) ==
    /\ group[k].status = "queued"
    /\ group' = [group EXCEPT ![k].status = "running"]
    /\ ipc' = [i \in Items |-> IF i \in group[k].items THEN "load" ELSE ipc[i]]
    /\ UNCHANGED <<redisVars, orchVars, repoVars, pending, failure, faults, histVars>>

\* wg.Wait: one failure fails the batch task.
FinishBatchExecution(k) ==
    /\ group[k].status = "running"
    /\ \A i \in group[k].items : ipc[i] = "over"
    /\ group' = [group EXCEPT ![k] = IF \E i \in @.items : failure[i] THEN AfterAttempt(@)
                                     ELSE [@ EXCEPT !.status = "done"]]
    /\ ipc' = [i \in Items |-> IF i \in group[k].items THEN "idle" ELSE ipc[i]]
    /\ failure' = [i \in Items |-> failure[i] /\ i \notin group[k].items]
    /\ UNCHANGED <<redisVars, orchVars, repoVars, pending, faults, histVars>>

\* The worker dies; asynq's recoverer hands the task out again.
WorkerCrash(k) ==
    /\ group[k].status = "running"
    /\ Fault
    /\ group' = [group EXCEPT ![k] = AfterAttempt(@)]
    /\ ipc' = [i \in Items |-> IF i \in group[k].items THEN "idle" ELSE ipc[i]]
    /\ failure' = [i \in Items |-> failure[i] /\ i \notin group[k].items]
    /\ UNCHANGED <<redisVars, orchVars, repoVars, pending, histVars>>

-----------------------------------------------------------------------------
(* processBatchTask, one goroutine per item.                               *)

ItemGoto(i, from, to) == ipc[i] = from /\ ipc' = [ipc EXCEPT ![i] = to]

\* The definition cannot be loaded: the task fails without a signal.
LoadFails(i) ==
    /\ ItemGoto(i, "load", "over")
    /\ Fault
    /\ failure' = [failure EXCEPT ![i] = TRUE]
    /\ UNCHANGED <<redisVars, orchVars, repoVars, queueVars, histVars>>

\* Execute: an existing name is an error; a new execution may fail.
ExecuteItem(i) ==
    /\ ItemGoto(i, "load", "record")
    /\ \E ok \in BOOLEAN :
          failure' = [failure EXCEPT ![i] = i \in named \/ ~ok]
    /\ named' = named \cup {i}
    /\ UNCHANGED <<redisVars, orchVars, row, corr, queueVars, faults, histVars>>

\* RecordOutcome; an error is only logged.
RecordOutcome(i) ==
    /\ ItemGoto(i, "record", "signal")
    /\ \/ /\ window' = PushOutcome(window, IF failure[i] THEN 1 ELSE 0)
          /\ processed' = processed + 1
          /\ failed' = IF failure[i] THEN failed + 1 ELSE failed
          /\ UNCHANGED <<faults, lostOutcomes>>
       \/ /\ Fault
          /\ lostOutcomes' = lostOutcomes + 1
          /\ UNCHANGED <<window, processed, failed>>
    /\ UNCHANGED <<lock, cursor, dispatched, barrier, rate, orchVars, repoVars,
                   queueVars, failure, enq, wins, lostSignal, cleaned, verdict>>

\* Variant: the script does not delete the key at 0.
DecrementKeepsKey(i) ==
    LET k == MbOf(i) IN
    /\ ItemGoto(i, "signal", IF barrier[k] = 1 THEN "snapshot" ELSE "over")
    /\ barrier' = [barrier EXCEPT ![k] = IF @ = Missing THEN @ ELSE @ - 1]
    /\ wins' = [wins EXCEPT ![k] = IF barrier[k] = 1 THEN @ + 1 ELSE @]
    /\ UNCHANGED <<lock, cursor, dispatched, window, processed, failed, rate,
                   orchVars, repoVars, queueVars, failure, faults, enq, lostOutcomes,
                   lostSignal, cleaned, verdict>>

\* Decrement: the Lua script deletes the key at 0 and answers -1 for a missing one; an
\* error is only logged.
Decrement(i) ==
    LET k == MbOf(i) IN
    /\ \/ /\ barrier[k] = 1
          /\ ItemGoto(i, "signal", "snapshot")
          /\ barrier' = [barrier EXCEPT ![k] = Missing]
          /\ wins' = [wins EXCEPT ![k] = @ + 1]
          /\ UNCHANGED <<faults, lostSignal>>
       \/ /\ barrier[k] # 1
          /\ ItemGoto(i, "signal", "over")
          /\ barrier' = [barrier EXCEPT ![k] = IF @ = Missing THEN @ ELSE @ - 1]
          /\ UNCHANGED <<wins, faults, lostSignal>>
       \/ /\ Fault
          /\ ItemGoto(i, "signal", "over")
          /\ lostSignal' = lostSignal \cup {k}
          /\ UNCHANGED <<barrier, wins>>
    /\ UNCHANGED <<lock, cursor, dispatched, window, processed, failed, rate,
                   orchVars, repoVars, queueVars, failure, enq, lostOutcomes, cleaned,
                   verdict>>

\* SnapshotMicroBatchRate by the winner.
SnapshotMicroBatchRate(i) ==
    /\ ItemGoto(i, "snapshot", "resume")
    /\ rate' = [rate EXCEPT ![MbOf(i)] = ComputeFailureRate(window)]
    /\ UNCHANGED <<lock, cursor, dispatched, barrier, window, processed, failed,
                   orchVars, repoVars, queueVars, failure, faults, histVars>>

Waiting(k) == {c \in Callers : corr[c] = [status |-> "WAITING", mb |-> k]}

\* ResumeOrchestrator: one goroutine per execution waiting for the micro-batch, with
\* the marker merged into the output of its row.
ResumeOrchestrator(i) ==
    LET k == MbOf(i) IN
    /\ ItemGoto(i, "resume", "over")
    /\ pc' = [c \in Callers |-> IF c \in Waiting(k) THEN [pc[c] EXCEPT ![k + 1] = "Resume"] ELSE pc[c]]
    /\ snap' = [c \in Callers |-> IF c \in Waiting(k) THEN [snap[c] EXCEPT ![k + 1] = row[c]] ELSE snap[c]]
    /\ doc' = [c \in Callers |-> IF c \in Waiting(k)
                  THEN [doc[c] EXCEPT ![k + 1] = [fresh |-> FALSE, batch |-> FALSE,
                                                  marker |-> TRUE, mb |-> row[c].mb]]
                  ELSE doc[c]]
    /\ UNCHANGED <<redisVars, call, left, repoVars, queueVars, failure, faults, histVars>>

-----------------------------------------------------------------------------
RunStep(c, r) ==
    \/ DispatchComplete(c, r) \/ SkipDispatched(c, r) \/ InitBarrier(c, r)
    \/ MarkDispatched(c, r) \/ (\E i \in Items : EnqueueNext(c, r, i))
    \/ MessageReceived(c, r) \/ SaveMessageCorrelation(c, r) \/ PauseExecution(c, r)
    \/ Terminate(c, r) \/ ResumeExecution(c, r) \/ EvaluateBulkMicroBatch(c, r)

ItemStep(i) ==
    \/ LoadFails(i) \/ ExecuteItem(i) \/ RecordOutcome(i) \/ Decrement(i)
    \/ SnapshotMicroBatchRate(i) \/ ResumeOrchestrator(i)

QueueStep(k) == Aggregate(k) \/ HandleBatchExecution(k) \/ FinishBatchExecution(k)

Next ==
    \/ \E c \in Callers :
          \/ RunBulk(c) \/ StoreBulkInputs(c)
          \/ \E r \in Runs : RunStep(c, r) \/ TaskStateError(c, r) \/ Crash(c, r)
    \/ LockExpires
    \/ \E k \in MBs : QueueStep(k) \/ WorkerCrash(k)
    \/ \E i \in Items : ItemStep(i)

Spec == Init /\ [][Next]_vars

(* asynq aggregates, delivers and recovers tasks and workers run them to the end. *)
Fairness ==
    /\ \A k \in MBs : WF_vars(QueueStep(k))
    /\ \A i \in Items : WF_vars(ItemStep(i))

FairSpec == Spec /\ Fairness

-----------------------------------------------------------------------------
(* Properties.                                                             *)

RunPc == {"none", "Resume", "Dispatch", "Mark", "Enqueue", "Wait", "Pause", "Evaluate",
          "Completed", "Failed", "ended"}
Documents == [fresh : BOOLEAN, batch : BOOLEAN, marker : BOOLEAN, mb : MBs \cup {NoMB}]
Rows == [status : {"none", "RUNNING", "PAUSED", "SUCCEEDED"},
         cur : {"Dispatch", "Wait", "Completed", "Failed"}, mb : MBs \cup {NoMB}]
Correlations == [status : {"none", "WAITING", "RECEIVED"}, mb : MBs \cup {NoMB}]
BatchTasks == [status : {"none", "queued", "running", "done", "archived"},
               items : SUBSET Items, retried : 0..MaxRetry]

RedisType ==
    /\ lock \in BOOLEAN /\ cursor \in 0..NumInputs /\ dispatched \subseteq MBs
    /\ barrier \in [MBs -> {Missing} \cup 1..MicroBatchSize]
    /\ window \in Seq({0, 1}) /\ Len(window) <= WindowN
    /\ processed \in Nat /\ failed \in 0..processed
    /\ rate \in [MBs -> {Missing} \cup 0..Whole]

RunType ==
    /\ call \in [Callers -> {"new", "locked", "error", "running"}]
    /\ pc \in [Callers -> [Runs -> RunPc]]
    /\ doc \in [Callers -> [Runs -> Documents]]
    /\ left \in [Callers -> [Runs -> SUBSET Items]]
    /\ snap \in [Callers -> [Runs -> Rows]]

RepoType == row \in [Callers -> Rows] /\ corr \in [Callers -> Correlations] /\ named \subseteq Items

QueueType ==
    /\ pending \in [MBs -> SUBSET Items] /\ group \in [MBs -> BatchTasks]
    /\ \A k \in MBs : pending[k] \subseteq Slice(k) /\ group[k].items \subseteq Slice(k)

ItemType ==
    /\ ipc \in [Items -> {"idle", "load", "record", "signal", "snapshot", "resume", "over"}]
    /\ failure \in [Items -> BOOLEAN]

(* Types; the tasks of a micro-batch are its inputs.                         *)
TypeOK ==
    /\ RedisType /\ RunType /\ RepoType /\ QueueType /\ ItemType
    /\ faults \in 0..MaxFaults /\ enq \in [Items -> Nat] /\ wins \in [MBs -> Nat]

(* At most once: whatever crashes, and however often RunBulk is called for the batch,
   also when its lock expires once it has come to rest, no input is enqueued twice. *)
AtMostOnce == \A i \in Items : enq[i] <= 1

(* A micro-batch elects at most one winner: redelivered batch tasks and an orchestrator
   that initialises the barrier a second time do not start a second countdown.  *)
OneWinner == \A k \in MBs : wins[k] <= 1

\* Inputs some run is about to enqueue; inputs of marked micro-batches nobody enqueued
\* and nobody is about to.
InHand == {i \in Items : \E c \in Callers, r \in Runs : pc[c][r] = "Enqueue" /\ i \in left[c][r]}
Dropped == {i \in Items : MbOf(i) \in dispatched /\ enq[i] = 0} \ InHand

(* Marking before enqueueing costs at most the micro-batch in hand: inputs of marked
   micro-batches that nobody enqueued, and nobody is about to, number at most
   MicroBatchSize for every fault.                                             *)
DropsAreFaults == Cardinality(Dropped) <= faults * MicroBatchSize

(* The last verdict rests on the window and the snapshots, the log on the counters; they
   agree: no failure counted, no verdict but healthy; nothing but failures, severe. *)
VerdictMatchesCounters ==
    verdict # "none" /\ ~cleaned /\ lostOutcomes = 0 =>
        /\ failed = 0 => verdict = "healthy"
        /\ processed > 0 /\ failed = processed => verdict = "severe"

Enqueued(k) == \A i \in Slice(k) : enq[i] > 0

(* A micro-batch that was enqueued completely gets its winner, in spite of failing
   executions, redeliveries, and worker crashes; except that a signal Redis refused is
   lost, and that the rest of a split group waits for ever behind an archived part. *)
GroupJoins ==
    \A k \in MBs :
        Enqueued(k) ~> \/ wins[k] = 1 \/ k \in lostSignal
                       \/ group[k].status = "archived" /\ pending[k] # {}

=============================================================================
