----------------------------- MODULE MicroBatch -----------------------------
(***************************************************************************)
(* The micro-batch orchestrator (pkg/batch) with everything it runs on:    *)
(*                                                                         *)
(*   - the orchestrator state machine of microbatch_orchestrator.json,     *)
(*     driven by persistent.RunExecution / ResumeExecution;                *)
(*   - Redis: the cursor, the dispatched markers, the barrier counters;    *)
(*   - the task queue (asynq), which redelivers a task whose handler       *)
(*     returned an error or whose worker died;                             *)
(*   - the workers, handler.HandleExecution, which run one target          *)
(*     execution per task and then signal the barrier;                     *)
(*   - the execution row and the message correlation row of the            *)
(*     orchestrator in the repository.                                     *)
(*                                                                         *)
(* One batch of TotalCount source executions, items 0..TotalCount-1, is    *)
(* run once.  Tasks are enqueued individually (UseGroupEnqueue = false).   *)
(* The 24 h timers (Message timeout, Redis TTLs) do not expire within the  *)
(* modelled time span.                                                     *)
(***************************************************************************)
EXTENDS Integers, FiniteSets

CONSTANTS
    TotalCount,      \* number of source executions of the batch
    MicroBatchSize,  \* items per micro-batch
    MaxRetry,        \* RetryPolicy.MaxRetry: redeliveries of one task
    MaxFaults        \* bound: infrastructure failures in one behaviour

ASSUME ConstantsAssumption ==
    /\ TotalCount \in Nat \ {0}
    /\ MicroBatchSize \in Nat \ {0}
    /\ MaxRetry \in Nat
    /\ MaxFaults \in Nat

Items == 0..(TotalCount - 1)

(* Micro-batch indices; cursorVal / mbSize never exceeds cursorVal.         *)
MBs == 0..(TotalCount - 1)

NoMB    == -1
Missing == -1     \* a Redis key that does not exist

(* Runs of RunExecution over the one orchestrator execution: run 0 is the   *)
(* goroutine of Orchestrator.Run, run k+1 the goroutine that the barrier    *)
(* winner of micro-batch k starts in ResumeOrchestrator.                    *)
Runs == 0..TotalCount

(***************************************************************************)
(* The orchestrator's input document, reduced to what its states look at.  *)
(*   form     - a Go struct (OrchestratorInput) or a map                   *)
(*   batch    - it carries batch_id and total_count                        *)
(*   mb       - dispatchResult.microBatchId                                *)
(*   complete - dispatchResult.isBatchComplete                             *)
(*   marker   - it carries __received_message___WaitForMicroBatchCompletion*)
(***************************************************************************)
Doc == [form : {"struct", "map"}, batch : BOOLEAN, mb : MBs \cup {NoMB},
        complete : BOOLEAN, marker : BOOLEAN]

OrchestratorInput ==
    [form |-> "struct", batch |-> TRUE, mb |-> NoMB, complete |-> FALSE, marker |-> FALSE]

(* The Output column of a row that never had one, read back as a map.       *)
EmptyDoc ==
    [form |-> "map", batch |-> FALSE, mb |-> NoMB, complete |-> FALSE, marker |-> FALSE]

(* The orchestrator row: status, current_state, output.                     *)
RowStatus == {"RUNNING", "PAUSED", "SUCCEEDED", "FAILED"}
RowState  == {"Dispatch", "Wait", "Completed", "Failed"}
Row == [status : RowStatus, cur : RowState, out : Doc]

RunPc == {"none", "Resume", "Dispatch", "Enqueue", "Check", "Wait", "Pause",
          "Evaluate", "PauseBatch", "Completed", "Failed", "ended"}

TaskPc == {"none", "queued", "delivered", "executing", "signal", "resume",
           "done", "archived"}

VARIABLES
    \* Redis
    cursor,      \* batch cursor; a missing key reads as 0
    dispatched,  \* micro-batches whose dispatched key is "1"
    barrier,     \* barrier counter of each micro-batch, or Missing
    cleaned,     \* cleanupBatchResources deleted the id list
    \* orchestrator runs
    pc, doc, left, newCursor, snap,
    \* repository
    rec, corr,
    \* the caller of Run, polling in waitForTermination
    caller,
    \* queue and workers, per item
    tpc, attempts, mbOf, okay, named,
    faults,
    \* history
    enq,         \* how often each item was enqueued
    members,     \* items a micro-batch's barrier was initialised for
    finished,    \* items with an attempt that ended with an outcome
    signalled,   \* items that decremented a barrier at least once
    wins         \* how often each barrier elected a winner

redisVars == <<cursor, dispatched, barrier, cleaned>>
runVars   == <<pc, doc, left, newCursor, snap>>
repoVars  == <<rec, corr>>
taskVars  == <<tpc, attempts, mbOf, okay, named>>
histVars  == <<enq, members, finished, signalled, wins>>
vars == <<redisVars, runVars, repoVars, caller, taskVars, faults, histVars>>

(* Orchestrator.Run took the batch lock, stored the ids and called Execute, *)
(* which saved the row; run 0 is about to enter DispatchMicroBatch.         *)
Init ==
    /\ cursor = 0
    /\ dispatched = {}
    /\ barrier = [k \in MBs |-> Missing]
    /\ cleaned = FALSE
    /\ pc = [r \in Runs |-> IF r = 0 THEN "Dispatch" ELSE "none"]
    /\ doc = [r \in Runs |-> OrchestratorInput]
    /\ left = [r \in Runs |-> {}]
    /\ newCursor = [r \in Runs |-> 0]
    /\ snap = [r \in Runs |-> [status |-> "RUNNING", cur |-> "Dispatch"]]
    /\ rec = [status |-> "RUNNING", cur |-> "Dispatch", out |-> EmptyDoc]
    /\ corr = [status |-> "none", mb |-> NoMB]
    /\ caller = "running"
    /\ tpc = [i \in Items |-> "none"]
    /\ attempts = [i \in Items |-> 0]
    /\ mbOf = [i \in Items |-> NoMB]
    /\ okay = [i \in Items |-> FALSE]
    /\ named = {}
    /\ faults = 0
    /\ enq = [i \in Items |-> 0]
    /\ members = [k \in MBs |-> {}]
    /\ finished = {}
    /\ signalled = {}
    /\ wins = [k \in MBs |-> 0]

-----------------------------------------------------------------------------
(* DispatchMicroBatch                                                       *)

(* RunExecution's MergeInputs: a struct is replaced by the output, a map is *)
(* deep-merged with it, so keys the output lacks survive.                   *)
MergeDispatchResult(d, k, isComplete) ==
    [form |-> "map", batch |-> d.form = "map" /\ d.batch,
     mb |-> IF isComplete THEN d.mb ELSE k,
     complete |-> isComplete, marker |-> d.marker]

(* The ids LRANGE returns from the cursor on; the list may be gone.         *)
Slice ==
    {i \in Items : ~cleaned /\ cursor <= i /\ i < cursor + MicroBatchSize}

MbIndex == cursor \div MicroBatchSize

(* Fault: the last, short slice is taken for the end of the batch.          *)
DispatchCompleteEarly(r) ==
    /\ pc[r] = "Dispatch" /\ doc[r].batch /\ cursor + MicroBatchSize > TotalCount
    /\ IF doc[r].form = "map"
       THEN cursor' = 0 /\ cleaned' = TRUE
       ELSE UNCHANGED <<cursor, cleaned>>
    /\ doc' = [doc EXCEPT ![r] = MergeDispatchResult(@, NoMB, TRUE)]
    /\ pc' = [pc EXCEPT ![r] = "Check"]
    /\ UNCHANGED <<dispatched, barrier, left, newCursor, snap, repoVars, caller,
                   taskVars, faults, histVars>>

(* computeDispatchSlice found nothing left, or the document has no batch_id *)
(* and total_count unmarshals to 0.  Clean up and report completion.        *)
DispatchComplete(r) ==
    /\ pc[r] = "Dispatch"
    /\ \/ /\ doc[r].batch /\ cursor >= TotalCount
          /\ IF doc[r].form = "map"
             THEN cursor' = 0 /\ cleaned' = TRUE
             ELSE UNCHANGED <<cursor, cleaned>>
       \/ ~doc[r].batch /\ UNCHANGED <<cursor, cleaned>>
    /\ doc' = [doc EXCEPT ![r] = MergeDispatchResult(@, NoMB, TRUE)]
    /\ pc' = [pc EXCEPT ![r] = "Check"]
    /\ UNCHANGED <<dispatched, barrier, left, newCursor, snap, repoVars, caller,
                   taskVars, faults, histVars>>

(* Faults: the barrier is initialised one short, or to the configured size  *)
(* although the last slice is shorter.                                      *)
InitBarrierWith(r, size) ==
    /\ pc[r] = "Dispatch" /\ doc[r].batch /\ cursor < TotalCount
    /\ doc' = [doc EXCEPT ![r] = MergeDispatchResult(@, MbIndex, FALSE)]
    /\ newCursor' = [newCursor EXCEPT ![r] = cursor + Cardinality(Slice)]
    /\ barrier' = [barrier EXCEPT ![MbIndex] = size]
    /\ members' = [members EXCEPT ![MbIndex] = Slice]
    /\ left' = [left EXCEPT ![r] = Slice]
    /\ pc' = [pc EXCEPT ![r] = "Enqueue"]
    /\ UNCHANGED <<cursor, dispatched, cleaned, snap, repoVars, caller, taskVars,
                   faults, enq, finished, signalled, wins>>
DispatchNextShortBarrier(r) == InitBarrierWith(r, Cardinality(Slice) - 1)
DispatchNextFullBarrier(r) == InitBarrierWith(r, MicroBatchSize)

(* The next micro-batch.  If its idempotency key says it was dispatched,    *)
(* only advance the cursor; else Barrier.Init (SET NX to the number of ids  *)
(* read) and go on to enqueue those ids in order.                           *)
DispatchNext(r) ==
    /\ pc[r] = "Dispatch" /\ doc[r].batch /\ cursor < TotalCount
    /\ doc' = [doc EXCEPT ![r] = MergeDispatchResult(@, MbIndex, FALSE)]
    /\ newCursor' = [newCursor EXCEPT ![r] = cursor + Cardinality(Slice)]
    /\ IF MbIndex \in dispatched
       THEN /\ cursor' = cursor + Cardinality(Slice)
            /\ pc' = [pc EXCEPT ![r] = "Check"]
            /\ UNCHANGED <<barrier, members, left>>
       ELSE /\ barrier' = [barrier EXCEPT ![MbIndex] =
                               IF @ = Missing THEN Cardinality(Slice) ELSE @]
            /\ members' = [members EXCEPT ![MbIndex] = Slice]
            /\ left' = [left EXCEPT ![r] = Slice]
            /\ pc' = [pc EXCEPT ![r] = "Enqueue"]
            /\ UNCHANGED cursor
    /\ UNCHANGED <<dispatched, cleaned, snap, repoVars, caller, taskVars, faults,
                   enq, finished, signalled, wins>>

(* enqueueIDs, one task: asynq refuses a task id that is still in use.      *)
EnqueueNext(r) ==
    /\ pc[r] = "Enqueue"
    /\ \E i \in left[r] :
          /\ \A j \in left[r] : i <= j
          /\ IF tpc[i] \in {"none", "done"}
             THEN /\ tpc' = [tpc EXCEPT ![i] = "queued"]
                  /\ attempts' = [attempts EXCEPT ![i] = 0]
                  /\ mbOf' = [mbOf EXCEPT ![i] = doc[r].mb]
                  /\ enq' = [enq EXCEPT ![i] = @ + 1]
                  /\ left' = [left EXCEPT ![r] = @ \ {i}]
                  /\ UNCHANGED pc
             ELSE /\ pc' = [pc EXCEPT ![r] = "Failed"]
                  /\ UNCHANGED <<tpc, attempts, mbOf, enq, left>>
    /\ UNCHANGED <<redisVars, doc, newCursor, snap, repoVars, caller, okay, named,
                   faults, members, finished, signalled, wins>>

(* Fault: the pipeline of markDispatched is built and never executed.       *)
MarkDispatchedLost(r) ==
    /\ pc[r] = "Enqueue" /\ left[r] = {}
    /\ pc' = [pc EXCEPT ![r] = "Check"]
    /\ UNCHANGED <<redisVars, doc, left, newCursor, snap, repoVars, caller,
                   taskVars, faults, histVars>>

(* markDispatched: dispatched key and cursor in one pipeline.               *)
MarkDispatched(r) ==
    /\ pc[r] = "Enqueue" /\ left[r] = {}
    /\ dispatched' = dispatched \cup {doc[r].mb}
    /\ cursor' = newCursor[r]
    /\ pc' = [pc EXCEPT ![r] = "Check"]
    /\ UNCHANGED <<barrier, cleaned, doc, left, newCursor, snap, repoVars, caller,
                   taskVars, faults, histVars>>

(* A Redis or queue error inside a Task state: "States.TaskFailed" never    *)
(* equals the error's text, so there is no retry; Catch States.ALL routes   *)
(* to BatchFailed.                                                          *)
TaskStateError(r) ==
    /\ pc[r] \in {"Dispatch", "Enqueue", "Evaluate"}
    /\ faults < MaxFaults
    /\ faults' = faults + 1
    /\ pc' = [pc EXCEPT ![r] = "Failed"]
    /\ UNCHANGED <<redisVars, doc, left, newCursor, snap, repoVars, caller, taskVars,
                   histVars>>

-----------------------------------------------------------------------------
(* CheckIfComplete, WaitForMicroBatchCompletion, EvaluateMicroBatch         *)

CheckIfComplete(r) ==
    /\ pc[r] = "Check"
    /\ pc' = [pc EXCEPT ![r] = IF doc[r].complete THEN "Completed" ELSE "Wait"]
    /\ UNCHANGED <<redisVars, doc, left, newCursor, snap, repoVars, caller, taskVars,
                   faults, histVars>>

(* MessageState.Execute with the received marker in its input: the output   *)
(* is the marker's data, the orchestrator's original input.                 *)
MessageReceived(r) ==
    /\ pc[r] = "Wait" /\ doc[r].marker
    /\ doc' = [doc EXCEPT ![r].batch = TRUE]
    /\ pc' = [pc EXCEPT ![r] = "Evaluate"]
    /\ UNCHANGED <<redisVars, left, newCursor, snap, repoVars, caller, taskVars,
                   faults, histVars>>

(* Without the marker it waits: handleWaitingState saves the correlation... *)
SaveMessageCorrelation(r) ==
    /\ pc[r] = "Wait" /\ ~doc[r].marker
    /\ corr' = [status |-> "WAITING", mb |-> doc[r].mb]
    /\ pc' = [pc EXCEPT ![r] = "Pause"]
    /\ UNCHANGED <<redisVars, doc, left, newCursor, snap, rec, caller, taskVars,
                   faults, histVars>>

(* ... and then saves the row as PAUSED with Output = Input.                *)
PauseExecution(r) ==
    /\ pc[r] = "Pause"
    /\ rec' = [status |-> "PAUSED", cur |-> "Wait", out |-> doc[r]]
    /\ pc' = [pc EXCEPT ![r] = "ended"]
    /\ caller' = IF r = 0 THEN "polling" ELSE caller
    /\ UNCHANGED <<redisVars, doc, left, newCursor, snap, corr, taskVars, faults,
                   histVars>>

(* handleEvaluate returns a Go struct.  EvaluationDecision looks up         *)
(* $.evaluation.severeFailure and .belowThreshold, and a path cannot enter  *)
(* a struct: whatever the rates are, no rule matches and the Default is     *)
(* DispatchMicroBatch.  Nothing ever enters PauseBatch, so its loop has no  *)
(* actions here.  A missing dispatchResult is an error, caught.             *)
PathTrue(form, value) == form = "map" /\ value

EvaluateMicroBatch(r) ==
    /\ pc[r] = "Evaluate"
    /\ \E severe, below \in BOOLEAN :
          pc' = [pc EXCEPT ![r] = IF doc[r].mb = NoMB \/ PathTrue("struct", severe)
                                  THEN "Failed"
                                  ELSE IF PathTrue("struct", below) THEN "PauseBatch"
                                  ELSE "Dispatch"]
    /\ UNCHANGED <<redisVars, doc, left, newCursor, snap, repoVars, caller, taskVars,
                   faults, histVars>>

(* BatchCompleted (Succeed) and BatchFailed (Fail): FailState.Execute       *)
(* returns no error and IsEnd() is true, so both end SUCCEEDED.             *)
Terminate(r) ==
    /\ pc[r] \in {"Completed", "Failed"}
    /\ rec' = [status |-> "SUCCEEDED", cur |-> pc[r], out |-> doc[r]]
    /\ pc' = [pc EXCEPT ![r] = "ended"]
    /\ caller' = IF r = 0 THEN "nil" ELSE caller
    /\ UNCHANGED <<redisVars, doc, left, newCursor, snap, corr, taskVars, faults,
                   histVars>>

(* ResumeExecution on the row the winner read.  The correlation id is built *)
(* from that row's current_state, so only a row read at Wait updates it.    *)
ResumeExecution(r) ==
    /\ pc[r] = "Resume"
    /\ IF snap[r].status \in {"PAUSED", "RUNNING"}
       THEN /\ corr' = IF snap[r].cur = "Wait" THEN [corr EXCEPT !.status = "RECEIVED"]
                                               ELSE corr
            /\ rec' = IF snap[r].status = "PAUSED"
                      THEN [status |-> "RUNNING", cur |-> snap[r].cur, out |-> doc[r]]
                      ELSE rec
            /\ pc' = [pc EXCEPT ![r] = snap[r].cur]
       ELSE pc' = [pc EXCEPT ![r] = "ended"] /\ UNCHANGED repoVars
    /\ UNCHANGED <<redisVars, doc, left, newCursor, snap, caller, taskVars, faults,
                   histVars>>

(* waitForTermination polls the row.                                        *)
WaitForTermination ==
    /\ caller = "polling"
    /\ rec.status \in {"SUCCEEDED", "FAILED"}
    /\ caller' = IF rec.status = "SUCCEEDED" THEN "nil" ELSE "error"
    /\ UNCHANGED <<redisVars, runVars, repoVars, taskVars, faults, histVars>>

-----------------------------------------------------------------------------
(* Queue and workers                                                        *)

(* asynq: success completes the task, an error redelivers or archives it.   *)
AfterAttempt(i, ok) ==
    IF ok THEN "done" ELSE IF attempts[i] <= MaxRetry THEN "queued" ELSE "archived"

Deliver(i) ==
    /\ tpc[i] = "queued"
    /\ tpc' = [tpc EXCEPT ![i] = "delivered"]
    /\ attempts' = [attempts EXCEPT ![i] = @ + 1]
    /\ UNCHANGED <<redisVars, runVars, repoVars, caller, mbOf, okay, named, faults,
                   histVars>>

(* handleRegularExecution up to the target execution's row: the source      *)
(* output may be unavailable, and Execute refuses a name that exists.       *)
StartExecution(i) ==
    /\ tpc[i] = "delivered"
    /\ \/ /\ i \notin named
          /\ named' = named \cup {i}
          /\ tpc' = [tpc EXCEPT ![i] = "executing"]
          /\ UNCHANGED <<okay, finished>>
       \/ /\ tpc' = [tpc EXCEPT ![i] = "signal"]
          /\ okay' = [okay EXCEPT ![i] = FALSE]
          /\ finished' = finished \cup {i}
          /\ UNCHANGED named
    /\ UNCHANGED <<redisVars, runVars, repoVars, caller, attempts, mbOf, faults, enq,
                   members, signalled, wins>>

(* RunExecution of the target state machine returns, with or without error. *)
FinishExecution(i) ==
    /\ tpc[i] = "executing"
    /\ \E ok \in BOOLEAN : okay' = [okay EXCEPT ![i] = ok]
    /\ tpc' = [tpc EXCEPT ![i] = "signal"]
    /\ finished' = finished \cup {i}
    /\ UNCHANGED <<redisVars, runVars, repoVars, caller, attempts, mbOf, named, faults,
                   enq, members, signalled, wins>>

(* Fault: a caller that finds the key missing takes itself for the last worker. *)
DecrementMissingWins(i) ==
    /\ tpc[i] = "signal"
    /\ LET k == mbOf[i]
           last == barrier[k] \in {Missing, 1}
       IN /\ barrier' = [barrier EXCEPT ![k] = IF last THEN Missing ELSE @ - 1]
          /\ wins' = [wins EXCEPT ![k] = IF last THEN @ + 1 ELSE @]
          /\ tpc' = [tpc EXCEPT ![i] = IF last THEN "resume" ELSE AfterAttempt(i, okay[i])]
    /\ signalled' = signalled \cup {i}
    /\ UNCHANGED <<cursor, dispatched, cleaned, runVars, repoVars, caller, attempts,
                   mbOf, okay, named, faults, enq, members, finished>>

(* SignalMicroBatchComplete, for success and failure alike: the Lua script  *)
(* decrements, deletes the key at 0 and makes that caller the winner; a     *)
(* missing key is reported as -1 and ignored.                               *)
Decrement(i) ==
    /\ tpc[i] = "signal"
    /\ LET k == mbOf[i]
           rem == barrier[k] - 1
       IN \/ /\ barrier[k] = Missing
             /\ tpc' = [tpc EXCEPT ![i] = AfterAttempt(i, okay[i])]
             /\ UNCHANGED <<barrier, wins>>
          \/ /\ barrier[k] # Missing /\ rem # 0
             /\ barrier' = [barrier EXCEPT ![k] = rem]
             /\ tpc' = [tpc EXCEPT ![i] = AfterAttempt(i, okay[i])]
             /\ UNCHANGED wins
          \/ /\ barrier[k] # Missing /\ rem = 0
             /\ barrier' = [barrier EXCEPT ![k] = Missing]
             /\ wins' = [wins EXCEPT ![k] = @ + 1]
             /\ tpc' = [tpc EXCEPT ![i] = "resume"]
    /\ signalled' = signalled \cup {i}
    /\ UNCHANGED <<cursor, dispatched, cleaned, runVars, repoVars, caller, attempts,
                   mbOf, okay, named, faults, enq, members, finished>>

(* Fault: the received marker is not merged into the resumed output.        *)
ResumeOrchestratorNoMarker(i) ==
    /\ tpc[i] = "resume" /\ corr.status = "WAITING" /\ corr.mb = mbOf[i]
    /\ LET r == mbOf[i] + 1
       IN /\ snap' = [snap EXCEPT ![r] = [status |-> rec.status, cur |-> rec.cur]]
          /\ doc' = [doc EXCEPT ![r] = rec.out]
          /\ pc' = [pc EXCEPT ![r] = "Resume"]
    /\ tpc' = [tpc EXCEPT ![i] = AfterAttempt(i, okay[i])]
    /\ UNCHANGED <<redisVars, left, newCursor, repoVars, caller, attempts, mbOf, okay,
                   named, faults, histVars>>

(* ResumeOrchestrator: look up the correlation by micro-batch id, read the  *)
(* row, merge the marker into its output and start the resuming goroutine.  *)
(* With no waiting correlation it reports success and does nothing.         *)
ResumeOrchestrator(i) ==
    /\ tpc[i] = "resume"
    /\ LET r == mbOf[i] + 1
       IN IF corr.status = "WAITING" /\ corr.mb = mbOf[i]
          THEN /\ snap' = [snap EXCEPT ![r] = [status |-> rec.status, cur |-> rec.cur]]
               /\ doc' = [doc EXCEPT ![r] = [rec.out EXCEPT !.marker = TRUE]]
               /\ pc' = [pc EXCEPT ![r] = "Resume"]
          ELSE UNCHANGED <<snap, doc, pc>>
    /\ tpc' = [tpc EXCEPT ![i] = AfterAttempt(i, okay[i])]
    /\ UNCHANGED <<redisVars, left, newCursor, repoVars, caller, attempts, mbOf, okay,
                   named, faults, histVars>>

(* The attempt ends in an error before its next step: the worker dies, the  *)
(* state machine definition cannot be loaded, Redis or the lookup fails.    *)
AttemptLost(i) ==
    /\ tpc[i] \in {"delivered", "executing", "signal", "resume"}
    /\ faults < MaxFaults
    /\ faults' = faults + 1
    /\ tpc' = [tpc EXCEPT ![i] = AfterAttempt(i, FALSE)]
    /\ UNCHANGED <<redisVars, runVars, repoVars, caller, attempts, mbOf, okay, named,
                   histVars>>

-----------------------------------------------------------------------------
RunStep(r) ==
    \/ DispatchComplete(r) \/ DispatchNext(r)
    \/ EnqueueNext(r) \/ MarkDispatched(r)
    \/ CheckIfComplete(r)
    \/ MessageReceived(r) \/ SaveMessageCorrelation(r) \/ PauseExecution(r)
    \/ EvaluateMicroBatch(r)
    \/ Terminate(r)
    \/ ResumeExecution(r)

TaskStep(i) ==
    \/ Deliver(i) \/ StartExecution(i) \/ FinishExecution(i)
    \/ Decrement(i) \/ ResumeOrchestrator(i)

Next ==
    \/ \E r \in Runs : RunStep(r) \/ TaskStateError(r)
    \/ \E i \in Items : TaskStep(i) \/ AttemptLost(i)
    \/ WaitForTermination

(* Goroutines are scheduled and asynq servers keep polling their queue; the *)
(* caller's ticker keeps firing.  Failures owe nothing.                     *)
Fairness ==
    /\ \A r \in Runs : WF_vars(RunStep(r))
    /\ \A i \in Items : WF_vars(TaskStep(i))
    /\ WF_vars(WaitForTermination)

Spec == Init /\ [][Next]_vars

FairSpec == Spec /\ Fairness

-----------------------------------------------------------------------------
(* Properties                                                               *)

(* Types; a barrier that exists holds between 1 and the micro-batch size,   *)
(* since the Lua script deletes it when it reaches 0.                       *)
TypeOK ==
    /\ cursor \in 0..TotalCount
    /\ dispatched \subseteq MBs
    /\ barrier \in [MBs -> {Missing} \cup 1..MicroBatchSize]
    /\ cleaned \in BOOLEAN
    /\ pc \in [Runs -> RunPc]
    /\ doc \in [Runs -> Doc]
    /\ left \in [Runs -> SUBSET Items]
    /\ newCursor \in [Runs -> 0..TotalCount]
    /\ snap \in [Runs -> [status : RowStatus, cur : RowState]]
    /\ rec \in Row
    /\ corr \in [status : {"none", "WAITING", "RECEIVED"}, mb : MBs \cup {NoMB}]
    /\ caller \in {"running", "polling", "nil", "error"}
    /\ tpc \in [Items -> TaskPc]
    /\ attempts \in [Items -> 0..(MaxRetry + 1)]
    /\ mbOf \in [Items -> MBs \cup {NoMB}]
    /\ okay \in [Items -> BOOLEAN]
    /\ named \subseteq Items
    /\ faults \in 0..MaxFaults
    /\ enq \in [Items -> Nat]
    /\ members \in [MBs -> SUBSET Items]
    /\ finished \subseteq Items
    /\ signalled \subseteq Items
    /\ wins \in [MBs -> Nat]

(* However workers, redeliveries and the orchestrator interleave, the       *)
(* barrier script elects at most one winner per micro-batch, so at most one *)
(* worker ever resumes the orchestrator for it.                             *)
OneWinner == \A k \in MBs : wins[k] <= 1

(* The orchestrator never enqueues a source execution twice, although       *)
(* several goroutines may run its states over one row.                      *)
EnqueueOnce == \A i \in Items : enq[i] <= 1

(* The join: when a winner was elected and no member was redelivered, every *)
(* task of the micro-batch has an outcome, those still unqueued when the    *)
(* first of them finished included.                                         *)
JoinSound ==
    \A k \in MBs :
        /\ wins[k] > 0
        /\ \A i \in members[k] : attempts[i] <= 1
        => members[k] \subseteq finished

(* cleanupBatchResources deletes the id list and the cursor only when every *)
(* id was enqueued: nobody reads a deleted list or restarts from cursor 0.  *)
CleanupAfterDispatch == cleaned => \A i \in Items : enq[i] = 1

(* A barrier is never stuck: once markDispatched recorded a micro-batch,    *)
(* some worker brings its barrier to 0, as long as the failures do not use  *)
(* up the retries of a task.                                                *)
WinnerElected == \A k \in MBs : k \in dispatched ~> wins[k] > 0

-----------------------------------------------------------------------------
(* What a comment of the repository says, and the code does not do.         *)

(* Orchestrator.Run: "If the orchestrator paused (PAUSED) it will be        *)
(* resumed by worker signals."  So the caller gets an answer.               *)
PausedIsResumed == caller = "polling" ~> caller \in {"nil", "error"}

=============================================================================
