---------------------------- MODULE MessageWait ----------------------------
(***************************************************************************)
(* One execution that waits in a Message state with TimeoutSeconds and     *)
(* TimeoutPath: persistent.handleWaitingState and ResumeExecution, the     *)
(* delivery of messages, the timeout task in the queue and its handler.    *)
(* All of them share the execution row, the correlation row and the task;  *)
(* every access to one of these is a step.                                 *)
(*                                                                         *)
(* The machine is  Task -> Wait -> Next | TimeoutPath, or starts at Wait;  *)
(* Next and TimeoutPath are end states.                                    *)
(***************************************************************************)
EXTENDS Naturals

CONSTANTS
    Messages,       \* deliveries of a correlated message
    Modes,          \* ways a message is delivered, see Fetch
    StartStates,    \* where the definition starts: "Task", "Wait"
    MaxRetry,       \* asynq.MaxRetry of the timeout task (1 in the code)
    MaxCrashes      \* bound: processes that die in one behaviour

Starter == "starter"   \* the goroutine of Execute
Timer   == "timer"     \* the worker that holds the timeout task
Procs   == {Starter, Timer} \cup Messages

ASSUME MessageWaitAssumption ==
    /\ Messages \cap {Starter, Timer} = {}
    /\ Modes \subseteq {"direct", "registered", "loaded"}
    /\ StartStates \subseteq {"Task", "Wait"}
    /\ MaxRetry \in Nat /\ MaxCrashes \in Nat

(* A document: the business data with the correlation value, the received   *)
(* marker and the timeout trigger of state Wait.  A missing Output column   *)
(* reads back as an empty map, {}.                                          *)
Doc == SUBSET {"data", "message", "timeout"}

State  == {"Task", "Wait", "Next", "TimeoutPath"}
Status == {"RUNNING", "PAUSED", "SUCCEEDED", "FAILED"}

(* The part of execution.Execution that ResumeExecution and RunExecution    *)
(* use: doc is what RunExecution will start with, out what is in Output.    *)
Context == [status : Status, cur : State, doc : Doc, out : Doc]

Pc == {"idle", "Find", "CheckCorr", "CheckRow", "Recheck", "Fetch",
       "Resume", "Cancel", "Save", "Task", "Wait", "Corr", "Schedule", "Pause",
       "Branch", "End", "done", "dead"}

VARIABLES
    row,       \* execution row: status, current_state, output
    corr,      \* status of the correlation row
    task,      \* the timeout task in asynq
    attempts,  \* deliveries of that task
    pc, ctx,   \* per process
    mode,      \* how each message is delivered
    reply,     \* what the sender of a message was told
    crashes,
    \* history
    taken,     \* how often each branch was executed
    cancelled  \* CancelTimeout deleted the task before any delivery

vars == <<row, corr, task, attempts, pc, ctx, mode, reply, crashes, taken, cancelled>>

(* Execute has saved the row and enters the first state.                    *)
Init ==
    /\ \E s \in StartStates :
          /\ row = [status |-> "RUNNING", cur |-> s, out |-> {}]
          /\ pc = [p \in Procs |-> IF p = Starter THEN s ELSE "idle"]
          /\ ctx = [p \in Procs |->
                      [status |-> "RUNNING", cur |-> s, out |-> {},
                       doc |-> IF p = Starter THEN {"data"} ELSE {}]]
    /\ corr = "none"
    /\ task = "none" /\ attempts = 0
    /\ mode \in [Messages -> Modes]
    /\ reply = [m \in Messages |-> "none"]
    /\ crashes = 0
    /\ taken = [b \in {"Next", "TimeoutPath"} |-> 0]
    /\ cancelled = FALSE

-----------------------------------------------------------------------------
(* How the caller of RunExecution ends.                                     *)

(* asynq: a completed task is retained for 24 h, a failed one retried or    *)
(* archived; in all these states its id stays in use.                       *)
AfterAttempt(ok) ==
    IF ok THEN "retained" ELSE IF attempts <= MaxRetry THEN "retry" ELSE "archived"

Return(p, ok) ==
    /\ pc' = [pc EXCEPT ![p] = IF p = Timer THEN "idle" ELSE "done"]
    /\ reply' = [m \in Messages |->
                    IF m # p THEN reply[m] ELSE IF ok THEN "RESUMED" ELSE "ERROR"]
    /\ task' = IF p = Timer THEN AfterAttempt(ok) ELSE task

Goto(p, s) == pc' = [pc EXCEPT ![p] = s] /\ UNCHANGED <<reply, task>>

-----------------------------------------------------------------------------
(* RunExecution                                                             *)

RunTask(p) ==
    /\ pc[p] = "Task"
    /\ ctx' = [ctx EXCEPT ![p].cur = "Wait"]
    /\ Goto(p, "Wait")
    /\ UNCHANGED <<row, corr, attempts, mode, crashes, taken, cancelled>>

(* Fault: Execute does not find the received marker.                        *)
RunWaitBlind(p) ==
    /\ pc[p] = "Wait"
    /\ IF "timeout" \in ctx[p].doc
       THEN ctx' = [ctx EXCEPT ![p].cur = "TimeoutPath"] /\ Goto(p, "Branch")
       ELSE Goto(p, "Corr") /\ UNCHANGED ctx
    /\ UNCHANGED <<row, corr, attempts, mode, crashes, taken, cancelled>>

(* MessageState.Execute: a timeout trigger wins over a received marker; with*)
(* neither it waits, and fails if the correlation value is not found.       *)
RunWait(p) ==
    /\ pc[p] = "Wait"
    /\ LET d == ctx[p].doc IN
       \/ /\ "timeout" \in d
          /\ ctx' = [ctx EXCEPT ![p].cur = "TimeoutPath"]
          /\ Goto(p, "Branch") /\ UNCHANGED row
       \/ /\ "timeout" \notin d /\ "message" \in d
          /\ ctx' = [ctx EXCEPT ![p].cur = "Next"]
          /\ Goto(p, "Branch") /\ UNCHANGED row
       \/ /\ d = {"data"}
          /\ Goto(p, "Corr") /\ UNCHANGED <<row, ctx>>
       \/ /\ d = {}
          /\ row' = [status |-> "FAILED", cur |-> "Wait", out |-> ctx[p].out]
          /\ Return(p, FALSE) /\ UNCHANGED ctx
    /\ UNCHANGED <<corr, attempts, mode, crashes, taken, cancelled>>

(* handleWaitingState: correlation, timeout task, row, in this order.       *)
SaveCorrelation(p) ==
    /\ pc[p] = "Corr"
    /\ corr' = "WAITING"
    /\ Goto(p, "Schedule")
    /\ UNCHANGED <<row, attempts, ctx, mode, crashes, taken, cancelled>>

(* asynq refuses a task id in use; the error is only logged.                *)
ScheduleTimeout(p) ==
    /\ pc[p] = "Schedule"
    /\ pc' = [pc EXCEPT ![p] = "Pause"]
    /\ IF task = "none" THEN task' = "scheduled" /\ attempts' = 0
                        ELSE UNCHANGED <<task, attempts>>
    /\ UNCHANGED <<row, corr, ctx, mode, reply, crashes, taken, cancelled>>

Pause(p) ==
    /\ pc[p] = "Pause"
    /\ row' = [status |-> "PAUSED", cur |-> "Wait", out |-> ctx[p].doc]
    /\ Return(p, TRUE)
    /\ UNCHANGED <<corr, attempts, ctx, mode, crashes, taken, cancelled>>

(* The state the branch leads to is executed ...                            *)
RunBranch(p) ==
    /\ pc[p] = "Branch"
    /\ taken' = [taken EXCEPT ![ctx[p].cur] = @ + 1]
    /\ Goto(p, "End")
    /\ UNCHANGED <<row, corr, attempts, ctx, mode, crashes, cancelled>>

(* ... and the end of the execution is saved.                               *)
Succeed(p) ==
    /\ pc[p] = "End"
    /\ row' = [status |-> "SUCCEEDED", cur |-> ctx[p].cur, out |-> ctx[p].doc]
    /\ Return(p, TRUE)
    /\ UNCHANGED <<corr, attempts, ctx, mode, crashes, taken, cancelled>>

-----------------------------------------------------------------------------
(* ResumeExecution                                                          *)

(* Fault: the run starts before correlation and row record the resume.      *)
ResumeUnrecorded(p) ==
    /\ pc[p] = "Resume"
    /\ IF ctx[p].status \in {"PAUSED", "RUNNING"} THEN Goto(p, ctx[p].cur)
                                                 ELSE Return(p, FALSE)
    /\ UNCHANGED <<row, corr, attempts, ctx, mode, crashes, taken, cancelled>>

(* The status check and UpdateCorrelationStatus.  The id is built from the  *)
(* current state, so only a context read at Wait names the correlation.     *)
ResumeExecution(p) ==
    /\ pc[p] = "Resume"
    /\ IF ctx[p].status \in {"PAUSED", "RUNNING"}
       THEN /\ corr' = IF ctx[p].cur # "Wait" THEN corr
                       ELSE IF p = Timer THEN "TIMEOUT" ELSE "RECEIVED"
            /\ Goto(p, IF p = Timer THEN "Save" ELSE "Cancel")
       ELSE Return(p, FALSE) /\ UNCHANGED corr
    /\ UNCHANGED <<row, attempts, ctx, mode, crashes, taken, cancelled>>

(* Fault: an active task counts as cancelled too.                           *)
CancelTimeoutActive(p) ==
    /\ pc[p] = "Cancel"
    /\ pc' = [pc EXCEPT ![p] = "Save"]
    /\ IF ctx[p].cur = "Wait" /\ task # "none"
       THEN task' = "none" /\ cancelled' = (cancelled \/ task = "scheduled")
       ELSE UNCHANGED <<task, cancelled>>
    /\ UNCHANGED <<row, corr, attempts, ctx, mode, reply, crashes, taken>>

(* CancelTimeout: asynq deletes a task in any state but active.             *)
CancelTimeout(p) ==
    /\ pc[p] = "Cancel"
    /\ pc' = [pc EXCEPT ![p] = "Save"]
    /\ IF ctx[p].cur = "Wait" /\ task \notin {"none", "active"}
       THEN task' = "none" /\ cancelled' = (cancelled \/ task = "scheduled")
       ELSE UNCHANGED <<task, cancelled>>
    /\ UNCHANGED <<row, corr, attempts, ctx, mode, reply, crashes, taken>>

(* A paused execution is saved as RUNNING; then RunExecution goes on.       *)
SaveRunning(p) ==
    /\ pc[p] = "Save"
    /\ row' = IF ctx[p].status = "PAUSED"
              THEN [status |-> "RUNNING", cur |-> ctx[p].cur, out |-> ctx[p].out]
              ELSE row
    /\ Goto(p, ctx[p].cur)
    /\ UNCHANGED <<corr, attempts, ctx, mode, crashes, taken, cancelled>>

-----------------------------------------------------------------------------
(* Delivery of a message                                                    *)

Arrive(m) ==
    /\ pc[m] = "idle"
    /\ Goto(m, "Find")
    /\ UNCHANGED <<row, corr, attempts, ctx, mode, crashes, taken, cancelled>>

(* FindWaitingExecutionsByCorrelation: the correlation ...                  *)
FindWaiting(m) ==
    /\ pc[m] = "Find"
    /\ IF corr = "WAITING"
       THEN Goto(m, "Fetch")
       ELSE /\ pc' = [pc EXCEPT ![m] = "done"]
            /\ reply' = [reply EXCEPT ![m] = "NO_MATCH"]
            /\ UNCHANGED task
    /\ UNCHANGED <<row, corr, attempts, ctx, mode, crashes, taken, cancelled>>

(* ... and then the row.  The received marker is named after the state the  *)
(* row is in.                                                               *)
(*   direct     - the caller puts marker and input into Input, leaves Output*)
(*                nil and calls persistent ResumeExecution;                 *)
(*   registered - executor.Message on a persistent state machine: marker    *)
(*                into Input, Output from the row, and Output wins.         *)
Fetch(m) ==
    /\ pc[m] = "Fetch" /\ mode[m] # "loaded"
    /\ LET input == {"data"} \cup (IF row.cur = "Wait" THEN {"message"} ELSE {})
       IN ctx' = [ctx EXCEPT ![m] =
                    [status |-> row.status, cur |-> row.cur,
                     doc |-> IF mode[m] = "direct" THEN input ELSE row.out,
                     out |-> IF mode[m] = "direct" THEN {} ELSE row.out]]
    /\ Goto(m, "Resume")
    /\ UNCHANGED <<row, corr, attempts, mode, crashes, taken, cancelled>>

(*   loaded     - executor.Message with a definition it loads itself: a     *)
(*                plain state machine runs from StartAt and saves nothing.  *)
RunLoaded(m) ==
    /\ pc[m] = "Fetch" /\ mode[m] = "loaded"
    /\ taken' = IF row.cur = "Wait" THEN [taken EXCEPT !["Next"] = @ + 1] ELSE taken
    /\ Return(m, TRUE)
    /\ UNCHANGED <<row, corr, attempts, ctx, mode, crashes, cancelled>>

-----------------------------------------------------------------------------
(* The timeout task and HandleTimeout                                       *)

FireTimeout ==
    /\ pc[Timer] = "idle"
    /\ task \in {"scheduled", "retry"}
    /\ task' = "active"
    /\ attempts' = attempts + 1
    /\ pc' = [pc EXCEPT ![Timer] = "CheckCorr"]
    /\ UNCHANGED <<row, corr, ctx, mode, reply, crashes, taken, cancelled>>

(* HandleTimeout's check; the worker turns its error into success.          *)
CheckCorrelation ==
    /\ pc[Timer] = "CheckCorr"
    /\ IF corr = "WAITING" THEN Goto(Timer, "CheckRow") ELSE Return(Timer, TRUE)
    /\ UNCHANGED <<row, corr, attempts, ctx, mode, crashes, taken, cancelled>>

(* Fault: a row that is not PAUSED ends the task as done.                   *)
CheckPausedBenign ==
    /\ pc[Timer] = "CheckRow"
    /\ IF row.status = "PAUSED" THEN Goto(Timer, "Recheck") ELSE Return(Timer, TRUE)
    /\ UNCHANGED <<row, corr, attempts, ctx, mode, crashes, taken, cancelled>>

(* The row must be PAUSED; otherwise the attempt fails and is retried.      *)
CheckPaused ==
    /\ pc[Timer] = "CheckRow"
    /\ IF row.status = "PAUSED" THEN Goto(Timer, "Recheck") ELSE Return(Timer, FALSE)
    /\ UNCHANGED <<row, corr, attempts, ctx, mode, crashes, taken, cancelled>>

(* ProcessTimeoutTrigger looks at the correlation again, reads the row and  *)
(* merges the trigger into its output.                                      *)
RecheckCorrelation ==
    /\ pc[Timer] = "Recheck"
    /\ IF corr = "WAITING" THEN Goto(Timer, "Fetch") ELSE Return(Timer, TRUE)
    /\ UNCHANGED <<row, corr, attempts, ctx, mode, crashes, taken, cancelled>>

FetchForTimeout ==
    /\ pc[Timer] = "Fetch"
    /\ ctx' = [ctx EXCEPT ![Timer] =
                 [status |-> row.status, cur |-> row.cur,
                  doc |-> row.out \cup (IF row.cur = "Wait" THEN {"timeout"} ELSE {}),
                  out |-> {}]]
    /\ Goto(Timer, "Resume")
    /\ UNCHANGED <<row, corr, attempts, mode, crashes, taken, cancelled>>

(* A process dies; asynq redelivers the timeout task of a dead worker.      *)
Crash(p) ==
    /\ pc[p] \notin {"idle", "done", "dead"}
    /\ crashes < MaxCrashes
    /\ crashes' = crashes + 1
    /\ pc' = [pc EXCEPT ![p] = IF p = Timer THEN "idle" ELSE "dead"]
    /\ task' = IF p = Timer THEN AfterAttempt(FALSE) ELSE task
    /\ UNCHANGED <<row, corr, attempts, ctx, mode, reply, taken, cancelled>>

-----------------------------------------------------------------------------
Run(p) ==
    \/ RunTask(p) \/ RunWait(p)
    \/ SaveCorrelation(p) \/ ScheduleTimeout(p) \/ Pause(p)
    \/ RunBranch(p) \/ Succeed(p)
    \/ ResumeExecution(p) \/ CancelTimeout(p) \/ SaveRunning(p)

Deliver(m) == FindWaiting(m) \/ Fetch(m) \/ RunLoaded(m)

HandleTimeout ==
    \/ FireTimeout \/ CheckCorrelation \/ CheckPaused
    \/ RecheckCorrelation \/ FetchForTimeout

Next ==
    \/ \E p \in Procs : Run(p) \/ Crash(p)
    \/ \E m \in Messages : Arrive(m) \/ Deliver(m)
    \/ HandleTimeout

Spec == Init /\ [][Next]_vars

(* Goroutines run on, and the queue delivers what is due.  A message need   *)
(* not come, and nobody has to crash.                                       *)
Fairness ==
    /\ \A p \in Procs : WF_vars(Run(p))
    /\ \A m \in Messages : WF_vars(Deliver(m))
    /\ WF_vars(HandleTimeout)

FairSpec == Spec /\ Fairness

-----------------------------------------------------------------------------
(* Properties                                                               *)

(* Types; the timeout task is active exactly while the worker holds it.     *)
TypeOK ==
    /\ row \in [status : Status, cur : State, out : Doc]
    /\ corr \in {"none", "WAITING", "RECEIVED", "TIMEOUT"}
    /\ task \in {"none", "scheduled", "active", "retry", "retained", "archived"}
    /\ attempts \in 0..(MaxRetry + 1)
    /\ pc \in [Procs -> Pc]
    /\ ctx \in [Procs -> Context]
    /\ mode \in [Messages -> Modes]
    /\ reply \in [Messages -> {"none", "NO_MATCH", "RESUMED", "ERROR"}]
    /\ crashes \in 0..MaxCrashes
    /\ taken \in [{"Next", "TimeoutPath"} -> Nat]
    /\ cancelled \in BOOLEAN
    /\ pc[Timer] # "idle" <=> task = "active"

(* Every message that resumes the execution carries its received marker     *)
(* into the run.  It does not when executor.Message delivers it, or when it *)
(* reads the row before the row is saved at Wait; the Message state is then *)
(* entered again, or left unrecorded, and the three properties below, which *)
(* are about the timeout, do not apply.                                     *)
MarkersCarried ==
    \A m \in Messages :
        mode[m] = "direct" /\ (ctx[m].doc # {} => "message" \in ctx[m].doc)

(* Retries of the timeout task are idempotent: ResumeExecution marks the    *)
(* correlation and saves the row as RUNNING before the TimeoutPath runs, so *)
(* neither a task redelivered after its worker died, at whatever point, nor *)
(* a message that read the row earlier leads there again.                   *)
TimeoutOnce == MarkersCarried => taken["TimeoutPath"] <= 1

(* A message whose CancelTimeout deleted the task before its delivery has   *)
(* won: no other goroutine schedules it again, no worker is or will be on   *)
(* the TimeoutPath.                                                         *)
CancelIsFinal ==
    MarkersCarried /\ cancelled => taken["TimeoutPath"] = 0 /\ pc[Timer] = "idle"

(* Waiting ends: a message or the timeout task moves the correlation on,    *)
(* although the timeout may fire before the row is PAUSED.  The exceptions  *)
(* are a dead process and a task archived because both attempts failed.     *)
WaitResolves ==
    MarkersCarried /\ corr = "WAITING"
        ~> corr # "WAITING" \/ crashes > 0 \/ task = "archived" \/ ~MarkersCarried

-----------------------------------------------------------------------------
(* What the response says, and the code does not do.                        *)

(* MessageResponse: a sender that is told RESUMED has moved the execution   *)
(* beyond the Message state.                                                *)
ResumedMeansContinued ==
    \A m \in Messages : reply[m] = "RESUMED" => taken["Next"] > 0

=============================================================================
