---------------------------- MODULE Interpreter ----------------------------
(***************************************************************************)
(* One definition from New to the end of one execution: the loop of the    *)
(* in-memory state machine (statemachine.go) or of the persistent one      *)
(* (persistent.go), and the Execute method of every state type.            *)
(*                                                                         *)
(* Thread 0 is the goroutine of the execution, thread i > 0 the goroutine  *)
(* of branch i of the Parallel state it is in. A task with TimeoutSeconds  *)
(* runs its handler in one more goroutine, which the timeout abandons but  *)
(* does not stop. A panic is recovered in thread 0 only.                   *)
(***************************************************************************)
EXTENDS Definition

CONSTANTS
    Definitions,    \* what New may be called with
    Inputs,         \* the documents an execution may start with
    TaskResults,    \* what a task handler may return
    TaskErrors,     \* the texts of the errors it may return
    MaxBranches,    \* branches of a Parallel state
    MaxVisits,      \* bound: states one execution enters
    EvaluateChoice(_, _)    \* evaluateChoice of module Nested

ASSUME InterpreterAssumption == MaxVisits \in Nat \ {0} /\ MaxBranches \in Nat \ {0}

Threads == 0..MaxBranches
Branches == 1..MaxBranches

\* States, rules and policies are finite in number; a branch holds states of the types
\* the factory knows, and no Parallel state of its own.
ASSUME DefinitionsAssumption ==
    \A d \in Definitions :
        /\ IsFiniteSet(DOMAIN d.states)
        /\ \A n \in DOMAIN d.states :
              LET s == d.states[n]
              IN  /\ IsFiniteSet(DOMAIN s.choices) /\ IsFiniteSet(DOMAIN s.catch)
                  /\ DOMAIN s.branches \subseteq Branches
                  /\ \A b \in DOMAIN s.branches : \A k \in DOMAIN s.branches[b].states :
                         s.branches[b].states[k].type \in
                             {"Pass", "Task", "Wait", "Choice", "Fail", "Succeed"}

VARIABLES
    mode,       \* "memory" or "persistent"
    def,        \* the definition New was called with, <<>> before
    status,     \* of the execution; "NEW", "REJECTED", "READY" before it
    cause,      \* why it failed
    thr,        \* what each goroutine is doing
    visits,     \* states entered so far
    cancelled,  \* the context is done
    abandoned,  \* handler goroutines running on after their timeout
    branchFailed \* history: a branch ended with an error

vars == <<mode, def, status, cause, thr, visits, cancelled, abandoned, branchFailed>>

Off == [phase |-> "off", name |-> "", via |-> "", doc |-> Null, in |-> Null,
        taskInput |-> Null, attempt |-> 0, err |-> "", out |-> Null]

At(name, via, doc) == [Off EXCEPT !.phase = "enter", !.name = name, !.via = via, !.doc = doc]

\* The states thread t looks its names up in.
StatesOf(t) ==
    IF t = 0 THEN def.states ELSE def.states[thr[0].name].branches[t].states
StateOf(t) == StatesOf(t)[thr[t].name]
----------------------------------------------------------------------------
(***************************************************************************)
(* What Execute of a state returns: [out, next, err].                      *)
(***************************************************************************)
Fault(why) == [out |-> Null, next |-> "", err |-> why]

\* An error or a panic on the way to the value is the outcome.
Returns(v, next) ==
    CASE Is(v, "err") -> Fault(v.err)
      [] Is(v, "panic") -> Fault("panic")
      [] OTHER -> [out |-> v, next |-> next, err |-> ""]

\* ResultPath, then OutputPath.
prepareOutput(s, in, result) ==
    LET combined == IF Failed(result) THEN result ELSE ApplyResultPath(in, result, s.resPath)
    IN  IF Failed(combined) THEN combined ELSE ApplyOutputPath(combined, s.outPath)

PassExecute(s, in) ==
    LET result == IF s.result # Null THEN s.result
                  ELSE IF s.params # <<>> THEN Map(s.params)     \* not expanded
                  ELSE in
    IN  Returns(prepareOutput(s, in, result), s.next)

SucceedExecute(s, in) == Returns(ApplyOutputPath(in, s.outPath), "")

\* No error is returned.
FailExecute(in) == Returns(in, "")

\* The first rule that does not answer FALSE decides.
ChoiceExecute(s, in) ==
    LET answer == [i \in DOMAIN s.choices |-> EvaluateChoice(s.choices[i], in)]
        other == {i \in DOMAIN s.choices : answer[i] # Bool(FALSE)}
        first == CHOOSE i \in other : \A j \in other : i =< j
    IN  CASE other # {} /\ Failed(answer[first]) -> Returns(answer[first], "")
          [] other # {} /\ ~Failed(answer[first]) ->
                 Returns(prepareOutput(s, in, in), s.choices[first].next)
          [] other = {} /\ s.default # "" -> Returns(prepareOutput(s, in, in), s.default)
          [] OTHER -> Fault("no match")

\* The seconds, the timestamp to wait for, or an error.
calculateWaitDuration(s, in) ==
    LET w == Head(s.waits)
        v == IF w.method \in {"SecondsPath", "TimestampPath"} THEN getValue(in, w.path) ELSE w.arg
    IN  CASE Failed(v) -> v
          [] w.method = "Seconds" -> v
          [] ~Failed(v) /\ w.method = "SecondsPath" ->
                 IF Is(v, "num") /\ v.num >= 0 THEN v ELSE Err("seconds")
          [] ~Failed(v) /\ w.method \in {"Timestamp", "TimestampPath"} ->
                 IF Is(v, "str") /\ v.str \in DOMAIN ParseTime THEN v ELSE Err("timestamp")

prepareInput(s, in) ==
    IF s.params = <<>> THEN in ELSE expandValue(s.params, Map([k \in {"$"} |-> in]))

\* What the default handler may return: the task input when no function is
\* registered; else the parameters are expanded once more, against what
\* prepareInput already made of them, and the function is called.
HandlerOutcomes(s, taskInput) ==
    LET again == prepareInput(s, taskInput)
    IN  {taskInput} \cup
        (IF Failed(again) THEN {again}
         ELSE TaskResults \cup {Err(e) : e \in TaskErrors} \cup {Panic("handler")})

errorMatches(e, errors) == e \in errors \/ "States.ALL" \in errors

calculateMaxAttempts(s) ==
    LET given == {i \in DOMAIN s.retry : s.retry[i].max > 0}
    IN  IF given = {} THEN 1 ELSE s.retry[CHOOSE i \in given : \A j \in given : i =< j].max

shouldRetry(s, e, attempt) ==
    /\ attempt < calculateMaxAttempts(s)
    /\ \E i \in DOMAIN s.retry : errorMatches(e, s.retry[i].errors)

\* The first Catch policy that matches, or the error.
handleTaskFailure(s, in, e) ==
    LET match == {i \in DOMAIN s.catch : errorMatches(e, s.catch[i].errors)}
        c == s.catch[CHOOSE i \in match : \A j \in match : i =< j]
    IN  IF match = {} THEN Fault(e)
        ELSE Returns(ApplyResultPath(in, Map([k \in {"Error", "Cause"} |-> Str(e)]), c.resPath), c.next)

\* outs are the results of the branches, in their order; errs their errors.
ParallelResult(s, in, outs, errs) ==
    LET bad == {i \in DOMAIN errs : errs[i] # ""}
        all == IF s.selector = <<>> THEN Arr(outs)
               ELSE expandValue(s.selector, Map([k \in {"$"} |-> Arr(outs)]))
    IN  IF bad # {} THEN Fault(errs[CHOOSE i \in bad : \A j \in bad : i =< j])
        ELSE Returns(prepareOutput(s, in, all), s.next)
----------------------------------------------------------------------------
(***************************************************************************)
(* What the loops do with it.                                              *)
(***************************************************************************)
End(st, why) ==
    /\ status' = st /\ cause' = why
    /\ thr' = [t \in Threads |-> Off]
    /\ UNCHANGED <<visits, branchFailed>>

GoTo(next, via, doc) ==
    /\ thr' = [t \in Threads |-> IF t = 0 THEN At(next, via, doc)
                                ELSE IF thr[t].phase = "done" THEN Off ELSE thr[t]]
    /\ visits' = visits + 1
    /\ UNCHANGED <<status, cause, branchFailed>>

\* RunExecution: the in-memory machine takes an absent next state for the end and
\* gives every state the input of the execution; the persistent one fails, and
\* merges the output into the input of the next state.
RunExecution(r, via) ==
    LET s == StateOf(0)
    IN  IF r.err # "" THEN End("FAILED", r.err)
        ELSE IF IsEnd(s) THEN End("SUCCEEDED", "")
        ELSE IF r.next = ""
             THEN IF mode = "memory" THEN End("SUCCEEDED", "") ELSE End("FAILED", "no next")
        ELSE GoTo(r.next, via, IF mode = "memory" THEN thr[0].doc
                               ELSE MergeInputs(thr[0].doc, r.out))

\* executeBranch: the output is the input of the next state of the branch.
executeBranch(t, r, via) ==
    /\ thr' = [thr EXCEPT ![t] =
                  IF r.err # "" THEN [Off EXCEPT !.phase = "done", !.err = r.err]
                  ELSE IF IsEnd(StateOf(t)) \/ r.next = ""
                       THEN [Off EXCEPT !.phase = "done", !.out = r.out]
                       ELSE At(r.next, via, r.out)]
    /\ visits' = visits + 1
    /\ branchFailed' = (branchFailed \/ r.err # "")
    /\ UNCHANGED <<status, cause>>

\* No recover in the goroutine: the process ends.
Crash == End("CRASHED", "panic")

StateReturns(t, outcome, via) ==
    \E r \in {outcome} :
        IF t = 0 THEN RunExecution(r, via)
        ELSE IF r.err = "panic" THEN Crash
        ELSE executeBranch(t, r, via)

\* The error of an attempt: retried after the backoff, or given to Catch.
AttemptFails(t, e) ==
    LET s == StateOf(t)
    IN  IF shouldRetry(s, e, thr[t].attempt)
        THEN /\ thr' = [thr EXCEPT ![t].phase = "backoff"]
             /\ UNCHANGED <<status, cause, visits, branchFailed>>
        ELSE StateReturns(t, handleTaskFailure(s, thr[t].in, e), "catch")
----------------------------------------------------------------------------
Init ==
    /\ mode \in {"memory", "persistent"}
    /\ def = <<>> /\ status = "NEW" /\ cause = ""
    /\ thr = [t \in Threads |-> Off]
    /\ visits = 0 /\ cancelled = FALSE /\ abandoned = 0 /\ branchFailed = FALSE

New ==
    /\ status = "NEW"
    /\ \E d \in Definitions :
          /\ def' = d
          /\ status' = IF Validate(d) THEN "READY" ELSE "REJECTED"
    /\ UNCHANGED <<mode, cause, thr, visits, cancelled, abandoned, branchFailed>>

Execute(input) ==
    /\ status = "READY"
    /\ status' = "RUNNING"
    /\ thr' = [thr EXCEPT ![0] = At(def.startAt, "start", input)]
    /\ visits' = 1
    /\ UNCHANGED <<mode, def, cause, cancelled, abandoned, branchFailed>>

\* Thread 0 of the persistent machine and the branches look at the context
\* before every state, the in-memory machine at its TimeoutSeconds.
Stop(t) ==
    /\ status = "RUNNING" /\ thr[t].phase = "enter"
    /\ \/ t = 0 /\ mode = "memory" /\ def.timeout /\ End("TIMED_OUT", "timeout")
       \/ t = 0 /\ mode = "persistent" /\ cancelled /\ End("CANCELLED", "canceled")
       \/ /\ t > 0 /\ cancelled
          /\ thr' = [thr EXCEPT ![t] = [Off EXCEPT !.phase = "done", !.err = "canceled"]]
          /\ branchFailed' = TRUE
          /\ UNCHANGED <<status, cause, visits>>
    /\ UNCHANGED <<mode, def, cancelled, abandoned>>

NotStopped(t) == (t = 0 /\ mode = "memory") \/ ~cancelled

NotFound(t) ==
    /\ status = "RUNNING" /\ thr[t].phase = "enter" /\ NotStopped(t)
    /\ thr[t].name \notin DOMAIN StatesOf(t)
    /\ IF t = 0 THEN End("FAILED", "not found")
       ELSE /\ thr' = [thr EXCEPT ![t] = [Off EXCEPT !.phase = "done", !.err = "not found in branch"]]
            /\ branchFailed' = TRUE
            /\ UNCHANGED <<status, cause, visits>>
    /\ UNCHANGED <<mode, def, cancelled, abandoned>>

\* Where the state has to wait for something, the thread goes to a phase.
ExecuteState(t) ==
    /\ status = "RUNNING" /\ thr[t].phase = "enter" /\ NotStopped(t)
    /\ thr[t].name \in DOMAIN StatesOf(t)
    /\ visits =< MaxVisits
    /\ LET s == StateOf(t)
           in == IF s.type = "Fail" THEN thr[t].doc ELSE ApplyInputPath(thr[t].doc, s.inPath)
           taskInput == prepareInput(s, in)
           wait == calculateWaitDuration(s, in)
       IN  IF Failed(in) THEN StateReturns(t, Returns(in, ""), "")
           ELSE CASE s.type = "Pass" -> StateReturns(t, PassExecute(s, in), "next")
             [] s.type = "Succeed" -> StateReturns(t, SucceedExecute(s, in), "next")
             [] s.type = "Fail" -> StateReturns(t, FailExecute(in), "next")
             [] s.type = "Choice" -> StateReturns(t, ChoiceExecute(s, in), "choice")
             [] s.type = "Wait" ->
                    IF Failed(wait) THEN StateReturns(t, Returns(wait, ""), "")
                    ELSE /\ thr' = [thr EXCEPT ![t].phase = "wait", ![t].in = in]
                         /\ UNCHANGED <<status, cause, visits, branchFailed>>
             [] s.type = "Task" ->
                    IF Failed(taskInput) THEN StateReturns(t, Returns(taskInput, ""), "")
                    ELSE /\ thr' = [thr EXCEPT ![t].phase = "task", ![t].in = in,
                                               ![t].taskInput = taskInput, ![t].attempt = 0]
                         /\ UNCHANGED <<status, cause, visits, branchFailed>>
             [] s.type = "Parallel" ->
                    /\ thr' = [i \in Threads |->
                                  IF i = 0 THEN [thr[0] EXCEPT !.phase = "join", !.in = in]
                                  ELSE IF i \in DOMAIN s.branches
                                       THEN At(s.branches[i].startAt, "start", in)
                                       ELSE Off]
                    /\ UNCHANGED <<status, cause, visits, branchFailed>>
    /\ UNCHANGED <<mode, def, cancelled, abandoned>>

\* The handler returns before the timeout, if there is one. A panic in the
\* goroutine of a timed handler is recovered nowhere.
HandlerReturns(t) ==
    /\ status = "RUNNING" /\ thr[t].phase = "task"
    /\ LET s == StateOf(t)
       IN  \E v \in HandlerOutcomes(s, thr[t].taskInput) :
               CASE Is(v, "panic") -> IF s.timed THEN Crash ELSE StateReturns(t, Fault("panic"), "")
                 [] Is(v, "err") -> AttemptFails(t, v.err)
                 [] OTHER -> StateReturns(t, Returns(prepareOutput(s, thr[t].in, v), s.next), "next")
    /\ UNCHANGED <<mode, def, cancelled, abandoned>>

\* Mutant: only the first attempt has a timeout.
TimeoutFiresOnce(t) ==
    /\ status = "RUNNING" /\ thr[t].phase = "task" /\ StateOf(t).timed /\ thr[t].attempt = 0
    /\ AttemptFails(t, IF cancelled THEN "canceled" ELSE "deadline")
    /\ abandoned' = abandoned + 1
    /\ UNCHANGED <<mode, def, cancelled>>

\* TimeoutSeconds is over, or the context of the execution is done: the attempt
\* fails while its handler runs on.
TimeoutFires(t) ==
    /\ status = "RUNNING" /\ thr[t].phase = "task" /\ StateOf(t).timed
    /\ AttemptFails(t, IF cancelled THEN "canceled" ELSE "deadline")
    /\ abandoned' = abandoned + 1
    /\ UNCHANGED <<mode, def, cancelled>>

\* An abandoned handler ends: nobody reads its result, but its panic counts.
AbandonedReturns ==
    /\ abandoned > 0 /\ status # "CRASHED"
    /\ abandoned' = abandoned - 1
    /\ \/ UNCHANGED <<status, cause, thr, visits, branchFailed>>
       \/ Crash
    /\ UNCHANGED <<mode, def, cancelled>>

waitForRetry(t) ==
    /\ status = "RUNNING" /\ thr[t].phase = "backoff"
    /\ \/ /\ thr' = [thr EXCEPT ![t].phase = "task", ![t].attempt = thr[t].attempt + 1]
          /\ UNCHANGED <<status, cause, visits, branchFailed>>
       \/ /\ cancelled
          /\ StateReturns(t, handleTaskFailure(StateOf(t), thr[t].in, "canceled"), "catch")
    /\ UNCHANGED <<mode, def, cancelled, abandoned>>

performWait(t) ==
    /\ status = "RUNNING" /\ thr[t].phase = "wait"
    /\ LET s == StateOf(t)
           wait == calculateWaitDuration(s, thr[t].in)
       IN  \/ StateReturns(t, Returns(prepareOutput(s, thr[t].in, thr[t].in), s.next), "next")
           \/ /\ cancelled /\ ~(Is(wait, "num") /\ wait.num =< 0)
              /\ StateReturns(t, Fault("canceled"), "")
    /\ UNCHANGED <<mode, def, cancelled, abandoned>>

BranchesOf(s) == DOMAIN s.branches

\* Mutant: the state goes on when some branch is done.
JoinBranchesEarly ==
    /\ status = "RUNNING" /\ thr[0].phase = "join"
    /\ LET s == StateOf(0)
       IN  /\ \E t \in BranchesOf(s) : thr[t].phase = "done"
           /\ StateReturns(0, ParallelResult(s, thr[0].in, [t \in BranchesOf(s) |-> thr[t].out],
                                             [t \in BranchesOf(s) |-> thr[t].err]), "next")
    /\ UNCHANGED <<mode, def, cancelled, abandoned>>

\* wg.Wait: an error does not end the other branches.
JoinBranches ==
    /\ status = "RUNNING" /\ thr[0].phase = "join"
    /\ LET s == StateOf(0)
       IN  /\ \A t \in BranchesOf(s) : thr[t].phase = "done"
           /\ StateReturns(0, ParallelResult(s, thr[0].in, [t \in BranchesOf(s) |-> thr[t].out],
                                             [t \in BranchesOf(s) |-> thr[t].err]), "next")
    /\ UNCHANGED <<mode, def, cancelled, abandoned>>

\* The caller cancels the context.
Cancel ==
    /\ status = "RUNNING" /\ ~cancelled
    /\ cancelled' = TRUE
    /\ UNCHANGED <<mode, def, status, cause, thr, visits, abandoned, branchFailed>>

Interpret ==
    \/ \E t \in Threads : \/ Stop(t) \/ NotFound(t) \/ ExecuteState(t)
                          \/ TimeoutFires(t) \/ waitForRetry(t) \/ performWait(t)
    \/ JoinBranches

Next ==
    \/ New
    \/ \E input \in Inputs : Execute(input)
    \/ Interpret
    \/ \E t \in Threads : HandlerReturns(t)
    \/ AbandonedReturns
    \/ Cancel

Spec == Init /\ [][Next]_vars

\* Timers fire; a handler may hang for ever.
FairSpec ==
    Spec /\ \A t \in Threads : WF_vars(TimeoutFires(t)) /\ WF_vars(waitForRetry(t))
----------------------------------------------------------------------------
(***************************************************************************)
(* Properties.                                                             *)
(***************************************************************************)

Accepted == status \notin {"NEW", "REJECTED"}

\* Where the loop may go from a state.
Successors(s) ==
    IF IsEnd(s) THEN {}
    ELSE ({s.next, s.default} \cup NextsOf(s.choices) \cup NextsOf(s.catch)) \ {""}

\* The depth-first searches of the validator find what they are for: in a definition
\* that New accepted every set of states the execution cannot leave holds an end
\* state, so no execution runs into a loop without exit, and StartAt leads everywhere.
AcceptedCanEnd ==
    Accepted =>
        LET Closed(S) == \A n \in S : Successors(def.states[n]) \cap DOMAIN def.states \subseteq S
        IN  \A S \in SUBSET DOMAIN def.states :
                Closed(S) /\ S # {} => /\ \E n \in S : IsEnd(def.states[n])
                                      /\ (def.startAt \in S => S = DOMAIN def.states)

\* An accepted definition names a state that does not exist in a Choice rule, a Default
\* or a Catch policy only, the targets the validator leaves out: no other transition
\* ends an execution with "state not found".
NotFoundIsUnchecked ==
    [][NotFound(0) => thr[0].via \in {"choice", "catch"}]_vars

\* The goroutines of a Parallel state never outlive it, and an error of any of them,
\* whichever ends first, keeps the execution from succeeding.
ParallelSound ==
    /\ \A t \in Branches : thr[t].phase \notin {"off", "done"} => thr[0].phase = "join"
    /\ status = "SUCCEEDED" => ~branchFailed

\* From state to state the persistent machine loses nothing of the document it carries,
\* whatever ResultPath, OutputPath or a handler made of the output, as long as that is
\* an object: every field, and every field of a nested object that is still an object,
\* is there in the next input.
InputSurvives ==
    [][LET old == thr[0].doc
           new == thr'[0].doc
       IN  mode = "persistent" /\ status = "RUNNING" /\ status' = "RUNNING"
           /\ Is(old, "map") /\ Is(new, "map") =>
               \A k \in NonNull(old.map) :
                   /\ k \in DOMAIN new.map
                   /\ (Is(old.map[k], "map") /\ Is(new.map[k], "map")) =>
                          (NonNull(old.map[k].map) \subseteq DOMAIN new.map[k].map)]_vars

\* A task with TimeoutSeconds comes to an end, whether or not its handler does: the
\* timeouts and the bounded retries take it to its Catch policy or to a failure.
TimedTaskEnds ==
    \A t \in Threads :
        (thr[t].phase \in {"task", "backoff"} /\ StateOf(t).timed)
            ~> (thr[t].phase \notin {"task", "backoff"})
=============================================================================
