----------------------------- MODULE BatchLocal -----------------------------
(***************************************************************************)
(* ExecuteBatch and ExecuteBulk of the persistent state machine without    *)
(* micro-batches: several calls at the same time on one database, each     *)
(* either enqueues its items one by one or runs them in goroutines of its  *)
(* own behind a semaphore of ConcurrentBatches slots. Workers take the     *)
(* tasks off the queue and run them, during the call or long after it.     *)
(*                                                                         *)
(* An item is a source execution (batch) or an input (bulk); its index in  *)
(* the call gives its execution the name prefix-index. stopProcessing is   *)
(* read and written without the mutex; reads and writes of a bool are      *)
(* single instructions and the compiler keeps them where they are, so the  *)
(* race is the interleaving of the steps below.                            *)
(***************************************************************************)
EXTENDS Integers, FiniteSets

CONSTANTS
    Callers,            \* calls of ExecuteBatch or ExecuteBulk
    NumItems,           \* items each call would find in an empty database
    ConcurrentBatches   \* opts.ConcurrentBatches

ASSUME BatchAssumption ==
    NumItems \in Nat \ {0} /\ ConcurrentBatches \in Nat

Items == 1..NumItems

\* ExecuteBatch without and with ApplyUnique, ExecuteBulk.
Kinds == {"batch", "unique", "bulk"}

\* A queue client is set; StopOnError; all calls use one NamePrefix.
Options == [queue : BOOLEAN, stop : BOOLEAN, samePrefix : BOOLEAN]

VARIABLES
    opts,       \* what the calls have in common
    kind,       \* what each call is
    call,       \* where each call is
    ids,        \* sourceExecutionIDs (or inputs) of each call
    next,       \* items not yet reached by the loop of each call
    pc,         \* where the goroutine of each item is
    results,    \* results[index]: "nil", "ok" or "error"
    errChan,    \* whether errChan holds an error
    stopProcessing,
    returned,   \* what the call returned: "none", "ok" or "error"
    task,       \* where the task of each item is: not in the queue, at a step of a worker, or archived
    linked,     \* source executions with a linked_executions row
    named,      \* names of executions in the database
    processed,  \* history: executions saved per source execution
    overlap,    \* history: calls begun while another one or its workers ran, and those
    reused,     \* history: names given to two executions
    unlinked    \* history: source executions of an execution saved without its link

vars == <<opts, kind, call, ids, next, pc, results, errChan, stopProcessing, returned,
          task, linked, named, processed, overlap, reused, unlinked>>

Init ==
    /\ opts \in Options /\ kind \in [Callers -> Kinds]
    /\ call = [c \in Callers |-> "new"]
    /\ ids = [c \in Callers |-> {}] /\ next = [c \in Callers |-> {}]
    /\ pc = [c \in Callers |-> [i \in Items |-> "none"]]
    /\ results = [c \in Callers |-> [i \in Items |-> "nil"]]
    /\ errChan = [c \in Callers |-> FALSE]
    /\ stopProcessing = [c \in Callers |-> FALSE]
    /\ returned = [c \in Callers |-> "none"]
    /\ task = [c \in Callers |-> [i \in Items |-> "none"]]
    /\ linked = {} /\ named = {} /\ overlap = {} /\ reused = {} /\ unlinked = {}
    /\ processed = [i \in Items |-> 0]

\* NamePrefix and the index of the item in its call.
Name(c, i) ==
    <<IF opts.samePrefix THEN Callers ELSE {c}, Cardinality({j \in ids[c] : j < i})>>

Unfinished == {"name", "save", "link", "run"}

\* The call, or a worker for it, is under way.
Active(c) ==
    call[c] \notin {"new", "returned"} \/ \E i \in Items : task[c][i] \in Unfinished

-----------------------------------------------------------------------------
(* The call.                                                               *)

\* Variant: links are not looked up.
ListSourcesAll(c) == Items

\* ListNonLinkedExecutions with ApplyUnique, else all that match the filter.
ListSources(c) ==
    IF kind[c] = "unique" THEN Items \ linked ELSE Items

\* ExecuteBatch: list; nothing found returns at once; with a queue client enqueue.
ExecuteBatch(c) ==
    /\ call[c] = "new"
    /\ ids' = [ids EXCEPT ![c] = ListSources(c)]
    /\ next' = [next EXCEPT ![c] = ListSources(c)]
    /\ call' = [call EXCEPT ![c] = IF ListSources(c) = {} THEN "returned"
                                   ELSE IF opts.queue THEN "enqueue" ELSE "loop"]
    /\ returned' = [returned EXCEPT ![c] = IF ListSources(c) = {} THEN "ok" ELSE @]
    /\ overlap' = overlap \cup {d \in Callers : d # c /\ Active(d)}
                          \cup {d \in {c} : \E k \in Callers \ {c} : Active(k)}
    /\ UNCHANGED <<opts, kind, pc, results, errChan, stopProcessing,
                   task, linked, named, processed, reused, unlinked>>

\* The loop runs in the order of the list.
IsNext(c, i) == i \in next[c] /\ \A j \in next[c] : i <= j

\* The id of a task is the name of its execution; it is taken while the task is in the
\* queue or archived.
InQueue(name) == \E d \in Callers, j \in Items : task[d][j] # "none" /\ Name(d, j) = name

\* executeBatchViaQueue and executeBulkViaQueue: the task is enqueued or not.
EnqueueTask(c, i) ==
    /\ call[c] = "enqueue" /\ IsNext(c, i)
    /\ \E ok \in BOOLEAN :
          LET stops == ~ok /\ opts.stop IN
          /\ ok => ~InQueue(Name(c, i))
          /\ task' = [task EXCEPT ![c][i] = IF ok THEN "name" ELSE @]
          /\ results' = [results EXCEPT ![c][i] = IF ok THEN "ok" ELSE "error"]
          /\ next' = [next EXCEPT ![c] = IF stops THEN {} ELSE @ \ {i}]
          /\ returned' = [returned EXCEPT ![c] = IF stops THEN "error"
                                                 ELSE IF @ = "none" /\ next[c] = {i} THEN "ok" ELSE @]
          /\ call' = [call EXCEPT ![c] = IF stops \/ next[c] = {i} THEN "returned" ELSE @]
    /\ UNCHANGED <<opts, kind, ids, pc, errChan, stopProcessing,
                   linked, named, processed, overlap, reused, unlinked>>

\* The loop of executeBatchLocal: stop, or start the goroutine of the next item.
SpawnNext(c, i) ==
    /\ call[c] = "loop" /\ IsNext(c, i)
    /\ IF stopProcessing[c]
       THEN next' = [next EXCEPT ![c] = {}] /\ UNCHANGED pc
       ELSE /\ next' = [next EXCEPT ![c] = @ \ {i}]
            /\ pc' = [pc EXCEPT ![c][i] = "acquire"]
    /\ UNCHANGED <<opts, kind, call, ids, results, errChan, stopProcessing, returned,
                   task, linked, named, processed, overlap, reused, unlinked>>

\* wg.Wait, close(errChan) and the receive: an error if one was sent.
Return(c) ==
    /\ call[c] = "loop" /\ next[c] = {}
    /\ \A i \in Items : pc[c][i] = "none"
    /\ returned' = [returned EXCEPT ![c] = IF errChan[c] THEN "error" ELSE "ok"]
    /\ call' = [call EXCEPT ![c] = "returned"]
    /\ UNCHANGED <<opts, kind, ids, next, pc, results, errChan, stopProcessing,
                   task, linked, named, processed, overlap, reused, unlinked>>

-----------------------------------------------------------------------------
(* The goroutine of item i.                                                *)

Step(c, i, from, to) == pc[c][i] = from /\ pc' = [pc EXCEPT ![c][i] = to]

\* Slots of the semaphore in use; with a capacity of 0 no send ever goes through.
Held(c) == {i \in Items : pc[c][i] \notin {"none", "acquire"}}

\* Variant: one slot too many.
AcquireOneMore(c, i) ==
    /\ Step(c, i, "acquire", "check")
    /\ Cardinality(Held(c)) <= ConcurrentBatches
    /\ UNCHANGED <<opts, kind, call, ids, next, results, errChan, stopProcessing, returned,
                   task, linked, named, processed, overlap, reused, unlinked>>

\* The send on the semaphore.
Acquire(c, i) ==
    /\ Step(c, i, "acquire", "check")
    /\ Cardinality(Held(c)) < ConcurrentBatches
    /\ UNCHANGED <<opts, kind, call, ids, next, results, errChan, stopProcessing, returned,
                   task, linked, named, processed, overlap, reused, unlinked>>

\* Variant: only the loop looks at stopProcessing.
CheckStopNot(c, i) ==
    /\ Step(c, i, "check", "name")
    /\ UNCHANGED <<opts, kind, call, ids, next, results, errChan, stopProcessing, returned,
                   task, linked, named, processed, overlap, reused, unlinked>>

\* The goroutine looks at stopProcessing once it has a slot.
CheckStop(c, i) ==
    /\ IF stopProcessing[c] THEN Step(c, i, "check", "release") ELSE Step(c, i, "check", "name")
    /\ UNCHANGED <<opts, kind, call, ids, next, results, errChan, stopProcessing, returned,
                   task, linked, named, processed, overlap, reused, unlinked>>

\* Storing the result; an error is reported only with StopOnError.
Store(c, i, from, ok) ==
    /\ Step(c, i, from, IF ~ok /\ opts.stop THEN "report" ELSE "release")
    /\ results' = [results EXCEPT ![c][i] = IF ok THEN "ok" ELSE "error"]

\* Execute: the input is derived (which may fail), then the name looked up: one that
\* exists is an error.
CheckName(c, i) ==
    /\ \/ Step(c, i, "name", "save") /\ Name(c, i) \notin named /\ UNCHANGED results
       \/ Store(c, i, "name", FALSE) /\ (kind[c] # "bulk" \/ Name(c, i) \in named)
    /\ UNCHANGED <<opts, kind, call, ids, next, errChan, stopProcessing, returned,
                   task, linked, named, processed, overlap, reused, unlinked>>

\* The first persistExecution of Execute.
PersistExecution(c, i) ==
    /\ named' = named \cup {Name(c, i)}
    /\ reused' = IF Name(c, i) \in named THEN reused \cup {Name(c, i)} ELSE reused
    /\ processed' = IF kind[c] = "bulk" THEN processed ELSE [processed EXCEPT ![i] = @ + 1]

SaveExecution(c, i) ==
    /\ Step(c, i, "save", IF kind[c] = "bulk" THEN "run" ELSE "link")
    /\ PersistExecution(c, i)
    /\ UNCHANGED <<opts, kind, call, ids, next, results, errChan, stopProcessing, returned,
                   task, linked, overlap, unlinked>>

\* saveLinkedExecution; when it fails there is only a warning.
PersistLink(i) ==
    \/ linked' = linked \cup {i} /\ UNCHANGED unlinked
    \/ unlinked' = unlinked \cup {i} /\ UNCHANGED linked

SaveLinkedExecution(c, i) ==
    /\ Step(c, i, "link", "run")
    /\ PersistLink(i)
    /\ UNCHANGED <<opts, kind, call, ids, next, results, errChan, stopProcessing, returned,
                   task, named, processed, overlap, reused>>

\* RunExecution.
RunExecution(c, i) ==
    /\ \E ok \in BOOLEAN : Store(c, i, "run", ok)
    /\ UNCHANGED <<opts, kind, call, ids, next, errChan, stopProcessing, returned,
                   task, linked, named, processed, overlap, reused, unlinked>>

\* Variant: the error is not sent, only the flag set.
ReportErrorLost(c, i) ==
    /\ Step(c, i, "report", IF errChan[c] THEN "release" ELSE "stop")
    /\ UNCHANGED <<opts, kind, call, ids, next, results, errChan, stopProcessing, returned,
                   task, linked, named, processed, overlap, reused, unlinked>>

\* The select: the first error goes into the channel, later ones are dropped.
ReportError(c, i) ==
    /\ Step(c, i, "report", IF errChan[c] THEN "release" ELSE "stop")
    /\ errChan' = [errChan EXCEPT ![c] = TRUE]
    /\ UNCHANGED <<opts, kind, call, ids, next, results, stopProcessing, returned,
                   task, linked, named, processed, overlap, reused, unlinked>>

SetStop(c, i) ==
    /\ Step(c, i, "stop", "release")
    /\ stopProcessing' = [stopProcessing EXCEPT ![c] = TRUE]
    /\ UNCHANGED <<opts, kind, call, ids, next, results, errChan, returned,
                   task, linked, named, processed, overlap, reused, unlinked>>

\* Variant: a goroutine that was told to stop keeps its slot.
ReleaseUnlessSkipped(c, i) ==
    /\ results[c][i] # "nil" \/ ~stopProcessing[c]
    /\ Step(c, i, "release", "none")
    /\ UNCHANGED <<opts, kind, call, ids, next, results, errChan, stopProcessing, returned,
                   task, linked, named, processed, overlap, reused, unlinked>>

\* The deferred receive from the semaphore and wg.Done.
Release(c, i) ==
    /\ Step(c, i, "release", "none")
    /\ UNCHANGED <<opts, kind, call, ids, next, results, errChan, stopProcessing, returned,
                   task, linked, named, processed, overlap, reused, unlinked>>

-----------------------------------------------------------------------------
(* A worker with the task of item i: handleRegularExecution, which calls     *)
(* Execute with the name and the source of the task.                        *)

TaskStep(c, i, from, to) == task[c][i] = from /\ task' = [task EXCEPT ![c][i] = to]

WorkerCheckName(c, i) ==
    /\ TaskStep(c, i, "name", "save")
    /\ Name(c, i) \notin named
    /\ UNCHANGED <<opts, kind, call, ids, next, pc, results, errChan, stopProcessing, returned,
                   linked, named, processed, overlap, reused, unlinked>>

WorkerSave(c, i) ==
    /\ TaskStep(c, i, "save", IF kind[c] = "bulk" THEN "run" ELSE "link")
    /\ PersistExecution(c, i)
    /\ UNCHANGED <<opts, kind, call, ids, next, pc, results, errChan, stopProcessing, returned,
                   linked, overlap, unlinked>>

WorkerLink(c, i) ==
    /\ TaskStep(c, i, "link", "run")
    /\ PersistLink(i)
    /\ UNCHANGED <<opts, kind, call, ids, next, pc, results, errChan, stopProcessing, returned,
                   named, processed, overlap, reused>>

\* The execution succeeds and the task leaves the queue.
WorkerDone(c, i) ==
    /\ TaskStep(c, i, "run", "none")
    /\ UNCHANGED <<opts, kind, call, ids, next, pc, results, errChan, stopProcessing, returned,
                   linked, named, processed, overlap, reused, unlinked>>

\* Its name exists, its input cannot be derived, its execution fails, or the worker
\* dies: the task is tried again from the start or, after its last retry, archived.
WorkerFails(c, i) ==
    /\ \E from \in Unfinished, to \in {"name", "archived"} : TaskStep(c, i, from, to)
    /\ unlinked' = IF task[c][i] = "link" THEN unlinked \cup {i} ELSE unlinked
    /\ UNCHANGED <<opts, kind, call, ids, next, pc, results, errChan, stopProcessing, returned,
                   linked, named, processed, overlap, reused>>

-----------------------------------------------------------------------------
CallStep(c) == Return(c) \/ \E i \in Items : EnqueueTask(c, i) \/ SpawnNext(c, i)

ItemStep(c, i) ==
    \/ Acquire(c, i) \/ CheckStop(c, i) \/ CheckName(c, i) \/ SaveExecution(c, i)
    \/ SaveLinkedExecution(c, i) \/ RunExecution(c, i) \/ ReportError(c, i)
    \/ SetStop(c, i) \/ Release(c, i)

WorkerStep(c, i) ==
    \/ WorkerCheckName(c, i) \/ WorkerSave(c, i) \/ WorkerLink(c, i)
    \/ WorkerDone(c, i) \/ WorkerFails(c, i)

Next ==
    \E c \in Callers : \/ ExecuteBatch(c) \/ CallStep(c)
                       \/ \E i \in Items : ItemStep(c, i) \/ WorkerStep(c, i)

Spec == Init /\ [][Next]_vars

(* As long as goroutines of calls can go on, one of them is scheduled, and executions
   end; nothing is said of workers.                                          *)
Fairness ==
    WF_vars(\E c \in Callers : CallStep(c) \/ \E i \in Items : ItemStep(c, i))

FairSpec == Spec /\ Fairness

-----------------------------------------------------------------------------
(* Properties.                                                             *)

Places == {"none", "acquire", "check", "name", "save", "link", "run",
           "report", "stop", "release"}

(* Types; no more goroutines run than there are slots.                      *)
TypeOK ==
    /\ opts \in Options /\ kind \in [Callers -> Kinds]
    /\ call \in [Callers -> {"new", "loop", "enqueue", "returned"}]
    /\ ids \in [Callers -> SUBSET Items] /\ next \in [Callers -> SUBSET Items]
    /\ pc \in [Callers -> [Items -> Places]]
    /\ results \in [Callers -> [Items -> {"nil", "ok", "error"}]]
    /\ errChan \in [Callers -> BOOLEAN] /\ stopProcessing \in [Callers -> BOOLEAN]
    /\ returned \in [Callers -> {"none", "ok", "error"}]
    /\ task \in [Callers -> [Items -> Unfinished \cup {"none", "archived"}]]
    /\ linked \subseteq Items /\ unlinked \subseteq Items
    /\ named \subseteq (SUBSET Callers) \X (0..(NumItems - 1)) /\ reused \subseteq named
    /\ processed \in [Items -> Nat]
    /\ \A c \in Callers : Cardinality(Held(c)) <= ConcurrentBatches

(* What a call returns: an error exactly if StopOnError is set and an item failed;
   a result for every item unless it stopped, and none for items it left out. *)
ReturnIsTrue ==
    \A c \in Callers : call[c] = "returned" =>
        LET Failed == {i \in ids[c] : results[c][i] = "error"}
            Missing == {i \in ids[c] : results[c][i] = "nil"} IN
        /\ (returned[c] = "error") <=> (opts.stop /\ Failed # {})
        /\ Missing # {} => returned[c] = "error"
        /\ \A i \in Items : pc[c][i] = "none"

(* With StopOnError and one slot no item runs after one that failed: the failing
   goroutine reports and sets the flag before its slot is free. (With more slots the
   goroutine that sent its error may still be about to set the flag, while others
   fail, find the channel full, and give their slots to new items.)            *)
StopsAtFirstError ==
    ConcurrentBatches = 1 =>
        \A c \in Callers : opts.stop =>
            Cardinality({i \in Items : results[c][i] = "error"}) <= 1

(* Calls with ApplyUnique that do not overlap never process a source twice, unless a
   link could not be saved, and executions of calls that do not overlap never share a
   name. A call by queue lasts until its workers are done: one begun before they have
   saved their links enqueues the same sources again.                        *)
SequentialCallsUnique ==
    overlap = {} =>
        /\ (\A c \in Callers : kind[c] = "unique") =>
              \A i \in Items \ unlinked : processed[i] <= 1
        /\ reused = {}

(* Every call that is made returns, whatever its goroutines meet: in the end no call
   is under way, and calls are made once each.                               *)
BatchReturns == <>[](\A c \in Callers : call[c] \in {"new", "returned"})

=============================================================================
