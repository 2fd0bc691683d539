------------------------------ MODULE Recovery ------------------------------
(***************************************************************************)
(* Crash recovery: processes run executions of the persistent state        *)
(* machine (a chain of states 1..NumStates), die, have their contexts      *)
(* cancelled, and each may run the background scanner of pkg/recovery,     *)
(* which looks for RUNNING rows that started long ago and runs them again. *)
(*                                                                         *)
(* Every read or write of the database is a step of its own. A document is *)
(* the set of the states whose results it contains, and 0 when it contains *)
(* the input the execution was started with.                               *)
(***************************************************************************)
EXTENDS Integers, FiniteSets

CONSTANTS
    Execs,          \* executions
    Procs,          \* processes, each with one recovery manager
    Starter,        \* the process that calls Execute
    NumStates,      \* length of the chain of states
    Strategies,     \* values DefaultRecoveryStrategy may have
    MaxAttempts,    \* DefaultMaxRecoveryAttempts
    MaxFaults       \* bound: deaths, cancellations and calls of StopBackgroundScanner

ASSUME ConstantsAssumption ==
    /\ NumStates \in Nat \ {0}
    /\ MaxAttempts \in Nat \ {0}
    /\ Strategies \subseteq {"RETRY", "SKIP", "FAIL", "PAUSE"}
    /\ Execs # {} /\ Execs \cap Procs = {} /\ Starter \in Procs
    /\ MaxFaults \in Nat

VARIABLES
    row,        \* the executions table
    hist,       \* the state_history rows of each execution
    old,        \* executions whose start_time is before now - OrphanedThreshold
    run,        \* per goroutine: the execution context it works on
    found,      \* per scanner: orphans of the current scan still to recover
    alive,      \* processes whose scanner goroutine exists
    isRunning,  \* processes whose manager says the scanner is running
    stopChan,   \* processes whose manager's stopChan is closed
    strategy,   \* the configured strategy
    keeps,      \* states whose ResultPath adds their result to their input
    faults,
    late        \* history: recoveries begun from a row that was no longer RUNNING

vars == <<row, hist, old, run, found, alive, isRunning, stopChan,
          strategy, keeps, faults, late>>

\* Goroutines: the caller of Execute of each execution, the scanner of each process.
Goroutines == Execs \cup Procs

Doc == SUBSET (0..NumStates)

NoRow == [status |-> "none", state |-> 1, seq |-> 0, output |-> {}, attempts |-> 0]

\* An execution context; "at" is the next step of the goroutine that holds it.
Idle(e) == [at |-> "none", exec |-> e, state |-> 1, seq |-> 0, attempts |-> 0,
            input |-> {0}, output |-> {}, ok |-> TRUE]

New(e) == [Idle(e) EXCEPT !.at = "new"]

Init ==
    /\ row = [e \in Execs |-> NoRow]
    /\ hist = [e \in Execs |-> {}]
    /\ old = {}
    /\ run = [g \in Goroutines |-> IF g \in Execs THEN New(g)
                                   ELSE Idle(CHOOSE e \in Execs : TRUE)]
    /\ found = [p \in Procs |-> {}]
    /\ alive = {} /\ isRunning = {} /\ stopChan = {}
    /\ strategy \in Strategies
    /\ keeps \in SUBSET (1..NumStates)
    /\ faults = 0
    /\ late = [e \in Execs |-> 0]

Fault == faults < MaxFaults /\ faults' = faults + 1

-----------------------------------------------------------------------------
(* The repository.                                                         *)

\* SaveExecution of an existing id: the UPDATE lists status, current_state, output
\* and history_sequence_number; recovery_metadata is not among its columns.
UpdateRow(r, status, c) ==
    [r EXCEPT !.status = status, !.state = c.state, !.seq = c.seq, !.output = c.output]

\* Variant: the comparison with the threshold turned round.
FindOrphanedExecutionsFresh == {e \in Execs \ old : row[e].status = "RUNNING"}

\* FindOrphanedExecutions.
FindOrphanedExecutions == {e \in old : row[e].status = "RUNNING"}

-----------------------------------------------------------------------------
(* Executing.                                                              *)

Inserted == [NoRow EXCEPT !.status = "RUNNING"]

\* Execute: INSERT of the row, then RunExecution.
Execute(e) ==
    /\ run[e].at = "new"
    /\ row' = [row EXCEPT ![e] = Inserted]
    /\ run' = [run EXCEPT ![e].at = "state"]
    /\ UNCHANGED <<hist, old, found, alive, isRunning, stopChan, strategy, keeps, faults, late>>

\* Output of the state: its result alone, or added to its input by a ResultPath that
\* is not "$"; the input when the state failed. History and row hold it as it is.
StateOutput(c, ok) ==
    IF ~ok THEN c.input
    ELSE IF c.state \in keeps THEN c.input \cup {c.state} ELSE {c.state}

\* Context after a state: at the next one, its output merged into the input, which is
\* kept in memory only; or at the save.
Advance(c, out) == [c EXCEPT !.seq = @ + 1, !.state = @ + 1, !.input = @ \cup out]
Finish(c, ok, out) == [c EXCEPT !.seq = @ + 1, !.at = "save", !.ok = ok,
                                !.output = IF ok THEN out ELSE @]

\* One round of RunExecution: the state, its history row, and on to the next state
\* or to the final save. In between the execution's row is not written.
ExecuteState(g) ==
    LET c == run[g] IN
    /\ c.at = "state"
    /\ \E ok \in BOOLEAN :
          LET out == StateOutput(c, ok) IN
          /\ hist' = [hist EXCEPT ![c.exec] = @ \cup
                {[state |-> c.state, seq |-> c.seq + 1, output |-> out, ok |-> ok]}]
          /\ run' = [run EXCEPT ![g] =
                IF ok /\ c.state < NumStates THEN Advance(c, out) ELSE Finish(c, ok, out)]
    /\ UNCHANGED <<row, old, found, alive, isRunning, stopChan, strategy, keeps, faults, late>>

\* persistExecution at the end of RunExecution; the goroutine is done with it.
PersistExecution(g) ==
    LET c == run[g] IN
    /\ c.at = "save"
    /\ row' = [row EXCEPT ![c.exec] =
                  UpdateRow(@, IF c.ok THEN "SUCCEEDED" ELSE "FAILED", c)]
    /\ run' = [run EXCEPT ![g] = Idle(c.exec)]
    /\ UNCHANGED <<hist, old, found, alive, isRunning, stopChan, strategy, keeps, faults, late>>

\* The caller's context is cancelled: checkContext saves CANCELLED with that same
\* context, so neither this nor any other save of the run reaches the database.
CancelContext(e) ==
    /\ run[e].at \in {"state", "save"}
    /\ Fault
    /\ run' = [run EXCEPT ![e] = Idle(e)]
    /\ UNCHANGED <<row, hist, old, found, alive, isRunning, stopChan, strategy, keeps, late>>

-----------------------------------------------------------------------------
(* The recovery manager.                                                   *)

\* StartBackgroundScanner. On a manager that was stopped before, stopChan is still
\* closed and the first select of the new goroutine returns.
StartBackgroundScanner(p) ==
    /\ p \notin isRunning
    /\ isRunning' = isRunning \cup {p}
    /\ alive' = IF p \in stopChan THEN alive ELSE alive \cup {p}
    /\ UNCHANGED <<row, hist, old, run, found, stopChan, strategy, keeps, faults, late>>

\* Variant: the list of the scan outlives the process.
KillKeepsFound(p) ==
    /\ run' = [g \in Goroutines |->
                  IF g = p \/ (g \in Execs /\ p = Starter /\ run[g].at # "new")
                  THEN Idle(run[g].exec) ELSE run[g]]
    /\ alive' = alive \ {p}
    /\ isRunning' = isRunning \ {p}
    /\ stopChan' = stopChan \ {p}
    /\ UNCHANGED <<row, hist, old, found, strategy, keeps, late>>

\* What is left of process p: rows. Its next manager has a channel of its own.
Kill(p) ==
    /\ run' = [g \in Goroutines |->
                  IF g = p \/ (g \in Execs /\ p = Starter /\ run[g].at # "new")
                  THEN Idle(run[g].exec) ELSE run[g]]
    /\ found' = [found EXCEPT ![p] = {}]
    /\ alive' = alive \ {p}
    /\ isRunning' = isRunning \ {p}
    /\ stopChan' = stopChan \ {p}
    /\ UNCHANGED <<row, hist, old, strategy, keeps, late>>

\* StopBackgroundScanner. Closing a channel that is closed panics.
StopBackgroundScanner(p) ==
    /\ p \in isRunning
    /\ Fault
    /\ IF p \in stopChan
       THEN Kill(p)
       ELSE /\ stopChan' = stopChan \cup {p}
            /\ isRunning' = isRunning \ {p}
            /\ UNCHANGED <<row, hist, old, run, found, alive, strategy, keeps, late>>

\* Between two scans the scanner waits in the select of backgroundScanner.
Waiting(p) == p \in alive /\ run[p].at = "none" /\ found[p] = {}

\* The select takes stopChan; with a tick pending it may take the tick first.
ExitScanner(p) ==
    /\ Waiting(p) /\ p \in stopChan
    /\ alive' = alive \ {p}
    /\ UNCHANGED <<row, hist, old, run, found, isRunning, stopChan, strategy, keeps, faults, late>>

\* scanAndRecover up to the loop; a scan that finds nothing changes nothing.
ScanAndRecover(p) ==
    /\ Waiting(p) /\ FindOrphanedExecutions # {}
    /\ found' = [found EXCEPT ![p] = FindOrphanedExecutions]
    /\ UNCHANGED <<row, hist, old, run, alive, isRunning, stopChan, strategy, keeps, faults, late>>

Fetched(e, r) == [Idle(e) EXCEPT !.at = "fetched", !.state = r.state, !.seq = r.seq,
                                 !.output = r.output, !.attempts = r.attempts]

\* RecoverExecution reads the row again, and does not look at its status.
GetExecution(p) ==
    \E e \in found[p] :
       /\ run[p].at = "none"
       /\ found' = [found EXCEPT ![p] = @ \ {e}]
       /\ run' = [run EXCEPT ![p] = Fetched(e, row[e])]
       /\ late' = [late EXCEPT ![e] = IF row[e].status = "RUNNING" THEN @ ELSE @ + 1]
       /\ UNCHANGED <<row, hist, old, alive, isRunning, stopChan, strategy, keeps, faults>>

\* findLastSuccessfulState: history is ordered by sequence number; recovered runs
\* start counting again, so several rows may share the highest one.
LastSuccessful(h) ==
    {x \in h : x.ok /\ \A y \in h : y.ok => y.seq <= x.seq}

\* Variant: recovery starts from the input of the execution.
RecoveryInputOriginal(e) == {{0}}

\* GetRecoveryInput: the output of the last successful state, else the input the
\* execution was started with (no UPDATE writes the input column).
RecoveryInput(e) ==
    IF \E x \in hist[e] : x.ok THEN {x.output : x \in LastSuccessful(hist[e])} ELSE {{0}}

CanRecover(c) == c.attempts < MaxAttempts

\* Variant: recovery starts at the state after the current one.
ReconstructSkips(p) ==
    /\ run[p].at = "fetched"
    /\ \E input \in RecoveryInput(run[p].exec) :
          run' = [run EXCEPT ![p].input = input, ![p].at = "state",
                             ![p].state = IF @ < NumStates THEN @ + 1 ELSE @]
    /\ UNCHANGED <<row, hist, old, found, alive, isRunning, stopChan, strategy, keeps, faults, late>>

MarkRecoveryAttempt(c) == [c EXCEPT !.attempts = @ + 1]

\* The switch of RecoverExecution. SKIP does what RETRY does: RunExecution from
\* CurrentState.
ApplyStrategy(c) ==
    IF ~CanRecover(c) THEN [c EXCEPT !.at = "fail"]
    ELSE [MarkRecoveryAttempt(c) EXCEPT
             !.at = CASE strategy = "FAIL"  -> "fail"
                      [] strategy = "PAUSE" -> "pause"
                      [] OTHER              -> "state"]

\* GetStateHistory and reconstructExecution.
Reconstruct(p) ==
    /\ run[p].at = "fetched"
    /\ \E input \in RecoveryInput(run[p].exec) :
          run' = [run EXCEPT ![p] = ApplyStrategy([@ EXCEPT !.input = input])]
    /\ UNCHANGED <<row, hist, old, found, alive, isRunning, stopChan, strategy, keeps, faults, late>>

\* markExecutionFailed and markExecutionPaused.
MarkExecution(p) ==
    LET c == run[p] IN
    /\ c.at \in {"fail", "pause"}
    /\ row' = [row EXCEPT ![c.exec] =
                  UpdateRow(@, IF c.at = "fail" THEN "FAILED" ELSE "PAUSED", c)]
    /\ run' = [run EXCEPT ![p] = Idle(c.exec)]
    /\ UNCHANGED <<hist, old, found, alive, isRunning, stopChan, strategy, keeps, faults, late>>

-----------------------------------------------------------------------------
(* The environment.                                                        *)

\* The orphan threshold passes since the start of e.
Age(e) ==
    /\ row[e].status # "none" /\ e \notin old
    /\ old' = old \cup {e}
    /\ UNCHANGED <<row, hist, run, found, alive, isRunning, stopChan, strategy, keeps, faults, late>>

Crash(p) ==
    /\ Fault
    /\ Kill(p)

-----------------------------------------------------------------------------
RunStep(g) == ExecuteState(g) \/ PersistExecution(g)

ScanStep(p) == ScanAndRecover(p) \/ GetExecution(p) \/ Reconstruct(p) \/ MarkExecution(p)

Next ==
    \/ \E e \in Execs : Execute(e) \/ CancelContext(e) \/ Age(e)
    \/ \E g \in Goroutines : RunStep(g)
    \/ \E p \in Procs : \/ ScanStep(p) \/ ExitScanner(p) \/ Crash(p)
                        \/ StartBackgroundScanner(p) \/ StopBackgroundScanner(p)

Spec == Init /\ [][Next]_vars

(* Goroutines are scheduled, tickers tick and time passes.                   *)
Fairness ==
    /\ \A g \in Goroutines : WF_vars(RunStep(g))
    /\ \A p \in Procs : WF_vars(ScanStep(p))
    /\ \A e \in Execs : WF_vars(Age(e))

FairSpec == Spec /\ Fairness

-----------------------------------------------------------------------------
(* Properties.                                                             *)

Steps == {"none", "new", "state", "save", "fetched", "fail", "pause"}
Statuses == {"none", "RUNNING", "SUCCEEDED", "FAILED", "PAUSED"}

Rows == [status : Statuses, state : 1..NumStates, seq : Nat, output : Doc, attempts : Nat]
HistoryRows == [state : 1..NumStates, seq : Nat, output : Doc, ok : BOOLEAN]
Contexts == [at : Steps, exec : Execs, state : 1..NumStates, seq : Nat, attempts : Nat,
             input : Doc, output : Doc, ok : BOOLEAN]

(* Types; a scanner that works on something exists.                         *)
TypeOK ==
    /\ row \in [Execs -> Rows]
    /\ hist \in [Execs -> SUBSET HistoryRows]
    /\ run \in [Goroutines -> Contexts]
    /\ \A e \in Execs : run[e].exec = e
    /\ found \in [Procs -> SUBSET Execs]
    /\ strategy \in Strategies /\ keeps \subseteq 1..NumStates /\ faults \in 0..MaxFaults
    /\ old \subseteq Execs /\ alive \subseteq Procs
    /\ isRunning \subseteq Procs /\ stopChan \subseteq Procs
    /\ late \in [Execs -> Nat]
    /\ \A p \in Procs : (found[p] # {} \/ run[p].at # "none") => p \in alive

(* RecoverExecution does not look at the status: it may take up an execution whose
   row has left RUNNING. Several managers with old lists may do so one after the other
   from rows of different runs; a row then no longer belongs to the newest history
   entry. What documents hold is said of executions taken up late at most once.  *)
AtMostOneLate(e) == late[e] <= 1

(* Every state adds its result to its input.                                 *)
AllKeep == keeps = 1..NumStates

(* Whatever crashed, was cancelled or was recovered by several managers at the same
   time, an execution whose row says SUCCEEDED has a SUCCEEDED history row for every
   state, and its output holds the result of the last one. Where every state adds its
   result to its input, it holds the execution's input and the results of all; where
   one does not, the recovered output may lack any of them.                  *)
SucceededIsComplete ==
    \A e \in Execs : row[e].status = "SUCCEEDED" =>
        /\ \A s \in 1..NumStates : \E x \in hist[e] : x.ok /\ x.state = s
        /\ NumStates \in row[e].output
        /\ AllKeep /\ AtMostOneLate(e) => row[e].output = 0..NumStates

(* A state runs on a document with the results of the states before it. Recovery of
   a RUNNING row preserves that, though it starts from one state's output and forgets
   the execution's input; recovery of a row that has left RUNNING starts in the middle
   and preserves it only where every state adds its result to its input.      *)
InputIsComplete ==
    \A g \in Goroutines : run[g].at = "state" =>
        /\ late[run[g].exec] = 0 => 1..(run[g].state - 1) \subseteq run[g].input
        /\ AllKeep /\ AtMostOneLate(run[g].exec) =>
              0..(run[g].state - 1) \subseteq run[g].input

(* No execution stays RUNNING while a scanner that was not stopped exists:
   a crashed or cancelled one is found, and recovering it ends.              *)
OrphanResolved ==
    \A e \in Execs : (row[e].status = "RUNNING") ~>
        (row[e].status # "RUNNING" \/ alive \subseteq stopChan)

(* When the run that started the execution is gone, recovery does not run a state
   again that the history shows as SUCCEEDED.                                *)
NoReexecution ==
    \A p \in Procs : run[p].at = "state" /\ run[run[p].exec].at = "none" =>
        ~\E x \in hist[run[p].exec] : x.ok /\ x.state = run[p].state

=============================================================================
