--------------------------- MODULE RecoveryProofs ---------------------------
(***************************************************************************)
(* Proofs, for every number of executions, processes, states and failures, *)
(* of the safety properties of Recovery.                                   *)
(***************************************************************************)
EXTENDS Recovery, TLAPS

-----------------------------------------------------------------------------
(* The inductive invariant.                                                 *)

(* The states before s have a SUCCEEDED history row.                        *)
Before(e, s) == \A t \in 1..(s - 1) : \E x \in hist[e] : x.ok /\ x.state = t

(* A context that works on e has the states before its own behind it; one   *)
(* that is about to save success has them all, and the result of the last.  *)
Behind(e, c) ==
    /\ c.at # "none" => Before(e, c.state)
    /\ c.at = "save" /\ c.ok => Before(e, NumStates + 1) /\ NumStates \in c.output

(* So has the row.                                                           *)
Stored(e) ==
    /\ Before(e, row[e].state)
    /\ row[e].status = "SUCCEEDED" => Before(e, NumStates + 1) /\ NumStates \in row[e].output

(* What holds of every execution, however often it was recovered.            *)
Trail(e) ==
    /\ \A g \in Goroutines : run[g].exec = e => Behind(e, run[g])
    /\ Stored(e)

(* Where every state adds its result to its input, the output of a          *)
(* successful state holds the execution's input and the results up to it.   *)
Outputs(e) == \A x \in hist[e] : AllKeep /\ x.ok => 0..x.state \subseteq x.output

(* A state runs on the results of the states before it, and where every     *)
(* state keeps its input on the execution's input too.                      *)
Working(e, c) ==
    /\ c.at = "state" /\ late[e] = 0 => 1..(c.state - 1) \subseteq c.input
    /\ c.at = "state" /\ AllKeep => 0..(c.state - 1) \subseteq c.input
    /\ c.at = "save" /\ c.ok /\ AllKeep => c.output = 0..NumStates

Saved(e) ==
    /\ row[e].status = "SUCCEEDED" /\ AllKeep => row[e].output = 0..NumStates
    /\ row[e].status \in {"none", "RUNNING"} => row[e].state = 1 /\ row[e].seq = 0

(* The sequence number counts the states from the first one: so it does in  *)
(* every run that was begun from the row Execute inserted.                  *)
InStep(c) ==
    /\ c.at = "state" => c.seq + 1 = c.state
    /\ c.at = "save" => c.seq = c.state
    /\ c.at \in {"fetched", "fail", "pause"} => c.state = 1 /\ c.seq = 0

Numbered(e) == \A x \in hist[e] : x.seq = x.state

(* All runs are in step until a late one begins, and when that one looks at *)
(* the history, no other run has written a row out of step.                 *)
Sequence(e) ==
    /\ late[e] = 0 =>
          /\ Numbered(e)
          /\ \A g \in Goroutines : run[g].exec = e => InStep(run[g])
          /\ row[e].seq = row[e].state \/ (row[e].state = 1 /\ row[e].seq = 0)
    /\ \A p \in Goroutines :
          run[p].exec = e /\ run[p].at = "fetched" /\ run[p].state # 1 =>
              /\ Numbered(e)
              /\ \A g \in Goroutines \ {p} : run[g].exec = e => InStep(run[g])

Sound(e) ==
    /\ Outputs(e)
    /\ \A g \in Goroutines : run[g].exec = e => Working(e, run[g])
    /\ run[e].at = "new" => run[e].state = 1 /\ run[e].seq = 0 /\ run[e].input = {0}
    /\ Saved(e)
    /\ Sequence(e)

(* The inductive invariant: types, what holds of every execution, and what  *)
(* holds of those the recovery managers took up late at most once.          *)
IInv == TypeOK /\ \A e \in Execs : Trail(e) /\ (AtMostOneLate(e) => Sound(e))

-----------------------------------------------------------------------------
(* The operators on rows and contexts: what they give, field by field.      *)

USE ConstantsAssumption

LEMMA Started ==
    ASSUME NEW e \in Execs
    PROVE  /\ Idle(e) \in Contexts /\ Idle(e).at = "none" /\ Idle(e).exec = e
           /\ New(e) \in Contexts /\ New(e).at = "new" /\ New(e).exec = e
           /\ New(e).state = 1 /\ New(e).seq = 0 /\ New(e).input = {0}
<1>1. /\ Idle(e) \in Contexts /\ Idle(e).at = "none" /\ Idle(e).exec = e
      /\ Idle(e).state = 1 /\ Idle(e).seq = 0 /\ Idle(e).input = {0}
  BY DEF Idle, Contexts, Steps, Doc
<1> QED BY <1>1 DEF New, Contexts, Steps

LEMMA InsertedRow ==
    /\ NoRow \in Rows /\ NoRow.status = "none" /\ NoRow.state = 1 /\ NoRow.seq = 0
    /\ Inserted \in Rows /\ Inserted.status = "RUNNING"
    /\ Inserted.state = 1 /\ Inserted.seq = 0
<1>1. /\ NoRow \in Rows /\ NoRow.status = "none" /\ NoRow.state = 1 /\ NoRow.seq = 0
  BY DEF NoRow, Rows, Statuses, Doc
<1> QED BY <1>1 DEF Inserted, Rows, Statuses

LEMMA UpdatedRow ==
    ASSUME NEW r \in Rows, NEW c \in Contexts, NEW status \in Statuses
    PROVE  /\ UpdateRow(r, status, c) \in Rows
           /\ UpdateRow(r, status, c).status = status
           /\ UpdateRow(r, status, c).state = c.state
           /\ UpdateRow(r, status, c).seq = c.seq
           /\ UpdateRow(r, status, c).output = c.output
BY DEF UpdateRow, Rows, Contexts

LEMMA Advanced ==
    ASSUME NEW c \in Contexts, NEW out \in Doc, c.state < NumStates
    PROVE  /\ Advance(c, out) \in Contexts
           /\ Advance(c, out).at = c.at /\ Advance(c, out).exec = c.exec
           /\ Advance(c, out).state = c.state + 1 /\ Advance(c, out).seq = c.seq + 1
           /\ Advance(c, out).input = c.input \cup out
<1>1. c.state + 1 \in 1..NumStates /\ c.seq + 1 \in Nat BY DEF Contexts
<1> DEFINE st == c.state + 1
           sq == c.seq + 1
           in == c.input \cup out
<1>2. Advance(c, out) = [c EXCEPT !.seq = sq, !.state = st, !.input = in] BY DEF Advance
<1>3. sq \in Nat /\ st \in 1..NumStates /\ in \in Doc BY <1>1 DEF Contexts, Doc
<1> HIDE DEF st, sq, in
<1>4. /\ Advance(c, out) \in Contexts
      /\ Advance(c, out).at = c.at /\ Advance(c, out).exec = c.exec
      /\ Advance(c, out).state = st /\ Advance(c, out).seq = sq
      /\ Advance(c, out).input = in
  BY <1>2, <1>3 DEF Contexts
<1> QED BY <1>4 DEF st, sq, in

LEMMA Finished ==
    ASSUME NEW c \in Contexts, NEW out \in Doc, NEW ok \in BOOLEAN
    PROVE  /\ Finish(c, ok, out) \in Contexts
           /\ Finish(c, ok, out).at = "save" /\ Finish(c, ok, out).exec = c.exec
           /\ Finish(c, ok, out).state = c.state /\ Finish(c, ok, out).seq = c.seq + 1
           /\ Finish(c, ok, out).ok = ok
           /\ ok => Finish(c, ok, out).output = out
<1> DEFINE o == IF ok THEN out ELSE c.output
           sq == c.seq + 1
<1>1. o \in Doc /\ sq \in Nat BY DEF Contexts
<1>2. Finish(c, ok, out) = [c EXCEPT !.seq = sq, !.at = "save", !.ok = ok, !.output = o]
  BY DEF Finish
<1>3. ok => o = out OBVIOUS
<1> HIDE DEF o, sq
<1>4. /\ Finish(c, ok, out) \in Contexts
      /\ Finish(c, ok, out).at = "save" /\ Finish(c, ok, out).exec = c.exec
      /\ Finish(c, ok, out).state = c.state /\ Finish(c, ok, out).seq = sq
      /\ Finish(c, ok, out).ok = ok /\ Finish(c, ok, out).output = o
  BY <1>1, <1>2 DEF Contexts, Steps
<1> QED BY <1>3, <1>4 DEF sq

LEMMA FetchedContext ==
    ASSUME NEW e \in Execs, NEW r \in Rows
    PROVE  /\ Fetched(e, r) \in Contexts
           /\ Fetched(e, r).at = "fetched" /\ Fetched(e, r).exec = e
           /\ Fetched(e, r).state = r.state /\ Fetched(e, r).seq = r.seq
<1>1. Idle(e) \in Contexts /\ Idle(e).exec = e BY Started
<1> QED BY <1>1 DEF Fetched, Contexts, Rows, Steps

LEMMA StrategyApplied ==
    ASSUME NEW c \in Contexts, NEW input \in Doc
    PROVE  LET n == ApplyStrategy([c EXCEPT !.input = input])
           IN  /\ n \in Contexts /\ n.at \in {"fail", "pause", "state"}
               /\ n.exec = c.exec /\ n.state = c.state /\ n.seq = c.seq
               /\ n.input = input
<1> DEFINE d == [c EXCEPT !.input = input]
           m == MarkRecoveryAttempt(d)
           at == CASE strategy = "FAIL" -> "fail" [] strategy = "PAUSE" -> "pause"
                   [] OTHER -> "state"
           n == ApplyStrategy(d)
<1>1. /\ d \in Contexts /\ d.exec = c.exec /\ d.state = c.state
      /\ d.seq = c.seq /\ d.input = input
  BY DEF Contexts
<1> HIDE DEF d
<1>2. /\ m \in Contexts /\ m.exec = d.exec /\ m.state = d.state
      /\ m.seq = d.seq /\ m.input = d.input
  BY <1>1 DEF MarkRecoveryAttempt, Contexts
<1>3. at \in {"fail", "pause", "state"} OBVIOUS
<1>4. n = IF ~CanRecover(d) THEN [d EXCEPT !.at = "fail"] ELSE [m EXCEPT !.at = at]
  BY DEF ApplyStrategy
<1> HIDE DEF m, at, n
<1>5. /\ n \in Contexts /\ n.at \in {"fail", "pause", "state"}
      /\ n.exec = d.exec /\ n.state = d.state /\ n.seq = d.seq /\ n.input = d.input
  <2>1. CASE CanRecover(d) BY <1>2, <1>3, <1>4, <2>1 DEF Contexts, Steps
  <2>2. CASE ~CanRecover(d) BY <1>1, <1>4, <2>2 DEF Contexts, Steps
  <2> QED BY <2>1, <2>2
<1> QED BY <1>1, <1>5 DEF n, d

(* What recovery finds is a document of the history, or the first input.    *)
LEMMA RecoveryInputType ==
    ASSUME TypeOK, NEW e \in Execs, NEW input \in RecoveryInput(e)
    PROVE  input \in Doc
BY DEF RecoveryInput, LastSuccessful, TypeOK, HistoryRows, Doc

-----------------------------------------------------------------------------
(* Types.                                                                    *)

LEMMA InitType == Init => TypeOK
<1> SUFFICES ASSUME Init PROVE TypeOK
  OBVIOUS
<1>1. (CHOOSE e \in Execs : TRUE) \in Execs BY ConstantsAssumption
<1>2. run \in [Goroutines -> Contexts]
  <2>1. \A g \in Goroutines : run[g] \in Contexts BY <1>1, Started DEF Init, Goroutines
  <2> QED BY <2>1 DEF Init
<1>3. \A e \in Execs : run[e].exec = e BY Started DEF Init, Goroutines
<1>4. \A p \in Procs : run[p].at = "none" /\ found[p] = {}
  <2> TAKE p \in Procs
  <2>1. run[p] = Idle(CHOOSE e \in Execs : TRUE) BY ConstantsAssumption DEF Init, Goroutines
  <2> QED BY <1>1, <2>1, Started DEF Init
<1>5. row \in [Execs -> Rows] BY InsertedRow DEF Init
<1>6. /\ hist \in [Execs -> SUBSET HistoryRows] /\ found \in [Procs -> SUBSET Execs]
      /\ late \in [Execs -> Nat]
  BY DEF Init
<1>7. /\ strategy \in Strategies /\ keeps \subseteq 1..NumStates /\ faults \in 0..MaxFaults
      /\ old \subseteq Execs /\ alive \subseteq Procs
      /\ isRunning \subseteq Procs /\ stopChan \subseteq Procs
  BY DEF Init
<1> QED BY <1>2, <1>3, <1>4, <1>5, <1>6, <1>7 DEF TypeOK

LEMMA NextType == TypeOK /\ [Next]_vars => TypeOK'
<1> SUFFICES ASSUME TypeOK, [Next]_vars PROVE TypeOK'
  OBVIOUS
<1>i. \A e \in Execs : Idle(e) \in Contexts /\ Idle(e).exec = e /\ Idle(e).at = "none"
  BY Started
<1>k. ASSUME NEW p \in Procs, Kill(p), faults' \in 0..MaxFaults PROVE TypeOK'
  <2>1. run' \in [Goroutines -> Contexts]
    BY <1>k, <1>i DEF Kill, TypeOK, Contexts
  <2>2. \A e \in Execs : run'[e].exec = e BY <1>k, <1>i DEF Kill, TypeOK, Goroutines
  <2>3. \A q \in Procs : (found'[q] # {} \/ run'[q].at # "none") => q \in alive'
    BY <1>k, <1>i DEF Kill, TypeOK, Goroutines, Contexts
  <2> QED BY <1>k, <2>1, <2>2, <2>3 DEF Kill, TypeOK
<1>1. ASSUME NEW e \in Execs, Execute(e) PROVE TypeOK'
  <2>1. row' \in [Execs -> Rows] BY <1>1, InsertedRow DEF Execute, TypeOK
  <2>2. run' \in [Goroutines -> Contexts]
    <3>1. e \in Goroutines /\ run \in [Goroutines -> Contexts] BY DEF TypeOK, Goroutines
    <3>2. run[e] \in Contexts BY <3>1
    <3>3. [run[e] EXCEPT !.at = "state"] \in Contexts BY <3>2 DEF Contexts, Steps
    <3>4. run' = [run EXCEPT ![e] = [run[e] EXCEPT !.at = "state"]] BY <1>1 DEF Execute
    <3> QED BY <3>1, <3>3, <3>4
  <2>3. /\ \A x \in Execs : run'[x].exec = x
        /\ \A p \in Procs : run'[p].at = run[p].at
    BY <1>1 DEF Execute, TypeOK, Contexts, Goroutines
  <2> QED BY <1>1, <2>1, <2>2, <2>3 DEF Execute, TypeOK
<1>2. ASSUME NEW e \in Execs, CancelContext(e) PROVE TypeOK'
  <2>1. run' \in [Goroutines -> Contexts] BY <1>2, <1>i DEF CancelContext, TypeOK, Goroutines
  <2>2. /\ \A x \in Execs : run'[x].exec = x
        /\ \A p \in Procs : run'[p].at = run[p].at
    BY <1>2, <1>i DEF CancelContext, TypeOK, Goroutines
  <2>3. faults' \in 0..MaxFaults BY <1>2 DEF CancelContext, Fault, TypeOK
  <2> QED BY <1>2, <2>1, <2>2, <2>3 DEF CancelContext, TypeOK
<1>3. ASSUME NEW e \in Execs, Age(e) PROVE TypeOK'
  BY <1>3 DEF Age, TypeOK
<1>4. ASSUME NEW g \in Goroutines, ExecuteState(g) PROVE TypeOK'
  <2> DEFINE c == run[g]
  <2>0. c \in Contexts /\ c.exec \in Execs /\ c.at = "state" /\ c.state \in 1..NumStates
        /\ c.input \in Doc /\ c.seq \in Nat
    BY <1>4 DEF TypeOK, ExecuteState, Contexts
  <2>1. PICK ok \in BOOLEAN :
          /\ hist' = [hist EXCEPT ![c.exec] = @ \cup
                {[state |-> c.state, seq |-> c.seq + 1, output |-> StateOutput(c, ok), ok |-> ok]}]
          /\ run' = [run EXCEPT ![g] =
                IF ok /\ c.state < NumStates
                THEN Advance(c, StateOutput(c, ok)) ELSE Finish(c, ok, StateOutput(c, ok))]
    BY <1>4 DEF ExecuteState
  <2>2. StateOutput(c, ok) \in Doc BY <2>0 DEF StateOutput, Doc
  <2>3. hist' \in [Execs -> SUBSET HistoryRows]
    BY <2>0, <2>1, <2>2 DEF TypeOK, HistoryRows
  <2> DEFINE n == run'[g]
  <2>4. n \in Contexts /\ n.exec = c.exec /\ n.at # "none"
    <3>1. n = IF ok /\ c.state < NumStates
              THEN Advance(c, StateOutput(c, ok)) ELSE Finish(c, ok, StateOutput(c, ok))
      BY <2>1 DEF TypeOK
    <3>2. CASE ok /\ c.state < NumStates
      <4>1. n = Advance(c, StateOutput(c, ok)) BY <3>1, <3>2
      <4> HIDE DEF c, n
      <4> QED BY <2>0, <2>2, <3>2, <4>1, Advanced
    <3>3. CASE ~(ok /\ c.state < NumStates)
      <4>1. n = Finish(c, ok, StateOutput(c, ok)) BY <3>1, <3>3
      <4> HIDE DEF c, n
      <4> QED BY <2>0, <2>2, <4>1, Finished
    <3> QED BY <3>2, <3>3
  <2>5. run' = [run EXCEPT ![g] = n] BY <2>1 DEF TypeOK
  <2> HIDE DEF n
  <2>6. run' \in [Goroutines -> Contexts] BY <2>4, <2>5 DEF TypeOK
  <2>7. \A x \in Execs : run'[x].exec = x BY <2>0, <2>4, <2>5 DEF TypeOK, Goroutines
  <2>8. \A p \in Procs : run'[p].at # "none" => run[p].at # "none"
    BY <2>0, <2>5 DEF TypeOK, Goroutines
  <2> QED BY <1>4, <2>3, <2>6, <2>7, <2>8 DEF ExecuteState, TypeOK
<1>5. ASSUME NEW g \in Goroutines, PersistExecution(g) PROVE TypeOK'
  <2>0. run[g] \in Contexts /\ run[g].exec \in Execs BY DEF TypeOK, Contexts
  <2>1. row' \in [Execs -> Rows]
    <3>1. PICK status \in Statuses :
            row' = [row EXCEPT ![run[g].exec] = UpdateRow(row[run[g].exec], status, run[g])]
      BY <1>5 DEF PersistExecution, Statuses
    <3>2. row[run[g].exec] \in Rows BY <2>0 DEF TypeOK
    <3>3. UpdateRow(row[run[g].exec], status, run[g]) \in Rows BY <2>0, <3>2, UpdatedRow
    <3> QED BY <3>1, <3>3 DEF TypeOK
  <2>2. run' = [run EXCEPT ![g] = Idle(run[g].exec)] BY <1>5 DEF PersistExecution
  <2>3. run' \in [Goroutines -> Contexts] BY <2>0, <2>2, <1>i DEF TypeOK
  <2>4. /\ \A x \in Execs : run'[x].exec = x
        /\ \A p \in Procs : run'[p].at # "none" => run[p].at # "none"
    BY <2>0, <2>2, <1>i DEF TypeOK, Goroutines
  <2> QED BY <1>5, <2>1, <2>3, <2>4 DEF PersistExecution, TypeOK
<1>6. ASSUME NEW p \in Procs, ScanAndRecover(p) PROVE TypeOK'
  <2>1. FindOrphanedExecutions \subseteq Execs BY DEF FindOrphanedExecutions, TypeOK
  <2> QED BY <1>6, <2>1 DEF ScanAndRecover, Waiting, TypeOK
<1>7. ASSUME NEW p \in Procs, GetExecution(p) PROVE TypeOK'
  <2>1. PICK e \in found[p] :
          /\ found' = [found EXCEPT ![p] = @ \ {e}]
          /\ run' = [run EXCEPT ![p] = Fetched(e, row[e])]
          /\ late' = [late EXCEPT ![e] = IF row[e].status = "RUNNING" THEN @ ELSE @ + 1]
          /\ UNCHANGED <<row, hist, old, alive, isRunning, stopChan, strategy, keeps, faults>>
    BY <1>7 DEF GetExecution
  <2>2. e \in Execs /\ row[e] \in Rows BY <2>1 DEF TypeOK
  <2>3. Fetched(e, row[e]) \in Contexts BY <2>2, FetchedContext
  <2>4. run' \in [Goroutines -> Contexts] BY <2>1, <2>3 DEF TypeOK
  <2>5. /\ \A x \in Execs : run'[x].exec = x
        /\ p \in alive
        /\ \A q \in Procs \ {p} : run'[q] = run[q] /\ found'[q] = found[q]
    BY <2>1 DEF TypeOK, Goroutines
  <2>6. late' \in [Execs -> Nat] BY <2>1, <2>2 DEF TypeOK
  <2> QED BY <2>1, <2>2, <2>4, <2>5, <2>6 DEF TypeOK
<1>8. ASSUME NEW p \in Procs, Reconstruct(p) PROVE TypeOK'
  <2>0. run[p] \in Contexts /\ run[p].exec \in Execs /\ run[p].at = "fetched"
    BY <1>8 DEF TypeOK, Contexts, Goroutines, Reconstruct
  <2>1. PICK input \in RecoveryInput(run[p].exec) :
          run' = [run EXCEPT ![p] = ApplyStrategy([run[p] EXCEPT !.input = input])]
    BY <1>8 DEF Reconstruct, TypeOK, Goroutines
  <2>2. input \in Doc BY <2>0, RecoveryInputType
  <2>4. /\ ApplyStrategy([run[p] EXCEPT !.input = input]) \in Contexts
        /\ ApplyStrategy([run[p] EXCEPT !.input = input]).at # "none"
    BY <2>0, <2>2, StrategyApplied
  <2>5. run' \in [Goroutines -> Contexts] BY <2>1, <2>4 DEF TypeOK
  <2>6. /\ \A x \in Execs : run'[x].exec = x
        /\ p \in alive
        /\ \A q \in Procs \ {p} : run'[q] = run[q]
    BY <2>0, <2>1 DEF TypeOK, Goroutines
  <2> QED BY <1>8, <2>5, <2>6 DEF Reconstruct, TypeOK
<1>9. ASSUME NEW p \in Procs, MarkExecution(p) PROVE TypeOK'
  <2>0. run[p] \in Contexts /\ run[p].exec \in Execs BY DEF TypeOK, Contexts, Goroutines
  <2>1. row' \in [Execs -> Rows]
    <3>1. PICK status \in Statuses :
            row' = [row EXCEPT ![run[p].exec] = UpdateRow(row[run[p].exec], status, run[p])]
      BY <1>9 DEF MarkExecution, Statuses
    <3>2. row[run[p].exec] \in Rows BY <2>0 DEF TypeOK
    <3>3. UpdateRow(row[run[p].exec], status, run[p]) \in Rows BY <2>0, <3>2, UpdatedRow
    <3> QED BY <3>1, <3>3 DEF TypeOK
  <2>2. run' = [run EXCEPT ![p] = Idle(run[p].exec)] BY <1>9 DEF MarkExecution
  <2>3. run' \in [Goroutines -> Contexts] BY <2>0, <2>2, <1>i DEF TypeOK
  <2>4. /\ \A x \in Execs : run'[x].exec = x
        /\ \A q \in Procs : run'[q].at # "none" => run[q].at # "none"
    BY <2>0, <2>2, <1>i DEF TypeOK, Goroutines
  <2> QED BY <1>9, <2>1, <2>3, <2>4 DEF MarkExecution, TypeOK
<1>10. ASSUME NEW p \in Procs, ExitScanner(p) PROVE TypeOK'
  BY <1>10 DEF ExitScanner, Waiting, TypeOK
<1>11. ASSUME NEW p \in Procs, StartBackgroundScanner(p) PROVE TypeOK'
  BY <1>11 DEF StartBackgroundScanner, TypeOK
<1>12. ASSUME NEW p \in Procs, StopBackgroundScanner(p) PROVE TypeOK'
  <2>1. faults' \in 0..MaxFaults BY <1>12 DEF StopBackgroundScanner, Fault, TypeOK
  <2>2. CASE p \in stopChan BY <1>12, <1>k, <2>1, <2>2 DEF StopBackgroundScanner
  <2>3. CASE p \notin stopChan
    <3>1. /\ stopChan' = stopChan \cup {p} /\ isRunning' = isRunning \ {p}
          /\ UNCHANGED <<row, hist, old, run, found, alive, strategy, keeps, late>>
      BY <1>12, <2>3 DEF StopBackgroundScanner
    <3>2. stopChan' \subseteq Procs /\ isRunning' \subseteq Procs BY <3>1 DEF TypeOK
    <3> QED BY <2>1, <3>1, <3>2 DEF TypeOK
  <2> QED BY <2>2, <2>3
<1>13. ASSUME NEW p \in Procs, Crash(p) PROVE TypeOK'
  BY <1>13, <1>k DEF Crash, Fault, TypeOK
<1>14. CASE UNCHANGED vars BY <1>14 DEF vars, TypeOK
<1> QED
  BY <1>1, <1>2, <1>3, <1>4, <1>5, <1>6, <1>7, <1>8, <1>9, <1>10, <1>11, <1>12, <1>13, <1>14
  DEF Next, RunStep, ScanStep

-----------------------------------------------------------------------------
(* Steps that leave the execution alone, or only drop contexts of it.       *)

LEMMA SoundKept ==
    ASSUME NEW e \in Execs, Sound(e),
           hist'[e] = hist[e], row'[e] = row[e], late'[e] = late[e], keeps' = keeps,
           \A g \in Goroutines :
              run'[g].exec = e => run'[g] = run[g] \/ run'[g].at = "none",
           run'[e].at = "new" => run'[e] = run[e]
    PROVE  Sound(e)'
<1>0. AllKeep' <=> AllKeep BY DEF AllKeep
<1>1. Outputs(e)' BY <1>0 DEF Sound, Outputs
<1>2. ASSUME NEW g \in Goroutines, run'[g].exec = e PROVE Working(e, run[g])'
  <2>1. CASE run'[g] = run[g] BY <1>0, <1>2, <2>1 DEF Sound, Working
  <2>2. CASE run'[g].at = "none" BY <2>2 DEF Working
  <2> QED BY <1>2, <2>1, <2>2
<1>3. (run[e].at = "new" => run[e].state = 1 /\ run[e].seq = 0 /\ run[e].input = {0})' BY DEF Sound
<1>4. Saved(e)' BY <1>0 DEF Sound, Saved
<1>5. Sequence(e)'
  <2>1. ASSUME NEW g \in Goroutines, run'[g].exec = e, run'[g].at # "none"
        PROVE  run'[g] = run[g]
    BY <2>1
  <2>2. ASSUME NEW g \in Goroutines, run'[g].at = "none" PROVE InStep(run[g])'
    BY <2>2 DEF InStep
  <2>3. ASSUME NEW g \in Goroutines, run'[g] = run[g], InStep(run[g]) PROVE InStep(run[g])'
    BY <2>3 DEF InStep
  <2>4. ASSUME late'[e] = 0
        PROVE  /\ Numbered(e)'
               /\ \A g \in Goroutines : run'[g].exec = e => InStep(run[g])'
               /\ row'[e].seq = row'[e].state \/ (row'[e].state = 1 /\ row'[e].seq = 0)
    <3>1. Numbered(e)' BY <2>4 DEF Sound, Sequence, Numbered
    <3>2. ASSUME NEW g \in Goroutines, run'[g].exec = e PROVE InStep(run[g])'
      BY <2>1, <2>2, <2>3, <2>4, <3>2 DEF Sound, Sequence
    <3> QED BY <2>4, <3>1, <3>2 DEF Sound, Sequence
  <2>5. ASSUME NEW p \in Goroutines, run'[p].exec = e, run'[p].at = "fetched", run'[p].state # 1
        PROVE  /\ Numbered(e)'
               /\ \A g \in Goroutines \ {p} : run'[g].exec = e => InStep(run[g])'
    <3>1. run'[p] = run[p] BY <2>1, <2>5
    <3>2. Numbered(e) /\ \A g \in Goroutines \ {p} : run[g].exec = e => InStep(run[g])
      BY <2>5, <3>1 DEF Sound, Sequence
    <3>3. Numbered(e)' BY <3>2 DEF Numbered
    <3>4. ASSUME NEW g \in Goroutines \ {p}, run'[g].exec = e PROVE InStep(run[g])'
      BY <2>1, <2>2, <2>3, <3>2, <3>4
    <3> QED BY <3>3, <3>4
  <2> QED BY <2>4, <2>5 DEF Sequence
<1> QED BY <1>1, <1>2, <1>3, <1>4, <1>5 DEF Sound

(* The context of another goroutine, and a row that is not written.         *)
LEMMA WorkingKept ==
    ASSUME NEW e \in Execs, late'[e] = 0 => late[e] = 0, keeps' = keeps
    PROVE  /\ Saved(e) /\ row'[e] = row[e] => Saved(e)'
           /\ \A g \in Goroutines : run'[g] = run[g] /\ Working(e, run[g]) => Working(e, run[g])'
BY DEF Saved, Working, AllKeep

(* A step of one goroutine on e, as long as what it writes is in step when  *)
(* its context is.                                                          *)
LEMMA SequenceKept ==
    ASSUME NEW e \in Execs, NEW g \in Goroutines, Sequence(e), run[g].exec = e,
           \A h \in Goroutines \ {g} : run'[h] = run[h],
           late'[e] = late[e], run'[g].at # "fetched",
           InStep(run[g]) => InStep(run[g])',
           InStep(run[g]) /\ Numbered(e) => Numbered(e)',
           InStep(run[g]) /\ late[e] = 0 =>
              row'[e].seq = row'[e].state \/ (row'[e].state = 1 /\ row'[e].seq = 0)
    PROVE  Sequence(e)'
<1>1. ASSUME NEW h \in Goroutines \ {g}, InStep(run[h]) PROVE InStep(run[h])'
  BY <1>1 DEF InStep
<1>2. ASSUME late'[e] = 0
      PROVE  /\ Numbered(e)'
             /\ \A h \in Goroutines : run'[h].exec = e => InStep(run[h])'
             /\ row'[e].seq = row'[e].state \/ (row'[e].state = 1 /\ row'[e].seq = 0)
  <2>1. Numbered(e) /\ \A h \in Goroutines : run[h].exec = e => InStep(run[h])
    BY <1>2 DEF Sequence
  <2>2. ASSUME NEW h \in Goroutines, run'[h].exec = e PROVE InStep(run[h])'
    BY <1>1, <2>1, <2>2
  <2> QED BY <1>2, <2>1, <2>2
<1>3. ASSUME NEW p \in Goroutines, run'[p].exec = e, run'[p].at = "fetched", run'[p].state # 1
      PROVE  /\ Numbered(e)'
             /\ \A h \in Goroutines \ {p} : run'[h].exec = e => InStep(run[h])'
  <2>1. p # g /\ run'[p] = run[p] BY <1>3
  <2>2. Numbered(e) /\ \A h \in Goroutines \ {p} : run[h].exec = e => InStep(run[h])
    BY <1>3, <2>1 DEF Sequence
  <2>3. ASSUME NEW h \in Goroutines \ {p}, run'[h].exec = e PROVE InStep(run[h])'
    BY <1>1, <2>1, <2>2, <2>3
  <2> QED BY <2>1, <2>2, <2>3
<1> QED BY <1>2, <1>3 DEF Sequence

-----------------------------------------------------------------------------
(* The steps on the execution itself.                                       *)

LEMMA ExecuteStep ==
    ASSUME TypeOK, NEW e \in Execs, Execute(e), Sound(e)
    PROVE  Sound(e)'
<1> DEFINE n == run'[e]
<1>1. /\ e \in Goroutines /\ run[e] \in Contexts /\ run[e].at = "new" /\ run[e].exec = e
      /\ run[e].state = 1 /\ run[e].seq = 0 /\ run[e].input = {0}
  BY DEF TypeOK, Goroutines, Execute, Sound
<1>2. n.at = "state" /\ n.exec = e /\ n.state = 1 /\ n.seq = 0 /\ n.input = {0}
  <2>1. n = [run[e] EXCEPT !.at = "state"] BY <1>1 DEF Execute, TypeOK
  <2> QED BY <1>1, <2>1 DEF Contexts
<1>3. \A h \in Goroutines \ {e} : run'[h] = run[h] BY <1>1 DEF Execute, TypeOK
<1>4. hist' = hist /\ late' = late /\ keeps' = keeps BY DEF Execute
<1>5. row'[e] = Inserted BY DEF Execute, TypeOK
<1> HIDE DEF n
<1>6. Outputs(e)' BY <1>4 DEF Sound, Outputs, AllKeep
<1>7. ASSUME NEW h \in Goroutines, run'[h].exec = e PROVE Working(e, run[h])'
  <2>1. CASE h = e BY <1>2, <2>1 DEF Working, n
  <2>2. CASE h # e BY <1>3, <1>4, <1>7, <2>2, WorkingKept DEF Sound
  <2> QED BY <2>1, <2>2
<1>8. Saved(e)' BY <1>5, InsertedRow DEF Saved
<1>9. Sequence(e)'
  <2>1. InStep(run[e])' BY <1>2 DEF InStep, n
  <2>2. Numbered(e) => Numbered(e)' BY <1>4 DEF Numbered
  <2>3. row'[e].state = 1 /\ row'[e].seq = 0 BY <1>5, InsertedRow
  <2>4. run'[e].at # "fetched" BY <1>2 DEF n
  <2> QED BY <1>1, <1>3, <1>4, <2>1, <2>2, <2>3, <2>4, SequenceKept DEF Sound
<1>10. run'[e].at # "new" BY <1>2 DEF n
<1> QED BY <1>6, <1>7, <1>8, <1>9, <1>10 DEF Sound

LEMMA ExecuteStateStep ==
    ASSUME TypeOK, NEW g \in Goroutines, ExecuteState(g), Sound(run[g].exec)
    PROVE  \A e \in Execs : e = run[g].exec => Sound(e)'
<1> SUFFICES ASSUME NEW e \in Execs, e = run[g].exec PROVE Sound(e)'
  OBVIOUS
<1> DEFINE c == run[g]
           n == run'[g]
<1>1. /\ c \in Contexts /\ c.exec = e /\ c.at = "state" /\ c.state \in 1..NumStates
      /\ c.input \in Doc /\ c.seq \in Nat
  BY DEF TypeOK, ExecuteState, Contexts
<1>2. PICK ok \in BOOLEAN :
        /\ hist' = [hist EXCEPT ![c.exec] = @ \cup
              {[state |-> c.state, seq |-> c.seq + 1, output |-> StateOutput(c, ok), ok |-> ok]}]
        /\ run' = [run EXCEPT ![g] =
              IF ok /\ c.state < NumStates
              THEN Advance(c, StateOutput(c, ok)) ELSE Finish(c, ok, StateOutput(c, ok))]
  BY DEF ExecuteState
<1> DEFINE out == StateOutput(c, ok)
           x == [state |-> c.state, seq |-> c.seq + 1, output |-> out, ok |-> ok]
<1>3. out \in Doc BY <1>1 DEF StateOutput, Doc
<1>4. hist'[e] = hist[e] \cup {x} BY <1>1, <1>2 DEF TypeOK
<1>5. x.state = c.state /\ x.seq = c.seq + 1 /\ x.output = out /\ x.ok = ok OBVIOUS
<1>6. n = IF ok /\ c.state < NumStates THEN Advance(c, out) ELSE Finish(c, ok, out)
  BY <1>2 DEF TypeOK
<1>7. \A h \in Goroutines \ {g} : run'[h] = run[h] BY <1>2 DEF TypeOK
<1>8. row' = row /\ late' = late /\ keeps' = keeps BY DEF ExecuteState
<1>9. Working(e, c) BY <1>1 DEF Sound
<1>10. /\ ok => c.state \in out
       /\ ok /\ AllKeep => 0..c.state \subseteq out
  BY <1>1, <1>9 DEF Working, StateOutput, AllKeep
<1> HIDE DEF c, n, x, out
<1>11. /\ n.exec = e /\ n.seq = c.seq + 1 /\ n.at \in {"state", "save"}
       /\ n.at = "state" => ok /\ n.state = c.state + 1 /\ n.input = c.input \cup out
       /\ n.at = "save" => n.state = c.state /\ n.ok = ok
       /\ n.at = "save" /\ ok => c.state = NumStates /\ n.output = out
  <2>1. CASE ok /\ c.state < NumStates
    <3>1. n = Advance(c, out) BY <1>6, <2>1
    <3>2. /\ n.exec = c.exec /\ n.seq = c.seq + 1 /\ n.at = c.at
          /\ n.state = c.state + 1 /\ n.input = c.input \cup out
      BY <1>1, <1>3, <2>1, <3>1, Advanced
    <3> QED BY <1>1, <2>1, <3>2
  <2>2. CASE ~(ok /\ c.state < NumStates)
    <3>1. n = Finish(c, ok, out) BY <1>6, <2>2
    <3>2. ok => c.state = NumStates BY <1>1, <2>2
    <3>3. /\ n.exec = c.exec /\ n.seq = c.seq + 1 /\ n.at = "save" /\ n.state = c.state
          /\ n.ok = ok /\ (ok => n.output = out)
      BY <1>1, <1>3, <3>1, Finished
    <3> QED BY <1>1, <3>2, <3>3
  <2> QED BY <2>1, <2>2
<1>12. AllKeep' <=> AllKeep BY <1>8 DEF AllKeep
<1>13. Outputs(e)' BY <1>1, <1>4, <1>5, <1>10, <1>12 DEF Sound, Outputs
<1>14. PICK s \in 1..NumStates : s = c.state BY <1>1
<1>15. Working(e, run[g])'
  <2>1. ASSUME n.at = "state", late'[e] = 0 PROVE 1..(n.state - 1) \subseteq n.input
    <3>1. 1..(s - 1) \subseteq c.input BY <1>1, <1>8, <1>9, <1>14, <2>1 DEF Working
    <3>2. s \in out /\ n.state = s + 1 /\ n.input = c.input \cup out
      BY <1>10, <1>11, <1>14, <2>1
    <3>3. \A t \in 1..s : t = s \/ t \in 1..(s - 1) OBVIOUS
    <3>4. n.state - 1 = s BY <3>2
    <3> QED BY <3>1, <3>2, <3>3, <3>4
  <2>2. ASSUME n.at = "state", AllKeep PROVE 0..(n.state - 1) \subseteq n.input
    <3>1. 0..s \subseteq out /\ n.state = s + 1 /\ n.input = c.input \cup out
      BY <1>10, <1>11, <1>14, <2>2
    <3>2. n.state - 1 = s BY <3>1
    <3> QED BY <3>1, <3>2
  <2>3. ASSUME n.at = "save", n.ok, AllKeep PROVE n.output = 0..NumStates
    <3>1. ok /\ s = NumStates /\ n.output = out BY <1>11, <1>14, <2>3
    <3> QED BY <1>3, <1>10, <1>14, <2>3, <3>1 DEF Doc
  <2> QED BY <1>12, <2>1, <2>2, <2>3 DEF Working, n
<1>16. ASSUME NEW h \in Goroutines, run'[h].exec = e PROVE Working(e, run[h])'
  <2>1. CASE h = g BY <1>15, <2>1
  <2>2. CASE h # g BY <1>7, <1>8, <1>16, <2>2, WorkingKept DEF Sound
  <2> QED BY <2>1, <2>2
<1>17. Saved(e)' BY <1>8, WorkingKept DEF Sound
<1>18. Sequence(e)'
  <2>1. InStep(run[g]) => c.seq + 1 = c.state BY <1>1 DEF InStep, c
  <2>2. InStep(run[g]) => InStep(run[g])' BY <1>1, <1>11, <2>1 DEF InStep, n
  <2>3. InStep(run[g]) /\ Numbered(e) => Numbered(e)' BY <1>4, <1>5, <2>1 DEF Numbered
  <2>4. run'[g].at # "fetched" BY <1>11 DEF n
  <2>5. late[e] = 0 => row'[e].seq = row'[e].state \/ (row'[e].state = 1 /\ row'[e].seq = 0)
    BY <1>8 DEF Sound, Sequence
  <2> QED BY <1>7, <1>8, <2>2, <2>3, <2>4, <2>5, SequenceKept DEF Sound
<1>19. (run[e].at = "new" => run[e].state = 1 /\ run[e].seq = 0 /\ run[e].input = {0})'
  <2>0. e \in Goroutines BY DEF Goroutines
  <2>1. CASE e = g BY <1>11, <2>1 DEF n
  <2>2. CASE e # g BY <1>7, <2>0, <2>2 DEF Sound
  <2> QED BY <2>1, <2>2
<1> QED BY <1>13, <1>16, <1>17, <1>18, <1>19 DEF Sound

(* A goroutine that saves the row and is done: PersistExecution and         *)
(* MarkExecution.                                                           *)
LEMMA SaveStep ==
    ASSUME TypeOK, NEW g \in Goroutines, NEW status \in {"SUCCEEDED", "FAILED", "PAUSED"},
           run[g].at \in {"save", "fail", "pause"},
           status = "SUCCEEDED" => run[g].at = "save" /\ run[g].ok,
           row' = [row EXCEPT ![run[g].exec] = UpdateRow(@, status, run[g])],
           run' = [run EXCEPT ![g] = Idle(run[g].exec)],
           hist' = hist, late' = late, keeps' = keeps, Sound(run[g].exec)
    PROVE  \A e \in Execs : e = run[g].exec => Sound(e)'
<1> SUFFICES ASSUME NEW e \in Execs, e = run[g].exec PROVE Sound(e)'
  OBVIOUS
<1>1. run[g] \in Contexts /\ row[e] \in Rows BY DEF TypeOK
<1>2. run'[g].at = "none" /\ run'[g].exec = e BY Started DEF TypeOK
<1>3. \A h \in Goroutines \ {g} : run'[h] = run[h] BY DEF TypeOK
<1>4. /\ row'[e].status = status /\ row'[e].state = run[g].state
      /\ row'[e].seq = run[g].seq /\ row'[e].output = run[g].output
  <2>1. row'[e] = UpdateRow(row[e], status, run[g]) BY DEF TypeOK
  <2>2. status \in Statuses BY DEF Statuses
  <2> QED BY <1>1, <2>1, <2>2, UpdatedRow
<1>5. Working(e, run[g]) BY DEF Sound
<1>6. Outputs(e)' BY DEF Sound, Outputs, AllKeep
<1>7. ASSUME NEW h \in Goroutines, run'[h].exec = e PROVE Working(e, run[h])'
  <2>1. CASE h = g BY <1>2, <2>1 DEF Working
  <2>2. CASE h # g BY <1>3, <1>7, <2>2, WorkingKept DEF Sound
  <2> QED BY <2>1, <2>2
<1>8. Saved(e)' BY <1>4, <1>5 DEF Saved, Working, AllKeep
<1>9. Sequence(e)'
  <2>1. InStep(run[g]) => run[g].seq = run[g].state \/ (run[g].state = 1 /\ run[g].seq = 0)
    BY DEF InStep
  <2>2. InStep(run[g])' BY <1>2 DEF InStep
  <2>3. Numbered(e) => Numbered(e)' BY DEF Numbered
  <2>4. run'[g].at # "fetched" BY <1>2
  <2> QED BY <1>3, <1>4, <2>1, <2>2, <2>3, <2>4, SequenceKept, ZenonT(60) DEF Sound
<1>10. (run[e].at = "new" => run[e].state = 1 /\ run[e].seq = 0 /\ run[e].input = {0})'
  <2>0. e \in Goroutines BY DEF Goroutines
  <2>1. CASE e = g BY <1>2, <2>1
  <2>2. CASE e # g BY <1>3, <2>0, <2>2 DEF Sound
  <2> QED BY <2>1, <2>2
<1> QED BY <1>6, <1>7, <1>8, <1>9, <1>10 DEF Sound

(* Recovery reads the row. A row that is past its first state is no longer  *)
(* RUNNING, so this is the one late recovery.                               *)
LEMMA GetExecutionStep ==
    ASSUME TypeOK, NEW p \in Procs, NEW e \in Execs, Sound(e), AtMostOneLate(e)',
           run' = [run EXCEPT ![p] = Fetched(e, row[e])],
           late' = [late EXCEPT ![e] = IF row[e].status = "RUNNING" THEN @ ELSE @ + 1],
           hist' = hist, row' = row, keeps' = keeps
    PROVE  Sound(e)'
<1> DEFINE n == run'[p]
<1>1. p \in Goroutines /\ e \in Goroutines /\ p # e /\ row[e] \in Rows /\ late[e] \in Nat
  BY DEF Goroutines, TypeOK
<1>2. n.at = "fetched" /\ n.exec = e /\ n.state = row[e].state /\ n.seq = row[e].seq
  BY <1>1, FetchedContext DEF TypeOK
<1>3. \A h \in Goroutines \ {p} : run'[h] = run[h] BY DEF TypeOK
<1> HIDE DEF n
<1>4. /\ row[e].status = "RUNNING" => n.state = 1 /\ n.seq = 0
      /\ row[e].status # "RUNNING" => late[e] = 0 /\ late'[e] = 1
      /\ late'[e] = 0 => late[e] = 0 /\ row[e].status = "RUNNING"
  <2>1. late'[e] = IF row[e].status = "RUNNING" THEN late[e] ELSE late[e] + 1 BY DEF TypeOK
  <2>2. late'[e] <= 1 BY DEF AtMostOneLate
  <2> QED BY <1>1, <1>2, <2>1, <2>2 DEF Sound, Saved
<1>5. Outputs(e)' BY DEF Sound, Outputs, AllKeep
<1>6. ASSUME NEW h \in Goroutines, run'[h].exec = e PROVE Working(e, run[h])'
  <2>1. CASE h = p BY <1>2, <2>1 DEF Working, n
  <2>2. CASE h # p BY <1>3, <1>4, <1>6, <2>2, WorkingKept DEF Sound
  <2> QED BY <2>1, <2>2
<1>7. Saved(e)' BY <1>4, WorkingKept DEF Sound
<1>8. (run[e].at = "new" => run[e].state = 1 /\ run[e].seq = 0 /\ run[e].input = {0})' BY <1>1, <1>3 DEF Sound
<1>9. Sequence(e)'
  <2>1. ASSUME NEW h \in Goroutines \ {p}, InStep(run[h]) PROVE InStep(run[h])'
    BY <1>3, <2>1 DEF InStep
  <2>2. Numbered(e) => Numbered(e)' BY DEF Numbered
  <2>3. row[e].status = "RUNNING" => InStep(run[p])' BY <1>2, <1>4 DEF InStep, n
  <2>4. ASSUME late'[e] = 0
        PROVE  /\ Numbered(e)'
               /\ \A h \in Goroutines : run'[h].exec = e => InStep(run[h])'
               /\ row'[e].seq = row'[e].state \/ (row'[e].state = 1 /\ row'[e].seq = 0)
    <3>1. late[e] = 0 /\ row[e].status = "RUNNING" BY <1>4, <2>4
    <3>2. /\ Numbered(e) /\ \A h \in Goroutines : run[h].exec = e => InStep(run[h])
          /\ row[e].seq = row[e].state \/ (row[e].state = 1 /\ row[e].seq = 0)
      BY <3>1 DEF Sound, Sequence
    <3>3. ASSUME NEW h \in Goroutines, run'[h].exec = e PROVE InStep(run[h])'
      BY <1>3, <2>1, <2>3, <3>1, <3>2, <3>3
    <3> QED BY <2>2, <3>2, <3>3
  <2>5. ASSUME NEW q \in Goroutines, run'[q].exec = e, run'[q].at = "fetched", run'[q].state # 1
        PROVE  /\ Numbered(e)'
               /\ \A h \in Goroutines \ {q} : run'[h].exec = e => InStep(run[h])'
    <3>1. CASE q = p
      <4>1. late[e] = 0 BY <1>4, <2>5, <3>1 DEF n
      <4>2. Numbered(e) /\ \A h \in Goroutines : run[h].exec = e => InStep(run[h])
        BY <4>1 DEF Sound, Sequence
      <4>3. ASSUME NEW h \in Goroutines \ {q}, run'[h].exec = e PROVE InStep(run[h])'
        BY <1>3, <2>1, <3>1, <4>2, <4>3
      <4> QED BY <2>2, <4>2, <4>3
    <3>2. CASE q # p
      <4>1. run'[q] = run[q] BY <1>3, <3>2
      <4>2. Numbered(e) /\ \A h \in Goroutines \ {q} : run[h].exec = e => InStep(run[h])
        BY <2>5, <4>1 DEF Sound, Sequence
      <4>3. row[e].status = "RUNNING"
        <5>1. late[e] = 0 => run[q].state = 1 BY <2>5, <4>1 DEF Sound, Sequence, InStep
        <5> QED BY <1>4, <2>5, <4>1, <5>1
      <4>4. ASSUME NEW h \in Goroutines \ {q}, run'[h].exec = e PROVE InStep(run[h])'
        BY <1>3, <2>1, <2>3, <4>2, <4>3, <4>4
      <4> QED BY <2>2, <4>2, <4>4
    <3> QED BY <3>1, <3>2
  <2> QED BY <2>4, <2>5 DEF Sequence
<1> QED BY <1>5, <1>6, <1>7, <1>8, <1>9 DEF Sound

(* The newest successful history row belongs to a state not before the one  *)
(* at which the fetched row stands; where every state keeps its input, it   *)
(* holds all that the state needs. A row that is not late stands at state 1. *)
LEMMA RecoveryInputComplete ==
    ASSUME TypeOK, NEW p \in Goroutines, run[p].at = "fetched", Sound(run[p].exec),
           Trail(run[p].exec), NEW input \in RecoveryInput(run[p].exec)
    PROVE  /\ late[run[p].exec] = 0 => run[p].state = 1
           /\ AllKeep => 0..(run[p].state - 1) \subseteq input
<1> DEFINE e == run[p].exec
           s == run[p].state
<1>0. late[e] = 0 => s = 1 BY DEF Sound, Sequence, InStep
<1>1. e \in Execs /\ s \in 1..NumStates /\ hist[e] \subseteq HistoryRows
  BY DEF TypeOK, Contexts
<1>2. ASSUME NEW y \in hist[e], y.ok, AllKeep PROVE 0..y.state \subseteq y.output
  BY <1>2 DEF Sound, Outputs
<1>3. ASSUME s = 1, AllKeep PROVE 0..(s - 1) \subseteq input
  <2>1. 0..(s - 1) = {0} BY <1>3
  <2>2. CASE \E x \in hist[e] : x.ok
    <3>1. PICK y \in LastSuccessful(hist[e]) : input = y.output BY <2>2 DEF RecoveryInput
    <3>2. y \in hist[e] /\ y.ok /\ y.state \in 1..NumStates
      BY <1>1, <3>1 DEF LastSuccessful, HistoryRows
    <3>3. 0 \in 0..y.state BY <3>2
    <3> QED BY <1>2, <1>3, <2>1, <3>1, <3>2, <3>3
  <2>3. CASE ~\E x \in hist[e] : x.ok BY <2>1, <2>3 DEF RecoveryInput
  <2> QED BY <2>2, <2>3
<1>4. ASSUME s # 1, AllKeep PROVE 0..(s - 1) \subseteq input
  <2>1. s - 1 \in 1..(s - 1) /\ s - 1 \in Int BY <1>1, <1>4
  <2>2. Numbered(e) BY <1>4 DEF Sound, Sequence
  <2>3. Before(e, s) BY DEF Trail, Behind
  <2>4. PICK x \in hist[e] : x.ok /\ x.state = s - 1 BY <2>1, <2>3 DEF Before
  <2>5. PICK y \in LastSuccessful(hist[e]) : input = y.output BY <2>4 DEF RecoveryInput
  <2>6. y \in hist[e] /\ y.ok /\ x.seq <= y.seq BY <2>4, <2>5 DEF LastSuccessful
  <2>7. x.seq = s - 1 /\ y.seq = y.state BY <2>2, <2>4, <2>6 DEF Numbered
  <2>8. y.state \in 1..NumStates BY <1>1, <2>6 DEF HistoryRows
  <2>9. 0..y.state \subseteq input BY <1>2, <1>4, <2>5, <2>6
  <2> HIDE DEF e, s
  <2>10. 0..(s - 1) \subseteq 0..y.state BY <1>1, <2>6, <2>7, <2>8
  <2> QED BY <2>9, <2>10
<1> QED BY <1>0, <1>3, <1>4

LEMMA ReconstructStep ==
    ASSUME TypeOK, NEW p \in Procs, Reconstruct(p), Sound(run[p].exec), Trail(run[p].exec)
    PROVE  \A e \in Execs : e = run[p].exec => Sound(e)'
<1> SUFFICES ASSUME NEW e \in Execs, e = run[p].exec PROVE Sound(e)'
  OBVIOUS
<1> DEFINE n == run'[p]
<1>1. /\ p \in Goroutines /\ e \in Goroutines /\ p # e
      /\ run[p] \in Contexts /\ run[p].at = "fetched" /\ run[p].state \in 1..NumStates
  BY DEF TypeOK, Goroutines, Reconstruct, Contexts
<1>2. PICK input \in RecoveryInput(e) :
        run' = [run EXCEPT ![p] = ApplyStrategy([run[p] EXCEPT !.input = input])]
  BY <1>1 DEF Reconstruct, TypeOK
<1>3. input \in Doc BY RecoveryInputType
<1>4. /\ n.at \in {"fail", "pause", "state"} /\ n.exec = e
      /\ n.state = run[p].state /\ n.seq = run[p].seq /\ n.input = input
  <2>1. n = ApplyStrategy([run[p] EXCEPT !.input = input]) BY <1>1, <1>2 DEF TypeOK
  <2> QED BY <1>1, <1>3, <2>1, StrategyApplied
<1>5. \A h \in Goroutines \ {p} : run'[h] = run[h] BY <1>2 DEF TypeOK
<1>6. hist' = hist /\ row' = row /\ late' = late /\ keeps' = keeps BY DEF Reconstruct
<1> HIDE DEF n
<1>7. Outputs(e)' BY <1>6 DEF Sound, Outputs, AllKeep
<1>8. ASSUME NEW h \in Goroutines, run'[h].exec = e PROVE Working(e, run[h])'
  <2>1. CASE h = p
    <3>1. /\ late[e] = 0 => n.state = 1
          /\ AllKeep => 0..(n.state - 1) \subseteq n.input
      BY <1>1, <1>4, RecoveryInputComplete
    <3>2. n.state = 1 => 1..(n.state - 1) = {} OBVIOUS
    <3> QED BY <1>4, <1>6, <2>1, <3>1, <3>2 DEF Working, AllKeep, n
  <2>2. CASE h # p BY <1>5, <1>6, <1>8, <2>2, WorkingKept DEF Sound
  <2> QED BY <2>1, <2>2
<1>9. Saved(e)' BY <1>6, WorkingKept DEF Sound
<1>10. Sequence(e)'
  <2>1. InStep(run[p]) => InStep(run[p])' BY <1>1, <1>4 DEF InStep, n
  <2>2. Numbered(e) => Numbered(e)' BY <1>6 DEF Numbered
  <2>3. run'[p].at # "fetched" BY <1>4 DEF n
  <2>4. late[e] = 0 => row'[e].seq = row'[e].state \/ (row'[e].state = 1 /\ row'[e].seq = 0)
    BY <1>6 DEF Sound, Sequence
  <2> QED BY <1>1, <1>5, <1>6, <2>1, <2>2, <2>3, <2>4, SequenceKept DEF Sound
<1>11. (run[e].at = "new" => run[e].state = 1 /\ run[e].seq = 0 /\ run[e].input = {0})' BY <1>1, <1>5 DEF Sound
<1> QED BY <1>7, <1>8, <1>9, <1>10, <1>11 DEF Sound

-----------------------------------------------------------------------------
(* The invariant.                                                           *)

LEMMA InitSound == Init => \A e \in Execs : Sound(e)
<1> SUFFICES ASSUME Init, NEW e \in Execs PROVE Sound(e)
  OBVIOUS
<1>1. hist[e] = {} /\ row[e] = NoRow BY DEF Init
<1>2. ASSUME NEW g \in Goroutines PROVE run[g].at \in {"none", "new"}
  <2>1. (CHOOSE x \in Execs : TRUE) \in Execs OBVIOUS
  <2> QED BY <2>1, Started DEF Init
<1>3. run[e].state = 1 /\ run[e].seq = 0 /\ run[e].input = {0}
  BY Started DEF Init, Goroutines
<1>4. Outputs(e) BY <1>1 DEF Outputs
<1>5. \A g \in Goroutines : Working(e, run[g]) /\ InStep(run[g])
  BY <1>2 DEF Working, InStep
<1>6. Saved(e) BY <1>1, InsertedRow DEF Saved
<1>7. Sequence(e) BY <1>1, <1>2, <1>5, InsertedRow DEF Sequence, Numbered
<1> QED BY <1>3, <1>4, <1>5, <1>6, <1>7 DEF Sound

(* Each step keeps the invariant of an execution.                           *)
LEMMA NextSound ==
    ASSUME IInv, [Next]_vars, NEW e \in Execs, AtMostOneLate(e)'
    PROVE  Sound(e)'
<1> USE DEF IInv
<1>1. e \in Goroutines BY DEF Goroutines
<1>2. ASSUME late'[e] = late[e] PROVE Sound(e) BY <1>2 DEF AtMostOneLate
<1>3. ASSUME hist' = hist, row' = row, late' = late, run' = run, keeps' = keeps PROVE Sound(e)'
  BY <1>2, <1>3, SoundKept
<1>k. ASSUME NEW p \in Procs, Kill(p) PROVE Sound(e)'
  <2>1. hist' = hist /\ row' = row /\ late' = late /\ keeps' = keeps BY <1>k DEF Kill
  <2>2. ASSUME NEW g \in Goroutines, run'[g] # run[g] PROVE run'[g].at = "none"
    <3>1. run[g].exec \in Execs BY DEF TypeOK, Contexts
    <3> QED BY <1>k, <2>2, <3>1, Started DEF Kill
  <2> QED BY <1>1, <1>2, <2>1, <2>2, SoundKept
<1>4. ASSUME NEW x \in Execs, Execute(x) PROVE Sound(e)'
  <2>1. hist' = hist /\ late' = late /\ keeps' = keeps BY <1>4 DEF Execute
  <2>2. CASE x = e BY <1>2, <1>4, <2>1, <2>2, ExecuteStep
  <2>3. CASE x # e
    <3>1. row'[e] = row[e] BY <1>4, <2>3 DEF Execute, TypeOK
    <3>2. \A g \in Goroutines \ {x} : run'[g] = run[g] BY <1>4 DEF Execute, TypeOK
    <3>3. run'[x].exec = x BY <1>4 DEF Execute, TypeOK, Goroutines, Contexts
    <3> QED BY <1>1, <1>2, <2>1, <2>3, <3>1, <3>2, <3>3, SoundKept
  <2> QED BY <2>2, <2>3
<1>5. ASSUME NEW x \in Execs, CancelContext(x) PROVE Sound(e)'
  <2>1. hist' = hist /\ row' = row /\ late' = late /\ keeps' = keeps BY <1>5 DEF CancelContext
  <2>2. x \in Goroutines /\ \A g \in Goroutines \ {x} : run'[g] = run[g]
    BY <1>5 DEF CancelContext, TypeOK, Goroutines
  <2>3. run'[x].at = "none" BY <1>5, <2>2, Started DEF CancelContext, TypeOK
  <2> QED BY <1>1, <1>2, <2>1, <2>2, <2>3, SoundKept
<1>6. ASSUME NEW g \in Goroutines, ExecuteState(g) PROVE Sound(e)'
  <2>1. row' = row /\ late' = late /\ keeps' = keeps BY <1>6 DEF ExecuteState
  <2>2. CASE run[g].exec = e BY <1>2, <1>6, <2>1, <2>2, ExecuteStateStep
  <2>3. CASE run[g].exec # e
    <3>1. hist'[e] = hist[e] BY <1>6, <2>3 DEF ExecuteState, TypeOK
    <3>2. \A h \in Goroutines \ {g} : run'[h] = run[h] BY <1>6 DEF ExecuteState, TypeOK
    <3>3. run'[g].exec = run[g].exec
      BY <1>6 DEF ExecuteState, TypeOK, Advance, Finish, Contexts
    <3>4. e # g BY <2>3 DEF TypeOK
    <3> QED BY <1>1, <1>2, <2>1, <2>3, <3>1, <3>2, <3>3, <3>4, SoundKept
  <2> QED BY <2>2, <2>3
<1>7. ASSUME NEW g \in Goroutines, PersistExecution(g) \/ (g \in Procs /\ MarkExecution(g))
      PROVE  Sound(e)'
  <2>1. hist' = hist /\ late' = late /\ keeps' = keeps BY <1>7 DEF PersistExecution, MarkExecution
  <2>2. run' = [run EXCEPT ![g] = Idle(run[g].exec)]
    BY <1>7 DEF PersistExecution, MarkExecution
  <2>3. PICK status \in {"SUCCEEDED", "FAILED", "PAUSED"} :
          /\ run[g].at \in {"save", "fail", "pause"}
          /\ status = "SUCCEEDED" => run[g].at = "save" /\ run[g].ok
          /\ row' = [row EXCEPT ![run[g].exec] = UpdateRow(@, status, run[g])]
    BY <1>7 DEF PersistExecution, MarkExecution
  <2>4. CASE run[g].exec = e BY <1>2, <2>1, <2>2, <2>3, <2>4, SaveStep
  <2>5. CASE run[g].exec # e
    <3>1. row'[e] = row[e] BY <2>3, <2>5 DEF TypeOK
    <3>2. \A h \in Goroutines \ {g} : run'[h] = run[h] BY <2>2 DEF TypeOK
    <3>3. e # g BY <2>5 DEF TypeOK
    <3>4. run[g].exec \in Execs BY DEF TypeOK, Contexts
    <3>5. run'[g].at = "none" BY <2>2, <3>4, Started DEF TypeOK
    <3> QED BY <1>1, <1>2, <2>1, <3>1, <3>2, <3>3, <3>5, SoundKept
  <2> QED BY <2>4, <2>5
<1>8. ASSUME NEW p \in Procs, GetExecution(p) PROVE Sound(e)'
  <2>1. PICK x \in found[p] :
          /\ run' = [run EXCEPT ![p] = Fetched(x, row[x])]
          /\ late' = [late EXCEPT ![x] = IF row[x].status = "RUNNING" THEN @ ELSE @ + 1]
          /\ row' = row /\ hist' = hist /\ keeps' = keeps
    BY <1>8 DEF GetExecution
  <2>2. x \in Execs /\ row[x] \in Rows /\ p \in Goroutines BY DEF TypeOK, Goroutines
  <2>3. CASE x = e
    <3>1. AtMostOneLate(e)
      <4>1. late'[e] = IF row[e].status = "RUNNING" THEN late[e] ELSE late[e] + 1
        BY <2>1, <2>3 DEF TypeOK
      <4>2. late[e] \in Nat BY DEF TypeOK
      <4> QED BY <4>1, <4>2 DEF AtMostOneLate
    <3> QED BY <2>1, <2>3, <3>1, GetExecutionStep
  <2>4. CASE x # e
    <3>1. late'[e] = late[e] BY <2>1, <2>4 DEF TypeOK
    <3>2. \A h \in Goroutines \ {p} : run'[h] = run[h] BY <2>1 DEF TypeOK
    <3>3. e # p OBVIOUS
    <3>4. run'[p].exec = x BY <2>1, <2>2, FetchedContext DEF TypeOK
    <3> QED BY <1>1, <1>2, <2>1, <2>4, <3>1, <3>2, <3>3, <3>4, SoundKept
  <2> QED BY <2>3, <2>4
<1>9. ASSUME NEW p \in Procs, Reconstruct(p) PROVE Sound(e)'
  <2>1. hist' = hist /\ row' = row /\ late' = late /\ keeps' = keeps BY <1>9 DEF Reconstruct
  <2>2. CASE run[p].exec = e BY <1>2, <1>9, <2>1, <2>2, ReconstructStep
  <2>3. CASE run[p].exec # e
    <3>1. /\ p \in Goroutines /\ e # p /\ run[p] \in Contexts
          /\ run[p].exec \in Execs
      BY DEF Goroutines, TypeOK, Contexts
    <3>2. PICK input \in RecoveryInput(run[p].exec) :
            run' = [run EXCEPT ![p] = ApplyStrategy([run[p] EXCEPT !.input = input])]
      BY <1>9, <3>1 DEF Reconstruct, TypeOK
    <3>3. input \in Doc BY <3>1, RecoveryInputType
    <3>4. run'[p].exec = run[p].exec BY <3>1, <3>2, <3>3, StrategyApplied DEF TypeOK
    <3>5. \A h \in Goroutines \ {p} : run'[h] = run[h] BY <3>2 DEF TypeOK
    <3> QED BY <1>1, <1>2, <2>1, <2>3, <3>1, <3>4, <3>5, SoundKept
  <2> QED BY <2>2, <2>3
<1>10. ASSUME NEW p \in Procs, Crash(p) PROVE Sound(e)' BY <1>10, <1>k DEF Crash
<1>11. ASSUME NEW p \in Procs, StopBackgroundScanner(p) PROVE Sound(e)'
  BY <1>3, <1>11, <1>k DEF StopBackgroundScanner
<1>12. ASSUME NEW p \in Procs,
              ScanAndRecover(p) \/ ExitScanner(p) \/ StartBackgroundScanner(p)
       PROVE  Sound(e)'
  BY <1>3, <1>12 DEF ScanAndRecover, ExitScanner, StartBackgroundScanner
<1>13. ASSUME NEW x \in Execs, Age(x) PROVE Sound(e)' BY <1>3, <1>13 DEF Age
<1>14. CASE UNCHANGED vars BY <1>3, <1>14 DEF vars
<1> QED
  BY <1>4, <1>5, <1>6, <1>7, <1>8, <1>9, <1>10, <1>11, <1>12, <1>13, <1>14
  DEF Next, RunStep, ScanStep, Goroutines

(* What any step does to the trail of an execution: history only grows, and *)
(* a context or row that changed has its states behind it.                  *)
LEMMA TrailKept ==
    ASSUME NEW e \in Execs, Trail(e), hist[e] \subseteq hist'[e],
           \A g \in Goroutines : run'[g].exec = e =>
              run'[g] = run[g] \/ run'[g].at = "none" \/ Behind(e, run[g])',
           row'[e] = row[e] \/ Stored(e)'
    PROVE  Trail(e)'
<1>1. \A s : Before(e, s) => Before(e, s)' BY DEF Before
<1>2. ASSUME NEW g \in Goroutines, run'[g].exec = e PROVE Behind(e, run[g])'
  <2>1. CASE run'[g] = run[g] BY <1>1, <1>2, <2>1 DEF Trail, Behind, Before
  <2>2. CASE run'[g].at = "none" BY <2>2 DEF Behind
  <2> QED BY <1>2, <2>1, <2>2
<1>3. Stored(e)' BY <1>1 DEF Trail, Stored, Before
<1> QED BY <1>2, <1>3 DEF Trail

LEMMA InitTrail == Init => \A e \in Execs : Trail(e)
<1> SUFFICES ASSUME Init, NEW e \in Execs PROVE Trail(e)
  OBVIOUS
<1>1. (CHOOSE x \in Execs : TRUE) \in Execs OBVIOUS
<1>2. ASSUME NEW g \in Goroutines, run[g].exec = e PROVE Behind(e, run[g])
  <2>1. run[g].at = "none" \/ (run[g].at = "new" /\ run[g].state = 1)
    BY <1>1, Started DEF Init
  <2> QED BY <2>1 DEF Behind, Before
<1>3. Stored(e) BY InsertedRow DEF Init, Stored, Before
<1> QED BY <1>2, <1>3 DEF Trail

LEMMA NextTrail ==
    ASSUME IInv, [Next]_vars, NEW e \in Execs
    PROVE  Trail(e)'
<1> USE DEF IInv
<1>1. Trail(e) OBVIOUS
<1>2. ASSUME hist' = hist, row' = row, run' = run PROVE Trail(e)'
  BY <1>1, <1>2, TrailKept
<1>3. ASSUME NEW g \in Goroutines PROVE run[g] \in Contexts /\ run[g].exec \in Execs
  BY DEF TypeOK, Contexts
<1>k. ASSUME NEW p \in Procs, Kill(p) PROVE Trail(e)'
  <2>1. hist' = hist /\ row' = row BY <1>k DEF Kill
  <2>2. \A g \in Goroutines : run'[g] = run[g] \/ run'[g].at = "none"
    BY <1>k, <1>3, Started DEF Kill
  <2> QED BY <1>1, <2>1, <2>2, TrailKept
<1>4. ASSUME NEW x \in Execs, Execute(x) PROVE Trail(e)'
  <2>1. hist' = hist BY <1>4 DEF Execute
  <2>2. x \in Goroutines BY DEF Goroutines
  <2>3. \A g \in Goroutines \ {x} : run'[g] = run[g] BY <1>4 DEF Execute, TypeOK
  <2>4. /\ run'[x].at = "state" /\ run'[x].exec = x /\ run'[x].state = run[x].state
        /\ run[x].exec = x /\ run[x].at = "new"
    <3>1. run'[x] = [run[x] EXCEPT !.at = "state"] BY <1>4, <2>2 DEF Execute, TypeOK
    <3> QED BY <1>3, <1>4, <2>2, <3>1 DEF Execute, Contexts, TypeOK
  <2>5. x = e => Behind(e, run[x])' BY <1>1, <2>1, <2>2, <2>4 DEF Trail, Behind, Before
  <2>6. row'[e] = row[e] \/ row'[e] = Inserted BY <1>4 DEF Execute, TypeOK
  <2>7. row'[e] = Inserted => Stored(e)' BY InsertedRow DEF Stored, Before
  <2> QED BY <1>1, <2>1, <2>3, <2>4, <2>5, <2>6, <2>7, TrailKept
<1>5. ASSUME NEW x \in Execs, CancelContext(x) PROVE Trail(e)'
  <2>1. hist' = hist /\ row' = row BY <1>5 DEF CancelContext
  <2>2. \A g \in Goroutines : run'[g] = run[g] \/ run'[g].at = "none"
    BY <1>5, Started DEF CancelContext, TypeOK, Goroutines
  <2> QED BY <1>1, <2>1, <2>2, TrailKept
<1>6. ASSUME NEW g \in Goroutines, ExecuteState(g) PROVE Trail(e)'
  <2> DEFINE c == run[g]
             n == run'[g]
  <2>1. c \in Contexts /\ c.exec \in Execs /\ c.at = "state" /\ c.state \in 1..NumStates
        /\ c.input \in Doc
    BY <1>3, <1>6 DEF ExecuteState, Contexts
  <2>2. PICK ok \in BOOLEAN :
          /\ hist' = [hist EXCEPT ![c.exec] = @ \cup
                {[state |-> c.state, seq |-> c.seq + 1, output |-> StateOutput(c, ok), ok |-> ok]}]
          /\ run' = [run EXCEPT ![g] =
                IF ok /\ c.state < NumStates
                THEN Advance(c, StateOutput(c, ok)) ELSE Finish(c, ok, StateOutput(c, ok))]
    BY <1>6 DEF ExecuteState
  <2> DEFINE out == StateOutput(c, ok)
  <2>3. out \in Doc /\ (ok => c.state \in out) BY <2>1 DEF StateOutput, Doc
  <2>4. n = IF ok /\ c.state < NumStates THEN Advance(c, out) ELSE Finish(c, ok, out)
    BY <2>2 DEF TypeOK
  <2> DEFINE x == [state |-> c.state, seq |-> c.seq + 1, output |-> out, ok |-> ok]
  <2>5. /\ hist[e] \subseteq hist'[e]
        /\ c.exec = e => \E y \in hist'[e] : y.state = c.state /\ y.ok = ok
    <3>1. x.state = c.state /\ x.ok = ok OBVIOUS
    <3>2. hist' = [hist EXCEPT ![c.exec] = @ \cup {x}] BY <2>2
    <3> HIDE DEF x
    <3> QED BY <2>1, <3>1, <3>2 DEF TypeOK
  <2>6. \A h \in Goroutines \ {g} : run'[h] = run[h] BY <2>2 DEF TypeOK
  <2>7. PICK s \in 1..NumStates : s = c.state BY <2>1
  <2>8. c.exec = e => Before(e, s)'
    <3>1. c.exec = e => Before(e, s) BY <1>1, <2>1, <2>7 DEF Trail, Behind
    <3> QED BY <2>5, <3>1 DEF Before
  <2> HIDE DEF c, n, out, x
  <2>9. ASSUME c.exec = e, ok PROVE Before(e, s + 1)'
    <3> SUFFICES ASSUME NEW t \in 1..s PROVE \E y \in hist'[e] : y.ok /\ y.state = t
      BY DEF Before
    <3>1. CASE t = s BY <2>5, <2>7, <2>9, <3>1
    <3>2. CASE t # s
      <4>1. t \in 1..(s - 1) BY <3>2
      <4> QED BY <2>8, <2>7, <2>9, <4>1 DEF Before
    <3> QED BY <3>1, <3>2
  <2>10. n.exec = c.exec /\ (c.exec = e => Behind(e, run[g])')
    <3>1. CASE ok /\ c.state < NumStates
      <4>1. n = Advance(c, out) BY <2>4, <3>1
      <4>2. n.exec = c.exec /\ n.at = "state" /\ n.state = s + 1
        BY <2>1, <2>3, <2>7, <3>1, <4>1, Advanced
      <4> QED BY <2>9, <3>1, <4>2 DEF Behind, n
    <3>2. CASE ~(ok /\ c.state < NumStates)
      <4>1. n = Finish(c, ok, out) BY <2>4, <3>2
      <4>2. /\ n.exec = c.exec /\ n.at = "save" /\ n.state = c.state
            /\ n.ok = ok /\ (ok => n.output = out)
        BY <2>1, <2>3, <4>1, Finished
      <4>3. ok => s = NumStates BY <2>7, <3>2
      <4> QED BY <2>3, <2>8, <2>7, <2>9, <4>2, <4>3 DEF Behind, n
    <3> QED BY <3>1, <3>2
  <2>11. row' = row BY <1>6 DEF ExecuteState
  <2> QED BY <1>1, <2>5, <2>6, <2>10, <2>11, TrailKept DEF n
<1>7. ASSUME NEW g \in Goroutines, PersistExecution(g) \/ (g \in Procs /\ MarkExecution(g))
      PROVE  Trail(e)'
  <2>1. hist' = hist BY <1>7 DEF PersistExecution, MarkExecution
  <2>2. \A h \in Goroutines : run'[h] = run[h] \/ run'[h].at = "none"
    <3>1. run' = [run EXCEPT ![g] = Idle(run[g].exec)]
      BY <1>7 DEF PersistExecution, MarkExecution
    <3> QED BY <1>3, <3>1, Started DEF TypeOK
  <2>3. PICK status \in Statuses :
          /\ run[g].at \in {"save", "fail", "pause"}
          /\ status = "SUCCEEDED" => run[g].at = "save" /\ run[g].ok
          /\ row' = [row EXCEPT ![run[g].exec] = UpdateRow(@, status, run[g])]
    BY <1>7 DEF PersistExecution, MarkExecution, Statuses
  <2>4. CASE run[g].exec = e
    <3>1. row'[e] = UpdateRow(row[e], status, run[g]) BY <2>3, <2>4 DEF TypeOK
    <3>2. row[e] \in Rows BY DEF TypeOK
    <3>3. /\ row'[e].status = status /\ row'[e].state = run[g].state
          /\ row'[e].output = run[g].output
      BY <1>3, <3>1, <3>2, UpdatedRow
    <3>4. Behind(e, run[g]) BY <1>1, <2>4 DEF Trail
    <3>5. Stored(e)' BY <2>1, <2>3, <3>3, <3>4 DEF Stored, Behind, Before
    <3> QED BY <1>1, <2>1, <2>2, <3>5, TrailKept
  <2>5. CASE run[g].exec # e
    <3>1. row'[e] = row[e] BY <2>3, <2>5 DEF TypeOK
    <3> QED BY <1>1, <2>1, <2>2, <3>1, TrailKept
  <2> QED BY <2>4, <2>5
<1>8. ASSUME NEW p \in Procs, GetExecution(p) PROVE Trail(e)'
  <2>1. PICK x \in found[p] :
          /\ run' = [run EXCEPT ![p] = Fetched(x, row[x])]
          /\ row' = row /\ hist' = hist
    BY <1>8 DEF GetExecution
  <2>2. x \in Execs /\ row[x] \in Rows /\ p \in Goroutines BY DEF TypeOK, Goroutines
  <2>3. \A h \in Goroutines \ {p} : run'[h] = run[h] BY <2>1 DEF TypeOK
  <2>4. run'[p].at = "fetched" /\ run'[p].exec = x /\ run'[p].state = row[x].state
    BY <2>1, <2>2, FetchedContext DEF TypeOK
  <2>5. x = e => Behind(e, run[p])' BY <1>1, <2>1, <2>4 DEF Trail, Stored, Behind, Before
  <2> QED BY <1>1, <2>1, <2>3, <2>4, <2>5, TrailKept
<1>9. ASSUME NEW p \in Procs, Reconstruct(p) PROVE Trail(e)'
  <2>1. hist' = hist /\ row' = row BY <1>9 DEF Reconstruct
  <2>2. p \in Goroutines /\ run[p].at = "fetched" BY <1>9 DEF Goroutines, Reconstruct
  <2>3. PICK input \in RecoveryInput(run[p].exec) :
          run' = [run EXCEPT ![p] = ApplyStrategy([run[p] EXCEPT !.input = input])]
    BY <1>9, <2>2 DEF Reconstruct, TypeOK
  <2>4. input \in Doc BY <1>3, <2>2, <2>3, RecoveryInputType
  <2>5. /\ run'[p].exec = run[p].exec /\ run'[p].state = run[p].state
        /\ run'[p].at \in {"fail", "pause", "state"}
    BY <1>3, <2>2, <2>3, <2>4, StrategyApplied DEF TypeOK
  <2>6. \A h \in Goroutines \ {p} : run'[h] = run[h] BY <2>3 DEF TypeOK
  <2>7. run[p].exec = e => Behind(e, run[p])'
    BY <1>1, <2>1, <2>2, <2>5 DEF Trail, Behind, Before
  <2> QED BY <1>1, <2>1, <2>5, <2>6, <2>7, TrailKept
<1>10. ASSUME NEW p \in Procs, Crash(p) PROVE Trail(e)' BY <1>10, <1>k DEF Crash
<1>11. ASSUME NEW p \in Procs, StopBackgroundScanner(p) PROVE Trail(e)'
  BY <1>2, <1>11, <1>k DEF StopBackgroundScanner
<1>12. ASSUME NEW p \in Procs,
              ScanAndRecover(p) \/ ExitScanner(p) \/ StartBackgroundScanner(p)
       PROVE  Trail(e)'
  BY <1>2, <1>12 DEF ScanAndRecover, ExitScanner, StartBackgroundScanner
<1>13. ASSUME NEW x \in Execs, Age(x) PROVE Trail(e)' BY <1>2, <1>13 DEF Age
<1>14. CASE UNCHANGED vars BY <1>2, <1>14 DEF vars
<1> QED
  BY <1>4, <1>5, <1>6, <1>7, <1>8, <1>9, <1>10, <1>11, <1>12, <1>13, <1>14
  DEF Next, RunStep, ScanStep, Goroutines

(* The inductive invariant holds of every behaviour: no order of crashes,   *)
(* cancellations, scans and overlapping recoveries breaks it.               *)
THEOREM Invariance == Spec => []IInv
<1>1. Init => IInv BY InitType, InitSound, InitTrail DEF IInv
<1>2. IInv /\ [Next]_vars => IInv' BY NextType, NextSound, NextTrail DEF IInv
<1> QED BY <1>1, <1>2, PTL DEF Spec

(* Types: what the goroutines of RunExecution, RecoverExecution and the     *)
(* scanner write stays well formed, and only a live scanner recovers.       *)
THEOREM TypeCorrect == Spec => []TypeOK
<1>1. IInv => TypeOK BY DEF IInv
<1> QED BY <1>1, Invariance, PTL

(* A row that RunExecution saved as SUCCEEDED has every state in its        *)
(* history and the last one's result in its output, however often it was    *)
(* recovered; where all states keep their input, it has all results.        *)
THEOREM SucceededIsCompleteHolds == Spec => []SucceededIsComplete
<1>1. IInv => SucceededIsComplete
  <2> SUFFICES ASSUME IInv, NEW e \in Execs, row[e].status = "SUCCEEDED"
               PROVE  /\ \A s \in 1..NumStates : \E x \in hist[e] : x.ok /\ x.state = s
                      /\ NumStates \in row[e].output
                      /\ AllKeep /\ AtMostOneLate(e) => row[e].output = 0..NumStates
    BY DEF SucceededIsComplete
  <2>1. Before(e, NumStates + 1) /\ NumStates \in row[e].output BY DEF IInv, Trail, Stored
  <2>2. AllKeep /\ AtMostOneLate(e) => row[e].output = 0..NumStates BY DEF IInv, Sound, Saved
  <2>3. (NumStates + 1) - 1 = NumStates OBVIOUS
  <2> QED BY <2>1, <2>2, <2>3 DEF Before
<1> QED BY <1>1, Invariance, PTL

(* Every state runs on the results of the states before it, also when       *)
(* reconstructExecution took its input from the history: for rows found     *)
(* RUNNING, and for a late one where all states keep their input.           *)
THEOREM InputIsCompleteHolds == Spec => []InputIsComplete
<1>1. IInv => InputIsComplete
  <2> SUFFICES ASSUME IInv, NEW g \in Goroutines, run[g].at = "state"
               PROVE  /\ late[run[g].exec] = 0 => 1..(run[g].state - 1) \subseteq run[g].input
                      /\ AllKeep /\ AtMostOneLate(run[g].exec) =>
                            0..(run[g].state - 1) \subseteq run[g].input
    BY DEF InputIsComplete
  <2>1. run[g].exec \in Execs BY DEF IInv, TypeOK, Contexts
  <2>2. late[run[g].exec] = 0 => AtMostOneLate(run[g].exec) BY DEF AtMostOneLate
  <2> QED BY <2>1, <2>2 DEF IInv, Sound, Working
<1> QED BY <1>1, Invariance, PTL

=============================================================================
