-------------------------- MODULE MicroBatchProofs --------------------------
(***************************************************************************)
(* Proofs, for every batch size, micro-batch size, retry limit and number  *)
(* of failures, of the safety properties of MicroBatch.                    *)
(***************************************************************************)
EXTENDS MicroBatchInv, FiniteSetTheorems, TLAPS

-----------------------------------------------------------------------------
(* Arithmetic of the cursor.                                                *)

(* Consecutive micro-batches do not overlap.                                *)
LEMMA SpanDisjoint ==
    ASSUME NEW k \in MBs, NEW j \in MBs, NEW i \in Span(k), i \in Span(j)
    PROVE  k = j
<1> DEFINE S == MicroBatchSize
<1>1. S \in Nat \ {0} /\ k \in Nat /\ j \in Nat /\ i \in Int
  BY ConstantsAssumption DEF MBs, Items, Span
<1>2. S * k <= i /\ i < S * k + S /\ S * j <= i /\ i < S * j + S
  BY DEF Span
<1>3. \A a, b \in Nat : a < b => S * a + S <= S * b
  <2>1. TAKE a, b \in Nat
  <2>2. HAVE a < b
  <2>3. PICK d \in Nat : b = a + 1 + d
    <3>1. b - a - 1 \in Nat /\ b = a + 1 + (b - a - 1) BY <2>1, <2>2
    <3> QED BY <3>1
  <2>4. S * b = S * a + S + S * d /\ S * d \in Nat /\ S * a \in Nat BY <1>1, <2>1, <2>3
  <2> QED BY <1>1, <2>4
<1> HIDE DEF S
<1>4. S * k \in Int /\ S * j \in Int BY <1>1
<1>5. ~(k < j) BY <1>1, <1>2, <1>3, <1>4
<1>6. ~(j < k) BY <1>1, <1>2, <1>3, <1>4
<1> QED BY <1>1, <1>5, <1>6

(* At a multiple of the micro-batch size, cursorVal / mbSize is the index   *)
(* of the micro-batch that starts there.                                    *)
LEMMA IndexOfMultiple ==
    ASSUME NEW m \in Nat, cursor = MicroBatchSize * m, cursor < TotalCount
    PROVE  MbIndex = m /\ m \in MBs
<1>1. MicroBatchSize \in Nat \ {0} /\ TotalCount \in Nat BY ConstantsAssumption
<1>2. (MicroBatchSize * m) \div MicroBatchSize = m BY <1>1
<1>3. MicroBatchSize * m >= m BY <1>1
<1>4. m < TotalCount
  <2>1. MicroBatchSize * m \in Int BY <1>1
  <2> QED BY <1>1, <1>3, <2>1
<1> QED BY <1>1, <1>2, <1>4 DEF MbIndex, MBs

(* The ids read at a multiple of the micro-batch size, and their number.    *)
LEMMA SliceIsSpan ==
    ASSUME NEW m \in Nat, cursor = MicroBatchSize * m, cursor < TotalCount, ~cleaned
    PROVE  /\ Slice = Span(m)
           /\ cursor \in Slice
           /\ Cardinality(Slice) = IF cursor + MicroBatchSize <= TotalCount
                                   THEN MicroBatchSize ELSE TotalCount - cursor
           /\ Cardinality(Slice) \in 1..MicroBatchSize
           /\ cursor + Cardinality(Slice) \in 0..TotalCount
<1> DEFINE e == IF cursor + MicroBatchSize <= TotalCount
                THEN cursor + MicroBatchSize - 1 ELSE TotalCount - 1
<1>1. MicroBatchSize \in Nat \ {0} /\ TotalCount \in Nat BY ConstantsAssumption
<1>2. cursor \in Nat BY <1>1
<1>3. Slice = Span(m) BY DEF Slice, Span
<1>4. Slice = cursor..e BY <1>1, <1>2 DEF Slice, Items
<1>5. e \in Int /\ cursor \in Int /\ cursor <= e BY <1>1, <1>2
<1>6. Cardinality(Slice) = e - cursor + 1
  <2> HIDE DEF e
  <2> QED BY <1>4, <1>5, FS_Interval
<1> QED BY <1>1, <1>2, <1>3, <1>4, <1>5, <1>6

(* Members of a micro-batch are finitely many.                              *)
LEMMA ItemSetsFinite ==
    ASSUME NEW X \in SUBSET Items
    PROVE  IsFiniteSet(X)
<1>1. IsFiniteSet(Items) BY ConstantsAssumption, FS_Interval DEF Items
<1> QED BY <1>1, FS_Subset

-----------------------------------------------------------------------------
(* The state changes that several actions share.                            *)

USE DEF redisVars, runVars, repoVars, taskVars, histVars

(* Run 0 and run 1 are the only ones.                                       *)
LEMMA TwoRuns ==
    /\ 0 \in Runs /\ 1 \in Runs /\ 0 \in MBs
    /\ \A r \in Runs : IInv /\ pc[r] # "none" => r = 0 \/ r = 1
<1>1. 0 \in Runs /\ 1 \in Runs /\ 0 \in MBs BY ConstantsAssumption DEF Runs, MBs
<1>2. ASSUME NEW r \in Runs, IInv, pc[r] # "none"
      PROVE  r = 0 \/ r = 1
  <2>1. ~(r > 1) BY <1>2 DEF IInv, Roles
  <2> QED BY <2>1, ConstantsAssumption DEF Runs
<1> QED BY <1>1, <1>2

(* A step that leaves the cursor's state alone and opens no new way to      *)
(* dispatch keeps Cursor.                                                   *)
LEMMA CursorKept ==
    ASSUME Cursor, MayDispatch' => MayDispatch,
           UNCHANGED <<cursor, cleaned, enq, members, left, newCursor>>,
           \A r \in {0, 1} : pc'[r] = "Enqueue" => pc[r] = "Enqueue" /\ doc'[r] = doc[r]
    PROVE  Cursor'
BY DEF Cursor, Frontier, Span

(* A step that touches no task keeps Tasks, Winners and Counted.            *)
LEMMA TasksKept ==
    ASSUME IInv, UNCHANGED <<tpc, attempts, mbOf, enq, members, finished, signalled,
                             wins, barrier, dispatched>>,
           pc[1] = "none" => pc'[1] = "none"
    PROVE  Tasks' /\ Winners' /\ Counted'
<1>1. Tasks' BY DEF IInv, Tasks, Span
<1>2. Winners' BY DEF IInv, Winners
<1>3. Counted' BY DEF IInv, Counted
<1> QED BY <1>1, <1>2, <1>3

(* A step of the resumed run keeps Roles if the run keeps its marker.       *)
LEMMA RolesRun1 ==
    ASSUME IInv, pc[1] # "none", pc'[1] # "none", pc' = [pc EXCEPT ![1] = pc'[1]],
           doc'[1].marker, corr'.status # "none", corr'.mb = corr.mb, UNCHANGED wins
    PROVE  Roles'
<1>1. pc[0] \in {"Pause", "ended"} /\ pc'[0] = pc[0]
  BY TwoRuns DEF IInv, TypeOK, Roles
<1>2. \A r \in Runs : r > 1 => pc'[r] = pc[r] BY DEF IInv, TypeOK
<1> QED BY <1>1, <1>2 DEF IInv, Roles

(* A step of run 0 keeps Roles until it saves the correlation.              *)
LEMMA RolesRun0 ==
    ASSUME IInv, pc[0] \notin {"Pause", "ended"}, pc' = [pc EXCEPT ![0] = pc'[0]],
           pc'[0] \notin {"none", "Resume", "Evaluate", "Dispatch"},
           pc'[0] \in {"Enqueue", "Check", "Wait"} => doc'[0].mb = 0 /\ ~doc'[0].marker,
           UNCHANGED corr
    PROVE  Roles' /\ pc'[1] = "none" /\ corr.status = "none"
<1>1. corr.status = "none" /\ pc[1] = "none" BY DEF IInv, Roles
<1>2. \A r \in Runs : r >= 1 => pc'[r] = pc[r]
  BY ConstantsAssumption, SMTT(40) DEF IInv, TypeOK, Runs
<1>3. pc'[1] = "none" BY <1>1, <1>2, TwoRuns
<1> QED BY <1>1, <1>2, <1>3 DEF IInv, Roles, Runs

-----------------------------------------------------------------------------
(* Steps of the orchestrator's runs.                                        *)

LEMMA DispatchCompleteStep ==
    ASSUME IInv, NEW r \in Runs, DispatchComplete(r)
    PROVE  IInv'
<1>1. TypeOK'
  <2>1. doc' \in [Runs -> Doc]
    <3>1. MergeDispatchResult(doc[r], NoMB, TRUE) \in Doc
      BY DEF IInv, TypeOK, MergeDispatchResult, Doc
    <3> QED BY <3>1 DEF IInv, TypeOK, DispatchComplete
  <2>2. pc' \in [Runs -> RunPc] BY DEF IInv, TypeOK, RunPc, DispatchComplete
  <2>3. cursor' \in 0..TotalCount
    BY ConstantsAssumption DEF IInv, TypeOK, DispatchComplete
  <2>4. cleaned' \in BOOLEAN BY DEF IInv, TypeOK, DispatchComplete
  <2> QED BY <2>1, <2>2, <2>3, <2>4 DEF IInv, TypeOK, DispatchComplete
<1>2. r = 1
  <2>1. r = 0 \/ r = 1 BY TwoRuns DEF DispatchComplete
  <2>2. ASSUME r = 0 PROVE FALSE
    <3>1. doc[0] = OrchestratorInput /\ cursor = 0
      BY <2>2 DEF IInv, Roles, DispatchComplete
    <3> QED BY <2>2, <3>1, ConstantsAssumption DEF DispatchComplete, OrchestratorInput
  <2> QED BY <2>1, <2>2
<1>3. /\ pc[1] = "Dispatch" /\ pc' = [pc EXCEPT ![1] = "Check"]
      /\ doc'[1].complete /\ doc'[1].marker = doc[1].marker /\ doc'[0] = doc[0]
  BY <1>2, TwoRuns DEF DispatchComplete, MergeDispatchResult, IInv, TypeOK
<1>4. Roles'
  <2>1. doc'[1].marker /\ corr.status # "none" BY <1>3 DEF IInv, Roles
  <2>2. pc'[1] = "Check" /\ pc' = [pc EXCEPT ![1] = pc'[1]]
    BY <1>3, TwoRuns DEF IInv, TypeOK
  <2> QED BY <1>3, <2>1, <2>2, RolesRun1 DEF DispatchComplete
<1>5. Tasks' /\ Winners' /\ Counted'
  BY <1>2, <1>3, TwoRuns, TasksKept DEF DispatchComplete, IInv, TypeOK
<1>6. ~MayDispatch' /\ pc'[0] = pc[0] /\ pc'[0] \in {"Pause", "ended"} /\ pc'[1] = "Check"
  BY <1>3, TwoRuns DEF IInv, TypeOK, Roles, MayDispatch
<1>7. cleaned' => \A i \in Items : enq[i] = 1
  <2>1. CASE cleaned' = cleaned BY <2>1 DEF IInv, Cursor
  <2>2. CASE cursor >= TotalCount /\ MayDispatch
    BY <2>2, ConstantsAssumption DEF IInv, TypeOK, Cursor, Items
  <2>3. MayDispatch BY <1>3, TwoRuns DEF IInv, Roles, MayDispatch
  <2> QED BY <2>1, <2>2, <2>3 DEF DispatchComplete
<1>8. Cursor' BY <1>6, <1>7 DEF Cursor, DispatchComplete
<1> QED BY <1>1, <1>4, <1>5, <1>8 DEF IInv

LEMMA CheckIfCompleteStep ==
    ASSUME IInv, NEW r \in Runs, CheckIfComplete(r)
    PROVE  IInv'
<1>1. TypeOK'
  <2>1. pc' \in [Runs -> RunPc] BY DEF IInv, TypeOK, RunPc, CheckIfComplete
  <2> QED BY <2>1 DEF IInv, TypeOK, CheckIfComplete
<1>2. r \in {0, 1} /\ pc[r] = "Check" /\ r \in Runs
  BY TwoRuns DEF CheckIfComplete
<1>3. /\ pc' = [pc EXCEPT ![r] = pc'[r]]
      /\ pc'[r] = IF doc[r].complete THEN "Completed" ELSE "Wait"
  BY <1>2 DEF IInv, TypeOK, CheckIfComplete
<1>4. UNCHANGED doc /\ UNCHANGED corr /\ UNCHANGED wins /\ UNCHANGED cursor
  BY DEF CheckIfComplete
<1>5. Roles'
  BY <1>2, <1>3, <1>4, TwoRuns DEF IInv, Roles, TypeOK
<1>6. Tasks' /\ Winners' /\ Counted'
  BY <1>2, <1>3, TwoRuns, TasksKept DEF CheckIfComplete, IInv, TypeOK
<1>7. MayDispatch' => MayDispatch
  BY <1>2, <1>3, <1>4, TwoRuns DEF IInv, TypeOK, Roles, MayDispatch
<1>8. Cursor'
  BY <1>2, <1>3, <1>7, TwoRuns, CursorKept DEF CheckIfComplete, IInv, TypeOK
<1> QED BY <1>1, <1>5, <1>6, <1>8 DEF IInv

LEMMA MessageReceivedStep ==
    ASSUME IInv, NEW r \in Runs, MessageReceived(r)
    PROVE  IInv'
<1>1. r = 1
  BY TwoRuns DEF MessageReceived, IInv, Roles
<1>2. /\ pc[1] = "Wait" /\ pc' = [pc EXCEPT ![1] = "Evaluate"]
      /\ doc' = [doc EXCEPT ![1] = [doc[1] EXCEPT !.batch = TRUE]]
  BY <1>1 DEF MessageReceived
<1>3. doc[1] \in Doc BY TwoRuns DEF IInv, TypeOK
<1>4. doc'[1] \in Doc /\ doc'[1].marker = doc[1].marker /\ doc'[0] = doc[0]
  <2>1. doc'[1] = [doc[1] EXCEPT !.batch = TRUE] /\ doc'[0] = doc[0]
    BY <1>2, TwoRuns DEF IInv, TypeOK
  <2> QED BY <1>3, <2>1 DEF Doc
<1>5. TypeOK'
  <2>1. pc' \in [Runs -> RunPc] BY <1>2 DEF IInv, TypeOK, RunPc
  <2>2. doc' \in [Runs -> Doc] BY <1>2, <1>4, TwoRuns DEF IInv, TypeOK
  <2> QED BY <2>1, <2>2 DEF IInv, TypeOK, MessageReceived
<1>6. Roles'
  <2>1. doc[1].marker /\ corr.status # "none" BY <1>2 DEF IInv, Roles
  <2> QED BY <1>2, <1>4, <2>1, TwoRuns, RolesRun1 DEF MessageReceived, IInv, TypeOK
<1>7. Tasks' /\ Winners' /\ Counted'
  BY <1>2, TwoRuns, TasksKept DEF MessageReceived, IInv, TypeOK
<1>8. MayDispatch' => MayDispatch
  BY <1>2, TwoRuns DEF IInv, TypeOK, Roles, MayDispatch
<1>9. Cursor'
  BY <1>2, <1>4, <1>8, TwoRuns, CursorKept DEF MessageReceived, IInv, TypeOK
<1> QED BY <1>5, <1>6, <1>7, <1>9 DEF IInv

LEMMA SaveMessageCorrelationStep ==
    ASSUME IInv, NEW r \in Runs, SaveMessageCorrelation(r)
    PROVE  IInv'
<1>1. r = 0
  BY TwoRuns DEF SaveMessageCorrelation, IInv, Roles
<1>2. /\ pc[0] = "Wait" /\ pc' = [pc EXCEPT ![0] = "Pause"]
      /\ corr' = [status |-> "WAITING", mb |-> doc[0].mb] /\ UNCHANGED doc
  BY <1>1 DEF SaveMessageCorrelation
<1>3. doc[0].mb = 0 /\ corr.status = "none" /\ pc[1] = "none"
  BY <1>2 DEF IInv, Roles
<1>4. pc'[0] = "Pause" /\ \A q \in Runs : q # 0 => pc'[q] = pc[q]
  BY <1>2, TwoRuns DEF IInv, TypeOK
<1>5. TypeOK'
  <2>1. pc' \in [Runs -> RunPc] BY <1>2 DEF IInv, TypeOK, RunPc
  <2>2. corr' \in [status : {"none", "WAITING", "RECEIVED"}, mb : MBs \cup {NoMB}]
    BY <1>2, <1>3, TwoRuns
  <2> QED BY <2>1, <2>2 DEF IInv, TypeOK, SaveMessageCorrelation
<1>6. Roles'
  <2>1. corr'.mb = 0 /\ pc'[1] = "none" BY <1>2, <1>3, <1>4, TwoRuns
  <2>2. \A q \in Runs : q > 1 => pc'[q] = "none" BY <1>4 DEF IInv, Roles, Runs
  <2> QED BY <1>4, <2>1, <2>2 DEF Roles
<1>7. Tasks' /\ Winners' /\ Counted'
  BY <1>2, <1>4, TwoRuns, TasksKept DEF SaveMessageCorrelation
<1>8. MayDispatch' => MayDispatch BY <1>2 DEF MayDispatch
<1>9. Cursor'
  BY <1>2, <1>4, <1>8, TwoRuns, CursorKept DEF SaveMessageCorrelation, IInv
<1> QED BY <1>5, <1>6, <1>7, <1>9 DEF IInv

LEMMA PauseExecutionStep ==
    ASSUME IInv, NEW r \in Runs, PauseExecution(r)
    PROVE  IInv'
<1>1. r \in {0, 1} BY TwoRuns DEF PauseExecution
<1>2. pc[r] = "Pause" /\ pc' = [pc EXCEPT ![r] = "ended"] /\ UNCHANGED <<doc, corr, wins>>
  BY DEF PauseExecution
<1>3. pc'[r] = "ended" /\ \A q \in Runs : q # r => pc'[q] = pc[q]
  BY <1>2 DEF IInv, TypeOK
<1>4. TypeOK'
  <2>1. pc' \in [Runs -> RunPc] BY <1>2 DEF IInv, TypeOK, RunPc
  <2>2. rec' \in Row BY DEF PauseExecution, Row, RowStatus, RowState, IInv, TypeOK
  <2>3. caller' \in {"running", "polling", "nil", "error"} BY DEF PauseExecution, IInv, TypeOK
  <2> QED BY <2>1, <2>2, <2>3 DEF IInv, TypeOK, PauseExecution
<1>5. Roles'
  <2>1. \A q \in Runs : q > 1 => pc'[q] = "none" BY <1>1, <1>3 DEF IInv, Roles, Runs
  <2> QED BY <1>1, <1>2, <1>3, <2>1, TwoRuns DEF IInv, Roles
<1>6. Tasks' /\ Winners' /\ Counted'
  BY <1>1, <1>2, <1>3, TwoRuns, TasksKept DEF PauseExecution
<1>7. MayDispatch' => MayDispatch BY <1>1, <1>2, <1>3, TwoRuns DEF MayDispatch
<1>8. Cursor'
  BY <1>1, <1>2, <1>3, <1>7, TwoRuns, CursorKept DEF PauseExecution, IInv
<1> QED BY <1>4, <1>5, <1>6, <1>8 DEF IInv

LEMMA TerminateStep ==
    ASSUME IInv, NEW r \in Runs, Terminate(r)
    PROVE  IInv'
<1>1. r \in {0, 1} BY TwoRuns DEF Terminate
<1>2. /\ pc[r] \in {"Completed", "Failed"} /\ pc' = [pc EXCEPT ![r] = "ended"]
      /\ UNCHANGED <<doc, corr, wins>>
  BY DEF Terminate
<1>3. pc'[r] = "ended" /\ \A q \in Runs : q # r => pc'[q] = pc[q]
  BY <1>2 DEF IInv, TypeOK
<1>4. TypeOK'
  <2>1. pc' \in [Runs -> RunPc] BY <1>2 DEF IInv, TypeOK, RunPc
  <2>2. rec' \in Row BY DEF Terminate, Row, RowStatus, RowState, IInv, TypeOK
  <2>3. caller' \in {"running", "polling", "nil", "error"} BY DEF Terminate, IInv, TypeOK
  <2> QED BY <2>1, <2>2, <2>3 DEF IInv, TypeOK, Terminate
<1>5. Roles'
  <2>1. \A q \in Runs : q > 1 => pc'[q] = "none" BY <1>1, <1>3 DEF IInv, Roles, Runs
  <2> QED BY <1>1, <1>2, <1>3, <2>1, TwoRuns DEF IInv, Roles
<1>6. Tasks' /\ Winners' /\ Counted'
  BY <1>1, <1>2, <1>3, TwoRuns, TasksKept DEF Terminate
<1>7. MayDispatch' => MayDispatch BY <1>1, <1>2, <1>3, TwoRuns DEF MayDispatch
<1>8. Cursor'
  BY <1>1, <1>2, <1>3, <1>7, TwoRuns, CursorKept DEF Terminate, IInv
<1> QED BY <1>4, <1>5, <1>6, <1>8 DEF IInv

LEMMA TaskStateErrorStep ==
    ASSUME IInv, NEW r \in Runs, TaskStateError(r)
    PROVE  IInv'
<1>1. r \in {0, 1} BY TwoRuns DEF TaskStateError
<1>2. /\ pc[r] \in {"Dispatch", "Enqueue", "Evaluate"} /\ pc' = [pc EXCEPT ![r] = "Failed"]
      /\ UNCHANGED <<doc, corr, wins, cursor>>
  BY DEF TaskStateError
<1>3. pc'[r] = "Failed" /\ \A q \in Runs : q # r => pc'[q] = pc[q]
  BY <1>2 DEF IInv, TypeOK
<1>4. TypeOK'
  <2>1. pc' \in [Runs -> RunPc] BY <1>2 DEF IInv, TypeOK, RunPc
  <2>2. faults' \in 0..MaxFaults BY ConstantsAssumption DEF TaskStateError, IInv, TypeOK
  <2> QED BY <2>1, <2>2 DEF IInv, TypeOK, TaskStateError
<1>5. Roles'
  <2>1. \A q \in Runs : q > 1 => pc'[q] = "none" BY <1>1, <1>3 DEF IInv, Roles, Runs
  <2> QED BY <1>1, <1>2, <1>3, <2>1, TwoRuns DEF IInv, Roles
<1>6. Tasks' /\ Winners' /\ Counted'
  BY <1>1, <1>2, <1>3, TwoRuns, TasksKept DEF TaskStateError
<1>7. MayDispatch' => MayDispatch BY <1>1, <1>2, <1>3, TwoRuns DEF MayDispatch
<1>8. Cursor'
  BY <1>1, <1>2, <1>3, <1>7, TwoRuns, CursorKept DEF TaskStateError, IInv
<1> QED BY <1>4, <1>5, <1>6, <1>8 DEF IInv

LEMMA EvaluateMicroBatchStep ==
    ASSUME IInv, NEW r \in Runs, EvaluateMicroBatch(r)
    PROVE  IInv'
<1>1. r = 1 BY TwoRuns DEF EvaluateMicroBatch, IInv, Roles
<1>2. PICK s \in {"Failed", "Dispatch"} :
         pc[1] = "Evaluate" /\ pc' = [pc EXCEPT ![1] = s]
  BY <1>1 DEF EvaluateMicroBatch, PathTrue
<1>3. pc'[1] = s /\ \A q \in Runs : q # 1 => pc'[q] = pc[q]
  BY <1>2, TwoRuns DEF IInv, TypeOK
<1>4. TypeOK'
  <2>1. pc' \in [Runs -> RunPc] BY <1>2 DEF IInv, TypeOK, RunPc
  <2> QED BY <2>1 DEF IInv, TypeOK, EvaluateMicroBatch
<1>5. Roles'
  <2>1. doc[1].marker /\ corr.status # "none" BY <1>2 DEF IInv, Roles
  <2> QED BY <1>2, <1>3, <2>1, RolesRun1 DEF EvaluateMicroBatch
<1>6. Tasks' /\ Winners' /\ Counted'
  BY <1>2, <1>3, TasksKept DEF EvaluateMicroBatch
<1>7. MayDispatch' => MayDispatch
  BY <1>2, <1>3, TwoRuns DEF MayDispatch, EvaluateMicroBatch, IInv, Roles
<1>8. Cursor'
  BY <1>2, <1>3, <1>7, TwoRuns, CursorKept DEF EvaluateMicroBatch, IInv
<1> QED BY <1>4, <1>5, <1>6, <1>8 DEF IInv

LEMMA ResumeExecutionStep ==
    ASSUME IInv, NEW r \in Runs, ResumeExecution(r)
    PROVE  IInv'
<1>1. r = 1 BY TwoRuns DEF ResumeExecution, IInv, Roles
<1>2. PICK s \in RowState \cup {"ended"} :
         pc[1] = "Resume" /\ pc' = [pc EXCEPT ![1] = s]
  BY <1>1, TwoRuns DEF ResumeExecution, IInv, TypeOK
<1>3. pc'[1] = s /\ \A q \in Runs : q # 1 => pc'[q] = pc[q]
  BY <1>2, TwoRuns DEF IInv, TypeOK
<1>4. corr.status # "none" /\ corr'.status # "none" /\ corr'.mb = corr.mb
  BY <1>2, <1>1 DEF ResumeExecution, IInv, Roles, TypeOK
<1>5. TypeOK'
  <2>1. pc' \in [Runs -> RunPc] BY <1>2 DEF IInv, TypeOK, RunPc, RowState
  <2>2. rec' \in Row
    BY <1>1, TwoRuns DEF ResumeExecution, Row, RowStatus, IInv, TypeOK
  <2>3. corr' \in [status : {"none", "WAITING", "RECEIVED"}, mb : MBs \cup {NoMB}]
    BY DEF ResumeExecution, IInv, TypeOK
  <2> QED BY <2>1, <2>2, <2>3 DEF IInv, TypeOK, ResumeExecution
<1>6. Roles'
  <2>1. doc[1].marker BY <1>2 DEF IInv, Roles
  <2> QED BY <1>2, <1>3, <1>4, <2>1, RolesRun1 DEF ResumeExecution, RowState
<1>7. Tasks' /\ Winners' /\ Counted'
  BY <1>2, <1>3, TasksKept DEF ResumeExecution
<1>8. MayDispatch' => MayDispatch
  BY <1>2, <1>3, <1>4, TwoRuns DEF MayDispatch, ResumeExecution
<1>9. Cursor'
  BY <1>2, <1>3, <1>8, TwoRuns, CursorKept DEF ResumeExecution, IInv, RowState
<1> QED BY <1>5, <1>6, <1>7, <1>9 DEF IInv

LEMMA DispatchNextStep ==
    ASSUME IInv, NEW r \in Runs, DispatchNext(r)
    PROVE  IInv'
<1>1. r \in {0, 1} /\ pc[r] = "Dispatch" /\ cursor < TotalCount
  BY TwoRuns DEF DispatchNext
<1>2. MayDispatch
  BY <1>1 DEF IInv, Roles, MayDispatch
<1>3. ~cleaned /\ Frontier(cursor) /\ \A i \in Items : i < cursor => enq[i] = 1
  BY <1>2 DEF IInv, Cursor
<1>4. PICK m \in Nat : cursor = MicroBatchSize * m
  <2>1. cursor # TotalCount BY <1>1, ConstantsAssumption DEF IInv, TypeOK
  <2>2. \E m \in 0..TotalCount : cursor = MicroBatchSize * m
    BY <1>2, <2>1 DEF IInv, Cursor
  <2> QED BY <2>2
<1>5. MbIndex = m /\ m \in MBs BY <1>1, <1>4, IndexOfMultiple
<1>6. /\ Slice = Span(m) /\ cursor \in Span(m)
      /\ Cardinality(Span(m)) = IF cursor + MicroBatchSize <= TotalCount
                                THEN MicroBatchSize ELSE TotalCount - cursor
      /\ Cardinality(Span(m)) \in 1..MicroBatchSize
      /\ cursor + Cardinality(Span(m)) \in 0..TotalCount
  BY <1>1, <1>3, <1>4, SliceIsSpan
<1>7. members[m] = {}
  BY <1>3, <1>4, <1>5, ConstantsAssumption DEF Frontier
<1>8. m \notin dispatched /\ barrier[m] = Missing /\ wins[m] = 0
  BY <1>5, <1>7 DEF IInv, Tasks, Winners
<1>9. /\ barrier' = [barrier EXCEPT ![m] = Cardinality(Span(m))]
      /\ members' = [members EXCEPT ![m] = Span(m)]
      /\ left' = [left EXCEPT ![r] = Span(m)]
      /\ newCursor' = [newCursor EXCEPT ![r] = cursor + Cardinality(Span(m))]
      /\ doc' = [doc EXCEPT ![r] = MergeDispatchResult(doc[r], m, FALSE)]
      /\ pc' = [pc EXCEPT ![r] = "Enqueue"]
      /\ cursor' = cursor
  BY <1>5, <1>6, <1>8 DEF DispatchNext
<1>10. UNCHANGED <<dispatched, cleaned, snap, rec, corr, caller, tpc, attempts, mbOf, okay,
                   named, faults, enq, finished, signalled, wins>>
  BY DEF DispatchNext
<1>11. doc[r] \in Doc /\ doc'[r] = MergeDispatchResult(doc[r], m, FALSE) /\ doc'[r] \in Doc
  BY <1>5, <1>9 DEF IInv, TypeOK, MergeDispatchResult, Doc
<1>12. doc'[r].mb = m /\ doc'[r].marker = doc[r].marker
  BY <1>11 DEF MergeDispatchResult
<1>13. pc'[r] = "Enqueue" /\ \A q \in Runs : q # r => pc'[q] = pc[q]
  BY <1>9 DEF IInv, TypeOK
<1>14. TypeOK'
  <2>1. doc' \in [Runs -> Doc] BY <1>9, <1>11 DEF IInv, TypeOK
  <2>2. pc' \in [Runs -> RunPc] BY <1>9 DEF IInv, TypeOK, RunPc
  <2>3. barrier' \in [MBs -> {Missing} \cup 1..MicroBatchSize]
    BY <1>5, <1>6, <1>9 DEF IInv, TypeOK
  <2>4. members' \in [MBs -> SUBSET Items] /\ left' \in [Runs -> SUBSET Items]
    BY <1>5, <1>9 DEF IInv, TypeOK, Span
  <2>5. newCursor' \in [Runs -> 0..TotalCount] BY <1>6, <1>9 DEF IInv, TypeOK
  <2> QED BY <1>9, <1>10, <2>1, <2>2, <2>3, <2>4, <2>5 DEF IInv, TypeOK
<1>15. Roles' /\ ~MayDispatch' /\ \A q \in {0, 1} : pc'[q] = "Enqueue" => q = r
  <2>1. CASE r = 0
    <3>1. doc[0] = OrchestratorInput /\ cursor = 0 BY <1>1, <2>1 DEF IInv, Roles
    <3>2. MbIndex = 0 BY <3>1, ConstantsAssumption DEF MbIndex
    <3>3. doc'[0].mb = 0 BY <1>5, <1>12, <2>1, <3>2
    <3>4. doc[0].marker = FALSE BY <3>1 DEF OrchestratorInput
    <3>5. ~doc'[0].marker BY <1>12, <2>1, <3>4
    <3>6. Roles' /\ pc'[1] = "none" /\ corr.status = "none"
      BY <1>1, <1>9, <1>10, <1>13, <2>1, <3>3, <3>5, RolesRun0
    <3> QED BY <1>10, <1>13, <2>1, <3>6 DEF MayDispatch
  <2>2. CASE r = 1
    <3>1. pc[0] \in {"Pause", "ended"} /\ doc[1].marker /\ corr.status # "none"
      BY <1>1, <2>2 DEF IInv, Roles
    <3>2. Roles' BY <1>1, <1>9, <1>10, <1>12, <1>13, <2>2, <3>1, RolesRun1
    <3> QED BY <1>13, <2>2, <3>1, <3>2, TwoRuns DEF MayDispatch
  <2> QED BY <1>1, <2>1, <2>2
<1>16. Tasks'
  <2>1. \A k \in MBs : members'[k] \subseteq Span(k)
    BY <1>5, <1>9 DEF IInv, TypeOK, Tasks
  <2>2. \A k \in dispatched : members'[k] # {}
    BY <1>5, <1>8, <1>9 DEF IInv, TypeOK, Tasks
  <2>3. \A i \in Items : enq[i] = 1 => mbOf[i] \in MBs /\ i \in members'[mbOf[i]]
    BY <1>5, <1>7, <1>9 DEF IInv, TypeOK, Tasks
  <2> QED BY <1>10, <2>1, <2>2, <2>3 DEF IInv, Tasks, Span
<1>17. Winners'
  <2>1. \A k \in MBs : k # m => members'[k] = members[k] /\ barrier'[k] = barrier[k]
    BY <1>9 DEF IInv, TypeOK
  <2>2. members'[m] # {} /\ barrier'[m] # Missing
    BY <1>5, <1>6, <1>9 DEF IInv, TypeOK, Missing
  <2>3. pc[1] = "none" => pc'[1] = "none" \/ r = 1 BY <1>13, TwoRuns
  <2>4. pc[1] = "none" => pc'[1] = "none" BY <1>1, <2>3
  <2> QED BY <1>8, <1>10, <2>1, <2>2, <2>4 DEF IInv, Winners
<1>18. Counted'
  <2>1. \A k \in MBs : k # m => members'[k] = members[k] /\ barrier'[k] = barrier[k]
    BY <1>9 DEF IInv, TypeOK
  <2>2. members'[m] = Span(m) /\ barrier'[m] = Cardinality(Span(m))
    BY <1>5, <1>9 DEF IInv, TypeOK
  <2>3. Span(m) \ signalled = Span(m)
    BY <1>3, <1>4 DEF IInv, Tasks, Frontier, Span
  <2> QED BY <1>8, <1>10, <2>1, <2>2, <2>3, SMTT(40) DEF IInv, Counted
<1>19. Cursor'
  <2>1. newCursor'[r] = IF cursor + MicroBatchSize <= TotalCount
                        THEN cursor + MicroBatchSize ELSE TotalCount
    BY <1>4, <1>6, <1>9, ConstantsAssumption DEF IInv, TypeOK
  <2>2. members'[m] = Span(m) /\ left'[r] = Span(m) /\ newCursor'[r] \in Nat
    BY <1>5, <1>6, <1>9, <1>14 DEF IInv, TypeOK
  <2>3. \A i \in Items : i < newCursor'[r] /\ i \notin Span(m) => enq[i] = 1
    BY <1>3, <1>4, <2>1, ConstantsAssumption DEF Span, Items
  <2>4. \A i \in Span(m) : enq[i] = 0
    BY <1>3, <1>4 DEF Frontier, Span
  <2>5. cursor < newCursor'[r] /\ cursor \in Nat
    BY <1>1, <1>4, <2>1, ConstantsAssumption
  <2>6. \A i \in Items : i >= newCursor'[r] => enq[i] = 0
    BY <1>3, <2>2, <2>5 DEF Frontier, Items
  <2>7. \A k \in MBs : MicroBatchSize * k >= newCursor'[r] => members'[k] = {}
    <3>1. TAKE k \in MBs
    <3>2. HAVE MicroBatchSize * k >= newCursor'[r]
    <3>3. MicroBatchSize * k \in Int BY ConstantsAssumption DEF MBs
    <3>4. MicroBatchSize * k >= cursor /\ k # m
      BY <1>4, <2>2, <2>5, <3>2, <3>3
    <3> QED BY <1>3, <1>9, <3>4 DEF Frontier, IInv, TypeOK
  <2>8. cleaned' = FALSE BY <1>3, <1>10 DEF IInv, TypeOK
  <2>9. (Frontier(newCursor[r]))' BY <1>10, <2>6, <2>7 DEF Frontier
  <2> QED
    BY <1>1, <1>3, <1>4, <1>5, <1>9, <1>10, <1>12, <1>15, <2>1, <2>2, <2>3, <2>4, <2>8, <2>9
    DEF Cursor, Span
<1> QED BY <1>14, <1>15, <1>16, <1>17, <1>18, <1>19 DEF IInv

LEMMA EnqueueNextStep ==
    ASSUME IInv, NEW r \in Runs, EnqueueNext(r)
    PROVE  IInv'
<1> DEFINE k == doc[r].mb
<1>1. r \in {0, 1} /\ pc[r] = "Enqueue" BY TwoRuns DEF EnqueueNext
<1>2. /\ ~cleaned /\ k \in MBs /\ members[k] = Span(k) /\ left[r] \subseteq Span(k)
      /\ \A i \in left[r] : enq[i] = 0
  BY <1>1 DEF IInv, Cursor
<1>3. PICK i \in left[r] :
         IF tpc[i] \in {"none", "done"}
         THEN /\ tpc' = [tpc EXCEPT ![i] = "queued"]
              /\ attempts' = [attempts EXCEPT ![i] = 0]
              /\ mbOf' = [mbOf EXCEPT ![i] = k]
              /\ enq' = [enq EXCEPT ![i] = @ + 1]
              /\ left' = [left EXCEPT ![r] = @ \ {i}]
              /\ UNCHANGED pc
         ELSE pc' = [pc EXCEPT ![r] = "Failed"] /\ UNCHANGED <<tpc, attempts, mbOf, enq, left>>
  BY DEF EnqueueNext
<1>4. i \in Items /\ i \in Span(k) /\ enq[i] = 0 /\ tpc[i] = "none" /\ attempts[i] = 0
  BY <1>2, <1>3 DEF IInv, Tasks, Span
<1>5. /\ tpc' = [tpc EXCEPT ![i] = "queued"]
      /\ attempts' = [attempts EXCEPT ![i] = 0]
      /\ mbOf' = [mbOf EXCEPT ![i] = k]
      /\ enq' = [enq EXCEPT ![i] = 1]
      /\ left' = [left EXCEPT ![r] = @ \ {i}]
      /\ UNCHANGED pc
  BY <1>3, <1>4
<1>6. UNCHANGED <<redisVars, doc, newCursor, snap, repoVars, caller, okay, named, faults,
                  members, finished, signalled, wins>>
  BY DEF EnqueueNext
<1> HIDE DEF k
<1>7. TypeOK'
  <2>1. tpc' \in [Items -> TaskPc] /\ mbOf' \in [Items -> MBs \cup {NoMB}]
    BY <1>2, <1>5 DEF IInv, TypeOK, TaskPc
  <2>2. attempts' \in [Items -> 0..(MaxRetry + 1)] /\ enq' \in [Items -> Nat]
    BY <1>5, ConstantsAssumption DEF IInv, TypeOK
  <2>3. left' \in [Runs -> SUBSET Items] BY <1>5 DEF IInv, TypeOK
  <2> QED BY <1>5, <1>6, <2>1, <2>2, <2>3 DEF IInv, TypeOK
<1>8. Roles' BY <1>5, <1>6 DEF IInv, Roles
<1>9. Tasks'
  BY <1>2, <1>4, <1>5, <1>6, ConstantsAssumption DEF IInv, TypeOK, Tasks, Span
<1>10. Winners' BY <1>4, <1>5, <1>6 DEF IInv, TypeOK, Winners
<1>11. Counted'
  <2>1. \A j \in Items : attempts'[j] <= 1 => attempts[j] <= 1
    BY <1>4, <1>5 DEF IInv, TypeOK
  <2>2. \A j \in MBs : members[j] \subseteq Items BY DEF IInv, TypeOK
  <2> QED BY <1>6, <2>1, <2>2 DEF IInv, Counted
<1>12. ~MayDispatch /\ ~MayDispatch' /\ \A q \in {0, 1} : pc[q] = "Enqueue" => q = r
  BY <1>1, <1>5, <1>6 DEF IInv, Roles, MayDispatch
<1>13. Cursor'
  <2>1. left'[r] = left[r] \ {i} /\ enq'[i] = 1 /\ \A j \in Items : j # i => enq'[j] = enq[j]
    BY <1>4, <1>5 DEF IInv, TypeOK
  <2>2. i < newCursor[r]
    <3>1. /\ cursor = MicroBatchSize * k /\ cursor \in Nat
          /\ newCursor[r] = IF cursor + MicroBatchSize <= TotalCount
                            THEN cursor + MicroBatchSize ELSE TotalCount
      BY <1>1 DEF IInv, TypeOK, Cursor, k
    <3> QED BY <1>4, <3>1, ConstantsAssumption DEF Span, Items
  <2>3. \A j \in Items : j >= newCursor[r] => enq'[j] = 0
    <3>1. \A j \in Items : j >= newCursor[r] => enq[j] = 0
      BY <1>1 DEF IInv, Cursor, Frontier
    <3>2. newCursor[r] \in Int /\ i \in Int BY <1>4 DEF IInv, TypeOK, Items
    <3> QED BY <2>1, <2>2, <3>1, <3>2
  <2>4. (Frontier(newCursor[r]))'
    BY <1>1, <1>6, <2>3 DEF IInv, Cursor, Frontier
  <2>5. \A j \in Items : j < newCursor[r] /\ j \notin left'[r] => enq'[j] = 1
    BY <1>1, <2>1 DEF IInv, Cursor
  <2>6. \A j \in left'[r] : enq'[j] = 0
    BY <1>1, <2>1 DEF IInv, TypeOK, Cursor
  <2> QED
    BY <1>1, <1>2, <1>5, <1>6, <1>12, <2>1, <2>4, <2>5, <2>6 DEF IInv, Cursor, Span, k
<1> QED BY <1>7, <1>8, <1>9, <1>10, <1>11, <1>13 DEF IInv

LEMMA MarkDispatchedStep ==
    ASSUME IInv, NEW r \in Runs, MarkDispatched(r)
    PROVE  IInv'
<1> DEFINE k == doc[r].mb
<1>1. r \in {0, 1} /\ pc[r] = "Enqueue" /\ left[r] = {} BY TwoRuns DEF MarkDispatched
<1>2. /\ ~cleaned /\ k \in MBs /\ cursor = MicroBatchSize * k /\ cursor < TotalCount
      /\ members[k] = Span(k)
      /\ newCursor[r] = IF cursor + MicroBatchSize <= TotalCount
                        THEN cursor + MicroBatchSize ELSE TotalCount
      /\ \A i \in Items : i < newCursor[r] => enq[i] = 1
      /\ Frontier(newCursor[r])
  BY <1>1 DEF IInv, Cursor
<1>3. /\ pc' = [pc EXCEPT ![r] = "Check"] /\ cursor' = newCursor[r]
      /\ dispatched' = dispatched \cup {k}
      /\ UNCHANGED <<barrier, cleaned, doc, left, newCursor, snap, repoVars, caller,
                     taskVars, faults, histVars>>
  BY DEF MarkDispatched
<1> HIDE DEF k
<1>4. pc'[r] = "Check" /\ \A q \in Runs : q # r => pc'[q] = pc[q]
  BY <1>3 DEF IInv, TypeOK
<1>5. TypeOK'
  <2>1. pc' \in [Runs -> RunPc] BY <1>3 DEF IInv, TypeOK, RunPc
  <2>2. cursor' \in 0..TotalCount BY <1>3 DEF IInv, TypeOK
  <2>3. dispatched' \subseteq MBs BY <1>2, <1>3 DEF IInv, TypeOK
  <2> QED BY <1>3, <2>1, <2>2, <2>3 DEF IInv, TypeOK
<1>6. Roles'
  <2>1. CASE r = 0 BY <1>1, <1>3, <1>4, <2>1, RolesRun0 DEF IInv, Roles
  <2>2. CASE r = 1
    <3>1. doc'[1].marker /\ corr'.status # "none"
      BY <1>1, <1>3, <2>2 DEF IInv, Roles
    <3> QED BY <1>1, <1>3, <1>4, <2>2, <3>1, RolesRun1
  <2> QED BY <1>1, <2>1, <2>2
<1>7. Tasks'
  <2>1. members[k] # {}
    <3>1. cursor \in Span(k) BY <1>2, ConstantsAssumption, SMTT(40) DEF Span, Items, IInv, TypeOK
    <3> QED BY <1>2, <3>1
  <2> QED BY <1>3, <2>1 DEF IInv, Tasks, Span
<1>8. Winners'
  <2>1. pc[1] = "none" => pc'[1] = "none" BY <1>1, <1>4, TwoRuns
  <2> QED BY <1>3, <2>1 DEF IInv, Winners
<1>9. Counted' BY <1>3 DEF IInv, Counted
<1>10. Cursor'
  <2>1. cursor' = TotalCount \/ \E m \in 0..TotalCount : cursor' = MicroBatchSize * m
    <3>1. k \in Nat /\ k + 1 \in 0..TotalCount BY <1>2, ConstantsAssumption DEF MBs
    <3>2. MicroBatchSize * (k + 1) = MicroBatchSize * k + MicroBatchSize
      BY <3>1, ConstantsAssumption
    <3> QED BY <1>2, <1>3, <3>1, <3>2
  <2>2. \A q \in {0, 1} : pc'[q] # "Enqueue"
    BY <1>1, <1>4, TwoRuns DEF IInv, Roles
  <2>3. Frontier(cursor)' BY <1>2, <1>3 DEF Frontier
  <2>4. \A i \in Items : i < cursor' => enq'[i] = 1 BY <1>2, <1>3
  <2>5. ~cleaned' BY <1>2, <1>3
  <2> QED BY <2>1, <2>2, <2>3, <2>4, <2>5 DEF Cursor
<1> QED BY <1>5, <1>6, <1>7, <1>8, <1>9, <1>10 DEF IInv

-----------------------------------------------------------------------------
(* Steps of the queue and the workers.                                      *)

(* A step that touches no run keeps Roles and Cursor.                       *)
LEMMA RunsKept ==
    ASSUME IInv, UNCHANGED <<cursor, cleaned, runVars, repoVars, enq, members>>,
           pc[1] # "none" => wins'[0] = wins[0]
    PROVE  Roles' /\ Cursor'
<1>1. Roles' BY DEF IInv, Roles
<1>2. MayDispatch' => MayDispatch BY DEF MayDispatch
<1>3. Cursor' BY <1>2, CursorKept DEF IInv
<1> QED BY <1>1, <1>3

(* A task that is not idle was enqueued, into a micro-batch that holds it.  *)
LEMMA ActiveTask ==
    ASSUME IInv, NEW i \in Items, tpc[i] # "none"
    PROVE  enq[i] = 1 /\ mbOf[i] \in MBs /\ i \in members[mbOf[i]] /\ members[mbOf[i]] # {}
BY DEF IInv, Tasks

LEMMA DeliverStep ==
    ASSUME IInv, NEW i \in Items, Deliver(i)
    PROVE  IInv'
<1>1. /\ tpc[i] = "queued" /\ tpc' = [tpc EXCEPT ![i] = "delivered"]
      /\ attempts' = [attempts EXCEPT ![i] = @ + 1]
      /\ UNCHANGED <<redisVars, runVars, repoVars, caller, mbOf, okay, named, faults,
                     histVars>>
  BY DEF Deliver
<1>2. attempts[i] \in 0..MaxRetry BY <1>1, ConstantsAssumption DEF IInv, TypeOK, Tasks
<1>3. TypeOK'
  <2>1. tpc' \in [Items -> TaskPc] BY <1>1 DEF IInv, TypeOK, TaskPc
  <2>2. attempts' \in [Items -> 0..(MaxRetry + 1)]
    BY <1>1, <1>2, ConstantsAssumption DEF IInv, TypeOK
  <2> QED BY <1>1, <2>1, <2>2 DEF IInv, TypeOK
<1>4. Roles' /\ Cursor' BY <1>1, RunsKept
<1>5. Tasks'
  BY <1>1, <1>2, ActiveTask, ConstantsAssumption DEF IInv, TypeOK, Tasks, Span
<1>6. Winners' BY <1>1 DEF IInv, TypeOK, Winners
<1>7. Counted'
  <2>1. \A j \in Items : attempts'[j] <= 1 => attempts[j] <= 1
    BY <1>1, <1>2, ConstantsAssumption DEF IInv, TypeOK
  <2>2. \A k \in MBs : members[k] \subseteq Items BY DEF IInv, TypeOK
  <2> QED BY <1>1, <2>1, <2>2 DEF IInv, Counted
<1> QED BY <1>3, <1>4, <1>5, <1>6, <1>7 DEF IInv

LEMMA StartExecutionStep ==
    ASSUME IInv, NEW i \in Items, StartExecution(i)
    PROVE  IInv'
<1>1. /\ tpc[i] = "delivered"
      /\ \/ tpc' = [tpc EXCEPT ![i] = "executing"] /\ UNCHANGED finished
         \/ tpc' = [tpc EXCEPT ![i] = "signal"] /\ finished' = finished \cup {i}
      /\ UNCHANGED <<redisVars, runVars, repoVars, caller, attempts, mbOf, faults, enq,
                     members, signalled, wins>>
  BY DEF StartExecution
<1>2. TypeOK'
  <2>1. tpc' \in [Items -> TaskPc] BY <1>1 DEF IInv, TypeOK, TaskPc
  <2>2. okay' \in [Items -> BOOLEAN] BY DEF StartExecution, IInv, TypeOK
  <2>3. named' \subseteq Items /\ finished' \subseteq Items
    BY DEF StartExecution, IInv, TypeOK
  <2> QED BY <1>1, <2>1, <2>2, <2>3 DEF IInv, TypeOK
<1>3. Roles' /\ Cursor' BY <1>1, RunsKept
<1>4. Tasks' BY <1>1, ActiveTask DEF IInv, TypeOK, Tasks, Span
<1>5. Winners' BY <1>1 DEF IInv, TypeOK, Winners
<1>6. Counted' BY <1>1 DEF IInv, Counted
<1> QED BY <1>2, <1>3, <1>4, <1>5, <1>6 DEF IInv

LEMMA FinishExecutionStep ==
    ASSUME IInv, NEW i \in Items, FinishExecution(i)
    PROVE  IInv'
<1>1. /\ tpc[i] = "executing" /\ tpc' = [tpc EXCEPT ![i] = "signal"]
      /\ finished' = finished \cup {i}
      /\ UNCHANGED <<redisVars, runVars, repoVars, caller, attempts, mbOf, named, faults,
                     enq, members, signalled, wins>>
  BY DEF FinishExecution
<1>2. TypeOK'
  <2>1. tpc' \in [Items -> TaskPc] BY <1>1 DEF IInv, TypeOK, TaskPc
  <2>2. okay' \in [Items -> BOOLEAN] BY DEF FinishExecution, IInv, TypeOK
  <2>3. finished' \subseteq Items BY <1>1 DEF IInv, TypeOK
  <2> QED BY <1>1, <2>1, <2>2, <2>3 DEF IInv, TypeOK
<1>3. Roles' /\ Cursor' BY <1>1, RunsKept
<1>4. Tasks' BY <1>1, ActiveTask DEF IInv, TypeOK, Tasks, Span
<1>5. Winners' BY <1>1 DEF IInv, TypeOK, Winners
<1>6. Counted' BY <1>1 DEF IInv, Counted
<1> QED BY <1>2, <1>3, <1>4, <1>5, <1>6 DEF IInv

(* What asynq does with an attempt that ended.                              *)
LEMMA AfterAttemptType ==
    ASSUME NEW i \in Items, NEW b
    PROVE  /\ AfterAttempt(i, b) \in {"queued", "done", "archived"}
           /\ AfterAttempt(i, b) = "queued" => attempts[i] <= MaxRetry
BY DEF AfterAttempt

LEMMA AttemptLostStep ==
    ASSUME IInv, NEW i \in Items, AttemptLost(i)
    PROVE  IInv'
<1>1. PICK s \in {"queued", "done", "archived"} :
         /\ tpc[i] \in {"delivered", "executing", "signal", "resume"}
         /\ tpc' = [tpc EXCEPT ![i] = s] /\ (s = "queued" => attempts[i] <= MaxRetry)
  BY AfterAttemptType DEF AttemptLost
<1>2. UNCHANGED <<redisVars, runVars, repoVars, caller, attempts, mbOf, okay, named,
                  histVars>>
  BY DEF AttemptLost
<1>3. TypeOK'
  <2>1. tpc' \in [Items -> TaskPc] BY <1>1 DEF IInv, TypeOK, TaskPc
  <2>2. faults' \in 0..MaxFaults BY ConstantsAssumption DEF AttemptLost, IInv, TypeOK
  <2> QED BY <1>2, <2>1, <2>2 DEF IInv, TypeOK
<1>4. Roles' /\ Cursor' BY <1>2, RunsKept
<1>5. Tasks' BY <1>1, <1>2, ActiveTask DEF IInv, TypeOK, Tasks, Span
<1>6. Winners' BY <1>1, <1>2 DEF IInv, TypeOK, Winners
<1>7. Counted' BY <1>2 DEF IInv, Counted
<1> QED BY <1>3, <1>4, <1>5, <1>6, <1>7 DEF IInv

LEMMA DecrementStep ==
    ASSUME IInv, NEW i \in Items, Decrement(i)
    PROVE  IInv'
<1> DEFINE k == mbOf[i]
<1>1. tpc[i] = "signal" BY DEF Decrement
<1>2. /\ k \in MBs /\ i \in members[k] /\ members[k] # {} /\ i \in finished
      /\ enq[i] = 1 /\ attempts[i] \in Nat
  BY <1>1, ActiveTask, ConstantsAssumption DEF IInv, TypeOK, Tasks
<1>3. /\ signalled' = signalled \cup {i}
      /\ UNCHANGED <<cursor, dispatched, cleaned, runVars, repoVars, caller, attempts,
                     mbOf, okay, named, faults, enq, members, finished>>
  BY DEF Decrement
<1>4. PICK s \in {"queued", "done", "archived", "resume"} :
         /\ tpc' = [tpc EXCEPT ![i] = s]
         /\ s = "queued" => attempts[i] <= MaxRetry
         /\ \/ barrier[k] = Missing /\ s # "resume" /\ UNCHANGED <<barrier, wins>>
            \/ /\ barrier[k] # Missing /\ barrier[k] - 1 # 0 /\ s # "resume"
               /\ barrier' = [barrier EXCEPT ![k] = barrier[k] - 1] /\ UNCHANGED wins
            \/ /\ barrier[k] # Missing /\ barrier[k] - 1 = 0 /\ s = "resume"
               /\ barrier' = [barrier EXCEPT ![k] = Missing]
               /\ wins' = [wins EXCEPT ![k] = @ + 1]
  BY AfterAttemptType DEF Decrement
<1> HIDE DEF k
<1>5. tpc'[i] = s /\ \A j \in Items : j # i => tpc'[j] = tpc[j]
  BY <1>4 DEF IInv, TypeOK
<1>6. barrier[k] \in {Missing} \cup 1..MicroBatchSize /\ wins[k] \in Nat
  BY <1>2 DEF IInv, TypeOK
<1>7. \/ barrier[k] = Missing /\ wins[k] = 1
      \/ barrier[k] \in 1..MicroBatchSize /\ barrier[k] # Missing /\ wins[k] = 0
  BY <1>2, <1>6, ConstantsAssumption DEF IInv, Winners, Missing
<1>8. \A j \in MBs : j # k => barrier'[j] = barrier[j] /\ wins'[j] = wins[j]
  BY <1>4 DEF IInv, TypeOK
<1>9. TypeOK'
  <2>1. tpc' \in [Items -> TaskPc] BY <1>4 DEF IInv, TypeOK, TaskPc
  <2>2. barrier' \in [MBs -> {Missing} \cup 1..MicroBatchSize]
    BY <1>4, <1>6, ConstantsAssumption DEF IInv, TypeOK
  <2>3. wins' \in [MBs -> Nat] BY <1>4, <1>6 DEF IInv, TypeOK
  <2>4. signalled' \subseteq Items BY <1>3 DEF IInv, TypeOK
  <2> QED BY <1>3, <2>1, <2>2, <2>3, <2>4 DEF IInv, TypeOK
<1>10. pc[1] # "none" => wins'[0] = wins[0]
  <2>1. CASE k = 0
    <3>1. pc[1] # "none" => wins[k] = 1 BY <2>1 DEF IInv, Roles
    <3> QED BY <1>4, <1>7, <2>1, <3>1
  <2>2. CASE k # 0 BY <1>8, <2>2, TwoRuns
  <2> QED BY <2>1, <2>2
<1>11. Roles' /\ Cursor' BY <1>3, <1>10, RunsKept
<1>12. attempts[i] >= 1 /\ (i \in signalled => attempts[i] >= 2)
  BY <1>1 DEF IInv, Tasks
<1>13. Tasks' BY <1>2, <1>3, <1>4, <1>5, <1>12 DEF IInv, TypeOK, Tasks, Span
<1>14. Winners'
  <2>1. \/ members'[k] # {} /\ barrier'[k] # Missing /\ wins'[k] = 0
        \/ members'[k] # {} /\ barrier'[k] = Missing /\ wins'[k] = 1
    BY <1>2, <1>3, <1>4, <1>6, <1>7, ConstantsAssumption DEF IInv, TypeOK, Missing
  <2>2. \A j \in MBs : wins[j] = 1 => wins'[j] = 1 BY <1>2, <1>4, <1>7, <1>8
  <2>3. s = "resume" => wins'[k] = 1 /\ wins[k] = 0
    BY <1>2, <1>4, <1>6, <1>7 DEF IInv, TypeOK
  <2>4. s = "resume" /\ k = 0 => pc[1] = "none" BY <2>3 DEF IInv, Roles
  <2>5. \A j \in Items : tpc[j] = "resume" => mbOf[j] \in MBs
    BY ActiveTask
  <2>6. \A j \in Items : tpc'[j] = "resume" =>
           wins'[mbOf[j]] = 1 /\ (mbOf[j] = 0 => pc[1] = "none")
    BY <1>5, <2>2, <2>3, <2>4, <2>5 DEF IInv, Winners, k
  <2>7. \A j, l \in Items :
           tpc'[j] = "resume" /\ tpc'[l] = "resume" /\ mbOf[j] = mbOf[l] => j = l
    BY <1>5, <2>3 DEF IInv, Winners, k
  <2> QED BY <1>3, <1>8, <2>1, <2>6, <2>7 DEF IInv, Winners
<1>15. Counted'
  <2>1. SUFFICES ASSUME NEW j \in MBs, members[j] # {},
                        \A l \in members[j] : attempts[l] <= 1
                 PROVE  /\ wins'[j] = 0 => barrier'[j] = Cardinality(members[j] \ signalled')
                        /\ wins'[j] = 1 => members[j] \subseteq signalled'
    BY <1>3 DEF Counted
  <2>2. /\ wins[j] = 0 => barrier[j] = Cardinality(members[j] \ signalled)
        /\ wins[j] = 1 => members[j] \subseteq signalled
    BY <2>1 DEF IInv, Counted
  <2>3. CASE j # k
    <3>1. i \notin members[j]
      BY <1>2, <2>3, SpanDisjoint DEF IInv, Tasks
    <3>2. members[j] \ signalled' = members[j] \ signalled BY <1>3, <3>1
    <3> QED BY <1>3, <1>8, <2>2, <2>3, <3>2
  <2>4. CASE j = k
    <3> DEFINE X == members[k] \ signalled
    <3>1. i \in X /\ X \ {i} = members[k] \ signalled' BY <1>2, <1>3, <1>12, <2>1, <2>4
    <3>2. wins[k] = 0 /\ barrier[k] = Cardinality(X)
      BY <1>7, <2>2, <2>4, <3>1
    <3>3. IsFiniteSet(X) BY <1>2, ItemSetsFinite DEF IInv, TypeOK
    <3>4. Cardinality(X \ {i}) = Cardinality(X) - 1 /\ IsFiniteSet(X \ {i})
      BY <3>1, <3>3, FS_RemoveElement
    <3>5. Cardinality(X \ {i}) = 0 => X \ {i} = {} BY <3>4, FS_EmptySet
    <3> HIDE DEF X
    <3>6. CASE barrier[k] - 1 # 0
      <4>1. barrier'[k] = barrier[k] - 1 /\ wins'[k] = 0
        BY <1>2, <1>4, <1>7, <3>2, <3>6 DEF IInv, TypeOK
      <4> QED BY <2>4, <3>1, <3>2, <3>4, <4>1
    <3>7. CASE barrier[k] - 1 = 0
      <4>1. members[k] \subseteq signalled' BY <3>1, <3>2, <3>4, <3>5, <3>7
      <4>2. wins'[k] = 1 BY <1>2, <1>4, <1>7, <3>2, <3>7 DEF IInv, TypeOK
      <4> QED BY <2>4, <4>1, <4>2
    <3> QED BY <3>6, <3>7
  <2> QED BY <2>3, <2>4
<1> QED BY <1>9, <1>11, <1>13, <1>14, <1>15 DEF IInv

LEMMA ResumeOrchestratorStep ==
    ASSUME IInv, NEW i \in Items, ResumeOrchestrator(i)
    PROVE  IInv'
<1>1. PICK s \in {"queued", "done", "archived"} :
         /\ tpc[i] = "resume" /\ tpc' = [tpc EXCEPT ![i] = s]
         /\ s = "queued" => attempts[i] <= MaxRetry
  BY AfterAttemptType DEF ResumeOrchestrator
<1>2. UNCHANGED <<redisVars, left, newCursor, repoVars, caller, attempts, mbOf, okay,
                  named, faults, histVars>>
  BY DEF ResumeOrchestrator
<1>3. mbOf[i] \in MBs /\ wins[mbOf[i]] = 1 /\ (mbOf[i] = 0 => pc[1] = "none")
  BY <1>1, ActiveTask DEF IInv, Winners
<1>4. tpc'[i] = s /\ \A j \in Items : j # i => tpc'[j] = tpc[j]
  BY <1>1 DEF IInv, TypeOK
<1>5. \/ UNCHANGED <<snap, doc, pc>>
      \/ /\ corr.status # "none" /\ mbOf[i] = 0
         /\ snap' = [snap EXCEPT ![1] = [status |-> rec.status, cur |-> rec.cur]]
         /\ doc' = [doc EXCEPT ![1] = [rec.out EXCEPT !.marker = TRUE]]
         /\ pc' = [pc EXCEPT ![1] = "Resume"]
  BY <1>3 DEF ResumeOrchestrator, IInv, Roles
<1>6. rec.out \in Doc /\ rec.status \in RowStatus /\ rec.cur \in RowState
  BY DEF IInv, TypeOK, Row
<1>7. [rec.out EXCEPT !.marker = TRUE] \in Doc /\ [rec.out EXCEPT !.marker = TRUE].marker
  BY <1>6 DEF Doc
<1>8. TypeOK'
  <2>1. tpc' \in [Items -> TaskPc] BY <1>1 DEF IInv, TypeOK, TaskPc
  <2>2. pc' \in [Runs -> RunPc] BY <1>5 DEF IInv, TypeOK, RunPc
  <2>3. doc' \in [Runs -> Doc] BY <1>5, <1>7 DEF IInv, TypeOK
  <2>4. snap' \in [Runs -> [status : RowStatus, cur : RowState]]
    BY <1>5, <1>6, SMTT(40) DEF IInv, TypeOK
  <2> QED BY <1>2, <2>1, <2>2, <2>3, <2>4 DEF IInv, TypeOK
<1>9. Tasks' BY <1>1, <1>2, ActiveTask DEF IInv, TypeOK, Tasks, Span
<1>10. Counted' BY <1>2 DEF IInv, Counted
<1>11. CASE UNCHANGED <<snap, doc, pc>>
  <2>1. Roles' /\ Cursor' BY <1>2, <1>11, RunsKept
  <2>2. Winners' BY <1>1, <1>2, <1>4, <1>11 DEF IInv, Winners
  <2> QED BY <1>8, <1>9, <1>10, <2>1, <2>2 DEF IInv
<1>12. CASE /\ corr.status # "none" /\ mbOf[i] = 0
            /\ doc' = [doc EXCEPT ![1] = [rec.out EXCEPT !.marker = TRUE]]
            /\ pc' = [pc EXCEPT ![1] = "Resume"]
  <2>1. /\ pc[1] = "none" /\ wins[0] = 1
        /\ pc'[1] = "Resume" /\ \A q \in Runs : q # 1 => pc'[q] = pc[q]
        /\ doc'[1].marker /\ doc'[0] = doc[0]
    BY <1>3, <1>7, <1>12, TwoRuns DEF IInv, TypeOK
  <2>2. Roles' BY <1>2, <1>12, <2>1, TwoRuns DEF IInv, Roles
  <2>3. MayDispatch' => MayDispatch BY <1>2, <1>12, <2>1, TwoRuns DEF MayDispatch
  <2>4. Cursor' BY <1>2, <2>1, <2>3, TwoRuns, CursorKept DEF IInv
  <2>5. \A j \in Items : tpc'[j] = "resume" => j # i /\ tpc[j] = "resume" /\ mbOf[j] # 0
    BY <1>1, <1>4, <1>12 DEF IInv, Winners
  <2>6. Winners' BY <1>2, <2>5 DEF IInv, Winners
  <2> QED BY <1>8, <1>9, <1>10, <2>2, <2>4, <2>6 DEF IInv
<1> QED BY <1>5, <1>11, <1>12

-----------------------------------------------------------------------------
(* The invariant and what follows from it.                                  *)

LEMMA InitInv == Init => IInv
<1> SUFFICES ASSUME Init PROVE IInv OBVIOUS
<1>1. TypeOK
  <2>1. OrchestratorInput \in Doc /\ EmptyDoc \in Doc
    BY DEF OrchestratorInput, EmptyDoc, Doc
  <2>2. rec \in Row BY <2>1 DEF Init, Row, RowStatus, RowState
  <2>3. snap \in [Runs -> [status : RowStatus, cur : RowState]]
    BY DEF Init, RowStatus, RowState
  <2>4. pc \in [Runs -> RunPc] BY DEF Init, RunPc
  <2>5. /\ tpc \in [Items -> TaskPc] /\ okay \in [Items -> BOOLEAN]
        /\ mbOf \in [Items -> MBs \cup {NoMB}] /\ named \subseteq Items
    BY DEF Init, TaskPc
  <2>6. /\ cursor \in 0..TotalCount /\ newCursor \in [Runs -> 0..TotalCount]
        /\ attempts \in [Items -> 0..(MaxRetry + 1)] /\ faults \in 0..MaxFaults
        /\ enq \in [Items -> Nat] /\ wins \in [MBs -> Nat]
    BY ConstantsAssumption DEF Init
  <2>7. doc \in [Runs -> Doc] /\ left \in [Runs -> SUBSET Items] BY <2>1 DEF Init
  <2>8. /\ barrier \in [MBs -> {Missing} \cup 1..MicroBatchSize]
        /\ members \in [MBs -> SUBSET Items]
        /\ dispatched \subseteq MBs /\ finished \subseteq Items /\ signalled \subseteq Items
    BY DEF Init
  <2>9. /\ corr \in [status : {"none", "WAITING", "RECEIVED"}, mb : MBs \cup {NoMB}]
        /\ caller \in {"running", "polling", "nil", "error"}
    BY DEF Init
  <2>10. cleaned \in BOOLEAN BY DEF Init
  <2> QED
    BY <2>2, <2>3, <2>4, <2>5, <2>6, <2>7, <2>8, <2>9, <2>10 DEF TypeOK
<1>2. pc[0] = "Dispatch" /\ pc[1] = "none" /\ corr.status = "none"
  BY TwoRuns DEF Init
<1>3. Roles BY <1>2, TwoRuns DEF Init, Roles
<1>4. Cursor
  <2>1. \E m \in 0..TotalCount : cursor = MicroBatchSize * m
    <3>1. 0 \in 0..TotalCount /\ MicroBatchSize * 0 = 0 BY ConstantsAssumption
    <3> QED BY <3>1 DEF Init
  <2> QED BY <1>2, <2>1 DEF Init, Cursor, Frontier, Items
<1>5. Tasks BY DEF Init, Tasks
<1>6. Winners /\ Counted BY DEF Init, Winners, Counted
<1> QED BY <1>1, <1>3, <1>4, <1>5, <1>6 DEF IInv

LEMMA NextInv == IInv /\ [Next]_vars => IInv'
<1> SUFFICES ASSUME IInv, [Next]_vars PROVE IInv' OBVIOUS
<1>1. ASSUME NEW r \in Runs, RunStep(r) PROVE IInv'
  BY <1>1, DispatchCompleteStep, DispatchNextStep, EnqueueNextStep, MarkDispatchedStep,
     CheckIfCompleteStep, MessageReceivedStep, SaveMessageCorrelationStep,
     PauseExecutionStep, EvaluateMicroBatchStep, TerminateStep, ResumeExecutionStep
  DEF RunStep
<1>2. ASSUME NEW r \in Runs, TaskStateError(r) PROVE IInv'
  BY <1>2, TaskStateErrorStep
<1>3. ASSUME NEW i \in Items, TaskStep(i) PROVE IInv'
  BY <1>3, DeliverStep, StartExecutionStep, FinishExecutionStep, DecrementStep,
     ResumeOrchestratorStep
  DEF TaskStep
<1>4. ASSUME NEW i \in Items, AttemptLost(i) PROVE IInv'
  BY <1>4, AttemptLostStep
<1>5. CASE WaitForTermination
  <2>1. TypeOK' BY <1>5 DEF WaitForTermination, IInv, TypeOK
  <2>2. Roles' /\ Cursor' BY <1>5, RunsKept DEF WaitForTermination
  <2>3. Tasks' /\ Winners' /\ Counted' BY <1>5, TasksKept DEF WaitForTermination
  <2> QED BY <2>1, <2>2, <2>3 DEF IInv
<1>6. CASE UNCHANGED vars
  <2>1. TypeOK' BY <1>6 DEF vars, IInv, TypeOK
  <2>2. Roles' /\ Cursor' BY <1>6, RunsKept DEF vars
  <2>3. Tasks' /\ Winners' /\ Counted' BY <1>6, TasksKept DEF vars
  <2> QED BY <2>1, <2>2, <2>3 DEF IInv
<1> QED BY <1>1, <1>2, <1>3, <1>4, <1>5, <1>6 DEF Next

(* Every reachable state satisfies the inductive invariant: one dispatching *)
(* run at a time, and barriers that count the members yet to signal.        *)
THEOREM Invariance == Spec => []IInv
BY InitInv, NextInv, PTL DEF Spec

(* Type correctness: the Redis counters, the rows and the queue stay in     *)
(* range; no existing barrier key holds 0 or a negative value.              *)
THEOREM TypeCorrect == Spec => []TypeOK
<1>1. IInv => TypeOK BY DEF IInv
<1> QED BY <1>1, Invariance, PTL

(* The Lua script elects at most one winner per micro-batch, for any number *)
(* of workers, redeliveries and failures.                                   *)
THEOREM OneWinnerHolds == Spec => []OneWinner
<1>1. IInv => OneWinner BY DEF IInv, Winners, OneWinner
<1> QED BY <1>1, Invariance, PTL

(* handleDispatch never enqueues a source execution twice.                  *)
THEOREM EnqueueOnceHolds == Spec => []EnqueueOnce
<1>1. IInv => EnqueueOnce BY DEF IInv, Tasks, EnqueueOnce
<1> QED BY <1>1, Invariance, PTL

(* A micro-batch none of whose tasks was redelivered is joined only after   *)
(* all of its tasks have an outcome.                                        *)
THEOREM JoinSoundHolds == Spec => []JoinSound
<1>1. IInv => JoinSound
  <2>1. SUFFICES ASSUME IInv, NEW k \in MBs, wins[k] > 0,
                        \A i \in members[k] : attempts[i] <= 1
                 PROVE  members[k] \subseteq finished
    BY DEF JoinSound
  <2>2. members[k] # {} /\ wins[k] = 1 BY <2>1 DEF IInv, Winners
  <2>3. members[k] \subseteq signalled BY <2>1, <2>2 DEF IInv, Counted
  <2>4. members[k] \subseteq Items BY <2>1 DEF IInv, TypeOK
  <2>5. \A i \in Items : i \in signalled => i \in finished BY <2>1 DEF IInv, Tasks
  <2> QED BY <2>3, <2>4, <2>5
<1> QED BY <1>1, Invariance, PTL

(* cleanupBatchResources runs only after every id was enqueued.             *)
THEOREM CleanupAfterDispatchHolds == Spec => []CleanupAfterDispatch
<1>1. IInv => CleanupAfterDispatch BY DEF IInv, Cursor, CleanupAfterDispatch
<1> QED BY <1>1, Invariance, PTL

=============================================================================
