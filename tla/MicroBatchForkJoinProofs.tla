---------------------- MODULE MicroBatchForkJoinProofs ----------------------
(***************************************************************************)
(* Proof that, without redelivery, MicroBatch implements ForkJoin, for     *)
(* every batch size, micro-batch size and number of failures.              *)
(***************************************************************************)
EXTENDS MicroBatchForkJoin, MicroBatchProofs

-----------------------------------------------------------------------------
(* The group of an item                                                     *)

LEMMA GroupIsSpan ==
    ASSUME NEW k \in MBs
    PROVE  FJ!Tasks(k) = Span(k)
<1>1. MicroBatchSize \in Nat \ {0} /\ k \in Nat BY ConstantsAssumption DEF MBs
<1>2. ASSUME NEW i \in Items
      PROVE  MbOfItem(i) = k <=> i \in Span(k)
  <2>1. i \in Nat BY DEF Items
  <2>2. i \div MicroBatchSize = k <=>
          MicroBatchSize * k <= i /\ i < MicroBatchSize * k + MicroBatchSize
    BY <1>1, <2>1
  <2> QED BY <2>2 DEF MbOfItem, Span
<1> QED BY <1>2 DEF FJ!Tasks, Span

-----------------------------------------------------------------------------
(* A barrier is initialised for all items of its micro-batch at once.       *)

WholeGroups == \A k \in MBs : members[k] = {} \/ members[k] = Span(k)

LEMMA DispatchWhole ==
    ASSUME IInv, WholeGroups, NEW r \in Runs, DispatchNext(r)
    PROVE  WholeGroups'
<1>1. r \in {0, 1} /\ pc[r] = "Dispatch" /\ cursor < TotalCount
  BY TwoRuns DEF DispatchNext
<1>2. MayDispatch BY <1>1 DEF IInv, Roles, MayDispatch
<1>3. PICK m \in Nat : cursor = MicroBatchSize * m
  <2>1. cursor # TotalCount BY <1>1, ConstantsAssumption DEF IInv, TypeOK
  <2>2. \E m \in 0..TotalCount : cursor = MicroBatchSize * m
    BY <1>2, <2>1 DEF IInv, Cursor
  <2> QED BY <2>2
<1>4. ~cleaned BY <1>2 DEF IInv, Cursor
<1>5. MbIndex = m /\ m \in MBs /\ Slice = Span(m)
  BY <1>1, <1>3, <1>4, IndexOfMultiple, SliceIsSpan
<1>6. members' = members \/ members' = [members EXCEPT ![m] = Span(m)]
  BY <1>5 DEF DispatchNext
<1>7. \A k \in MBs : members'[k] = members[k] \/ (k = m /\ members'[k] = Span(k))
  BY <1>5, <1>6 DEF IInv, TypeOK
<1> QED BY <1>7 DEF WholeGroups, Span

LEMMA WholeStep == IInv /\ WholeGroups /\ [Next]_vars => WholeGroups'
<1> SUFFICES ASSUME IInv, WholeGroups, [Next]_vars PROVE WholeGroups' OBVIOUS
<1>1. CASE \E r \in Runs : DispatchNext(r) BY <1>1, DispatchWhole
<1>2. CASE ~\E r \in Runs : DispatchNext(r)
  <2>1. ASSUME NEW r \in Runs, RunStep(r) \/ TaskStateError(r) PROVE members' = members
    BY <1>2, <2>1 DEF RunStep, DispatchComplete, EnqueueNext, MarkDispatched,
       CheckIfComplete, MessageReceived, SaveMessageCorrelation, PauseExecution,
       EvaluateMicroBatch, Terminate, ResumeExecution, TaskStateError, histVars
  <2>2. ASSUME NEW i \in Items, TaskStep(i) \/ AttemptLost(i) PROVE members' = members
    BY <2>2 DEF TaskStep, Deliver, StartExecution, FinishExecution, Decrement,
       ResumeOrchestrator, AttemptLost, histVars
  <2>3. CASE WaitForTermination BY <2>3 DEF WaitForTermination, histVars, WholeGroups, Span
  <2>4. CASE UNCHANGED vars BY <2>4 DEF vars, histVars, WholeGroups, Span
  <2>5. CASE members' = members BY <2>5 DEF WholeGroups, Span
  <2> QED BY <2>1, <2>2, <2>3, <2>4, <2>5 DEF Next
<1> QED BY <1>1, <1>2

-----------------------------------------------------------------------------
(* Each step is a step of ForkJoin.                                         *)

LEMMA Stutters ==
    ASSUME UNCHANGED <<enq, finished, wins>>
    PROVE  UNCHANGED FJ!vars
BY DEF FJ!vars

LEMMA DeliveredOnce ==
    ASSUME MaxRetry = 0, IInv, NEW k \in MBs
    PROVE  \A j \in members[k] : attempts[j] <= 1
<1>1. members[k] \subseteq Items /\ attempts \in [Items -> 0..(MaxRetry + 1)]
  BY DEF IInv, TypeOK
<1>2. \A j \in Items : attempts[j] \in 0..1 BY <1>1
<1> QED BY <1>1, <1>2

(* An item is enqueued once, and before its micro-batch has a winner.       *)
LEMMA Forks ==
    ASSUME MaxRetry = 0, IInv, WholeGroups, NEW r \in Runs, EnqueueNext(r)
    PROVE  FJ!Next \/ UNCHANGED FJ!vars
<1> DEFINE k == doc[r].mb
<1>1. r \in {0, 1} /\ pc[r] = "Enqueue" BY TwoRuns DEF EnqueueNext
<1>2. /\ k \in MBs /\ members[k] = Span(k) /\ left[r] \subseteq Span(k)
      /\ \A j \in left[r] : enq[j] = 0
  BY <1>1 DEF IInv, Cursor
<1>3. UNCHANGED <<finished, wins>> BY DEF EnqueueNext
<1>4. PICK i \in left[r] : enq' = [enq EXCEPT ![i] = @ + 1] \/ UNCHANGED enq
  BY DEF EnqueueNext
<1>5. CASE UNCHANGED enq BY <1>3, <1>5, Stutters
<1>6. CASE enq' = [enq EXCEPT ![i] = @ + 1]
  <2>1. i \in Items /\ i \in Span(k) /\ enq[i] = 0 BY <1>2, <1>4 DEF Span
  <2>2. \A j \in Items : enq[j] \in Nat BY DEF IInv, TypeOK
  <2>3. \A j \in Items : enq'[j] = IF j = i THEN 1 ELSE enq[j]
    BY <1>6, <2>1 DEF IInv, TypeOK
  <2>4. {j \in Items : enq'[j] > 0} = {j \in Items : enq[j] > 0} \cup {i}
    BY <2>1, <2>2, <2>3
  <2>5. i \notin {j \in Items : enq[j] > 0} BY <2>1
  <2>6. MbOfItem(i) = k BY <1>2, <2>1, GroupIsSpan DEF FJ!Tasks
  <2>7. i \notin signalled BY <2>1 DEF IInv, Tasks
  <2>8. wins[k] # 1
    <3>1. members[k] # {} BY <1>2, <2>1
    <3>2. \A j \in members[k] : attempts[j] <= 1 BY <1>2, DeliveredOnce
    <3> QED BY <1>2, <2>1, <2>7, <3>1, <3>2 DEF IInv, Counted
  <2>9. k \notin {j \in MBs : wins[j] > 0} BY <1>2, <2>8 DEF IInv, Winners
  <2>10. FJ!Fork(i) BY <1>3, <2>4, <2>5, <2>6, <2>9 DEF FJ!Fork
  <2> QED BY <2>1, <2>10 DEF FJ!Next
<1> QED BY <1>4, <1>5, <1>6

(* An outcome belongs to an item that was enqueued.                         *)
LEMMA Finishes ==
    ASSUME IInv, NEW i \in Items, StartExecution(i) \/ FinishExecution(i)
    PROVE  FJ!Next \/ UNCHANGED FJ!vars
<1>1. UNCHANGED <<enq, wins>> BY DEF StartExecution, FinishExecution
<1>2. finished' = finished \/ finished' = finished \cup {i}
  BY DEF StartExecution, FinishExecution
<1>3. CASE finished' = finished BY <1>1, <1>3, Stutters
<1>4. CASE finished' # finished /\ finished' = finished \cup {i}
  <2>1. i \notin finished BY <1>4
  <2>2. tpc[i] # "none" BY DEF StartExecution, FinishExecution
  <2>3. enq[i] > 0 BY <2>2 DEF IInv, Tasks
  <2>4. FJ!Finish(i) BY <1>1, <1>4, <2>1, <2>3 DEF FJ!Finish
  <2> QED BY <2>4 DEF FJ!Next
<1> QED BY <1>2, <1>3, <1>4

(* The winner is elected when all items of the micro-batch have an outcome. *)
LEMMA Joins ==
    ASSUME MaxRetry = 0, IInv, IInv', WholeGroups, NEW i \in Items, Decrement(i)
    PROVE  FJ!Next \/ UNCHANGED FJ!vars
<1>1. UNCHANGED <<enq, finished, members>> BY DEF Decrement
<1>2. CASE UNCHANGED wins BY <1>1, <1>2, Stutters
<1>3. CASE ~UNCHANGED wins
  <2>1. PICK k : k = mbOf[i] /\ wins' = [wins EXCEPT ![k] = @ + 1] /\ barrier[k] # Missing
    BY <1>3 DEF Decrement
  <2>2. k \in MBs /\ i \in members[k]
    BY <2>1, ActiveTask DEF Decrement
  <2>3. wins[k] = 0 BY <2>1, <2>2 DEF IInv, Winners
  <2>4. \A j \in MBs : wins[j] \in Nat /\ wins'[j] = IF j = k THEN 1 ELSE wins[j]
    BY <2>1, <2>2, <2>3 DEF IInv, TypeOK
  <2>5. {j \in MBs : wins'[j] > 0} = {j \in MBs : wins[j] > 0} \cup {k}
    BY <2>2, <2>4
  <2>6. members[k] = Span(k) BY <2>2 DEF WholeGroups
  <2>7. members[k] \subseteq finished
    <3>1. members'[k] # {} /\ wins'[k] = 1 BY <1>1, <2>2, <2>4
    <3>2. \A j \in members'[k] : attempts'[j] <= 1
      <4>1. UNCHANGED <<attempts, members>> BY DEF Decrement
      <4>2. \A j \in members[k] : attempts[j] <= 1 BY <2>2, DeliveredOnce
      <4> QED BY <4>1, <4>2
    <3>3. members'[k] \subseteq signalled' BY <2>2, <3>1, <3>2 DEF IInv, Counted
    <3>4. \A j \in Items : j \in signalled' => j \in finished' BY DEF IInv, Tasks
    <3>5. members[k] \subseteq Items BY <2>2 DEF IInv, TypeOK
    <3> QED BY <1>1, <3>3, <3>4, <3>5
  <2>8. FJ!Tasks(k) # {} /\ FJ!Tasks(k) \subseteq finished
    BY <2>2, <2>6, <2>7, GroupIsSpan
  <2>9. k \notin {j \in MBs : wins[j] > 0} BY <2>3
  <2>10. FJ!Join(k) BY <1>1, <2>5, <2>8, <2>9 DEF FJ!Join
  <2> QED BY <2>2, <2>10 DEF FJ!Next
<1> QED BY <1>2, <1>3

LEMMA Simulates ==
    ASSUME MaxRetry = 0, IInv, IInv', WholeGroups, [Next]_vars
    PROVE  [FJ!Next]_FJ!vars
<1>1. ASSUME NEW r \in Runs, RunStep(r) \/ TaskStateError(r), ~EnqueueNext(r)
      PROVE  UNCHANGED <<enq, finished, wins>>
  BY <1>1 DEF RunStep, DispatchComplete, DispatchNext, MarkDispatched, CheckIfComplete,
     MessageReceived, SaveMessageCorrelation, PauseExecution, EvaluateMicroBatch,
     Terminate, ResumeExecution, TaskStateError, histVars
<1>2. ASSUME NEW i \in Items, TaskStep(i) \/ AttemptLost(i),
             ~(StartExecution(i) \/ FinishExecution(i) \/ Decrement(i))
      PROVE  UNCHANGED <<enq, finished, wins>>
  BY <1>2 DEF TaskStep, Deliver, ResumeOrchestrator, AttemptLost, histVars
<1>3. CASE WaitForTermination \/ UNCHANGED vars
  <2>1. UNCHANGED <<enq, finished, wins>>
    BY <1>3 DEF WaitForTermination, vars, histVars
  <2> QED BY <2>1, Stutters
<1>4. CASE \E r \in Runs : RunStep(r) \/ TaskStateError(r) BY <1>1, <1>4, Forks, Stutters
<1>5. CASE \E i \in Items : TaskStep(i) \/ AttemptLost(i)
  BY <1>2, <1>5, Finishes, Joins, Stutters
<1> QED BY <1>3, <1>4, <1>5 DEF Next

(* Without redelivery the orchestrator, its barrier and its workers         *)
(* implement ForkJoin: no micro-batch is joined while handleDispatch is     *)
(* still enqueueing its tasks, or before each of them has an outcome.       *)
THEOREM ImplementsForkJoinHolds ==
    ASSUME MaxRetry = 0
    PROVE  Spec => ImplementsForkJoin
<1>1. Init => FJ!Init
  <2>1. SUFFICES ASSUME Init PROVE FJ!Init OBVIOUS
  <2>2. {i \in Items : enq[i] > 0} = {} /\ {k \in MBs : wins[k] > 0} = {} /\ finished = {}
    BY <2>1 DEF Init
  <2> QED BY <2>2 DEF FJ!Init
<1>2. Init => WholeGroups BY DEF Init, WholeGroups
<1>3. IInv /\ IInv' /\ WholeGroups /\ [Next]_vars => [FJ!Next]_FJ!vars BY Simulates
<1>4. IInv /\ WholeGroups /\ [Next]_vars => WholeGroups' BY WholeStep
<1>5. Spec => []IInv BY Invariance
<1> QED BY <1>1, <1>2, <1>3, <1>4, <1>5, PTL DEF Spec, ImplementsForkJoin, FJ!Spec

=============================================================================
