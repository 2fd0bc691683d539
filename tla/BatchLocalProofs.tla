-------------------------- MODULE BatchLocalProofs --------------------------
(***************************************************************************)
(* Proofs, for every number of calls, items and slots, of the safety       *)
(* properties of BatchLocal.                                               *)
(***************************************************************************)
EXTENDS BatchLocal, FiniteSetTheorems, TLAPS

-----------------------------------------------------------------------------
(* The inductive invariant.                                                 *)

(* Before its execution ends a goroutine has no result.                     *)
Early == {"acquire", "check", "name", "save", "link", "run"}

Failed(c, i) == results[c][i] = "error"

(* A call that has not begun.                                               *)
Fresh(c) == call[c] = "new" =>
    /\ ids[c] = {} /\ next[c] = {} /\ ~errChan[c] /\ ~stopProcessing[c]
    /\ returned[c] = "none"
    /\ \A i \in Items : results[c][i] = "nil"

(* Goroutines and results are of items that the loop has passed; goroutines *)
(* exist only during the loop of a local call.                              *)
Frame(c) ==
    /\ next[c] \subseteq ids[c]
    /\ call[c] # "loop" => \A i \in Items : pc[c][i] = "none"
    /\ \A i \in Items : i \notin ids[c] \/ i \in next[c] =>
          pc[c][i] = "none" /\ results[c][i] = "nil"
    /\ \A i \in Items : pc[c][i] \in Early => results[c][i] = "nil"

Enqueueing(c) == call[c] = "enqueue" =>
    /\ returned[c] = "none"
    /\ \A i \in ids[c] \ next[c] : results[c][i] # "nil"
    /\ opts.stop => \A i \in Items : ~Failed(c, i)

(* An item without a result is still running, or was left out after an      *)
(* error; with StopOnError an error is in the channel or about to be sent.  *)
Looping(c) == call[c] = "loop" =>
    /\ \A i \in ids[c] \ next[c] :
          results[c][i] = "nil" => pc[c][i] \in Early \/ stopProcessing[c]
    /\ stopProcessing[c] => errChan[c]
    /\ errChan[c] => opts.stop /\ \E i \in ids[c] : Failed(c, i)
    /\ \A i \in Items : pc[c][i] \in {"report", "stop"} => opts.stop /\ Failed(c, i)
    /\ \A i \in Items : pc[c][i] = "stop" => errChan[c]
    /\ \A i \in Items : Failed(c, i) /\ opts.stop => errChan[c] \/ pc[c][i] = "report"

(* ReturnIsTrue of one call.                                                *)
Returned(c) == call[c] = "returned" =>
    /\ (returned[c] = "error") <=> (opts.stop /\ \E i \in ids[c] : Failed(c, i))
    /\ (\E i \in ids[c] : results[c][i] = "nil") => returned[c] = "error"

(* With one slot, an item that failed keeps the slot until the flag is set. *)
OneSlot(c) == ConcurrentBatches = 1 /\ opts.stop =>
    /\ \A i, j \in Items : Failed(c, i) /\ Failed(c, j) => i = j
    /\ \A i \in Items : pc[c][i] \in {"name", "save", "link", "run"} =>
          \A j \in Items : ~Failed(c, j)
    /\ \A i \in Items : pc[c][i] = "report" => ~errChan[c]
    /\ call[c] = "loop" => \A i \in Items :
          Failed(c, i) => stopProcessing[c] \/ pc[c][i] \in {"report", "stop"}

Local(c) == Fresh(c) /\ Frame(c) /\ Enqueueing(c) /\ Looping(c) /\ Returned(c) /\ OneSlot(c)

(* A task is of an item that its call has enqueued, and its execution is    *)
(* saved before it is linked and run.                                       *)
Queued(c) == \A i \in Items : task[c][i] # "none" =>
    /\ i \in ids[c] \ next[c] /\ call[c] \in {"enqueue", "returned"}
    /\ task[c][i] \in {"link", "run"} => Name(c, i) \in named

(* A goroutine or a worker is about to save the execution, or its link.     *)
Saving(c, i) == pc[c][i] = "save" \/ task[c][i] = "save"

AtLink(c, i) == pc[c][i] = "link" \/ task[c][i] = "link"

(* The call, or a worker for it, is going to save an execution of item i.   *)
Pending(c, i) ==
    \/ call[c] \in {"loop", "enqueue"} /\ i \in next[c]
    \/ pc[c][i] \in {"acquire", "check", "name", "save"}
    \/ task[c][i] = "save"
    \/ task[c][i] = "name" /\ Name(c, i) \notin named

(* Calls that do not overlap: one at a time.                                *)
Alone == \A c, d \in Callers : Active(c) /\ Active(d) => c = d

(* The name that CheckName found free is still free at the save.            *)
NamesFree ==
    \A c \in Callers : \A i \in Items : Saving(c, i) => Name(c, i) \notin named

(* An item that a call with ApplyUnique is going to process was not         *)
(* processed before; one that was is linked, or about to be. Items whose    *)
(* link was lost are left out.                                              *)
Unprocessed == \A c \in Callers : \A i \in Items \ unlinked :
    Pending(c, i) => processed[i] = 0

Linking == \A i \in Items \ unlinked : processed[i] # 0 =>
    processed[i] = 1 /\ (i \in linked \/ \E c \in Callers : AtLink(c, i))

Sequential == overlap = {} =>
    /\ Alone /\ NamesFree /\ reused = {}
    /\ (\A c \in Callers : kind[c] = "unique") => Unprocessed /\ Linking

IInv == TypeOK /\ (\A c \in Callers : Local(c) /\ Queued(c)) /\ Sequential

-----------------------------------------------------------------------------
(* Counting.                                                                *)

USE BatchAssumption

LEMMA ItemSets ==
    ASSUME NEW X \in SUBSET Items
    PROVE  /\ IsFiniteSet(X) /\ Cardinality(X) \in Nat
           /\ \A Y \in SUBSET X : Cardinality(Y) <= Cardinality(X)
<1>1. IsFiniteSet(Items) BY FS_Interval DEF Items
<1>2. IsFiniteSet(X) BY <1>1, FS_Subset
<1> QED BY <1>2, FS_CardinalityType, FS_Subset

(* The index of an item in its call.                                        *)
LEMMA IndexType ==
    ASSUME NEW S \in SUBSET Items, NEW i \in Items
    PROVE  Cardinality({j \in S : j < i}) \in 0..(NumItems - 1)
<1> DEFINE X == {j \in S : j < i}
<1>1. X \subseteq Items \ {i}
  <2>1. i \in Int BY DEF Items
  <2>2. ASSUME NEW j \in X PROVE j \in Items /\ j # i BY <2>1
  <2> QED BY <2>2
<1>2. IsFiniteSet(Items) /\ Cardinality(Items) = NumItems BY FS_Interval DEF Items
<1>3. IsFiniteSet(Items \ {i}) /\ Cardinality(Items \ {i}) = NumItems - 1
  BY <1>2, FS_RemoveElement
<1>4. Cardinality(X) \in Nat /\ Cardinality(X) <= NumItems - 1
  BY <1>1, <1>3, FS_Subset, FS_CardinalityType
<1> QED BY <1>4

(* Two items of a call have different indices.                              *)
LEMMA IndexInjective ==
    ASSUME NEW S \in SUBSET Items, NEW i \in S, NEW k \in S, i # k
    PROVE  Cardinality({j \in S : j < i}) # Cardinality({j \in S : j < k})
<1> DEFINE X(n) == {j \in S : j < n}
<1>1. ASSUME NEW a \in S, NEW b \in S, a < b PROVE Cardinality(X(a)) # Cardinality(X(b))
  <2>0. \A n \in S : n \in Int BY DEF Items
  <2>1. X(a) \in SUBSET X(b)
    <3>1. ASSUME NEW j \in X(a) PROVE j \in X(b) BY <1>1, <2>0, <3>1
    <3> QED BY <3>1
  <2>2. a \in X(b) /\ a \notin X(a) BY <1>1, <2>0
  <2>3. IsFiniteSet(X(b)) BY ItemSets
  <2> HIDE DEF X
  <2> QED BY <2>1, <2>2, <2>3, FS_Subset
<1>2. i < k \/ k < i BY DEF Items
<1> QED BY <1>1, <1>2

(* With one slot at most one goroutine holds it.                            *)
LEMMA OneHolder ==
    ASSUME TypeOK, ConcurrentBatches = 1, NEW c \in Callers,
           NEW i \in Held(c), NEW j \in Held(c)
    PROVE  i = j
<1>1. Held(c) \in SUBSET Items /\ Cardinality(Held(c)) <= 1 BY DEF Held, TypeOK
<1>2. IsFiniteSet(Held(c)) /\ Cardinality(Held(c)) \in Nat BY <1>1, ItemSets
<1>3. Cardinality({i}) = 1 /\ {i} \in SUBSET Held(c) BY FS_Singleton
<1>4. Held(c) = {i} BY <1>1, <1>2, <1>3, FS_Subset
<1> QED BY <1>4

-----------------------------------------------------------------------------
(* Types.                                                                    *)

(* What a step of the goroutine of item i does to the program counters.     *)
LEMMA StepFacts ==
    ASSUME TypeOK, NEW c \in Callers, NEW i \in Items,
           NEW from \in Places, NEW to \in Places, Step(c, i, from, to)
    PROVE  /\ pc[c][i] = from /\ pc'[c][i] = to
           /\ pc' \in [Callers -> [Items -> Places]]
           /\ \A j \in Items \ {i} : pc'[c][j] = pc[c][j]
           /\ \A d \in Callers \ {c} : pc'[d] = pc[d]
BY DEF Step, TypeOK

(* A goroutine that has its slot, or waits for it, or gives it back.        *)
LEMMA SlotsKept ==
    ASSUME TypeOK, NEW c \in Callers, NEW i \in Items,
           NEW from \in Places, NEW to \in Places, Step(c, i, from, to),
           from \notin {"none", "acquire"} \/ to \in {"none", "acquire"}
    PROVE  \A d \in Callers : Cardinality(Held(d)') <= ConcurrentBatches
<1> TAKE d \in Callers
<1>1. Held(d)' \in SUBSET Held(d) BY StepFacts DEF Held
<1>2. Held(d) \in SUBSET Items BY DEF Held
<1>3. Cardinality(Held(d)) <= ConcurrentBatches BY DEF TypeOK
<1>4. Cardinality(Held(d)') <= Cardinality(Held(d)) BY <1>1, <1>2, ItemSets
<1>5. Cardinality(Held(d)) \in Nat /\ Cardinality(Held(d)') \in Nat
  BY <1>1, <1>2, ItemSets
<1> QED BY <1>3, <1>4, <1>5

LEMMA NameType ==
    ASSUME TypeOK, NEW c \in Callers, NEW i \in Items
    PROVE  Name(c, i) \in (SUBSET Callers) \X (0..(NumItems - 1))
<1>1. ids[c] \in SUBSET Items BY DEF TypeOK
<1>2. Cardinality({j \in ids[c] : j < i}) \in 0..(NumItems - 1) BY <1>1, IndexType
<1> QED BY <1>2 DEF Name

LEMMA InitType == Init => TypeOK
<1> SUFFICES ASSUME Init PROVE TypeOK
  OBVIOUS
<1>1. \A c \in Callers : Held(c) = {} BY DEF Init, Held
<1>2. \A c \in Callers : Cardinality(Held(c)) <= ConcurrentBatches BY <1>1, FS_EmptySet
<1>3. /\ pc \in [Callers -> [Items -> Places]]
      /\ results \in [Callers -> [Items -> {"nil", "ok", "error"}]]
  BY DEF Init, Places
<1>4. /\ call \in [Callers -> {"new", "loop", "enqueue", "returned"}]
      /\ ids \in [Callers -> SUBSET Items] /\ next \in [Callers -> SUBSET Items]
      /\ errChan \in [Callers -> BOOLEAN] /\ stopProcessing \in [Callers -> BOOLEAN]
      /\ returned \in [Callers -> {"none", "ok", "error"}]
  BY DEF Init
<1>5. processed \in [Items -> Nat] BY DEF Init
<1>6. task \in [Callers -> [Items -> Unfinished \cup {"none", "archived"}]] BY DEF Init
<1> QED BY <1>2, <1>3, <1>4, <1>5, <1>6 DEF Init, TypeOK

LEMMA CallType ==
    ASSUME TypeOK, NEW c \in Callers,
           ExecuteBatch(c) \/ Return(c) \/ \E i \in Items : EnqueueTask(c, i) \/ SpawnNext(c, i)
    PROVE  TypeOK'
<1>1. ASSUME ExecuteBatch(c) PROVE TypeOK'
  <2>1. ListSources(c) \in SUBSET Items BY DEF ListSources
  <2>2. /\ call' \in [Callers -> {"new", "loop", "enqueue", "returned"}]
        /\ ids' \in [Callers -> SUBSET Items] /\ next' \in [Callers -> SUBSET Items]
        /\ returned' \in [Callers -> {"none", "ok", "error"}]
    BY <1>1, <2>1 DEF ExecuteBatch, TypeOK
  <2> QED BY <1>1, <2>2 DEF ExecuteBatch, TypeOK, Held
<1>2. ASSUME Return(c) PROVE TypeOK'
  <2>1. /\ call' \in [Callers -> {"new", "loop", "enqueue", "returned"}]
        /\ returned' \in [Callers -> {"none", "ok", "error"}]
    BY <1>2 DEF Return, TypeOK
  <2> QED BY <1>2, <2>1 DEF Return, TypeOK, Held
<1>3. ASSUME NEW i \in Items, EnqueueTask(c, i) PROVE TypeOK'
  <2>1. PICK ok \in BOOLEAN :
          LET stops == ~ok /\ opts.stop IN
          /\ ok => ~InQueue(Name(c, i))
          /\ task' = [task EXCEPT ![c][i] = IF ok THEN "name" ELSE @]
          /\ results' = [results EXCEPT ![c][i] = IF ok THEN "ok" ELSE "error"]
          /\ next' = [next EXCEPT ![c] = IF stops THEN {} ELSE @ \ {i}]
          /\ returned' = [returned EXCEPT ![c] = IF stops THEN "error"
                                                 ELSE IF @ = "none" /\ next[c] = {i} THEN "ok" ELSE @]
          /\ call' = [call EXCEPT ![c] = IF stops \/ next[c] = {i} THEN "returned" ELSE @]
    BY <1>3 DEF EnqueueTask
  <2>2. results' \in [Callers -> [Items -> {"nil", "ok", "error"}]] BY <2>1 DEF TypeOK
  <2>3. /\ call' \in [Callers -> {"new", "loop", "enqueue", "returned"}]
        /\ next' \in [Callers -> SUBSET Items]
        /\ returned' \in [Callers -> {"none", "ok", "error"}]
    BY <2>1 DEF TypeOK
  <2>4. UNCHANGED <<opts, kind, ids, pc, errChan, stopProcessing, linked, named,
                    processed, reused, unlinked>>
    BY <1>3 DEF EnqueueTask
  <2>5. task' \in [Callers -> [Items -> Unfinished \cup {"none", "archived"}]]
    BY <2>1 DEF TypeOK, Unfinished
  <2> QED BY <2>2, <2>3, <2>4, <2>5 DEF TypeOK, Held
<1>4. ASSUME NEW i \in Items, SpawnNext(c, i) PROVE TypeOK'
  <2>1. UNCHANGED <<opts, kind, call, ids, results, errChan, stopProcessing, returned,
                    task, linked, named, processed, reused, unlinked>>
    BY <1>4 DEF SpawnNext
  <2>2. CASE stopProcessing[c]
    <3>1. next' = [next EXCEPT ![c] = {}] /\ pc' = pc BY <1>4, <2>2 DEF SpawnNext
    <3>2. next' \in [Callers -> SUBSET Items] BY <3>1 DEF TypeOK
    <3> QED BY <2>1, <3>1, <3>2 DEF TypeOK, Held
  <2>3. CASE ~stopProcessing[c]
    <3>1. next' = [next EXCEPT ![c] = @ \ {i}] /\ pc' = [pc EXCEPT ![c][i] = "acquire"]
      BY <1>4, <2>3 DEF SpawnNext
    <3>2. next' \in [Callers -> SUBSET Items] BY <3>1 DEF TypeOK
    <3>3. /\ pc[c][i] \in Places /\ "acquire" \in Places
          /\ Step(c, i, pc[c][i], "acquire")
      BY <3>1 DEF Step, TypeOK, Places
    <3> QED BY <2>1, <3>2, <3>3, StepFacts, SlotsKept DEF TypeOK
  <2> QED BY <2>2, <2>3
<1> QED BY <1>1, <1>2, <1>3, <1>4

(* Acquire takes a slot only if one is free.                                *)
LEMMA AcquireSlots ==
    ASSUME TypeOK, NEW c \in Callers, NEW i \in Items, Acquire(c, i)
    PROVE  \A d \in Callers : Cardinality(Held(d)') <= ConcurrentBatches
<1>1. Step(c, i, "acquire", "check") /\ "acquire" \in Places /\ "check" \in Places
  BY DEF Acquire, Places
<1>2. Held(c)' = Held(c) \cup {i} BY <1>1, StepFacts DEF Held
<1>3. Held(c) \in SUBSET Items /\ Cardinality(Held(c)) < ConcurrentBatches
  BY DEF Held, Acquire
<1>4. IsFiniteSet(Held(c)) /\ Cardinality(Held(c)) \in Nat BY <1>3, ItemSets
<1>5. Cardinality(Held(c)') <= ConcurrentBatches
  <2>1. Cardinality(Held(c)') \in {Cardinality(Held(c)), Cardinality(Held(c)) + 1}
    BY <1>2, <1>4, FS_AddElement
  <2> QED BY <1>3, <1>4, <2>1
<1>6. ASSUME NEW d \in Callers \ {c} PROVE Cardinality(Held(d)') <= ConcurrentBatches
  <2>1. pc'[d] = pc[d] BY <1>1, <1>6, StepFacts
  <2>2. Held(d)' = Held(d) BY <2>1 DEF Held
  <2> QED BY <2>2 DEF TypeOK
<1> QED BY <1>5, <1>6

(* What Store does to the results.                                          *)
LEMMA StoreFacts ==
    ASSUME TypeOK, NEW c \in Callers, NEW i \in Items, NEW from \in Places,
           NEW ok \in BOOLEAN, Store(c, i, from, ok), from \notin {"none", "acquire"}
    PROVE  /\ results' \in [Callers -> [Items -> {"nil", "ok", "error"}]]
           /\ results'[c][i] = IF ok THEN "ok" ELSE "error"
           /\ \A j \in Items \ {i} : results'[c][j] = results[c][j]
           /\ \A d \in Callers \ {c} : results'[d] = results[d]
           /\ \E to \in {"report", "release"} :
                 Step(c, i, from, to) /\ (to = "report" <=> ~ok /\ opts.stop)
           /\ pc' \in [Callers -> [Items -> Places]]
           /\ \A d \in Callers : Cardinality(Held(d)') <= ConcurrentBatches
<1>1. PICK to \in {"report", "release"} :
        Step(c, i, from, to) /\ (to = "report" <=> ~ok /\ opts.stop)
  BY DEF Store
<1>2. to \in Places BY DEF Places
<1>3. /\ results' \in [Callers -> [Items -> {"nil", "ok", "error"}]]
      /\ results'[c][i] = IF ok THEN "ok" ELSE "error"
      /\ \A j \in Items \ {i} : results'[c][j] = results[c][j]
      /\ \A d \in Callers \ {c} : results'[d] = results[d]
  BY DEF Store, TypeOK
<1> QED BY <1>1, <1>2, <1>3, StepFacts, SlotsKept

LEMMA PersistType ==
    ASSUME TypeOK, NEW c \in Callers, NEW i \in Items, PersistExecution(c, i)
    PROVE  /\ named' \subseteq (SUBSET Callers) \X (0..(NumItems - 1)) /\ reused' \subseteq named'
           /\ processed' \in [Items -> Nat]
<1>1. named' \subseteq (SUBSET Callers) \X (0..(NumItems - 1))
  BY NameType DEF PersistExecution, TypeOK
<1>2. reused' \subseteq named' BY DEF PersistExecution, TypeOK
<1>3. processed' \in [Items -> Nat] BY DEF PersistExecution, TypeOK
<1> QED BY <1>1, <1>2, <1>3

LEMMA ItemType ==
    ASSUME TypeOK, NEW c \in Callers, NEW i \in Items, ItemStep(c, i)
    PROVE  TypeOK'
<1>p. \A at \in {"none", "acquire", "check", "name", "save", "link", "run", "report",
                 "stop", "release"} : at \in Places
  BY DEF Places
<1>1. ASSUME Acquire(c, i) PROVE TypeOK'
  <2>1. pc' \in [Callers -> [Items -> Places]] BY <1>1, <1>p, StepFacts DEF Acquire
  <2> QED BY <1>1, <2>1, AcquireSlots DEF Acquire, TypeOK
<1>s. ASSUME NEW from \in Places, NEW to \in Places, Step(c, i, from, to),
             from \notin {"none", "acquire"}
      PROVE  /\ pc' \in [Callers -> [Items -> Places]]
             /\ \A d \in Callers : Cardinality(Held(d)') <= ConcurrentBatches
  BY <1>s, StepFacts, SlotsKept
<1>2. ASSUME CheckStop(c, i) PROVE TypeOK'
  <2>1. Step(c, i, "check", "release") \/ Step(c, i, "check", "name") BY <1>2 DEF CheckStop
  <2> QED BY <1>2, <1>p, <1>s, <2>1 DEF CheckStop, TypeOK
<1>3. ASSUME CheckName(c, i) PROVE TypeOK'
  <2>1. CASE Step(c, i, "name", "save") /\ UNCHANGED results
    BY <1>3, <1>p, <1>s, <2>1 DEF CheckName, TypeOK
  <2>2. CASE Store(c, i, "name", FALSE)
    BY <1>3, <1>p, <2>2, StoreFacts DEF CheckName, TypeOK
  <2> QED BY <1>3, <2>1, <2>2 DEF CheckName
<1>4. ASSUME SaveExecution(c, i) PROVE TypeOK'
  <2>1. Step(c, i, "save", "run") \/ Step(c, i, "save", "link") BY <1>4 DEF SaveExecution
  <2>2. /\ pc' \in [Callers -> [Items -> Places]]
        /\ \A d \in Callers : Cardinality(Held(d)') <= ConcurrentBatches
    BY <1>p, <1>s, <2>1
  <2>3. PersistExecution(c, i) BY <1>4 DEF SaveExecution
  <2> QED BY <1>4, <2>2, <2>3, PersistType DEF SaveExecution, TypeOK
<1>5. ASSUME SaveLinkedExecution(c, i) PROVE TypeOK'
  <2>1. linked' \subseteq Items /\ unlinked' \subseteq Items
    BY <1>5 DEF SaveLinkedExecution, PersistLink, TypeOK
  <2> QED BY <1>5, <1>p, <1>s, <2>1 DEF SaveLinkedExecution, TypeOK
<1>6. ASSUME RunExecution(c, i) PROVE TypeOK'
  <2>1. PICK ok \in BOOLEAN : Store(c, i, "run", ok) BY <1>6 DEF RunExecution
  <2>2. UNCHANGED <<opts, kind, call, ids, next, errChan, stopProcessing, returned,
                    task, linked, named, processed, reused, unlinked>>
    BY <1>6 DEF RunExecution
  <2>3. /\ results' \in [Callers -> [Items -> {"nil", "ok", "error"}]]
        /\ pc' \in [Callers -> [Items -> Places]]
        /\ \A d \in Callers : Cardinality(Held(d)') <= ConcurrentBatches
    BY <1>p, <2>1, StoreFacts
  <2> QED BY <2>2, <2>3 DEF TypeOK
<1>7. ASSUME ReportError(c, i) PROVE TypeOK'
  <2>1. Step(c, i, "report", "release") \/ Step(c, i, "report", "stop") BY <1>7 DEF ReportError
  <2>2. errChan' \in [Callers -> BOOLEAN] BY <1>7 DEF ReportError, TypeOK
  <2> QED BY <1>7, <1>p, <1>s, <2>1, <2>2 DEF ReportError, TypeOK
<1>8. ASSUME SetStop(c, i) PROVE TypeOK'
  <2>1. stopProcessing' \in [Callers -> BOOLEAN] BY <1>8 DEF SetStop, TypeOK
  <2> QED BY <1>8, <1>p, <1>s, <2>1 DEF SetStop, TypeOK
<1>9. ASSUME Release(c, i) PROVE TypeOK'
  BY <1>9, <1>p, <1>s DEF Release, TypeOK
<1> QED BY <1>1, <1>2, <1>3, <1>4, <1>5, <1>6, <1>7, <1>8, <1>9 DEF ItemStep

(* What a step of the worker of item i does to the tasks.                   *)
LEMMA TaskFacts ==
    ASSUME TypeOK, NEW c \in Callers, NEW i \in Items,
           NEW from, NEW to \in Unfinished \cup {"none", "archived"}, TaskStep(c, i, from, to)
    PROVE  /\ task[c][i] = from /\ task'[c][i] = to
           /\ task' \in [Callers -> [Items -> Unfinished \cup {"none", "archived"}]]
           /\ \A j \in Items \ {i} : task'[c][j] = task[c][j]
           /\ \A d \in Callers \ {c} : task'[d] = task[d]
BY DEF TaskStep, TypeOK

LEMMA WorkerType ==
    ASSUME TypeOK, NEW c \in Callers, NEW i \in Items, WorkerStep(c, i)
    PROVE  TypeOK'
<1>p. \A at \in {"none", "archived", "name", "save", "link", "run"} :
        at \in Unfinished \cup {"none", "archived"}
  BY DEF Unfinished
<1>h. pc' = pc => \A d \in Callers : Cardinality(Held(d)') <= ConcurrentBatches
  BY DEF Held, TypeOK
<1>1. ASSUME WorkerCheckName(c, i) PROVE TypeOK'
  BY <1>1, <1>p, <1>h, TaskFacts DEF WorkerCheckName, TypeOK
<1>2. ASSUME WorkerSave(c, i) PROVE TypeOK'
  <2>1. PersistExecution(c, i) BY <1>2 DEF WorkerSave
  <2>2. TaskStep(c, i, "save", "run") \/ TaskStep(c, i, "save", "link") BY <1>2 DEF WorkerSave
  <2>3. task' \in [Callers -> [Items -> Unfinished \cup {"none", "archived"}]]
    BY <1>p, <2>2, TaskFacts
  <2> QED BY <1>2, <1>h, <2>1, <2>3, PersistType DEF WorkerSave, TypeOK
<1>3. ASSUME WorkerLink(c, i) PROVE TypeOK'
  <2>1. linked' \subseteq Items /\ unlinked' \subseteq Items
    BY <1>3 DEF WorkerLink, PersistLink, TypeOK
  <2> QED BY <1>3, <1>p, <1>h, <2>1, TaskFacts DEF WorkerLink, TypeOK
<1>4. ASSUME WorkerDone(c, i) PROVE TypeOK'
  BY <1>4, <1>p, <1>h, TaskFacts DEF WorkerDone, TypeOK
<1>5. ASSUME WorkerFails(c, i) PROVE TypeOK'
  <2>1. PICK from \in Unfinished, to \in {"name", "archived"} : TaskStep(c, i, from, to)
    BY <1>5 DEF WorkerFails
  <2>2. task' \in [Callers -> [Items -> Unfinished \cup {"none", "archived"}]]
    BY <1>p, <2>1, TaskFacts
  <2>3. unlinked' \subseteq Items BY <1>5 DEF WorkerFails, TypeOK
  <2> QED BY <1>5, <1>h, <2>2, <2>3 DEF WorkerFails, TypeOK
<1> QED BY <1>1, <1>2, <1>3, <1>4, <1>5 DEF WorkerStep

LEMMA NextType == TypeOK /\ [Next]_vars => TypeOK'
<1>1. ASSUME TypeOK, UNCHANGED vars PROVE TypeOK' BY <1>1 DEF vars, TypeOK, Held
<1> QED BY <1>1, CallType, ItemType, WorkerType DEF Next, CallStep

-----------------------------------------------------------------------------
(* The invariant of one call.                                               *)

(* Steps of other calls.                                                    *)
LEMMA OthersKept ==
    ASSUME NEW d \in Callers, Local(d), opts' = opts, call'[d] = call[d], ids'[d] = ids[d],
           next'[d] = next[d], pc'[d] = pc[d], results'[d] = results[d],
           errChan'[d] = errChan[d], stopProcessing'[d] = stopProcessing[d],
           returned'[d] = returned[d]
    PROVE  Local(d)'
<1>1. Fresh(d)' /\ Frame(d)' BY DEF Local, Fresh, Frame
<1>2. Enqueueing(d)' /\ Looping(d)' BY DEF Local, Enqueueing, Looping, Failed
<1>3. Returned(d)' BY DEF Local, Returned, Failed
<1>4. OneSlot(d)' BY DEF Local, OneSlot, Failed
<1> QED BY <1>1, <1>2, <1>3, <1>4 DEF Local

(* Where a goroutine exists, its call loops and has passed its item.        *)
LEMMA RunningItem ==
    ASSUME TypeOK, NEW c \in Callers, Local(c), NEW i \in Items, pc[c][i] # "none"
    PROVE  call[c] = "loop" /\ i \in ids[c] /\ i \notin next[c]
BY DEF Local, Frame

(* Steps of a goroutine that neither store a result nor report one.         *)
LEMMA QuietStep ==
    ASSUME TypeOK, NEW c \in Callers, Local(c), NEW i \in Items,
           NEW from \in Places, NEW to \in Places, Step(c, i, from, to),
           from \notin {"none", "report", "stop"}, to \notin {"report", "stop"},
           to \in Early => from \in Early,
           from \in Early => to \in Early \/ stopProcessing[c],
           to \in {"name", "save", "link", "run"} =>
              from \in {"name", "save", "link"} \/ (from = "check" /\ ~stopProcessing[c]),
           UNCHANGED <<opts, call, ids, next, results, errChan, stopProcessing, returned>>
    PROVE  Local(c)'
<1>1. /\ pc[c][i] = from /\ pc'[c][i] = to
      /\ \A j \in Items \ {i} : pc'[c][j] = pc[c][j]
  BY StepFacts
<1>2. call[c] = "loop" /\ i \in ids[c] /\ i \notin next[c] BY <1>1, RunningItem
<1>3. Fresh(c)' /\ Enqueueing(c)' /\ Returned(c)' BY <1>2 DEF Fresh, Enqueueing, Returned
<1>4. Frame(c)' BY <1>1, <1>2 DEF Local, Frame
<1>5. Looping(c)'
  <2>1. ASSUME NEW j \in ids'[c] \ next'[c], results'[c][j] = "nil"
        PROVE  pc'[c][j] \in Early \/ stopProcessing'[c]
    <3>1. j \in Items BY DEF TypeOK
    <3> QED BY <1>1, <1>2, <2>1, <3>1 DEF Local, Looping
  <2>2. /\ stopProcessing'[c] => errChan'[c]
        /\ errChan'[c] => opts'.stop /\ \E j \in ids'[c] : Failed(c, j)'
    BY <1>2 DEF Local, Looping, Failed
  <2>3. \A j \in Items : pc'[c][j] \in {"report", "stop"} => opts'.stop /\ Failed(c, j)'
    BY <1>1, <1>2 DEF Local, Looping, Failed
  <2>4. \A j \in Items : pc'[c][j] = "stop" => errChan'[c] BY <1>1, <1>2 DEF Local, Looping
  <2>5. \A j \in Items : Failed(c, j)' /\ opts'.stop => errChan'[c] \/ pc'[c][j] = "report"
    BY <1>1, <1>2 DEF Local, Looping, Failed
  <2> QED BY <2>1, <2>2, <2>3, <2>4, <2>5 DEF Looping
<1>6. OneSlot(c)'
  <2> SUFFICES ASSUME ConcurrentBatches = 1, opts.stop
               PROVE  /\ \A j, k \in Items : Failed(c, j)' /\ Failed(c, k)' => j = k
                      /\ \A j \in Items : pc'[c][j] \in {"name", "save", "link", "run"} =>
                            \A k \in Items : ~Failed(c, k)'
                      /\ \A j \in Items : pc'[c][j] = "report" => ~errChan'[c]
                      /\ \A j \in Items : Failed(c, j)' =>
                            stopProcessing'[c] \/ pc'[c][j] \in {"report", "stop"}
    BY DEF OneSlot
  <2>1. \A j, k \in Items : Failed(c, j) /\ Failed(c, k) => j = k BY DEF Local, OneSlot
  <2>2. \A j \in Items : Failed(c, j) => stopProcessing[c] \/ pc[c][j] \in {"report", "stop"}
    BY <1>2 DEF Local, OneSlot
  <2>3. ASSUME NEW j \in Items, pc'[c][j] \in {"name", "save", "link", "run"},
               NEW k \in Items, Failed(c, k)
        PROVE  FALSE
    <3>1. CASE pc[c][j] \in {"name", "save", "link", "run"} BY <2>3, <3>1 DEF Local, OneSlot
    <3>2. CASE pc[c][j] \notin {"name", "save", "link", "run"}
      <4>1. j = i /\ pc[c][i] = "check" /\ ~stopProcessing[c] BY <1>1, <2>3, <3>2
      <4>2. pc[c][k] \in {"report", "stop"} BY <2>2, <2>3, <4>1
      <4>3. i \in Held(c) /\ k \in Held(c) BY <4>1, <4>2 DEF Held
      <4> QED BY <4>1, <4>2, <4>3, OneHolder
    <3> QED BY <3>1, <3>2
  <2>4. \A j \in Items : pc'[c][j] = "report" => ~errChan'[c] BY <1>1 DEF Local, OneSlot
  <2>5. \A j \in Items : pc[c][j] \in {"report", "stop"} => pc'[c][j] = pc[c][j] BY <1>1
  <2> QED BY <2>1, <2>2, <2>3, <2>4, <2>5 DEF Failed
<1> QED BY <1>3, <1>4, <1>5, <1>6 DEF Local

(* A goroutine stores the result of its item.                               *)
LEMMA StoreStep ==
    ASSUME TypeOK, NEW c \in Callers, Local(c), NEW i \in Items, NEW ok \in BOOLEAN,
           NEW from \in {"name", "run"}, Store(c, i, from, ok),
           UNCHANGED <<opts, call, ids, next, errChan, stopProcessing, returned>>
    PROVE  Local(c)'
<1>0. from \in Places BY DEF Places
<1>1. /\ results'[c][i] = IF ok THEN "ok" ELSE "error"
      /\ \A j \in Items \ {i} : results'[c][j] = results[c][j]
  BY <1>0, StoreFacts
<1>2. PICK to \in {"report", "release"} :
        Step(c, i, from, to) /\ (to = "report" <=> ~ok /\ opts.stop)
  BY <1>0, StoreFacts
<1>3. /\ pc[c][i] = from /\ pc'[c][i] = to
      /\ \A j \in Items \ {i} : pc'[c][j] = pc[c][j]
  <2>1. to \in Places BY DEF Places
  <2> QED BY <1>0, <1>2, <2>1, StepFacts
<1>4. call[c] = "loop" /\ i \in ids[c] /\ i \notin next[c] BY <1>3, RunningItem
<1>5. results[c][i] = "nil" BY <1>3 DEF Local, Frame, Early
<1>6. /\ Failed(c, i)' <=> ~ok
      /\ \A j \in Items \ {i} : Failed(c, j)' <=> Failed(c, j)
      /\ ~Failed(c, i)
  BY <1>1, <1>5 DEF Failed
<1>7. Fresh(c)' /\ Enqueueing(c)' /\ Returned(c)' BY <1>4 DEF Fresh, Enqueueing, Returned
<1>8. Frame(c)' BY <1>1, <1>3, <1>4 DEF Local, Frame, Early
<1>9. Looping(c)'
  <2>1. ASSUME NEW j \in ids'[c] \ next'[c], results'[c][j] = "nil"
        PROVE  pc'[c][j] \in Early \/ stopProcessing'[c]
    <3>1. j \in Items BY DEF TypeOK
    <3>2. j # i BY <1>1, <2>1
    <3> QED BY <1>1, <1>3, <1>4, <2>1, <3>1, <3>2 DEF Local, Looping
  <2>2. stopProcessing'[c] => errChan'[c] BY <1>4 DEF Local, Looping
  <2>3. errChan'[c] => opts'.stop /\ \E j \in ids'[c] : Failed(c, j)'
    <3>1. ASSUME errChan[c] PROVE opts.stop /\ \E j \in ids[c] : Failed(c, j)
      BY <1>4, <3>1 DEF Local, Looping
    <3>2. ids[c] \subseteq Items BY DEF TypeOK
    <3> QED BY <1>6, <3>1, <3>2
  <2>4. \A j \in Items : pc'[c][j] \in {"report", "stop"} => opts'.stop /\ Failed(c, j)'
    <3> TAKE j \in Items
    <3>1. CASE j = i BY <1>2, <1>3, <1>6, <3>1
    <3>2. CASE j # i BY <1>3, <1>4, <1>6, <3>2 DEF Local, Looping
    <3> QED BY <3>1, <3>2
  <2>5. \A j \in Items : pc'[c][j] = "stop" => errChan'[c] BY <1>3, <1>4 DEF Local, Looping
  <2>6. \A j \in Items : Failed(c, j)' /\ opts'.stop => errChan'[c] \/ pc'[c][j] = "report"
    <3> TAKE j \in Items
    <3>1. CASE j = i BY <1>2, <1>3, <1>6, <3>1
    <3>2. CASE j # i BY <1>3, <1>4, <1>6, <3>2 DEF Local, Looping
    <3> QED BY <3>1, <3>2
  <2> QED BY <2>1, <2>2, <2>3, <2>4, <2>5, <2>6 DEF Looping
<1>10. OneSlot(c)'
  <2> SUFFICES ASSUME ConcurrentBatches = 1, opts.stop
               PROVE  /\ \A j, k \in Items : Failed(c, j)' /\ Failed(c, k)' => j = k
                      /\ \A j \in Items : pc'[c][j] \in {"name", "save", "link", "run"} =>
                            \A k \in Items : ~Failed(c, k)'
                      /\ \A j \in Items : pc'[c][j] = "report" => ~errChan'[c]
                      /\ \A j \in Items : Failed(c, j)' =>
                            stopProcessing'[c] \/ pc'[c][j] \in {"report", "stop"}
    BY DEF OneSlot
  <2>1. \A j \in Items : ~Failed(c, j) BY <1>3 DEF Local, OneSlot
  <2>2. \A j \in Items : Failed(c, j)' => j = i BY <1>6, <2>1
  <2>3. \A j \in Items \ {i} : pc'[c][j] \in {"none", "acquire"}
    <3> TAKE j \in Items \ {i}
    <3>1. i \in Held(c) BY <1>3 DEF Held
    <3>2. j \notin Held(c) BY <3>1, OneHolder
    <3> QED BY <1>3, <3>2 DEF Held
  <2>4. ~errChan[c] BY <1>4, <2>1 DEF Local, Looping, TypeOK
  <2> QED BY <1>2, <1>3, <1>6, <2>2, <2>3, <2>4
<1> QED BY <1>7, <1>8, <1>9, <1>10 DEF Local

(* The error goes into the channel, unless one is there.                    *)
LEMMA ReportStep ==
    ASSUME TypeOK, NEW c \in Callers, Local(c), NEW i \in Items, ReportError(c, i)
    PROVE  Local(c)'
<1>1. PICK to \in {"release", "stop"} :
        Step(c, i, "report", to) /\ (to = "stop" <=> ~errChan[c])
  BY DEF ReportError
<1>2. UNCHANGED <<opts, call, ids, next, results, stopProcessing, returned>> /\ errChan'[c]
  BY DEF ReportError, TypeOK
<1>3. /\ pc[c][i] = "report" /\ pc'[c][i] = to
      /\ \A j \in Items \ {i} : pc'[c][j] = pc[c][j]
  <2>1. to \in Places /\ "report" \in Places BY DEF Places
  <2> QED BY <1>1, <2>1, StepFacts
<1>4. call[c] = "loop" /\ i \in ids[c] /\ i \notin next[c] BY <1>3, RunningItem
<1>5. opts.stop /\ Failed(c, i) BY <1>3, <1>4 DEF Local, Looping
<1>6. Fresh(c)' /\ Enqueueing(c)' /\ Returned(c)'
  BY <1>2, <1>4 DEF Fresh, Enqueueing, Returned
<1>7. Frame(c)' BY <1>2, <1>3, <1>4 DEF Local, Frame, Early
<1>8. Looping(c)'
  <2>1. ASSUME NEW j \in ids'[c] \ next'[c], results'[c][j] = "nil"
        PROVE  pc'[c][j] \in Early \/ stopProcessing'[c]
    <3>1. j \in Items BY <1>2 DEF TypeOK
    <3>2. j # i BY <1>2, <1>5, <2>1 DEF Failed
    <3> QED BY <1>2, <1>3, <1>4, <2>1, <3>1, <3>2 DEF Local, Looping
  <2>2. opts'.stop /\ \E j \in ids'[c] : Failed(c, j)' BY <1>2, <1>4, <1>5 DEF Failed
  <2>3. \A j \in Items : pc'[c][j] \in {"report", "stop"} => opts'.stop /\ Failed(c, j)'
    <3> TAKE j \in Items
    <3>1. CASE j = i BY <1>2, <1>5, <3>1 DEF Failed
    <3>2. CASE j # i BY <1>2, <1>3, <1>4, <3>2 DEF Local, Looping, Failed
    <3> QED BY <3>1, <3>2
  <2> QED BY <1>2, <2>1, <2>2, <2>3 DEF Looping
<1>9. OneSlot(c)'
  <2> SUFFICES ASSUME ConcurrentBatches = 1, opts.stop
               PROVE  /\ \A j, k \in Items : Failed(c, j)' /\ Failed(c, k)' => j = k
                      /\ \A j \in Items : pc'[c][j] \in {"name", "save", "link", "run"} =>
                            \A k \in Items : ~Failed(c, k)'
                      /\ \A j \in Items : pc'[c][j] = "report" => ~errChan'[c]
                      /\ \A j \in Items : Failed(c, j)' =>
                            stopProcessing'[c] \/ pc'[c][j] \in {"report", "stop"}
    BY <1>2 DEF OneSlot
  <2>1. \A j, k \in Items : Failed(c, j) /\ Failed(c, k) => j = k BY DEF Local, OneSlot
  <2>2. to = "stop" BY <1>1, <1>3 DEF Local, OneSlot
  <2>3. \A j \in Items \ {i} : pc'[c][j] \in {"none", "acquire"}
    <3> TAKE j \in Items \ {i}
    <3>1. i \in Held(c) BY <1>3 DEF Held
    <3>2. j \notin Held(c) BY <3>1, OneHolder
    <3> QED BY <1>3, <3>2 DEF Held
  <2> QED BY <1>2, <1>3, <1>5, <2>1, <2>2, <2>3 DEF Failed
<1> QED BY <1>6, <1>7, <1>8, <1>9 DEF Local

(* The goroutine that sent its error sets the flag.                         *)
LEMMA SetStopStep ==
    ASSUME TypeOK, NEW c \in Callers, Local(c), NEW i \in Items, SetStop(c, i)
    PROVE  Local(c)'
<1>1. /\ UNCHANGED <<opts, call, ids, next, results, errChan, returned>>
      /\ stopProcessing'[c] /\ Step(c, i, "stop", "release")
  BY DEF SetStop, TypeOK
<1>2. /\ pc[c][i] = "stop" /\ pc'[c][i] = "release"
      /\ \A j \in Items \ {i} : pc'[c][j] = pc[c][j]
  <2>1. "stop" \in Places /\ "release" \in Places BY DEF Places
  <2> QED BY <1>1, <2>1, StepFacts
<1>3. call[c] = "loop" /\ i \in ids[c] /\ i \notin next[c] BY <1>2, RunningItem
<1>4. opts.stop /\ Failed(c, i) /\ errChan[c] BY <1>2, <1>3 DEF Local, Looping
<1>5. Fresh(c)' /\ Enqueueing(c)' /\ Returned(c)'
  BY <1>1, <1>3 DEF Fresh, Enqueueing, Returned
<1>6. Frame(c)' BY <1>1, <1>2, <1>3 DEF Local, Frame, Early
<1>7. Looping(c)'
  <2>1. opts'.stop /\ errChan'[c] /\ \E j \in ids'[c] : Failed(c, j)'
    BY <1>1, <1>3, <1>4 DEF Failed
  <2>2. \A j \in Items : pc'[c][j] \in {"report", "stop"} => opts'.stop /\ Failed(c, j)'
    BY <1>1, <1>2, <1>3 DEF Local, Looping, Failed
  <2> QED BY <1>1, <2>1, <2>2 DEF Looping
<1>8. OneSlot(c)' BY <1>1, <1>2, <1>3 DEF Local, OneSlot, Failed
<1> QED BY <1>5, <1>6, <1>7, <1>8 DEF Local

(* The loop starts the next goroutine, or stops.                            *)
LEMMA SpawnStep ==
    ASSUME TypeOK, NEW c \in Callers, Local(c), NEW i \in Items, SpawnNext(c, i)
    PROVE  Local(c)'
<1>1. UNCHANGED <<opts, call, ids, results, errChan, stopProcessing, returned>>
  BY DEF SpawnNext
<1>2. call[c] = "loop" /\ i \in next[c] /\ i \in ids[c] /\ results[c][i] = "nil"
      /\ next[c] \subseteq ids[c] /\ pc[c][i] = "none"
  BY DEF SpawnNext, IsNext, Local, Frame
<1>3. Fresh(c)' /\ Enqueueing(c)' /\ Returned(c)'
  BY <1>1, <1>2 DEF Fresh, Enqueueing, Returned
<1>4. CASE stopProcessing[c]
  <2>1. next'[c] = {} /\ pc' = pc BY <1>4 DEF SpawnNext, TypeOK
  <2>2. Frame(c)' BY <1>1, <2>1 DEF Local, Frame
  <2>3. Looping(c)' BY <1>1, <1>2, <1>4, <2>1 DEF Local, Looping, Failed
  <2>4. OneSlot(c)' BY <1>1, <2>1 DEF Local, OneSlot, Failed
  <2> QED BY <1>3, <2>2, <2>3, <2>4 DEF Local
<1>5. CASE ~stopProcessing[c]
  <2>1. /\ next'[c] = next[c] \ {i} /\ pc'[c][i] = "acquire"
        /\ \A j \in Items \ {i} : pc'[c][j] = pc[c][j]
    BY <1>5 DEF SpawnNext, TypeOK
  <2>2. Frame(c)' BY <1>1, <1>2, <2>1 DEF Local, Frame
  <2>3. Looping(c)'
    <3>1. ASSUME NEW j \in ids'[c] \ next'[c], results'[c][j] = "nil"
          PROVE  pc'[c][j] \in Early \/ stopProcessing'[c]
      <4>1. j \in Items BY <1>1 DEF TypeOK
      <4>2. CASE j = i BY <2>1, <4>2 DEF Early
      <4>3. CASE j # i BY <1>1, <1>2, <2>1, <3>1, <4>1, <4>3 DEF Local, Looping
      <4> QED BY <4>2, <4>3
    <3>2. /\ stopProcessing'[c] => errChan'[c]
          /\ errChan'[c] => opts'.stop /\ \E j \in ids'[c] : Failed(c, j)'
      BY <1>1, <1>2 DEF Local, Looping, Failed
    <3>3. \A j \in Items : /\ pc'[c][j] \in {"report", "stop"} => opts'.stop /\ Failed(c, j)'
                           /\ pc'[c][j] = "stop" => errChan'[c]
      BY <1>1, <1>2, <2>1 DEF Local, Looping, Failed
    <3>4. \A j \in Items : Failed(c, j)' /\ opts'.stop => errChan'[c] \/ pc'[c][j] = "report"
      BY <1>1, <1>2, <2>1 DEF Local, Looping, Failed
    <3> QED BY <3>1, <3>2, <3>3, <3>4 DEF Looping
  <2>4. OneSlot(c)' BY <1>1, <1>2, <2>1 DEF Local, OneSlot, Failed
  <2> QED BY <1>3, <2>2, <2>3, <2>4 DEF Local
<1> QED BY <1>4, <1>5

(* All goroutines are done: the channel tells whether one failed.           *)
LEMMA ReturnStep ==
    ASSUME TypeOK, NEW c \in Callers, Local(c), Return(c)
    PROVE  Local(c)'
<1>1. /\ UNCHANGED <<opts, ids, next, pc, results, errChan, stopProcessing>>
      /\ returned'[c] = (IF errChan[c] THEN "error" ELSE "ok") /\ call'[c] = "returned"
      /\ call[c] = "loop" /\ next[c] = {} /\ \A i \in Items : pc[c][i] = "none"
  BY DEF Return, TypeOK
<1>2. Fresh(c)' /\ Enqueueing(c)' /\ Looping(c)' BY <1>1 DEF Fresh, Enqueueing, Looping
<1>3. Frame(c)' BY <1>1 DEF Local, Frame
<1>4. OneSlot(c)' BY <1>1 DEF Local, OneSlot, Failed
<1>5. Returned(c)'
  <2>0. ids[c] \subseteq Items BY DEF TypeOK
  <2>1. errChan[c] <=> opts.stop /\ \E i \in ids[c] : Failed(c, i)
    BY <1>1, <2>0 DEF Local, Looping
  <2>2. (\E i \in ids[c] : results[c][i] = "nil") => errChan[c]
    BY <1>1, <2>0 DEF Local, Looping, Early
  <2>3. (returned'[c] = "error") <=> errChan[c] BY <1>1
  <2> QED BY <1>1, <2>1, <2>2, <2>3 DEF Returned, Failed
<1> QED BY <1>2, <1>3, <1>4, <1>5 DEF Local

(* An item is enqueued, or not.                                             *)
LEMMA EnqueueStep ==
    ASSUME TypeOK, NEW c \in Callers, Local(c), NEW i \in Items, EnqueueTask(c, i)
    PROVE  Local(c)'
<1>1. /\ UNCHANGED <<opts, ids, pc, errChan, stopProcessing>>
      /\ call[c] = "enqueue" /\ i \in next[c]
  BY DEF EnqueueTask, IsNext
<1>2. PICK ok \in BOOLEAN :
        LET stops == ~ok /\ opts.stop IN
        /\ results' = [results EXCEPT ![c][i] = IF ok THEN "ok" ELSE "error"]
        /\ next' = [next EXCEPT ![c] = IF stops THEN {} ELSE @ \ {i}]
        /\ returned' = [returned EXCEPT ![c] = IF stops THEN "error"
                                               ELSE IF @ = "none" /\ next[c] = {i} THEN "ok" ELSE @]
        /\ call' = [call EXCEPT ![c] = IF stops \/ next[c] = {i} THEN "returned" ELSE @]
  BY DEF EnqueueTask
<1> DEFINE stops == ~ok /\ opts.stop
<1>3. /\ results'[c][i] = IF ok THEN "ok" ELSE "error"
      /\ \A j \in Items \ {i} : results'[c][j] = results[c][j]
  BY <1>2 DEF TypeOK
<1>4. /\ next'[c] = IF stops THEN {} ELSE next[c] \ {i}
      /\ call'[c] = IF stops \/ next[c] = {i} THEN "returned" ELSE "enqueue"
      /\ returned'[c] = IF stops THEN "error" ELSE IF next[c] = {i} THEN "ok" ELSE "none"
  BY <1>1, <1>2 DEF TypeOK, Local, Enqueueing
<1>5. /\ \A j \in Items : pc[c][j] = "none"
      /\ next[c] \subseteq ids[c] /\ ids[c] \subseteq Items
      /\ \A j \in ids[c] \ next[c] : results[c][j] # "nil"
      /\ opts.stop => \A j \in Items : ~Failed(c, j)
  BY <1>1 DEF Local, Frame, Enqueueing, TypeOK
<1>6. \A j \in Items : Failed(c, j)' <=> IF j = i THEN ~ok ELSE Failed(c, j)
  BY <1>3 DEF Failed
<1> HIDE DEF stops
<1>7. Fresh(c)' /\ Looping(c)' BY <1>4 DEF Fresh, Looping
<1>8. Frame(c)'
  <2>1. next'[c] \subseteq ids'[c] /\ \A j \in Items : pc'[c][j] = "none"
    BY <1>1, <1>4, <1>5
  <2>2. ASSUME NEW j \in Items, j \notin ids'[c] \/ j \in next'[c] PROVE results'[c][j] = "nil"
    <3>1. j # i /\ (j \notin ids[c] \/ j \in next[c]) BY <1>1, <1>4, <1>5, <2>2
    <3> QED BY <1>3, <3>1 DEF Local, Frame
  <2> QED BY <2>1, <2>2 DEF Frame, Early
<1>9. \A j \in ids[c] \ (next[c] \ {i}) : results'[c][j] # "nil" BY <1>3, <1>5
<1>10. Enqueueing(c)'
  <2> SUFFICES ASSUME call'[c] = "enqueue" PROVE Enqueueing(c)'
    BY DEF Enqueueing
  <2>1. ~stops /\ next[c] # {i} BY <1>4
  <2>2. returned'[c] = "none" /\ next'[c] = next[c] \ {i} BY <1>4, <2>1
  <2>3. opts.stop => \A j \in Items : ~Failed(c, j)' BY <1>5, <1>6, <2>1 DEF stops
  <2> QED BY <1>1, <1>9, <2>2, <2>3 DEF Enqueueing
<1>11. Returned(c)'
  <2> SUFFICES ASSUME call'[c] = "returned"
               PROVE  /\ (returned'[c] = "error") <=> (opts.stop /\ \E j \in ids[c] : Failed(c, j)')
                      /\ (\E j \in ids[c] : results'[c][j] = "nil") => returned'[c] = "error"
    BY <1>1 DEF Returned
  <2>1. CASE stops BY <1>1, <1>4, <1>5, <1>6, <2>1 DEF stops
  <2>2. CASE ~stops
    <3>1. next[c] = {i} /\ returned'[c] = "ok" BY <1>4, <2>2
    <3>2. \A j \in ids[c] : results'[c][j] # "nil" BY <1>9, <3>1
    <3>3. opts.stop => \A j \in ids[c] : ~Failed(c, j)' BY <1>5, <1>6, <2>2 DEF stops
    <3> QED BY <3>1, <3>2, <3>3
  <2> QED BY <2>1, <2>2
<1>12. OneSlot(c)'
  <2>1. opts.stop => \A j \in Items : Failed(c, j)' => j = i BY <1>5, <1>6
  <2>2. call'[c] # "loop" BY <1>4
  <2> QED BY <1>1, <1>5, <2>1, <2>2 DEF OneSlot
<1> QED BY <1>7, <1>8, <1>10, <1>11, <1>12 DEF Local

(* A call begins.                                                           *)
LEMMA BeginStep ==
    ASSUME TypeOK, NEW c \in Callers, Local(c), ExecuteBatch(c)
    PROVE  Local(c)'
<1>1. /\ UNCHANGED <<opts, pc, results, errChan, stopProcessing>> /\ call[c] = "new"
      /\ ids'[c] = ListSources(c) /\ next'[c] = ListSources(c)
      /\ call'[c] \in {"returned", "enqueue", "loop"}
      /\ call'[c] = "returned" => ListSources(c) = {} /\ returned'[c] = "ok"
      /\ call'[c] # "returned" => returned'[c] = returned[c]
  BY DEF ExecuteBatch, TypeOK
<1>2. /\ ~errChan[c] /\ ~stopProcessing[c] /\ \A i \in Items : results[c][i] = "nil"
      /\ \A i \in Items : pc[c][i] = "none"
  BY <1>1 DEF Local, Fresh, Frame
<1>3. \A i \in Items : ~Failed(c, i)' BY <1>1, <1>2 DEF Failed
<1>4. Fresh(c)' /\ Frame(c)' BY <1>1, <1>2 DEF Fresh, Frame
<1>5. Enqueueing(c)' BY <1>1, <1>2, <1>3 DEF Enqueueing, Local, Fresh
<1>6. Looping(c)' BY <1>1, <1>2, <1>3 DEF Looping
<1>7. Returned(c)' BY <1>1, <1>2, <1>3 DEF Returned
<1>8. OneSlot(c)' BY <1>1, <1>2, <1>3 DEF OneSlot
<1> QED BY <1>4, <1>5, <1>6, <1>7, <1>8 DEF Local

LEMMA NextLocal ==
    ASSUME TypeOK, \A c \in Callers : Local(c), [Next]_vars
    PROVE  \A c \in Callers : Local(c)'
<1>1. CASE UNCHANGED vars BY <1>1, OthersKept DEF vars
<1>2. ASSUME NEW c \in Callers, ExecuteBatch(c) \/ CallStep(c)
      PROVE  \A d \in Callers : Local(d)'
  <2>1. ASSUME NEW d \in Callers \ {c} PROVE Local(d)'
    <3>1. opts' = opts BY <1>2 DEF ExecuteBatch, CallStep, Return, EnqueueTask, SpawnNext
    <3>2. call'[d] = call[d] /\ ids'[d] = ids[d] /\ returned'[d] = returned[d]
      BY <1>2 DEF ExecuteBatch, CallStep, Return, EnqueueTask, SpawnNext, TypeOK
    <3>3. next'[d] = next[d]
      BY <1>2 DEF ExecuteBatch, CallStep, Return, EnqueueTask, SpawnNext, TypeOK
    <3>4. pc'[d] = pc[d] /\ results'[d] = results[d]
      BY <1>2 DEF ExecuteBatch, CallStep, Return, EnqueueTask, SpawnNext, TypeOK
    <3>5. errChan'[d] = errChan[d] /\ stopProcessing'[d] = stopProcessing[d]
      BY <1>2 DEF ExecuteBatch, CallStep, Return, EnqueueTask, SpawnNext
    <3> QED BY <3>1, <3>2, <3>3, <3>4, <3>5, OthersKept
  <2>2. Local(c)' BY <1>2, BeginStep, ReturnStep, EnqueueStep, SpawnStep DEF CallStep
  <2> QED BY <2>1, <2>2
<1>3. ASSUME NEW c \in Callers, NEW i \in Items, ItemStep(c, i)
      PROVE  \A d \in Callers : Local(d)'
  <2> USE DEF Acquire, CheckStop, CheckName, SaveExecution, SaveLinkedExecution, RunExecution,
              ReportError, SetStop, Release
  <2>1. UNCHANGED <<opts, call, ids, next, returned>> BY <1>3 DEF ItemStep
  <2>2. ASSUME NEW d \in Callers \ {c} PROVE Local(d)'
    <3>1. pc'[d] = pc[d] BY <1>3 DEF ItemStep, Store, Step, TypeOK
    <3>2. results'[d] = results[d] BY <1>3 DEF ItemStep, Store, TypeOK
    <3>3. errChan'[d] = errChan[d] /\ stopProcessing'[d] = stopProcessing[d]
      BY <1>3 DEF ItemStep, TypeOK
    <3> QED BY <2>1, <3>1, <3>2, <3>3, OthersKept
  <2>3. Local(c)'
    <3> USE DEF Places, Early
    <3>1. ASSUME Acquire(c, i) PROVE Local(c)' BY <3>1, QuietStep
    <3>2. ASSUME CheckStop(c, i) PROVE Local(c)' BY <3>2, QuietStep
    <3>3. ASSUME CheckName(c, i) PROVE Local(c)' BY <3>3, QuietStep, StoreStep
    <3>4. ASSUME SaveExecution(c, i) PROVE Local(c)' BY <3>4, QuietStep
    <3>5. ASSUME SaveLinkedExecution(c, i) PROVE Local(c)' BY <3>5, QuietStep
    <3>6. ASSUME RunExecution(c, i) PROVE Local(c)' BY <3>6, StoreStep
    <3>7. ASSUME Release(c, i) PROVE Local(c)' BY <3>7, QuietStep
    <3> QED
      BY <1>3, <3>1, <3>2, <3>3, <3>4, <3>5, <3>6, <3>7, ReportStep, SetStopStep DEF ItemStep
  <2> QED BY <2>2, <2>3
<1>4. ASSUME NEW c \in Callers, NEW i \in Items, WorkerStep(c, i)
      PROVE  \A d \in Callers : Local(d)'
  <2>1. UNCHANGED <<opts, call, ids, next, pc, results, errChan, stopProcessing, returned>>
    BY <1>4 DEF WorkerStep, WorkerCheckName, WorkerSave, WorkerLink, WorkerDone, WorkerFails
  <2> QED BY <2>1, OthersKept
<1> QED BY <1>1, <1>2, <1>3, <1>4 DEF Next

-----------------------------------------------------------------------------
(* The tasks of one call.                                                   *)

LEMMA QueuedKept ==
    ASSUME NEW c \in Callers, Queued(c), opts' = opts, named \subseteq named', ids'[c] = ids[c],
           next'[c] \subseteq next[c],
           call[c] \in {"enqueue", "returned"} => call'[c] \in {"enqueue", "returned"},
           \A i \in Items : task'[c][i] # "none" =>
              \/ task'[c][i] = task[c][i]
              \/ /\ task[c][i] # "none" \/ (i \in ids[c] \ next'[c] /\ call'[c] \in {"enqueue", "returned"})
                 /\ task'[c][i] \in {"link", "run"} => Name(c, i) \in named'
    PROVE  Queued(c)'
<1> SUFFICES ASSUME NEW i \in Items, task'[c][i] # "none"
             PROVE  /\ i \in ids'[c] \ next'[c] /\ call'[c] \in {"enqueue", "returned"}
                    /\ task'[c][i] \in {"link", "run"} => Name(c, i)' \in named'
  BY DEF Queued
<1>1. Name(c, i)' = Name(c, i) BY DEF Name
<1> QED BY <1>1 DEF Queued

LEMMA NextQueued ==
    ASSUME TypeOK, \A c \in Callers : Local(c) /\ Queued(c), [Next]_vars
    PROVE  \A c \in Callers : Queued(c)'
<1>1. CASE UNCHANGED vars BY <1>1, QueuedKept DEF vars
<1>2. ASSUME NEW c \in Callers, ExecuteBatch(c) PROVE \A d \in Callers : Queued(d)'
  <2>1. /\ UNCHANGED <<opts, task, named>> /\ call[c] = "new"
        /\ \A d \in Callers \ {c} : call'[d] = call[d] /\ ids'[d] = ids[d] /\ next'[d] = next[d]
    BY <1>2 DEF ExecuteBatch, TypeOK
  <2>2. Queued(c)' BY <2>1 DEF Queued
  <2>3. \A d \in Callers \ {c} : Queued(d)' BY <2>1, QueuedKept
  <2> QED BY <2>2, <2>3
<1>3. ASSUME NEW c \in Callers, Return(c) PROVE \A d \in Callers : Queued(d)'
  <2>1. UNCHANGED <<opts, task, named, ids, next>> BY <1>3 DEF Return
  <2>2. \A d \in Callers : call'[d] \in {call[d], "returned"} BY <1>3 DEF Return, TypeOK
  <2> QED BY <2>1, <2>2, QueuedKept
<1>4. ASSUME NEW c \in Callers, NEW i \in Items, EnqueueTask(c, i)
      PROVE  \A d \in Callers : Queued(d)'
  <2>1. /\ UNCHANGED <<opts, named, ids>> /\ call[c] = "enqueue" /\ i \in next[c]
        /\ \A d \in Callers \ {c} :
              call'[d] = call[d] /\ next'[d] = next[d] /\ task'[d] = task[d]
        /\ call'[c] \in {"enqueue", "returned"} /\ next'[c] \subseteq next[c] \ {i}
    BY <1>4 DEF EnqueueTask, IsNext, TypeOK
  <2>2. \A j \in Items : task'[c][j] = task[c][j] \/ (j = i /\ task'[c][j] = "name")
    BY <1>4 DEF EnqueueTask, TypeOK
  <2>3. i \in ids[c] BY <2>1 DEF Local, Frame
  <2>4. Queued(c)' BY <2>1, <2>2, <2>3, QueuedKept
  <2>5. \A d \in Callers \ {c} : Queued(d)' BY <2>1, QueuedKept
  <2> QED BY <2>4, <2>5
<1>5. ASSUME NEW c \in Callers, NEW i \in Items, SpawnNext(c, i)
      PROVE  \A d \in Callers : Queued(d)'
  <2>1. UNCHANGED <<opts, task, named, ids, call>> BY <1>5 DEF SpawnNext
  <2>2. \A d \in Callers : next'[d] \subseteq next[d]
    <3>1. CASE next' = [next EXCEPT ![c] = {}] BY <3>1 DEF TypeOK
    <3>2. CASE next' = [next EXCEPT ![c] = @ \ {i}] BY <3>2 DEF TypeOK
    <3> QED BY <1>5, <3>1, <3>2 DEF SpawnNext
  <2> QED BY <2>1, <2>2, QueuedKept
<1>6. ASSUME NEW c \in Callers, NEW i \in Items, ItemStep(c, i)
      PROVE  \A d \in Callers : Queued(d)'
  <2>1. UNCHANGED <<opts, task, ids, call, next>> /\ named \subseteq named'
    BY <1>6 DEF ItemStep, Acquire, CheckStop, CheckName, SaveExecution, SaveLinkedExecution,
                RunExecution, ReportError, SetStop, Release, PersistExecution
  <2> QED BY <2>1, QueuedKept
<1>7. ASSUME NEW c \in Callers, NEW i \in Items, WorkerStep(c, i)
      PROVE  \A d \in Callers : Queued(d)'
  <2>1. UNCHANGED <<opts, ids, call, next>> /\ named \subseteq named'
    BY <1>7 DEF WorkerStep, WorkerCheckName, WorkerSave, WorkerLink, WorkerDone, WorkerFails,
                PersistExecution
  <2>2. /\ task[c][i] # "none"
        /\ \A j \in Items \ {i} : task'[c][j] = task[c][j]
        /\ \A d \in Callers \ {c} : task'[d] = task[d]
    BY <1>7 DEF WorkerStep, WorkerCheckName, WorkerSave, WorkerLink, WorkerDone, WorkerFails,
                TaskStep, TypeOK, Unfinished
  <2>3. task'[c][i] \in {"link", "run"} => Name(c, i) \in named'
    <3>1. CASE WorkerCheckName(c, i) BY <3>1 DEF WorkerCheckName, TaskStep, TypeOK
    <3>2. CASE WorkerSave(c, i) BY <3>2 DEF WorkerSave, PersistExecution
    <3>3. CASE WorkerLink(c, i)
      <4>1. task[c][i] = "link" BY <3>3 DEF WorkerLink, TaskStep
      <4> QED BY <2>1, <4>1 DEF Queued
    <3>4. CASE WorkerDone(c, i) BY <3>4 DEF WorkerDone, TaskStep, TypeOK
    <3>5. CASE WorkerFails(c, i) BY <3>5 DEF WorkerFails, TaskStep, TypeOK
    <3> QED BY <1>7, <3>1, <3>2, <3>3, <3>4, <3>5 DEF WorkerStep
  <2>4. Queued(c)' BY <2>1, <2>2, <2>3, QueuedKept
  <2>5. \A d \in Callers \ {c} : Queued(d)' BY <2>1, <2>2, QueuedKept
  <2> QED BY <2>4, <2>5
<1> QED BY <1>1, <1>2, <1>3, <1>4, <1>5, <1>6, <1>7 DEF Next, CallStep

-----------------------------------------------------------------------------
(* Calls one after the other.                                               *)

(* Steps that begin no call and save no execution.                          *)
LEMMA SequentialKept ==
    ASSUME Sequential, UNCHANGED <<opts, kind, ids, named, processed, overlap, reused>>,
           linked \subseteq linked', unlinked \subseteq unlinked',
           \A c \in Callers : Active(c)' => Active(c),
           \A c \in Callers : \A i \in Items :
              /\ Saving(c, i)' => Saving(c, i) \/ Name(c, i) \notin named
              /\ AtLink(c, i) => AtLink(c, i)' \/ i \in linked' \cup unlinked'
              /\ Pending(c, i)' => Pending(c, i)
    PROVE  Sequential'
<1> SUFFICES ASSUME overlap = {}
             PROVE  /\ Alone' /\ NamesFree' /\ reused' = {}
                    /\ (\A c \in Callers : kind[c] = "unique") => Unprocessed' /\ Linking'
  BY DEF Sequential
<1>1. Alone' BY DEF Sequential, Alone
<1>2. NamesFree'
  <2> SUFFICES ASSUME NEW c \in Callers, NEW i \in Items, Saving(c, i)'
               PROVE  Name(c, i)' \notin named'
    BY DEF NamesFree
  <2>1. Name(c, i)' = Name(c, i) BY DEF Name
  <2>2. Name(c, i) \notin named BY DEF Sequential, NamesFree
  <2> QED BY <2>1, <2>2
<1>3. ASSUME \A c \in Callers : kind[c] = "unique" PROVE Unprocessed'
  BY <1>3 DEF Sequential, Unprocessed
<1>4. ASSUME \A c \in Callers : kind[c] = "unique" PROVE Linking'
  BY <1>4 DEF Sequential, Linking
<1> QED BY <1>1, <1>2, <1>3, <1>4 DEF Sequential

(* Two items of a call have different names.                                *)
LEMMA NamesDiffer ==
    ASSUME TypeOK, NEW c \in Callers, NEW i \in ids[c], NEW j \in ids[c], i # j
    PROVE  Name(c, i) # Name(c, j)
<1>1. ids[c] \in SUBSET Items BY DEF TypeOK
<1>2. Cardinality({k \in ids[c] : k < i}) # Cardinality({k \in ids[c] : k < j})
  BY <1>1, IndexInjective
<1> QED BY <1>2 DEF Name

(* What is saved, linked or going to be is of a call that is under way.     *)
LEMMA UnderWay ==
    ASSUME IInv, NEW c \in Callers, NEW i \in Items,
           Saving(c, i) \/ AtLink(c, i) \/ Pending(c, i)
    PROVE  Active(c) /\ i \in ids[c]
<1>1. CASE pc[c][i] # "none" BY <1>1, RunningItem DEF IInv, Active
<1>2. CASE task[c][i] \in {"name", "save", "link"}
  BY <1>2 DEF IInv, Queued, Active, Unfinished
<1>3. CASE call[c] \in {"loop", "enqueue"} /\ i \in next[c]
  BY <1>3 DEF IInv, Local, Frame, Active
<1> QED BY <1>1, <1>2, <1>3 DEF Saving, AtLink, Pending

LEMMA BeginSequential ==
    ASSUME IInv, NEW c \in Callers, ExecuteBatch(c)
    PROVE  Sequential'
<1> SUFFICES ASSUME overlap' = {}
             PROVE  /\ Alone' /\ NamesFree' /\ reused' = {}
                    /\ (\A d \in Callers : kind'[d] = "unique") => Unprocessed' /\ Linking'
  BY DEF Sequential
<1>1. /\ UNCHANGED <<opts, kind, pc, task, named, processed, linked, reused, unlinked>>
      /\ \A d \in Callers \ {c} : call'[d] = call[d] /\ ids'[d] = ids[d] /\ next'[d] = next[d]
      /\ call[c] = "new" /\ next'[c] = ListSources(c)
  BY DEF ExecuteBatch, IInv, TypeOK
<1>2. overlap = {} /\ \A d \in Callers \ {c} : ~Active(d) BY DEF ExecuteBatch
<1>3. Alone'
  <2>1. \A d \in Callers \ {c} : ~Active(d)' BY <1>1, <1>2 DEF Active
  <2> QED BY <2>1 DEF Alone
<1>4. \A d \in Callers : \A i \in Items : pc[d][i] = "none" /\ task[d][i] \notin Unfinished
  <2> TAKE d \in Callers
  <2>1. call[d] # "loop" BY <1>1, <1>2 DEF Active
  <2>2. \A i \in Items : pc[d][i] = "none" BY <2>1 DEF IInv, Local, Frame
  <2>3. CASE d = c BY <1>1, <2>2, <2>3 DEF IInv, Queued, Unfinished
  <2>4. CASE d # c BY <1>2, <2>2, <2>4 DEF Active
  <2> QED BY <2>3, <2>4
<1>5. \A d \in Callers : \A i \in Items : ~Saving(d, i)' /\ ~AtLink(d, i)
  BY <1>1, <1>4 DEF Saving, AtLink, Unfinished
<1>6. NamesFree' /\ reused' = {} BY <1>1, <1>2, <1>5 DEF IInv, Sequential, NamesFree
<1>7. ASSUME \A d \in Callers : kind'[d] = "unique" PROVE Unprocessed' /\ Linking'
  <2>1. Linking BY <1>1, <1>2, <1>7 DEF IInv, Sequential
  <2>2. Linking' BY <1>1, <1>5, <2>1 DEF Linking
  <2>3. \A i \in Items \ unlinked : i \notin linked => processed[i] = 0
    BY <1>5, <2>1 DEF Linking
  <2>4. next'[c] = Items \ linked BY <1>1, <1>7 DEF ListSources
  <2>5. \A d \in Callers \ {c} : call'[d] \notin {"loop", "enqueue"} BY <1>1, <1>2 DEF Active
  <2>6. \A d \in Callers : \A i \in Items : Pending(d, i)' => i \notin linked
    BY <1>1, <1>4, <2>4, <2>5 DEF Pending, Unfinished
  <2>7. Unprocessed' BY <1>1, <2>3, <2>6 DEF Unprocessed
  <2> QED BY <2>2, <2>7
<1> QED BY <1>3, <1>6, <1>7

(* A goroutine or a worker saves the execution of item i.                   *)
LEMMA SaveSequential ==
    ASSUME IInv, NEW c \in Callers, NEW i \in Items, Saving(c, i), PersistExecution(c, i),
           UNCHANGED <<opts, kind, ids, linked, overlap, unlinked>>,
           kind[c] = "unique" => AtLink(c, i)',
           ~Saving(c, i)', ~Pending(c, i)',
           \A d \in Callers : Active(d)' => Active(d),
           \A d \in Callers : \A j \in Items :
              /\ Saving(d, j)' => Saving(d, j)
              /\ j # i => (AtLink(d, j) => AtLink(d, j)')
              /\ Pending(d, j)' => Pending(d, j)
    PROVE  Sequential'
<1> SUFFICES ASSUME overlap = {}
             PROVE  /\ Alone' /\ NamesFree' /\ reused' = {}
                    /\ (\A d \in Callers : kind[d] = "unique") => Unprocessed' /\ Linking'
  BY DEF Sequential
<1>1. Alone' BY DEF IInv, Sequential, Alone
<1>2. ASSUME NEW d \in Callers, NEW j \in Items, Saving(d, j) \/ Pending(d, j) PROVE d = c
  <2>1. Active(d) /\ Active(c) BY <1>2, UnderWay
  <2> QED BY <2>1 DEF IInv, Sequential, Alone
<1>3. reused' = {}
  <2>1. Name(c, i) \notin named BY DEF IInv, Sequential, NamesFree
  <2> QED BY <2>1 DEF PersistExecution, IInv, Sequential
<1>4. NamesFree'
  <2> SUFFICES ASSUME NEW d \in Callers, NEW j \in Items, Saving(d, j)'
               PROVE  Name(d, j)' \notin named'
    BY DEF NamesFree
  <2>1. Name(d, j)' = Name(d, j) BY DEF Name
  <2>2. d = c /\ Saving(d, j) BY <1>2
  <2>3. j # i BY <2>2
  <2>4. i \in ids[c] /\ j \in ids[c] BY <2>2, UnderWay
  <2>5. Name(d, j) # Name(c, i) BY <2>2, <2>3, <2>4, NamesDiffer DEF IInv
  <2>6. Name(d, j) \notin named BY <2>2 DEF IInv, Sequential, NamesFree
  <2> QED BY <2>1, <2>5, <2>6 DEF PersistExecution
<1>5. ASSUME \A d \in Callers : kind[d] = "unique" PROVE Unprocessed' /\ Linking'
  <2>1. Unprocessed /\ Linking BY <1>5 DEF IInv, Sequential
  <2>2. /\ processed[i] \in Nat /\ processed'[i] = processed[i] + 1
        /\ \A j \in Items \ {i} : processed'[j] = processed[j]
    <3>1. processed' = [processed EXCEPT ![i] = @ + 1] BY <1>5 DEF PersistExecution
    <3> QED BY <3>1 DEF IInv, TypeOK
  <2>3. Linking'
    <3> SUFFICES ASSUME NEW j \in Items \ unlinked, processed'[j] # 0
                 PROVE  /\ processed'[j] = 1
                        /\ j \in linked \/ \E d \in Callers : AtLink(d, j)'
      BY DEF Linking
    <3>1. CASE j = i
      <4>1. Pending(c, i) BY DEF Saving, Pending
      <4>2. processed[i] = 0 BY <2>1, <3>1, <4>1 DEF Unprocessed
      <4> QED BY <1>5, <2>2, <3>1, <4>2
    <3>2. CASE j # i
      <4>1. processed[j] # 0 /\ processed'[j] = processed[j] BY <2>2, <3>2
      <4>2. processed[j] = 1 /\ (j \in linked \/ \E d \in Callers : AtLink(d, j))
        BY <2>1, <4>1 DEF Linking
      <4> QED BY <3>2, <4>1, <4>2
    <3> QED BY <3>1, <3>2
  <2>4. Unprocessed'
    <3> SUFFICES ASSUME NEW d \in Callers, NEW j \in Items \ unlinked, Pending(d, j)'
                 PROVE  processed'[j] = 0
      BY DEF Unprocessed
    <3>1. Pending(d, j) OBVIOUS
    <3>2. d = c BY <1>2, <3>1
    <3>3. j # i BY <3>2
    <3> QED BY <2>1, <2>2, <3>1, <3>3 DEF Unprocessed
  <2> QED BY <2>3, <2>4
<1> QED BY <1>1, <1>3, <1>4, <1>5

(* A step of a goroutine that saves no execution.                           *)
LEMMA GoroutineSequential ==
    ASSUME IInv, NEW c \in Callers, NEW i \in Items, NEW from \in Places, NEW to \in Places,
           Step(c, i, from, to),
           to = "save" => Name(c, i) \notin named,
           from = "link" => i \in linked' \cup unlinked',
           to \in {"acquire", "check", "name", "save"} => from \in {"acquire", "check", "name"},
           linked \subseteq linked', unlinked \subseteq unlinked',
           UNCHANGED <<opts, kind, call, ids, next, task, named, processed, overlap, reused>>
    PROVE  Sequential'
<1>1. /\ pc[c][i] = from /\ pc'[c][i] = to
      /\ \A j \in Items \ {i} : pc'[c][j] = pc[c][j]
      /\ \A d \in Callers \ {c} : pc'[d] = pc[d]
  BY StepFacts DEF IInv
<1>2. \A d \in Callers : Active(d)' => Active(d) BY DEF Active
<1>3. ASSUME NEW d \in Callers, NEW j \in Items
      PROVE  /\ Saving(d, j)' => Saving(d, j) \/ Name(d, j) \notin named
             /\ AtLink(d, j) => AtLink(d, j)' \/ j \in linked' \cup unlinked'
             /\ Pending(d, j)' => Pending(d, j)
  <2>1. Name(d, j)' = Name(d, j) BY DEF Name
  <2>2. CASE d = c /\ j = i BY <1>1, <2>1, <2>2 DEF Saving, AtLink, Pending
  <2>3. CASE ~(d = c /\ j = i)
    <3>1. pc'[d][j] = pc[d][j] BY <1>1, <2>3
    <3> QED BY <2>1, <3>1 DEF Saving, AtLink, Pending
  <2> QED BY <2>2, <2>3
<1> QED BY <1>2, <1>3, SequentialKept DEF IInv

(* A step of a worker that saves no execution.                              *)
LEMMA TaskSequential ==
    ASSUME IInv, NEW c \in Callers, NEW i \in Items, NEW from \in Unfinished,
           NEW to \in Unfinished \cup {"none", "archived"}, TaskStep(c, i, from, to),
           to = "save" => Name(c, i) \notin named,
           from = "link" => i \in linked' \cup unlinked',
           to = "save" => from = "name",
           linked \subseteq linked', unlinked \subseteq unlinked',
           UNCHANGED <<opts, kind, call, ids, next, pc, named, processed, overlap, reused>>
    PROVE  Sequential'
<1>1. /\ task[c][i] = from /\ task'[c][i] = to
      /\ \A j \in Items \ {i} : task'[c][j] = task[c][j]
      /\ \A d \in Callers \ {c} : task'[d] = task[d]
  BY TaskFacts DEF IInv
<1>2. \A d \in Callers : Active(d)' => Active(d)
  <2> SUFFICES ASSUME NEW d \in Callers, Active(d)' PROVE Active(d)
    OBVIOUS
  <2>1. CASE d = c BY <1>1, <2>1 DEF Active
  <2>2. CASE d # c BY <1>1, <2>2 DEF Active
  <2> QED BY <2>1, <2>2
<1>3. from \in {"link", "run"} => Name(c, i) \in named
  BY <1>1 DEF IInv, Queued, Unfinished
<1>4. ASSUME NEW d \in Callers, NEW j \in Items
      PROVE  /\ Saving(d, j)' => Saving(d, j) \/ Name(d, j) \notin named
             /\ AtLink(d, j) => AtLink(d, j)' \/ j \in linked' \cup unlinked'
             /\ Pending(d, j)' => Pending(d, j)
  <2>1. Name(d, j)' = Name(d, j) BY DEF Name
  <2>2. CASE d = c /\ j = i
    BY <1>1, <1>3, <2>1, <2>2 DEF Saving, AtLink, Pending, Unfinished
  <2>3. CASE ~(d = c /\ j = i)
    <3>1. task'[d][j] = task[d][j] BY <1>1, <2>3
    <3> QED BY <2>1, <3>1 DEF Saving, AtLink, Pending
  <2> QED BY <2>2, <2>3
<1> QED BY <1>2, <1>4, SequentialKept DEF IInv

LEMMA CallSequential ==
    ASSUME IInv, NEW c \in Callers, CallStep(c)
    PROVE  Sequential'
<1>1. UNCHANGED <<opts, kind, ids, named, processed, linked, overlap, reused, unlinked>>
  BY DEF CallStep, Return, EnqueueTask, SpawnNext
<1>n. \A d \in Callers : \A j \in Items : Name(d, j)' = Name(d, j) BY <1>1 DEF Name
<1>2. ASSUME Return(c) PROVE Sequential'
  <2>1. \A d \in Callers : call'[d] \in {call[d], "returned"}
    BY <1>2 DEF Return, IInv, TypeOK
  <2>2. pc' = pc /\ next' = next /\ task' = task BY <1>2 DEF Return
  <2>3. \A d \in Callers : Active(d)' => Active(d) BY <2>1, <2>2 DEF Active
  <2>4. \A d \in Callers : \A j \in Items :
          /\ Saving(d, j)' => Saving(d, j)
          /\ AtLink(d, j) => AtLink(d, j)'
          /\ Pending(d, j)' => Pending(d, j)
    BY <1>1, <1>n, <2>1, <2>2 DEF Saving, AtLink, Pending
  <2> QED BY <1>1, <2>3, <2>4, SequentialKept DEF IInv
<1>3. ASSUME NEW i \in Items, EnqueueTask(c, i) PROVE Sequential'
  <2>1. \A d \in Callers \ {c} :
          call'[d] = call[d] /\ next'[d] = next[d] /\ task'[d] = task[d]
    BY <1>3 DEF EnqueueTask, IInv, TypeOK
  <2>2. /\ call[c] = "enqueue" /\ call'[c] \in {"enqueue", "returned"} /\ pc' = pc
        /\ i \in next[c] /\ next'[c] \subseteq next[c]
    BY <1>3 DEF EnqueueTask, IsNext, IInv, TypeOK
  <2>3. \A j \in Items : task'[c][j] = task[c][j] \/ (j = i /\ task'[c][j] = "name")
    BY <1>3 DEF EnqueueTask, IInv, TypeOK
  <2>4. task[c][i] = "none" BY <2>2 DEF IInv, Queued
  <2>5. \A d \in Callers : Active(d)' => Active(d)
    <3> SUFFICES ASSUME NEW d \in Callers, Active(d)' PROVE Active(d)
      OBVIOUS
    <3>1. CASE d = c BY <2>2, <3>1 DEF Active
    <3>2. CASE d # c BY <2>1, <3>2 DEF Active
    <3> QED BY <3>1, <3>2
  <2>6. ASSUME NEW d \in Callers, NEW j \in Items
        PROVE  /\ Saving(d, j)' => Saving(d, j)
               /\ AtLink(d, j) => AtLink(d, j)'
               /\ Pending(d, j)' => Pending(d, j)
    <3>1. CASE d = c
      <4>1. (j = i /\ i \in next[c]) \/ task'[c][j] = task[c][j] BY <2>2, <2>3
      <4> QED BY <1>1, <1>n, <2>2, <2>3, <2>4, <3>1, <4>1 DEF Saving, AtLink, Pending
    <3>2. CASE d # c
      BY <1>1, <1>n, <2>1, <2>2, <3>2 DEF Saving, AtLink, Pending
    <3> QED BY <3>1, <3>2
  <2> QED BY <1>1, <2>5, <2>6, SequentialKept DEF IInv
<1>4. ASSUME NEW i \in Items, SpawnNext(c, i) PROVE Sequential'
  <2>0. call' = call /\ task' = task /\ call[c] = "loop" /\ i \in next[c]
    BY <1>4 DEF SpawnNext, IsNext
  <2>1. \A d \in Callers : next'[d] \subseteq next[d]
    <3>1. CASE next' = [next EXCEPT ![c] = {}] BY <3>1 DEF IInv, TypeOK
    <3>2. CASE next' = [next EXCEPT ![c] = @ \ {i}] BY <3>2 DEF IInv, TypeOK
    <3> QED BY <1>4, <3>1, <3>2 DEF SpawnNext
  <2>2. \A d \in Callers : \A j \in Items :
          pc'[d][j] = pc[d][j] \/ (d = c /\ j = i /\ pc'[d][j] = "acquire")
    BY <1>4 DEF SpawnNext, IInv, TypeOK
  <2>3. pc[c][i] = "none" BY <2>0 DEF IInv, Local, Frame
  <2>4. \A d \in Callers : Active(d)' => Active(d) BY <2>0 DEF Active
  <2>5. ASSUME NEW d \in Callers, NEW j \in Items
        PROVE  /\ Saving(d, j)' => Saving(d, j)
               /\ AtLink(d, j) => AtLink(d, j)'
               /\ Pending(d, j)' => Pending(d, j)
    <3>1. CASE pc'[d][j] = pc[d][j]
      BY <1>1, <1>n, <2>0, <2>1, <3>1 DEF Saving, AtLink, Pending
    <3>2. CASE d = c /\ j = i /\ pc'[d][j] = "acquire"
      BY <2>0, <2>3, <3>2 DEF Saving, AtLink, Pending
    <3> QED BY <2>2, <3>1, <3>2
  <2> QED BY <1>1, <2>4, <2>5, SequentialKept DEF IInv
<1> QED BY <1>2, <1>3, <1>4 DEF CallStep

LEMMA ItemSequential ==
    ASSUME IInv, NEW c \in Callers, NEW i \in Items, ItemStep(c, i)
    PROVE  Sequential'
<1> USE DEF Places
<1>1. ASSUME Acquire(c, i) PROVE Sequential' BY <1>1, GoroutineSequential DEF Acquire
<1>2. ASSUME CheckStop(c, i) PROVE Sequential'
  <2>1. CASE Step(c, i, "check", "release") BY <1>2, <2>1, GoroutineSequential DEF CheckStop
  <2>2. CASE Step(c, i, "check", "name") BY <1>2, <2>2, GoroutineSequential DEF CheckStop
  <2> QED BY <1>2, <2>1, <2>2 DEF CheckStop
<1>s. ASSUME NEW from \in {"name", "run"}, NEW ok \in BOOLEAN, Store(c, i, from, ok),
             UNCHANGED <<opts, kind, call, ids, next, task, linked, named, processed, overlap,
                         reused, unlinked>>
      PROVE  Sequential'
  <2>1. PICK to \in {"report", "release"} : Step(c, i, from, to) BY <1>s DEF Store
  <2> QED BY <1>s, <2>1, GoroutineSequential
<1>3. ASSUME CheckName(c, i) PROVE Sequential'
  <2>1. UNCHANGED <<opts, kind, call, ids, next, task, linked, named, processed, overlap,
                    reused, unlinked>>
    BY <1>3 DEF CheckName
  <2>2. CASE Name(c, i) \notin named /\ Step(c, i, "name", "save")
    BY <2>1, <2>2, GoroutineSequential
  <2>3. CASE Store(c, i, "name", FALSE) BY <1>s, <2>1, <2>3
  <2> QED BY <1>3, <2>2, <2>3 DEF CheckName
<1>4. ASSUME SaveExecution(c, i) PROVE Sequential'
  <2>0. /\ PersistExecution(c, i)
        /\ UNCHANGED <<opts, kind, call, ids, next, task, linked, overlap, unlinked>>
    BY <1>4 DEF SaveExecution
  <2>1. PICK to \in {"run", "link"} : Step(c, i, "save", to) /\ (kind[c] = "unique" => to = "link")
    BY <1>4 DEF SaveExecution
  <2>2. /\ pc[c][i] = "save" /\ pc'[c][i] = to
        /\ \A j \in Items \ {i} : pc'[c][j] = pc[c][j]
        /\ \A d \in Callers \ {c} : pc'[d] = pc[d]
    <3>1. "save" \in Places /\ to \in Places OBVIOUS
    <3> QED BY <2>1, <3>1, StepFacts DEF IInv
  <2>3. call[c] = "loop" /\ i \notin next[c] BY <2>2, RunningItem DEF IInv
  <2>4. task[c][i] = "none" BY <2>3 DEF IInv, Queued
  <2>5. Saving(c, i) /\ ~Saving(c, i)' /\ ~Pending(c, i)'
    BY <2>0, <2>2, <2>3, <2>4 DEF Saving, Pending
  <2>6. kind[c] = "unique" => AtLink(c, i)' BY <2>1, <2>2 DEF AtLink
  <2>7. \A d \in Callers : Active(d)' => Active(d) BY <2>0 DEF Active
  <2>8. ASSUME NEW d \in Callers, NEW j \in Items
        PROVE  /\ Saving(d, j)' => Saving(d, j)
               /\ j # i => (AtLink(d, j) => AtLink(d, j)')
               /\ Pending(d, j)' => Pending(d, j)
    <3>1. CASE d = c /\ j = i BY <2>5, <3>1
    <3>2. CASE ~(d = c /\ j = i)
      <4>1. pc'[d][j] = pc[d][j] BY <2>2, <3>2
      <4>2. Name(d, j)' = Name(d, j) /\ named \subseteq named'
        BY <2>0 DEF Name, PersistExecution
      <4> QED BY <2>0, <4>1, <4>2 DEF Saving, AtLink, Pending
    <3> QED BY <3>1, <3>2
  <2> QED BY <2>0, <2>5, <2>6, <2>7, <2>8, SaveSequential
<1>5. ASSUME SaveLinkedExecution(c, i) PROVE Sequential'
  <2>1. i \in linked' \cup unlinked' /\ linked \subseteq linked' /\ unlinked \subseteq unlinked'
    BY <1>5 DEF SaveLinkedExecution, PersistLink
  <2> QED BY <1>5, <2>1, GoroutineSequential DEF SaveLinkedExecution
<1>6. ASSUME RunExecution(c, i) PROVE Sequential'
  <2>1. PICK ok \in BOOLEAN : Store(c, i, "run", ok) BY <1>6 DEF RunExecution
  <2>2. UNCHANGED <<opts, kind, call, ids, next, task, linked, named, processed, overlap,
                    reused, unlinked>>
    BY <1>6 DEF RunExecution
  <2> QED BY <1>s, <2>1, <2>2
<1>7. ASSUME ReportError(c, i) PROVE Sequential'
  <2>1. PICK to \in {"release", "stop"} : Step(c, i, "report", to) BY <1>7 DEF ReportError
  <2> QED BY <1>7, <2>1, GoroutineSequential DEF ReportError
<1>8. ASSUME SetStop(c, i) PROVE Sequential' BY <1>8, GoroutineSequential DEF SetStop
<1>9. ASSUME Release(c, i) PROVE Sequential' BY <1>9, GoroutineSequential DEF Release
<1> QED BY <1>1, <1>2, <1>3, <1>4, <1>5, <1>6, <1>7, <1>8, <1>9 DEF ItemStep

LEMMA WorkerSequential ==
    ASSUME IInv, NEW c \in Callers, NEW i \in Items, WorkerStep(c, i)
    PROVE  Sequential'
<1>p. \A at \in {"name", "save", "link", "run"} : at \in Unfinished BY DEF Unfinished
<1>1. ASSUME WorkerCheckName(c, i) PROVE Sequential'
  BY <1>1, <1>p, TaskSequential DEF WorkerCheckName
<1>2. ASSUME WorkerSave(c, i) PROVE Sequential'
  <2>0. /\ PersistExecution(c, i)
        /\ UNCHANGED <<opts, kind, call, ids, next, pc, linked, overlap, unlinked>>
    BY <1>2 DEF WorkerSave
  <2>1. PICK to \in {"run", "link"} :
          TaskStep(c, i, "save", to) /\ (kind[c] = "unique" => to = "link")
    BY <1>2 DEF WorkerSave
  <2>2. /\ task[c][i] = "save" /\ task'[c][i] = to
        /\ \A j \in Items \ {i} : task'[c][j] = task[c][j]
        /\ \A d \in Callers \ {c} : task'[d] = task[d]
    <3>1. to \in Unfinished \cup {"none", "archived"} BY <1>p
    <3> QED BY <2>1, <3>1, TaskFacts DEF IInv
  <2>3. i \notin next[c] /\ call[c] # "loop" BY <2>2 DEF IInv, Queued
  <2>4. pc[c][i] = "none" BY <2>3 DEF IInv, Local, Frame
  <2>5. Saving(c, i) /\ ~Saving(c, i)' /\ ~Pending(c, i)'
    BY <2>0, <2>2, <2>3, <2>4 DEF Saving, Pending
  <2>6. kind[c] = "unique" => AtLink(c, i)' BY <2>1, <2>2 DEF AtLink
  <2>7. \A d \in Callers : Active(d)' => Active(d)
    <3> SUFFICES ASSUME NEW d \in Callers, Active(d)' PROVE Active(d)
      OBVIOUS
    <3>1. CASE d = c BY <1>p, <2>2, <3>1 DEF Active
    <3>2. CASE d # c BY <2>0, <2>2, <3>2 DEF Active
    <3> QED BY <3>1, <3>2
  <2>8. ASSUME NEW d \in Callers, NEW j \in Items
        PROVE  /\ Saving(d, j)' => Saving(d, j)
               /\ j # i => (AtLink(d, j) => AtLink(d, j)')
               /\ Pending(d, j)' => Pending(d, j)
    <3>1. CASE d = c /\ j = i BY <2>5, <3>1
    <3>2. CASE ~(d = c /\ j = i)
      <4>1. task'[d][j] = task[d][j] BY <2>2, <3>2
      <4>2. Name(d, j)' = Name(d, j) /\ named \subseteq named'
        BY <2>0 DEF Name, PersistExecution
      <4> QED BY <2>0, <4>1, <4>2 DEF Saving, AtLink, Pending
    <3> QED BY <3>1, <3>2
  <2> QED BY <2>0, <2>5, <2>6, <2>7, <2>8, SaveSequential
<1>3. ASSUME WorkerLink(c, i) PROVE Sequential'
  <2>1. i \in linked' \cup unlinked' /\ linked \subseteq linked' /\ unlinked \subseteq unlinked'
    BY <1>3 DEF WorkerLink, PersistLink
  <2> QED BY <1>3, <1>p, <2>1, TaskSequential DEF WorkerLink
<1>4. ASSUME WorkerDone(c, i) PROVE Sequential'
  BY <1>4, <1>p, TaskSequential DEF WorkerDone
<1>5. ASSUME WorkerFails(c, i) PROVE Sequential'
  <2>1. PICK from \in Unfinished, to \in {"name", "archived"} : TaskStep(c, i, from, to)
    BY <1>5 DEF WorkerFails
  <2>2. from = task[c][i] BY <2>1 DEF TaskStep
  <2>3. /\ UNCHANGED <<opts, kind, call, ids, next, pc, linked, named, processed, overlap, reused>>
        /\ unlinked \subseteq unlinked' /\ (from = "link" => i \in unlinked')
    BY <1>5, <2>2 DEF WorkerFails
  <2>4. to \in Unfinished \cup {"none", "archived"} /\ to # "save" BY <1>p
  <2> QED BY <2>1, <2>3, <2>4, TaskSequential
<1> QED BY <1>1, <1>2, <1>3, <1>4, <1>5 DEF WorkerStep

LEMMA NextSequential == IInv /\ [Next]_vars => Sequential'
<1>1. ASSUME IInv, UNCHANGED vars PROVE Sequential'
  <2>1. \A c \in Callers : Active(c)' => Active(c) BY <1>1 DEF vars, Active
  <2>2. \A c \in Callers : \A i \in Items :
          /\ Saving(c, i)' => Saving(c, i)
          /\ AtLink(c, i) => AtLink(c, i)'
          /\ Pending(c, i)' => Pending(c, i)
    BY <1>1 DEF vars, Saving, AtLink, Pending, Name
  <2> QED BY <1>1, <2>1, <2>2, SequentialKept DEF vars, IInv
<1> QED BY <1>1, BeginSequential, CallSequential, ItemSequential, WorkerSequential DEF Next

-----------------------------------------------------------------------------
(* Theorems.                                                                *)

LEMMA InitInv == Init => IInv
<1> SUFFICES ASSUME Init PROVE IInv
  OBVIOUS
<1>1. ASSUME NEW c \in Callers PROVE Local(c)
  <2>1. Fresh(c) /\ Frame(c) BY DEF Init, Fresh, Frame, Early
  <2>2. Enqueueing(c) /\ Looping(c) /\ Returned(c) BY DEF Init, Enqueueing, Looping, Returned
  <2>3. OneSlot(c) BY DEF Init, OneSlot, Failed
  <2> QED BY <2>1, <2>2, <2>3 DEF Local
<1>2. Alone /\ NamesFree /\ reused = {}
  BY DEF Init, Alone, Active, NamesFree, Saving, Unfinished
<1>3. Unprocessed /\ Linking BY DEF Init, Unprocessed, Linking
<1>4. \A c \in Callers : Queued(c) BY DEF Init, Queued
<1> QED BY <1>1, <1>2, <1>3, <1>4, InitType DEF IInv, Sequential

(* The inductive invariant holds of every behaviour: of each call and of    *)
(* calls that do not overlap.                                               *)
THEOREM Invariance == Spec => []IInv
<1>1. IInv /\ [Next]_vars => IInv' BY NextType, NextLocal, NextQueued, NextSequential DEF IInv
<1> QED BY <1>1, InitInv, PTL DEF Spec

(* Types, and no more goroutines of executeBatchLocal hold the semaphore    *)
(* than ConcurrentBatches.                                                  *)
THEOREM TypeCorrect == Spec => []TypeOK
<1>1. IInv => TypeOK BY DEF IInv
<1> QED BY <1>1, Invariance, PTL

(* ExecuteBatch and ExecuteBulk return an error exactly if StopOnError is   *)
(* set and an item failed, and then alone may results be missing.           *)
THEOREM ReturnIsTrueHolds == Spec => []ReturnIsTrue
<1>1. IInv => ReturnIsTrue
  <2> SUFFICES ASSUME IInv, NEW c \in Callers, call[c] = "returned"
               PROVE  /\ (returned[c] = "error") <=> (opts.stop /\ {i \in ids[c] : results[c][i] = "error"} # {})
                      /\ {i \in ids[c] : results[c][i] = "nil"} # {} => returned[c] = "error"
                      /\ \A i \in Items : pc[c][i] = "none"
    BY DEF ReturnIsTrue
  <2>1. Returned(c) /\ \A i \in Items : pc[c][i] = "none" BY DEF IInv, Local, Frame
  <2> QED BY <2>1 DEF Returned, Failed
<1> QED BY <1>1, Invariance, PTL

(* With one slot, StopOnError stops at the first error: the goroutine that  *)
(* failed sets stopProcessing before another one can pass its check.        *)
THEOREM StopsAtFirstErrorHolds == Spec => []StopsAtFirstError
<1>1. IInv => StopsAtFirstError
  <2> SUFFICES ASSUME IInv, ConcurrentBatches = 1, NEW c \in Callers, opts.stop
               PROVE  Cardinality({i \in Items : results[c][i] = "error"}) <= 1
    BY DEF StopsAtFirstError
  <2> DEFINE E == {i \in Items : results[c][i] = "error"}
  <2>1. \A i, j \in E : i = j BY DEF IInv, Local, OneSlot, Failed
  <2> HIDE DEF E
  <2>2. CASE E = {} BY <2>2, FS_EmptySet DEF E
  <2>3. CASE E # {}
    <3>1. PICK i \in E : TRUE BY <2>3
    <3>2. E = {i} BY <2>1, <3>1
    <3>3. Cardinality(E) = 1 BY <3>2, FS_Singleton
    <3> QED BY <3>3 DEF E
  <2> QED BY <2>2, <2>3
<1> QED BY <1>1, Invariance, PTL

(* Calls with ApplyUnique that do not overlap, their workers included,      *)
(* process no source execution twice unless a link was lost, and calls that *)
(* do not overlap give no name twice.                                       *)
THEOREM SequentialCallsUniqueHolds == Spec => []SequentialCallsUnique
<1>1. IInv => SequentialCallsUnique
  <2> SUFFICES ASSUME IInv, overlap = {}
               PROVE  /\ (\A c \in Callers : kind[c] = "unique") => \A i \in Items \ unlinked : processed[i] <= 1
                      /\ reused = {}
    BY DEF SequentialCallsUnique
  <2>1. ASSUME \A c \in Callers : kind[c] = "unique", NEW i \in Items \ unlinked PROVE processed[i] <= 1
    <3>1. processed[i] \in Nat BY DEF IInv, TypeOK
    <3>2. processed[i] # 0 => processed[i] = 1 BY <2>1 DEF IInv, Sequential, Linking
    <3> QED BY <3>1, <3>2
  <2> QED BY <2>1 DEF IInv, Sequential
<1> QED BY <1>1, Invariance, PTL

=============================================================================
