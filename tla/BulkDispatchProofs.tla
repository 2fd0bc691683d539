------------------------- MODULE BulkDispatchProofs -------------------------
(***************************************************************************)
(* Proofs about module BulkDispatch: types, one winner per micro-batch,    *)
(* no input enqueued twice, the bound on dropped inputs, and verdicts that *)
(* agree with the counters.                                                *)
(***************************************************************************)
EXTENDS BulkDispatch, FiniteSetTheorems, WellFoundedInduction, TLAPS

-----------------------------------------------------------------------------
(* The inductive invariant.                                                *)

\* The cursor is at a micro-batch boundary.
Aligned == cursor = NumInputs \/ \E k \in MBs : cursor = k * MicroBatchSize

\* A run between the barrier and the end of its enqueue loop has a micro-batch and
\* inputs of it.
Loaded == \A c \in Callers, r \in Runs : pc[c][r] \in {"Mark", "Enqueue"} =>
              doc[c][r].mb \in MBs /\ left[c][r] \subseteq Slice(doc[c][r].mb)

Base == TypeOK /\ Aligned /\ Loaded

\* Before its marker is set, nothing of a micro-batch has left the orchestrator.
Unmarked == \A k \in MBs \ dispatched :
                /\ wins[k] = 0 /\ pending[k] = {} /\ group[k].items = {}
                /\ \A i \in Slice(k) : enq[i] = 0

Winning(i) == ipc[i] \in {"snapshot", "resume"}

\* The winner finds the key gone for good; there is one goroutine that won.
Elected ==
    /\ \A k \in MBs : wins[k] <= 1 /\ (wins[k] = 1 => barrier[k] = Missing)
    /\ \A i \in Items : Winning(i) => wins[MbOf(i)] = 1
    /\ \A i, j \in Items : Winning(i) /\ Winning(j) /\ MbOf(i) = MbOf(j) => i = j

\* Goroutines belong to the batch task that is running.
Workers == \A i \in Items : ipc[i] # "idle" =>
               group[MbOf(i)].status = "running" /\ i \in group[MbOf(i)].items

\* Inputs are enqueued after the marker.
MarkedFirst == \A c \in Callers, r \in Runs : pc[c][r] = "Enqueue" => doc[c][r].mb \in dispatched

Counting == Unmarked /\ Elected /\ Workers /\ MarkedFirst

\* A call has two runs: the one RunBulk started, which gives way once it waits, and the
\* one the winner of the micro-batch it waits for resumes.
Resumed(c, r) ==
    /\ corr[c].status # "none" /\ corr[c].mb = r - 1 /\ wins[r - 1] = 1
    /\ \A i \in Slice(r - 1) : ~Winning(i)
    /\ pc[c][r] # "Pause"

RolesOf(c) ==
    /\ pc[c][0] \notin {"Resume", "Evaluate"} /\ ~doc[c][0].marker
    /\ call[c] # "running" => corr[c].status = "none" /\ \A r \in Runs : pc[c][r] = "none"
    /\ corr[c].status # "none" => pc[c][0] \in {"Pause", "ended"} /\ corr[c].mb \in dispatched
    /\ pc[c][0] = "Wait" => doc[c][0].mb \in dispatched
    /\ \A r \in Runs \ {0} : /\ pc[c][r] # "none" => Resumed(c, r)
                             /\ ~AtRest(c, r) => doc[c][r].marker

Roles == \A c \in Callers : RolesOf(c)

\* Micro-batch k will not elect a winner any more.
Closed(k) == /\ k \in dispatched /\ Quiet(k)
             /\ \A c \in Callers, r \in Runs :
                    pc[c][r] \in {"Mark", "Enqueue"} => doc[c][r].mb # k

\* Call c has, or may still get, a run that works.
Live(c) == \/ call[c] = "locked"
           \/ \E r \in Runs : ~AtRest(c, r)
           \/ \E k \in MBs : corr[c].status = "WAITING" /\ corr[c].mb = k /\ ~Closed(k)

\* The lock keeps all but one call out.
Exclusive == \A c \in Callers : Live(c) => lock /\ \A d \in Callers : Live(d) => d = c

\* What a run is about to mark is not marked; what it is about to enqueue was not
\* enqueued.
Untouched == \A c \in Callers, r \in Runs :
    /\ pc[c][r] = "Mark" => doc[c][r].mb \notin dispatched /\ left[c][r] = Slice(doc[c][r].mb)
    /\ pc[c][r] = "Enqueue" => \A i \in left[c][r] : enq[i] = 0

\* What waits for aggregation was enqueued.
Delivered == \A k \in MBs : \A i \in pending[k] : enq[i] = 1

Dispatching == Roles /\ Exclusive /\ Untouched /\ Delivered /\ AtMostOnce

IInv == Base /\ Counting /\ Dispatching

-----------------------------------------------------------------------------
(* Slices of the input.                                                    *)

\* Division by the micro-batch size, as a bound from both sides.
LEMMA Division ==
    ASSUME NEW i \in Nat, NEW k \in Nat
    PROVE  i \div MicroBatchSize = k <=>
             k * MicroBatchSize <= i /\ i < k * MicroBatchSize + MicroBatchSize
<1>1. MicroBatchSize \in Nat \ {0} BY BulkAssumption
<1> QED BY <1>1

\* The quotients of the inputs are the indices of the micro-batches.
LEMMA IndexInRange ==
    /\ \A i \in Items : i \div MicroBatchSize \in MBs
    /\ \A k \in MBs : k \in Nat /\ k * MicroBatchSize \in Items
    /\ \A k \in Nat : k * MicroBatchSize < NumInputs => k \in MBs
<1> DEFINE q == (NumInputs - 1) \div MicroBatchSize
<1>1. MicroBatchSize \in Nat \ {0} /\ NumInputs \in Nat \ {0} BY BulkAssumption
<1>2. q \in Nat BY <1>1
<1>3. q * MicroBatchSize <= NumInputs - 1 /\ NumInputs - 1 < q * MicroBatchSize + MicroBatchSize
  BY <1>1, <1>2, Division
<1>4. MBs = 0..q BY DEF MBs
<1> HIDE DEF q
<1>5. ASSUME NEW k \in Nat, k > q PROVE k * MicroBatchSize >= NumInputs
  <2>1. PICK d \in Nat : k = q + 1 + d BY <1>2, <1>5
  <2>2. k * MicroBatchSize = q * MicroBatchSize + MicroBatchSize + d * MicroBatchSize
    BY <1>1, <1>2, <2>1
  <2>3. d * MicroBatchSize \in Nat /\ q * MicroBatchSize \in Nat BY <1>1, <1>2
  <2> QED BY <1>1, <1>3, <2>2, <2>3
<1>6. ASSUME NEW k \in 0..q PROVE k * MicroBatchSize \in Items
  <2>1. PICK d \in Nat : q = k + d BY <1>2
  <2>2. q * MicroBatchSize = k * MicroBatchSize + d * MicroBatchSize BY <1>1, <2>1
  <2>3. d * MicroBatchSize \in Nat /\ k * MicroBatchSize \in Nat BY <1>1, <2>1
  <2> QED BY <1>1, <1>3, <2>2, <2>3 DEF Items
<1>7. ASSUME NEW i \in Items PROVE i \div MicroBatchSize \in MBs
  <2>1. i \in Nat /\ i < NumInputs BY <1>1 DEF Items
  <2>2. i \div MicroBatchSize \in Nat BY <1>1, <2>1
  <2>3. (i \div MicroBatchSize) * MicroBatchSize <= i BY <2>1, <2>2, Division
  <2>4. PICK k \in Nat : k = i \div MicroBatchSize BY <2>2
  <2>5. k * MicroBatchSize <= i /\ k * MicroBatchSize \in Nat BY <1>1, <2>3, <2>4
  <2>6. ~(k > q) BY <1>1, <1>5, <2>1, <2>5
  <2>7. k \in 0..q BY <1>2, <2>6
  <2> QED BY <1>4, <2>4, <2>7
<1>8. ASSUME NEW k \in Nat, k * MicroBatchSize < NumInputs PROVE k \in MBs
  <2>1. k * MicroBatchSize \in Nat BY <1>1
  <2>2. ~(k > q) BY <1>1, <1>5, <1>8, <2>1
  <2> QED BY <1>2, <1>4, <2>2
<1>9. \A k \in MBs : k \in Nat /\ k * MicroBatchSize \in Items BY <1>2, <1>4, <1>6
<1> QED BY <1>7, <1>8, <1>9

LEMMA Membership ==
    /\ \A i \in Items : MbOf(i) \in MBs
    /\ \A k \in MBs : Slice(k) \subseteq Items /\ \A i \in Items : i \in Slice(k) <=> MbOf(i) = k
BY IndexInRange DEF MbOf, Slice

\* A slice is a non-empty interval of at most MicroBatchSize inputs that starts at the
\* micro-batch's cursor; the next cursor follows it.
LEMMA SliceSize ==
    ASSUME NEW k \in MBs
    PROVE  /\ IsFiniteSet(Slice(k)) /\ Cardinality(Slice(k)) \in 1..MicroBatchSize
           /\ k * MicroBatchSize + Cardinality(Slice(k)) \in 0..NumInputs
           /\ \/ k * MicroBatchSize + Cardinality(Slice(k)) = NumInputs
              \/ k + 1 \in MBs
                 /\ k * MicroBatchSize + Cardinality(Slice(k)) = (k + 1) * MicroBatchSize
<1>1. MicroBatchSize \in Nat \ {0} /\ NumInputs \in Nat \ {0} BY BulkAssumption
<1>2. PICK a \in Nat : a = k * MicroBatchSize /\ a < NumInputs /\ k \in Nat
  BY <1>1, IndexInRange DEF Items
<1>3. ASSUME NEW i \in Items PROVE i \div MicroBatchSize = k <=> a <= i /\ i < a + MicroBatchSize
  BY <1>2, Division DEF Items
<1>4. CASE a + MicroBatchSize >= NumInputs
  <2>1. Slice(k) = a..(NumInputs - 1) BY <1>1, <1>2, <1>3, <1>4 DEF Slice, Items
  <2>2. IsFiniteSet(Slice(k)) /\ Cardinality(Slice(k)) = NumInputs - a
    BY <1>1, <1>2, <2>1, FS_Interval
  <2> QED BY <1>1, <1>2, <1>4, <2>2
<1>5. CASE a + MicroBatchSize < NumInputs
  <2>1. Slice(k) = a..(a + MicroBatchSize - 1) BY <1>1, <1>2, <1>3, <1>5 DEF Slice, Items
  <2>2. IsFiniteSet(Slice(k)) /\ Cardinality(Slice(k)) = MicroBatchSize
    BY <1>1, <1>2, <2>1, FS_Interval
  <2>3. (k + 1) * MicroBatchSize = a + MicroBatchSize BY <1>1, <1>2
  <2>4. k + 1 \in MBs BY <1>1, <1>2, <1>5, <2>3, IndexInRange
  <2> QED BY <1>1, <1>2, <1>5, <2>2, <2>3, <2>4
<1> QED BY <1>1, <1>2, <1>4, <1>5

\* The micro-batch of an aligned cursor.
LEMMA IndexOfCursor ==
    ASSUME Aligned, cursor < NumInputs
    PROVE  cursor \div MicroBatchSize \in MBs
           /\ cursor = (cursor \div MicroBatchSize) * MicroBatchSize
<1>1. MicroBatchSize \in Nat \ {0} /\ NumInputs \in Nat \ {0} BY BulkAssumption
<1>2. PICK k \in MBs : cursor = k * MicroBatchSize BY <1>1 DEF Aligned
<1>3. k \in Nat /\ cursor \in Nat BY <1>1, <1>2, IndexInRange
<1>4. cursor \div MicroBatchSize = k BY <1>1, <1>2, <1>3, Division
<1> QED BY <1>2, <1>4

-----------------------------------------------------------------------------
(* The metrics window and its rate.                                        *)

Windows == {w \in Seq({0, 1}) : Len(w) <= WindowN}

LEMMA Pushed ==
    ASSUME NEW w \in Windows, NEW bit \in {0, 1}
    PROVE  PushOutcome(w, bit) \in Windows
<1>1. WindowN \in Nat /\ WindowN >= 1 BY BulkAssumption
<1>2. w \in Seq({0, 1}) /\ Len(w) \in Nat /\ Len(w) <= WindowN BY DEF Windows
<1>a. Append(w, bit) \in Seq({0, 1}) BY <1>2
<1>b. Len(Append(w, bit)) = Len(w) + 1 BY <1>2
<1>3. PICK all \in Seq({0, 1}) : all = Append(w, bit) /\ Len(all) = Len(w) + 1 BY <1>a, <1>b
<1>4. CASE Len(all) > WindowN
  <2>1. Len(all) = WindowN + 1 BY <1>1, <1>2, <1>3, <1>4
  <2>2. PushOutcome(w, bit) = SubSeq(all, 2, Len(all)) BY <1>1, <1>3, <1>4, <2>1 DEF PushOutcome
  <2>3. \A j \in 2..Len(all) : all[j] \in {0, 1} BY <1>3, <2>1, <1>1
  <2>4. SubSeq(all, 2, Len(all)) \in Seq({0, 1}) BY <1>1, <1>3, <2>1, <2>3
  <2>5. Len(SubSeq(all, 2, Len(all))) = WindowN BY <1>1, <1>3, <2>1
  <2> QED BY <1>1, <2>2, <2>4, <2>5 DEF Windows
<1>5. CASE ~(Len(all) > WindowN)
  BY <1>1, <1>2, <1>3, <1>5 DEF PushOutcome, Windows
<1> QED BY <1>4, <1>5

LEMMA Product ==
    ASSUME NEW a \in Nat, NEW b \in Nat, NEW u \in Nat, a <= b
    PROVE  a * u \in Nat /\ a * u <= b * u
OBVIOUS

\* What one failure adds to the rate of a window of n outcomes.
LEMMA UnitOfWindow ==
    ASSUME NEW n \in 1..WindowN
    PROVE  \E u \in Nat : u = Whole \div n /\ n * u = Whole
<1>1. n \in Nat \ {0} /\ Whole \in Nat /\ Whole % n = 0 BY BulkAssumption
<1>2. Whole = n * (Whole \div n) + (Whole % n) BY <1>1
<1>3. Whole \div n \in Nat BY <1>1
<1> QED BY <1>1, <1>2, <1>3

LEMMA RateInRange ==
    ASSUME NEW w \in Windows
    PROVE  ComputeFailureRate(w) \in 0..Whole
<1>0. w \in Seq({0, 1}) /\ Len(w) <= WindowN BY DEF Windows
<1>1. Len(w) \in Nat BY <1>0
<1>2. PICK f \in Nat : f = Failures(w) /\ f <= Len(w)
  <2>0. PICK n \in Nat : n = Len(w) BY <1>1
  <2>a. IsFiniteSet(1..n) /\ Cardinality(1..n) = n BY FS_Interval
  <2>1. IsFiniteSet(1..Len(w)) /\ Cardinality(1..Len(w)) = Len(w) BY <2>0, <2>a
  <2>2. {j \in 1..Len(w) : w[j] = 1} \in SUBSET (1..Len(w)) OBVIOUS
  <2>3. /\ IsFiniteSet({j \in 1..Len(w) : w[j] = 1})
        /\ Cardinality({j \in 1..Len(w) : w[j] = 1}) <= Len(w)
    BY <2>1, <2>2, FS_Subset
  <2>4. Cardinality({j \in 1..Len(w) : w[j] = 1}) \in Nat BY <2>3, FS_CardinalityType
  <2> QED BY <2>3, <2>4 DEF Failures
<1>3. CASE w = <<>> BY <1>3, BulkAssumption DEF ComputeFailureRate
<1>4. CASE w # <<>>
  <2>1. PICK n \in 1..WindowN : n = Len(w) BY <1>0, <1>1, <1>4, BulkAssumption
  <2>2. PICK u \in Nat : u = Whole \div n /\ n * u = Whole BY UnitOfWindow
  <2>3. ComputeFailureRate(w) = f * u BY <1>2, <1>4, <2>1, <2>2 DEF ComputeFailureRate
  <2>4. n \in Nat /\ f <= n BY <1>2, <2>1, BulkAssumption
  <2>5. f * u \in Nat /\ f * u <= n * u BY <2>4, Product
  <2> QED BY <2>2, <2>3, <2>5, BulkAssumption
<1> QED BY <1>3, <1>4

-----------------------------------------------------------------------------
(* Records, and functions of a call and a run.                             *)

SetAt(g, f, c, r, v) == g = [f EXCEPT ![c][r] = v]

LEMMA DispatchedDocument ==
    ASSUME NEW d \in Documents, NEW k \in MBs
    PROVE  /\ Dispatched(d, k) \in Documents
           /\ Dispatched(d, k).mb = k /\ Dispatched(d, k).marker = d.marker
BY DEF Dispatched, Documents

LEMMA Emptied ==
    /\ BulkOrchestratorInput \in Documents /\ ~BulkOrchestratorInput.marker
    /\ NoRow \in Rows /\ "ended" \in RunPc
BY DEF BulkOrchestratorInput, Documents, NoRow, Rows, RunPc

LEMMA Attempted ==
    ASSUME NEW g \in BatchTasks
    PROVE  /\ AfterAttempt(g) \in BatchTasks /\ AfterAttempt(g).items = g.items
           /\ AfterAttempt(g).status \in {"queued", "archived"}
<1>1. MaxRetry \in Nat BY BulkAssumption
<1>2. CASE g.retried < MaxRetry
  <2>1. g.retried + 1 \in 0..MaxRetry BY <1>1, <1>2 DEF BatchTasks
  <2>2. PICK h : h = [g EXCEPT !.status = "queued", !.retried = @ + 1] OBVIOUS
  <2>3. h \in BatchTasks /\ h.items = g.items /\ h.status = "queued" BY <2>1, <2>2 DEF BatchTasks
  <2> QED BY <1>2, <2>2, <2>3 DEF AfterAttempt
<1>3. CASE ~(g.retried < MaxRetry)
  <2>2. PICK h : h = [g EXCEPT !.status = "archived"] OBVIOUS
  <2>3. h \in BatchTasks /\ h.items = g.items /\ h.status = "archived" BY <2>2 DEF BatchTasks
  <2> QED BY <1>3, <2>2, <2>3 DEF AfterAttempt
<1> QED BY <1>2, <1>3

-----------------------------------------------------------------------------
(* Types.                                                                  *)

LEMMA InitBase == Init => Base
<1> SUFFICES ASSUME Init PROVE Base OBVIOUS
<1>1. NumInputs \in Nat \ {0} /\ MicroBatchSize \in Nat \ {0} /\ WindowN \in Nat \ {0}
      /\ MaxRetry \in Nat /\ MaxFaults \in Nat
  BY BulkAssumption
<1>2. RedisType
  <2>0. window = <<>> BY DEF Init
  <2>1. window \in Seq({0, 1}) /\ Len(window) = 0 BY <2>0
  <2>2. lock \in BOOLEAN /\ dispatched \subseteq MBs BY DEF Init
  <2>6. cursor = 0 BY DEF Init
  <2>7. cursor \in 0..NumInputs BY <1>1, <2>6
  <2>3. barrier \in [MBs -> {Missing} \cup 1..MicroBatchSize] BY DEF Init
  <2>4. rate \in [MBs -> {Missing} \cup 0..Whole] BY DEF Init
  <2>5. Len(window) <= WindowN /\ processed \in Nat /\ failed \in 0..processed BY <1>1, <2>1 DEF Init
  <2> QED BY <2>1, <2>2, <2>3, <2>4, <2>5, <2>7 DEF RedisType
<1>3. RunType BY Emptied DEF Init, RunType, RunPc
<1>4. RepoType
  <2>1. [status |-> "none", mb |-> NoMB] \in Correlations BY DEF Correlations
  <2> QED BY <2>1, Emptied DEF Init, RepoType
<1>5. QueueType
  <2>1. PICK g : g = [status |-> "none", items |-> {}, retried |-> 0] OBVIOUS
  <2>2. g \in BatchTasks /\ g.items = {} BY <1>1, <2>1 DEF BatchTasks
  <2> QED BY <2>1, <2>2 DEF Init, QueueType
<1>6. ItemType BY DEF Init, ItemType
<1>7. faults \in 0..MaxFaults /\ enq \in [Items -> Nat] /\ wins \in [MBs -> Nat]
  BY <1>1 DEF Init
<1>8. Aligned
  <2>1. 0 \in MBs /\ 0 = 0 * MicroBatchSize BY <1>1, IndexInRange
  <2> QED BY <2>1 DEF Init, Aligned
<1>9. Loaded BY DEF Init, Loaded
<1> QED BY <1>2, <1>3, <1>4, <1>5, <1>6, <1>7, <1>8, <1>9 DEF Base, TypeOK

\* What a step leaves alone keeps its type.
LEMMA Frames ==
    /\ RedisType /\ UNCHANGED redisVars => RedisType'
    /\ RunType /\ UNCHANGED orchVars => RunType'
    /\ RepoType /\ UNCHANGED repoVars => RepoType'
    /\ QueueType /\ UNCHANGED queueVars => QueueType'
    /\ ItemType /\ UNCHANGED itemVars => ItemType'
<1>1. RedisType /\ UNCHANGED redisVars => RedisType' BY DEF RedisType, redisVars
<1>2. RunType /\ UNCHANGED orchVars => RunType' BY DEF RunType, orchVars
<1>3. RepoType /\ UNCHANGED repoVars => RepoType' BY DEF RepoType, repoVars
<1>4. QueueType /\ UNCHANGED queueVars => QueueType' BY DEF QueueType, queueVars
<1>5. ItemType /\ UNCHANGED itemVars => ItemType' BY DEF ItemType, itemVars
<1> QED BY <1>1, <1>2, <1>3, <1>4, <1>5

\* A step of run r of call c leaves the other runs alone.
Others(c, r) == \A d \in Callers, s \in Runs : (d # c \/ s # r) =>
    /\ pc'[d][s] = pc[d][s] /\ doc'[d][s] = doc[d][s] /\ left'[d][s] = left[d][s]

LEMMA RunEffect ==
    ASSUME RunType, NEW c \in Callers, NEW r \in Runs,
           NEW p \in RunPc, NEW d \in Documents, NEW l \in SUBSET Items, NEW n \in Rows,
           call' \in [Callers -> {"new", "locked", "error", "running"}],
           SetAt(pc', pc, c, r, p),
           (doc' = doc /\ d = doc[c][r]) \/ SetAt(doc', doc, c, r, d),
           (left' = left /\ l = left[c][r]) \/ SetAt(left', left, c, r, l),
           snap' = snap \/ SetAt(snap', snap, c, r, n)
    PROVE  /\ RunType' /\ Others(c, r)
           /\ pc'[c][r] = p /\ doc'[c][r] = d /\ left'[c][r] = l
<1>0. /\ pc \in [Callers -> [Runs -> RunPc]]
      /\ doc \in [Callers -> [Runs -> Documents]]
      /\ left \in [Callers -> [Runs -> SUBSET Items]]
      /\ snap \in [Callers -> [Runs -> Rows]]
  BY DEF RunType
<1>1. /\ pc' \in [Callers -> [Runs -> RunPc]] /\ pc'[c][r] = p
      /\ \A x \in Callers, y \in Runs : (x # c \/ y # r) => pc'[x][y] = pc[x][y]
  BY <1>0 DEF SetAt
<1>2. /\ doc' \in [Callers -> [Runs -> Documents]] /\ doc'[c][r] = d
      /\ \A x \in Callers, y \in Runs : (x # c \/ y # r) => doc'[x][y] = doc[x][y]
  <2>1. CASE doc' = doc /\ d = doc[c][r] BY <2>1 DEF RunType
  <2>2. CASE SetAt(doc', doc, c, r, d) BY <1>0, <2>2 DEF SetAt
  <2> QED BY <2>1, <2>2
<1>3. /\ left' \in [Callers -> [Runs -> SUBSET Items]] /\ left'[c][r] = l
      /\ \A x \in Callers, y \in Runs : (x # c \/ y # r) => left'[x][y] = left[x][y]
  <2>1. CASE left' = left /\ l = left[c][r] BY <2>1 DEF RunType
  <2>2. CASE SetAt(left', left, c, r, l) BY <1>0, <2>2 DEF SetAt
  <2> QED BY <2>1, <2>2
<1>4. snap' \in [Callers -> [Runs -> Rows]]
  <2>1. CASE snap' = snap BY <2>1 DEF RunType
  <2>2. CASE SetAt(snap', snap, c, r, n) BY <1>0, <2>2 DEF SetAt
  <2> QED BY <2>1, <2>2
<1>5. RunType' BY <1>1, <1>2, <1>3, <1>4 DEF RunType
<1> QED BY <1>1, <1>2, <1>3, <1>5 DEF Others

\* A run that ends.
LEMMA EndEffect ==
    ASSUME RunType, NEW c \in Callers, NEW r \in Runs, Ends(c, r), UNCHANGED call
    PROVE  /\ RunType' /\ Others(c, r)
           /\ pc'[c][r] = "ended" /\ ~doc'[c][r].marker
<1>1. call' \in [Callers -> {"new", "locked", "error", "running"}] BY DEF RunType
<1>2. {} \in SUBSET Items OBVIOUS
<1>3. /\ SetAt(pc', pc, c, r, "ended")
      /\ SetAt(doc', doc, c, r, BulkOrchestratorInput)
      /\ SetAt(left', left, c, r, {})
      /\ SetAt(snap', snap, c, r, NoRow)
  BY DEF Ends, SetAt
<1>4. RunType' /\ Others(c, r) /\ pc'[c][r] = "ended" /\ doc'[c][r] = BulkOrchestratorInput
  BY <1>1, <1>2, <1>3, Emptied, RunEffect
<1> QED BY <1>4, Emptied

\* A run that moves and changes nothing else.
LEMMA MoveEffect ==
    ASSUME RunType, NEW c \in Callers, NEW r \in Runs, NEW p \in RunPc,
           SetAt(pc', pc, c, r, p), call' = call, doc' = doc, left' = left,
           snap' = snap \/ SetAt(snap', snap, c, r, NoRow)
    PROVE  /\ RunType' /\ Others(c, r)
           /\ pc'[c][r] = p /\ doc'[c][r] = doc[c][r] /\ left'[c][r] = left[c][r]
<1>1. call' \in [Callers -> {"new", "locked", "error", "running"}] BY DEF RunType
<1>2. doc[c][r] \in Documents /\ left[c][r] \in SUBSET Items BY DEF RunType
<1>3. doc' = doc /\ left' = left OBVIOUS
<1> QED BY <1>1, <1>2, <1>3, Emptied, RunEffect

\* A run that moves with a new document.
LEMMA DocEffect ==
    ASSUME RunType, NEW c \in Callers, NEW r \in Runs, NEW p \in RunPc, NEW d \in Documents,
           SetAt(pc', pc, c, r, p), SetAt(doc', doc, c, r, d),
           call' = call, left' = left, snap' = snap
    PROVE  /\ RunType' /\ Others(c, r)
           /\ pc'[c][r] = p /\ doc'[c][r] = d /\ left'[c][r] = left[c][r]
<1>1. call' \in [Callers -> {"new", "locked", "error", "running"}] BY DEF RunType
<1>2. left[c][r] \in SUBSET Items BY DEF RunType
<1> QED BY <1>1, <1>2, Emptied, RunEffect

LEMMA LoadedKept ==
    ASSUME Loaded, NEW c \in Callers, NEW r \in Runs, Others(c, r),
           pc'[c][r] \in {"Mark", "Enqueue"} =>
               doc'[c][r].mb \in MBs /\ left'[c][r] \subseteq Slice(doc'[c][r].mb)
    PROVE  Loaded'
<1> SUFFICES ASSUME NEW d \in Callers, NEW s \in Runs, pc'[d][s] \in {"Mark", "Enqueue"}
    PROVE  doc'[d][s].mb \in MBs /\ left'[d][s] \subseteq Slice(doc'[d][s].mb)
  BY DEF Loaded, Slice
<1>1. CASE d = c /\ s = r BY <1>1
<1>2. CASE d # c \/ s # r
  <2>1. pc'[d][s] = pc[d][s] /\ doc'[d][s] = doc[d][s] /\ left'[d][s] = left[d][s]
    BY <1>2 DEF Others
  <2> QED BY <2>1 DEF Loaded
<1> QED BY <1>1, <1>2

LEMMA BaseKept ==
    ASSUME Base, NEW c \in Callers, NEW r \in Runs, Others(c, r),
           RunType', RedisType', RepoType', QueueType',
           UNCHANGED cursor \/ Aligned', UNCHANGED <<ipc, failure, wins>>,
           faults' \in 0..MaxFaults, enq' \in [Items -> Nat],
           pc'[c][r] \in {"Mark", "Enqueue"} =>
               doc'[c][r].mb \in MBs /\ left'[c][r] \subseteq Slice(doc'[c][r].mb)
    PROVE  Base'
<1>1. Loaded' BY LoadedKept DEF Base
<1>2. Aligned' BY DEF Base, Aligned
<1>3. ItemType' BY Frames DEF Base, TypeOK, itemVars
<1>4. wins' \in [MBs -> Nat] BY DEF Base, TypeOK
<1> QED BY <1>1, <1>2, <1>3, <1>4 DEF Base, TypeOK

LEMMA FaultCount == ASSUME TypeOK, Fault PROVE faults' \in 0..MaxFaults /\ faults' = faults + 1
BY BulkAssumption DEF TypeOK, Fault

\* A step of a run that shares nothing with the other runs and the workers but, perhaps,
\* the cursor, the metrics and the row.
Quietly(c, r) ==
    /\ UNCHANGED <<lock, dispatched, barrier, call, corr, pending, group, ipc, enq, wins>>
    /\ Others(c, r) /\ ~AtRest(c, r)
    /\ pc'[c][r] \in {"Wait", "Evaluate", "Dispatch", "Completed", "Failed", "ended"}
    /\ pc'[c][r] # "ended" => doc'[c][r].marker = doc[c][r].marker /\ pc[c][r] # "Pause"
    /\ pc'[c][r] = "ended" => ~doc'[c][r].marker
    /\ pc'[c][r] = "Wait" => doc'[c][r].mb \in dispatched
    /\ pc'[c][r] = "Evaluate" => doc[c][r].marker
    /\ (faults' = faults /\ pc[c][r] # "Enqueue") \/ faults' = faults + 1

LEMMA QuietDispatchComplete ==
    ASSUME Base, NEW c \in Callers, NEW r \in Runs, DispatchComplete(c, r)
    PROVE  Base' /\ Quietly(c, r)
<1>1. /\ pc[c][r] = "Dispatch" /\ pc' = [pc EXCEPT ![c][r] = "Completed"]
      /\ CleanupBatchResources(doc[c][r])
      /\ UNCHANGED <<call, doc, left>> /\ snap' = snap
      /\ UNCHANGED <<lock, dispatched, barrier, rate, call, repoVars, queueVars, itemVars>>
      /\ UNCHANGED <<faults, enq, wins>>
  BY DEF DispatchComplete, Goto
<1>2. /\ RunType' /\ Others(c, r)
      /\ pc'[c][r] = "Completed" /\ doc'[c][r] = doc[c][r]
  <2>1. "Completed" \in RunPc BY DEF RunPc
  <2>2. RunType BY DEF Base, TypeOK
  <2>3. call' = call /\ doc' = doc /\ left' = left /\ snap' = snap BY <1>1
  <2>4. SetAt(pc', pc, c, r, "Completed") BY <1>1 DEF SetAt
  <2> QED BY <2>1, <2>2, <2>3, <2>4, MoveEffect
<1>3. RedisType' /\ (UNCHANGED cursor \/ Aligned')
  <2>1. CASE UNCHANGED <<cursor, window, processed, failed>>
    <3>1. UNCHANGED redisVars BY <1>1, <2>1 DEF redisVars
    <3> QED BY <2>1, <3>1, Frames DEF Base, TypeOK
  <2>2. CASE cursor' = 0 /\ window' = <<>> /\ processed' = 0 /\ failed' = 0
    <3>1. window' \in Seq({0, 1}) /\ Len(window') = 0 BY <2>2
    <3>2. Len(window') <= WindowN /\ cursor' \in 0..NumInputs /\ 0 \in MBs
          /\ 0 = 0 * MicroBatchSize
      BY <2>2, <3>1, BulkAssumption, IndexInRange
    <3>3. Aligned' BY <2>2, <3>2 DEF Aligned
    <3>4. processed' \in Nat /\ failed' \in 0..processed' BY <2>2
    <3>5. /\ lock' \in BOOLEAN /\ dispatched' \subseteq MBs
          /\ barrier' \in [MBs -> {Missing} \cup 1..MicroBatchSize]
          /\ rate' \in [MBs -> {Missing} \cup 0..Whole]
      BY <1>1 DEF Base, TypeOK, RedisType
    <3> QED BY <3>1, <3>2, <3>3, <3>4, <3>5 DEF RedisType
  <2> QED BY <1>1, <2>1, <2>2 DEF CleanupBatchResources
<1>4. RepoType' /\ QueueType' BY <1>1, Frames DEF Base, TypeOK
<1>5. faults' \in 0..MaxFaults /\ enq' \in [Items -> Nat] BY <1>1 DEF Base, TypeOK
<1>6. UNCHANGED <<ipc, failure, wins>> BY <1>1 DEF itemVars
<1>7. Base' BY <1>2, <1>3, <1>4, <1>5, <1>6, BaseKept
<1>8. UNCHANGED <<lock, dispatched, barrier, call, corr, pending, group, ipc, enq, wins>>
  BY <1>1 DEF repoVars, queueVars, itemVars
<1> QED BY <1>1, <1>2, <1>7, <1>8 DEF Quietly, AtRest

LEMMA QuietSkipDispatched ==
    ASSUME Base, NEW c \in Callers, NEW r \in Runs, SkipDispatched(c, r)
    PROVE  Base' /\ Quietly(c, r)
<1> DEFINE k == cursor \div MicroBatchSize
<1>1. /\ pc[c][r] = "Dispatch" /\ pc' = [pc EXCEPT ![c][r] = "Wait"]
      /\ cursor < NumInputs /\ k \in dispatched
      /\ cursor' = cursor + Cardinality(Slice(k))
      /\ doc' = [doc EXCEPT ![c][r] = Dispatched(doc[c][r], k)]
      /\ UNCHANGED <<call, left, snap>>
      /\ UNCHANGED <<lock, dispatched, barrier, window, processed, failed, rate>>
      /\ UNCHANGED <<repoVars, queueVars, itemVars, faults, histVars>>
  BY DEF SkipDispatched, Goto
<1>2. k \in MBs /\ cursor = k * MicroBatchSize BY <1>1, IndexOfCursor DEF Base
<1> HIDE DEF k
<1>3. /\ RunType' /\ Others(c, r)
      /\ pc'[c][r] = "Wait" /\ doc'[c][r] = Dispatched(doc[c][r], k)
  <2>1. "Wait" \in RunPc BY DEF RunPc
  <2>2. doc[c][r] \in Documents /\ RunType BY DEF Base, TypeOK, RunType
  <2>3. PICK d \in Documents : d = Dispatched(doc[c][r], k) BY <1>2, <2>2, DispatchedDocument
  <2>4. call' = call /\ left' = left /\ snap' = snap BY <1>1
  <2>5. SetAt(pc', pc, c, r, "Wait") BY <1>1 DEF SetAt
  <2>6. SetAt(doc', doc, c, r, d) BY <1>1, <2>3 DEF SetAt
  <2>7. RunType' /\ Others(c, r) /\ pc'[c][r] = "Wait" /\ doc'[c][r] = d
    BY <2>1, <2>2, <2>4, <2>5, <2>6, DocEffect
  <2> QED BY <2>3, <2>7
<1>4. doc'[c][r].mb = k /\ doc'[c][r].marker = doc[c][r].marker
  BY <1>2, <1>3, DispatchedDocument DEF Base, TypeOK, RunType
<1>5. cursor' \in 0..NumInputs /\ Aligned'
  <2>1. cursor' \in 0..NumInputs BY <1>1, <1>2, SliceSize
  <2>2. cursor' = NumInputs \/ \E j \in MBs : cursor' = j * MicroBatchSize
    BY <1>1, <1>2, SliceSize
  <2> QED BY <2>1, <2>2 DEF Aligned
<1>6. RedisType' BY <1>1, <1>5 DEF Base, TypeOK, RedisType
<1>7. RepoType' /\ QueueType' BY <1>1, Frames DEF Base, TypeOK
<1>8. faults' \in 0..MaxFaults /\ enq' \in [Items -> Nat] BY <1>1 DEF Base, TypeOK, histVars
<1>9. UNCHANGED <<ipc, failure, wins>> BY <1>1 DEF itemVars, histVars
<1>10. Base' BY <1>3, <1>5, <1>6, <1>7, <1>8, <1>9, BaseKept
<1>11. UNCHANGED <<lock, dispatched, barrier, call, corr, pending, group, ipc, enq, wins>>
  BY <1>1 DEF repoVars, queueVars, itemVars, histVars
<1> QED BY <1>1, <1>3, <1>4, <1>10, <1>11 DEF Quietly, AtRest

LEMMA RunsOnly ==
    ASSUME Base, NEW c \in Callers, NEW r \in Runs, Others(c, r), RunType', RepoType',
           UNCHANGED redisVars, UNCHANGED queueVars, UNCHANGED itemVars,
           enq' = enq, wins' = wins, faults' \in 0..MaxFaults,
           pc'[c][r] \notin {"Mark", "Enqueue"}
    PROVE  /\ Base'
           /\ UNCHANGED <<lock, dispatched, barrier, pending, group, ipc, enq, wins>>
<1>1. RedisType' /\ QueueType' BY Frames DEF Base, TypeOK
<1>2. /\ UNCHANGED <<lock, dispatched, barrier, pending, group, ipc, enq, wins>>
      /\ UNCHANGED cursor /\ UNCHANGED <<ipc, failure, wins>>
  BY DEF redisVars, queueVars, itemVars
<1>3. enq' \in [Items -> Nat] BY DEF Base, TypeOK
<1> QED BY <1>1, <1>2, <1>3, BaseKept

LEMMA QuietMessageReceived ==
    ASSUME Base, NEW c \in Callers, NEW r \in Runs, MessageReceived(c, r)
    PROVE  Base' /\ Quietly(c, r)
<1>1. /\ doc[c][r].marker /\ pc[c][r] = "Wait" /\ pc' = [pc EXCEPT ![c][r] = "Evaluate"]
      /\ doc' = [doc EXCEPT ![c][r].batch = TRUE]
      /\ call' = call /\ left' = left /\ snap' = snap
      /\ UNCHANGED redisVars /\ UNCHANGED repoVars /\ UNCHANGED queueVars
      /\ UNCHANGED itemVars /\ faults' = faults /\ enq' = enq /\ wins' = wins
  BY DEF MessageReceived, Goto, histVars
<1>2. PICK d \in Documents : d = [doc[c][r] EXCEPT !.batch = TRUE] /\ d.marker = doc[c][r].marker
  <2>1. doc[c][r] \in Documents BY DEF Base, TypeOK, RunType
  <2>2. PICK x : x = [doc[c][r] EXCEPT !.batch = TRUE] OBVIOUS
  <2>3. x \in Documents /\ x.marker = doc[c][r].marker BY <2>1, <2>2 DEF Documents
  <2> QED BY <2>2, <2>3
<1>3. /\ RunType' /\ Others(c, r)
      /\ pc'[c][r] = "Evaluate" /\ doc'[c][r] = d
  <2>1. "Evaluate" \in RunPc /\ RunType BY DEF RunPc, Base, TypeOK
  <2>2. SetAt(pc', pc, c, r, "Evaluate") /\ SetAt(doc', doc, c, r, d) BY <1>1, <1>2 DEF SetAt
  <2>3. call' = call /\ left' = left /\ snap' = snap BY <1>1
  <2> QED BY <2>1, <2>2, <2>3, DocEffect
<1>4. RepoType' BY <1>1, Frames DEF Base, TypeOK
<1>5. faults' \in 0..MaxFaults BY <1>1 DEF Base, TypeOK
<1>6. /\ Base'
      /\ UNCHANGED <<lock, dispatched, barrier, pending, group, ipc, enq, wins>>
  BY <1>1, <1>3, <1>4, <1>5, RunsOnly
<1>7. corr' = corr BY <1>1 DEF repoVars
<1> QED BY <1>1, <1>2, <1>3, <1>6, <1>7 DEF Quietly, AtRest

LEMMA QuietEnd ==
    ASSUME Base, NEW c \in Callers, NEW r \in Runs,
           PauseExecution(c, r) \/ Terminate(c, r) \/ Crash(c, r)
    PROVE  Base' /\ Quietly(c, r)
<1>1. /\ Ends(c, r) /\ ~AtRest(c, r)
      /\ UNCHANGED redisVars /\ UNCHANGED queueVars /\ UNCHANGED itemVars
      /\ call' = call /\ corr' = corr /\ named' = named /\ enq' = enq /\ wins' = wins
  BY DEF PauseExecution, Terminate, Crash, AtRest, repoVars, histVars
<1>2. RunType' /\ Others(c, r) /\ pc'[c][r] = "ended" /\ ~doc'[c][r].marker
  BY <1>1, EndEffect DEF Base, TypeOK
<1>3. row' \in [Callers -> Rows]
  <2>1. doc[c][r].mb \in MBs \cup {NoMB} /\ row \in [Callers -> Rows]
    BY DEF Base, TypeOK, RunType, RepoType, Documents
  <2>2. CASE PauseExecution(c, r)
    <3>1. PICK x : x = [status |-> "PAUSED", cur |-> "Wait", mb |-> doc[c][r].mb] OBVIOUS
    <3>2. x \in Rows BY <2>1, <3>1 DEF Rows
    <3>3. row' = [row EXCEPT ![c] = x] BY <2>2, <3>1 DEF PauseExecution
    <3> QED BY <2>1, <3>2, <3>3
  <2>3. CASE Terminate(c, r)
    <3>1. PICK x : x = [status |-> "SUCCEEDED", cur |-> pc[c][r], mb |-> doc[c][r].mb] OBVIOUS
    <3>2. x \in Rows BY <2>1, <2>3, <3>1 DEF Rows, Terminate
    <3>3. row' = [row EXCEPT ![c] = x] BY <2>3, <3>1 DEF Terminate
    <3> QED BY <2>1, <3>2, <3>3
  <2>4. CASE Crash(c, r) BY <2>1, <2>4 DEF Crash, repoVars
  <2> QED BY <2>2, <2>3, <2>4
<1>4. RepoType' BY <1>1, <1>3 DEF Base, TypeOK, RepoType
<1>5. /\ faults' \in 0..MaxFaults
      /\ (faults' = faults /\ pc[c][r] # "Enqueue") \/ faults' = faults + 1
  <2>1. CASE PauseExecution(c, r) \/ Terminate(c, r)
    BY <2>1 DEF PauseExecution, Terminate, Base, TypeOK
  <2>2. CASE Crash(c, r) BY <2>2, FaultCount DEF Crash, Base
  <2> QED BY <2>1, <2>2
<1>6. /\ Base'
      /\ UNCHANGED <<lock, dispatched, barrier, pending, group, ipc, enq, wins>>
  BY <1>1, <1>2, <1>4, <1>5, RunsOnly
<1> QED BY <1>1, <1>2, <1>5, <1>6 DEF Quietly

LEMMA QuietMove ==
    ASSUME Base, NEW c \in Callers, NEW r \in Runs,
           EvaluateBulkMicroBatch(c, r) \/ TaskStateError(c, r)
    PROVE  Base' /\ Quietly(c, r)
<1>1. /\ ~AtRest(c, r) /\ pc[c][r] # "Pause"
      /\ UNCHANGED redisVars /\ UNCHANGED repoVars /\ UNCHANGED queueVars /\ UNCHANGED itemVars
      /\ call' = call /\ doc' = doc /\ left' = left /\ snap' = snap
      /\ enq' = enq /\ wins' = wins
  BY DEF EvaluateBulkMicroBatch, Goto, TaskStateError, AtRest
<1>2. PICK p \in {"Failed", "Dispatch"} : pc' = [pc EXCEPT ![c][r] = p]
  <2>1. CASE EvaluateBulkMicroBatch(c, r)
    <3>1. CASE doc[c][r].mb = NoMB BY <2>1, <3>1 DEF EvaluateBulkMicroBatch, Goto
    <3>2. CASE doc[c][r].mb # NoMB BY <2>1, <3>2 DEF EvaluateBulkMicroBatch, Goto
    <3> QED BY <3>1, <3>2
  <2>2. CASE TaskStateError(c, r) BY <2>2 DEF TaskStateError
  <2> QED BY <2>1, <2>2
<1>3. /\ RunType' /\ Others(c, r)
      /\ pc'[c][r] = p /\ doc'[c][r] = doc[c][r]
  <2>1. p \in RunPc /\ RunType BY DEF RunPc, Base, TypeOK
  <2>2. SetAt(pc', pc, c, r, p) BY <1>2 DEF SetAt
  <2>3. call' = call /\ doc' = doc /\ left' = left /\ snap' = snap BY <1>1
  <2> QED BY <2>1, <2>2, <2>3, MoveEffect
<1>4. RepoType' BY <1>1, Frames DEF Base, TypeOK
<1>5. /\ faults' \in 0..MaxFaults
      /\ (faults' = faults /\ pc[c][r] # "Enqueue") \/ faults' = faults + 1
  <2>1. CASE EvaluateBulkMicroBatch(c, r)
    BY <2>1 DEF EvaluateBulkMicroBatch, Goto, Base, TypeOK
  <2>2. CASE TaskStateError(c, r) BY <2>2, FaultCount DEF TaskStateError, Base
  <2> QED BY <2>1, <2>2
<1>6. /\ Base'
      /\ UNCHANGED <<lock, dispatched, barrier, pending, group, ipc, enq, wins>>
  BY <1>1, <1>3, <1>4, <1>5, RunsOnly
<1>7. corr' = corr BY <1>1 DEF repoVars
<1> QED BY <1>1, <1>3, <1>5, <1>6, <1>7 DEF Quietly

LEMMA InitBarrierEffect ==
    ASSUME Base, NEW c \in Callers, NEW r \in Runs, InitBarrier(c, r)
    PROVE  /\ Base' /\ Others(c, r)
           /\ UNCHANGED <<lock, dispatched, call, corr, pending, group, ipc, enq, wins, faults>>
           /\ pc[c][r] = "Dispatch" /\ pc'[c][r] = "Mark"
           /\ doc'[c][r].marker = doc[c][r].marker
           /\ doc'[c][r].mb \in MBs \ dispatched
           /\ left'[c][r] = Slice(doc'[c][r].mb)
           /\ \A j \in MBs : j # doc'[c][r].mb => barrier'[j] = barrier[j]
<1> DEFINE k == cursor \div MicroBatchSize
<1>1. /\ pc[c][r] = "Dispatch" /\ pc' = [pc EXCEPT ![c][r] = "Mark"]
      /\ cursor < NumInputs /\ k \notin dispatched
      /\ barrier' = [barrier EXCEPT ![k] = IF @ = Missing THEN Cardinality(Slice(k)) ELSE @]
      /\ doc' = [doc EXCEPT ![c][r] = Dispatched(doc[c][r], k)]
      /\ left' = [left EXCEPT ![c][r] = Slice(k)]
      /\ call' = call /\ snap' = snap
      /\ UNCHANGED <<lock, cursor, dispatched, window, processed, failed, rate>>
      /\ UNCHANGED repoVars /\ UNCHANGED queueVars /\ UNCHANGED itemVars
      /\ faults' = faults /\ enq' = enq /\ wins' = wins
  BY DEF InitBarrier, Goto, histVars
<1>2. k \in MBs /\ cursor = k * MicroBatchSize BY <1>1, IndexOfCursor DEF Base
<1> HIDE DEF k
<1>3. Slice(k) \in SUBSET Items BY DEF Slice
<1>4. PICK d \in Documents : d = Dispatched(doc[c][r], k) /\ d.mb = k /\ d.marker = doc[c][r].marker
  <2>1. doc[c][r] \in Documents BY DEF Base, TypeOK, RunType
  <2> QED BY <1>2, <2>1, DispatchedDocument
<1>5. /\ RunType' /\ Others(c, r)
      /\ pc'[c][r] = "Mark" /\ doc'[c][r] = d /\ left'[c][r] = Slice(k)
  <2>1. "Mark" \in RunPc /\ RunType BY DEF RunPc, Base, TypeOK
  <2>2. SetAt(pc', pc, c, r, "Mark") /\ SetAt(doc', doc, c, r, d) /\ SetAt(left', left, c, r, Slice(k))
    BY <1>1, <1>4 DEF SetAt
  <2>3. call' \in [Callers -> {"new", "locked", "error", "running"}] /\ snap' = snap
    BY <1>1 DEF Base, TypeOK, RunType
  <2> QED BY <1>3, <2>1, <2>2, <2>3, Emptied, RunEffect
<1>6. /\ barrier' \in [MBs -> {Missing} \cup 1..MicroBatchSize]
      /\ \A j \in MBs : j # k => barrier'[j] = barrier[j]
  <2>1. barrier \in [MBs -> {Missing} \cup 1..MicroBatchSize] BY DEF Base, TypeOK, RedisType
  <2>2. Cardinality(Slice(k)) \in 1..MicroBatchSize BY <1>2, SliceSize
  <2>3. PICK v \in {Missing} \cup 1..MicroBatchSize : barrier' = [barrier EXCEPT ![k] = v]
    BY <1>1, <1>2, <2>1, <2>2
  <2> QED BY <2>1, <2>3
<1>7. RedisType' BY <1>1, <1>6 DEF Base, TypeOK, RedisType
<1>8. RepoType' /\ QueueType' BY <1>1, Frames DEF Base, TypeOK
<1>9. faults' \in 0..MaxFaults /\ enq' \in [Items -> Nat] BY <1>1 DEF Base, TypeOK
<1>10. UNCHANGED <<ipc, failure, wins>> /\ UNCHANGED cursor BY <1>1 DEF itemVars
<1>11. Base' BY <1>2, <1>4, <1>5, <1>7, <1>8, <1>9, <1>10, BaseKept
<1>12. UNCHANGED <<lock, dispatched, call, corr, pending, group, ipc, enq, wins, faults>>
  BY <1>1 DEF repoVars, queueVars, itemVars
<1> QED BY <1>1, <1>2, <1>4, <1>5, <1>6, <1>11, <1>12

LEMMA MarkDispatchedEffect ==
    ASSUME Base, NEW c \in Callers, NEW r \in Runs, MarkDispatched(c, r)
    PROVE  /\ Base' /\ Others(c, r)
           /\ UNCHANGED <<lock, barrier, call, corr, pending, group, ipc, enq, wins, faults>>
           /\ pc[c][r] = "Mark" /\ pc'[c][r] = "Enqueue"
           /\ doc'[c][r] = doc[c][r] /\ left'[c][r] = left[c][r]
           /\ doc[c][r].mb \in MBs /\ dispatched' = dispatched \cup {doc[c][r].mb}
<1>1. /\ pc[c][r] = "Mark" /\ pc' = [pc EXCEPT ![c][r] = "Enqueue"]
      /\ dispatched' = dispatched \cup {doc[c][r].mb}
      /\ cursor' = doc[c][r].mb * MicroBatchSize + Cardinality(Slice(doc[c][r].mb))
      /\ call' = call /\ doc' = doc /\ left' = left /\ snap' = snap
      /\ UNCHANGED <<lock, barrier, window, processed, failed, rate>>
      /\ UNCHANGED repoVars /\ UNCHANGED queueVars /\ UNCHANGED itemVars
      /\ faults' = faults /\ enq' = enq /\ wins' = wins
  BY DEF MarkDispatched, Goto, histVars
<1>2. PICK k \in MBs : k = doc[c][r].mb /\ left[c][r] \subseteq Slice(k) BY <1>1 DEF Base, Loaded
<1>3. /\ RunType' /\ Others(c, r)
      /\ pc'[c][r] = "Enqueue" /\ doc'[c][r] = doc[c][r] /\ left'[c][r] = left[c][r]
  <2>1. "Enqueue" \in RunPc /\ RunType BY DEF RunPc, Base, TypeOK
  <2>2. SetAt(pc', pc, c, r, "Enqueue") BY <1>1 DEF SetAt
  <2>3. call' = call /\ doc' = doc /\ left' = left /\ snap' = snap BY <1>1
  <2> QED BY <2>1, <2>2, <2>3, MoveEffect
<1>4. cursor' \in 0..NumInputs /\ Aligned'
  <2>1. cursor' \in 0..NumInputs BY <1>1, <1>2, SliceSize
  <2>2. cursor' = NumInputs \/ \E j \in MBs : cursor' = j * MicroBatchSize
    BY <1>1, <1>2, SliceSize
  <2> QED BY <2>1, <2>2 DEF Aligned
<1>5. RedisType' BY <1>1, <1>2, <1>4 DEF Base, TypeOK, RedisType
<1>6. RepoType' /\ QueueType' BY <1>1, Frames DEF Base, TypeOK
<1>7. faults' \in 0..MaxFaults /\ enq' \in [Items -> Nat] BY <1>1 DEF Base, TypeOK
<1>8. UNCHANGED <<ipc, failure, wins>> BY <1>1 DEF itemVars
<1>9. Base' BY <1>2, <1>3, <1>4, <1>5, <1>6, <1>7, <1>8, BaseKept
<1>10. UNCHANGED <<lock, barrier, call, corr, pending, group, ipc, enq, wins, faults>>
  BY <1>1 DEF repoVars, queueVars, itemVars
<1> QED BY <1>1, <1>2, <1>3, <1>9, <1>10

LEMMA EnqueueNextEffect ==
    ASSUME Base, NEW c \in Callers, NEW r \in Runs, NEW i \in Items, EnqueueNext(c, r, i)
    PROVE  /\ Base' /\ Others(c, r)
           /\ UNCHANGED <<lock, dispatched, barrier, call, corr, group, ipc, wins, faults>>
           /\ pc[c][r] = "Enqueue" /\ doc'[c][r] = doc[c][r] /\ doc[c][r].mb \in MBs
           /\ i \in left[c][r] /\ i \in Slice(doc[c][r].mb)
           /\ \/ /\ i \in pending[doc[c][r].mb] /\ pc'[c][r] = "Failed"
                 /\ UNCHANGED <<pending, enq>>
              \/ /\ (pc'[c][r] = "Wait" /\ left[c][r] = {i}) \/ pc'[c][r] = "Enqueue"
                 /\ left'[c][r] = left[c][r] \ {i}
                 /\ pending'[doc[c][r].mb] = pending[doc[c][r].mb] \cup {i}
                 /\ \A j \in MBs : j # doc[c][r].mb => pending'[j] = pending[j]
                 /\ enq'[i] = enq[i] + 1 /\ \A j \in Items : j # i => enq'[j] = enq[j]
<1>1. /\ pc[c][r] = "Enqueue" /\ i \in left[c][r]
      /\ call' = call /\ doc' = doc /\ snap' = snap
      /\ UNCHANGED redisVars /\ UNCHANGED repoVars /\ UNCHANGED itemVars /\ group' = group
      /\ faults' = faults /\ wins' = wins
  BY DEF EnqueueNext, Goto
<1>2. PICK k \in MBs : k = doc[c][r].mb /\ left[c][r] \subseteq Slice(k) BY <1>1 DEF Base, Loaded
<1>t. /\ doc[c][r] \in Documents /\ left[c][r] \in SUBSET Items /\ RunType
      /\ call' \in [Callers -> {"new", "locked", "error", "running"}]
  BY <1>1 DEF Base, TypeOK, RunType
<1>3. RedisType' /\ RepoType' BY <1>1, Frames DEF Base, TypeOK
<1>4. UNCHANGED <<ipc, failure, wins>> /\ UNCHANGED cursor /\ faults' \in 0..MaxFaults
  BY <1>1 DEF itemVars, redisVars, Base, TypeOK
<1>5. UNCHANGED <<lock, dispatched, barrier, call, corr, group, ipc, wins, faults>>
  BY <1>1 DEF repoVars, redisVars, itemVars
<1>6. CASE i \in pending[k]
  <2>1. /\ pc' = [pc EXCEPT ![c][r] = "Failed"] /\ left' = left
        /\ pending' = pending /\ enq' = enq
    BY <1>2, <1>6 DEF EnqueueNext, Goto
  <2>2. /\ RunType' /\ Others(c, r)
        /\ pc'[c][r] = "Failed" /\ doc'[c][r] = doc[c][r]
    <3>1. "Failed" \in RunPc BY DEF RunPc
    <3>2. SetAt(pc', pc, c, r, "Failed") BY <2>1 DEF SetAt
    <3>3. call' = call /\ doc' = doc /\ left' = left /\ snap' = snap BY <1>1, <2>1
    <3> QED BY <1>t, <3>1, <3>2, <3>3, MoveEffect
  <2>3. QueueType' BY <1>1, <2>1, Frames DEF Base, TypeOK, queueVars
  <2>4. enq' \in [Items -> Nat] BY <2>1 DEF Base, TypeOK
  <2>5. Base' BY <1>3, <1>4, <2>2, <2>3, <2>4, BaseKept
  <2> QED BY <1>1, <1>2, <1>5, <1>6, <2>1, <2>2, <2>5
<1>7. CASE i \notin pending[k]
  <2>1. PICK p \in {"Wait", "Enqueue"} :
          /\ pc' = [pc EXCEPT ![c][r] = p] /\ (p = "Wait" => left[c][r] = {i})
          /\ left' = [left EXCEPT ![c][r] = left[c][r] \ {i}]
          /\ pending' = [pending EXCEPT ![k] = pending[k] \cup {i}]
          /\ enq' = [enq EXCEPT ![i] = enq[i] + 1]
    <3>1. CASE left[c][r] = {i} BY <1>2, <1>7, <3>1 DEF EnqueueNext, Goto
    <3>2. CASE left[c][r] # {i} BY <1>2, <1>7, <3>2 DEF EnqueueNext, Goto
    <3> QED BY <3>1, <3>2
  <2>2. PICK l \in SUBSET Items : l = left[c][r] \ {i} BY <1>t
  <2>3. /\ RunType' /\ Others(c, r)
        /\ pc'[c][r] = p /\ doc'[c][r] = doc[c][r] /\ left'[c][r] = l
    <3>1. p \in RunPc BY DEF RunPc
    <3>2. SetAt(pc', pc, c, r, p) /\ SetAt(left', left, c, r, l) BY <2>1, <2>2 DEF SetAt
    <3>3. doc' = doc /\ snap' = snap BY <1>1
    <3> QED BY <1>t, <3>1, <3>2, <3>3, Emptied, RunEffect
  <2>4. /\ pending' \in [MBs -> SUBSET Items] /\ pending'[k] = pending[k] \cup {i}
        /\ \A j \in MBs : j # k => pending'[j] = pending[j]
    BY <2>1 DEF Base, TypeOK, QueueType
  <2>5. QueueType' BY <1>1, <1>2, <2>4 DEF Base, TypeOK, QueueType, Slice
  <2>6. /\ enq' \in [Items -> Nat] /\ enq'[i] = enq[i] + 1
        /\ \A j \in Items : j # i => enq'[j] = enq[j]
    BY <2>1 DEF Base, TypeOK
  <2>7. l \subseteq Slice(k) BY <1>2, <2>2
  <2>8. Base' BY <1>2, <1>3, <1>4, <2>3, <2>5, <2>6, <2>7, BaseKept
  <2> QED BY <1>1, <1>2, <1>5, <2>1, <2>2, <2>3, <2>4, <2>6, <2>8
<1> QED BY <1>6, <1>7

LEMMA SaveMessageCorrelationEffect ==
    ASSUME Base, NEW c \in Callers, NEW r \in Runs, SaveMessageCorrelation(c, r)
    PROVE  /\ Base' /\ Others(c, r)
           /\ UNCHANGED <<lock, dispatched, barrier, call, pending, group, ipc, enq, wins, faults>>
           /\ pc[c][r] = "Wait" /\ pc'[c][r] = "Pause" /\ ~doc[c][r].marker
           /\ doc'[c][r] = doc[c][r]
           /\ corr'[c].status = "WAITING" /\ corr'[c].mb = doc[c][r].mb
           /\ \A d \in Callers \ {c} : corr'[d] = corr[d]
<1>1. /\ pc[c][r] = "Wait" /\ pc' = [pc EXCEPT ![c][r] = "Pause"] /\ ~doc[c][r].marker
      /\ corr' = [corr EXCEPT ![c] = [status |-> "WAITING", mb |-> doc[c][r].mb]]
      /\ call' = call /\ doc' = doc /\ left' = left /\ snap' = snap
      /\ row' = row /\ named' = named
      /\ UNCHANGED redisVars /\ UNCHANGED queueVars /\ UNCHANGED itemVars
      /\ faults' = faults /\ enq' = enq /\ wins' = wins
  BY DEF SaveMessageCorrelation, Goto, histVars
<1>2. /\ RunType' /\ Others(c, r)
      /\ pc'[c][r] = "Pause" /\ doc'[c][r] = doc[c][r]
  <2>1. "Pause" \in RunPc /\ RunType BY DEF RunPc, Base, TypeOK
  <2>2. SetAt(pc', pc, c, r, "Pause") BY <1>1 DEF SetAt
  <2>3. call' = call /\ doc' = doc /\ left' = left /\ snap' = snap BY <1>1
  <2> QED BY <2>1, <2>2, <2>3, MoveEffect
<1>3. /\ corr' \in [Callers -> Correlations]
      /\ corr'[c].status = "WAITING" /\ corr'[c].mb = doc[c][r].mb
      /\ \A d \in Callers \ {c} : corr'[d] = corr[d]
  <2>1. doc[c][r].mb \in MBs \cup {NoMB} /\ corr \in [Callers -> Correlations]
    BY DEF Base, TypeOK, RunType, RepoType, Documents
  <2>2. PICK x : x = [status |-> "WAITING", mb |-> doc[c][r].mb] OBVIOUS
  <2>3. x \in Correlations /\ x.status = "WAITING" /\ x.mb = doc[c][r].mb
    BY <2>1, <2>2 DEF Correlations
  <2>4. corr' = [corr EXCEPT ![c] = x] BY <1>1, <2>2
  <2> QED BY <2>1, <2>3, <2>4
<1>4. RepoType' BY <1>1, <1>3 DEF Base, TypeOK, RepoType
<1>5. faults' \in 0..MaxFaults BY <1>1 DEF Base, TypeOK
<1>6. /\ Base'
      /\ UNCHANGED <<lock, dispatched, barrier, pending, group, ipc, enq, wins>>
  BY <1>1, <1>2, <1>4, <1>5, RunsOnly
<1> QED BY <1>1, <1>2, <1>3, <1>6

LEMMA ResumeExecutionEffect ==
    ASSUME Base, NEW c \in Callers, NEW r \in Runs, ResumeExecution(c, r)
    PROVE  /\ Base' /\ Others(c, r)
           /\ UNCHANGED <<lock, dispatched, barrier, call, pending, group, ipc, enq, wins, faults>>
           /\ pc[c][r] = "Resume" /\ doc'[c][r] = doc[c][r]
           /\ pc'[c][r] \in {"Dispatch", "Wait", "Completed", "Failed", "ended"}
           /\ corr'[c].status \in {corr[c].status, "RECEIVED"} /\ corr'[c].mb = corr[c].mb
           /\ \A d \in Callers \ {c} : corr'[d] = corr[d]
<1>0. /\ snap[c][r] \in Rows /\ row \in [Callers -> Rows] /\ corr \in [Callers -> Correlations]
  BY DEF Base, TypeOK, RunType, RepoType
<1>1. /\ pc[c][r] = "Resume" /\ call' = call /\ doc' = doc /\ left' = left /\ named' = named
      /\ snap' = [snap EXCEPT ![c][r] = NoRow]
      /\ UNCHANGED redisVars /\ UNCHANGED queueVars /\ UNCHANGED itemVars
      /\ faults' = faults /\ enq' = enq /\ wins' = wins
  BY DEF ResumeExecution, Goto, histVars
<1>2. PICK p \in {"Dispatch", "Wait", "Completed", "Failed", "ended"} : pc' = [pc EXCEPT ![c][r] = p]
  <2>1. snap[c][r].cur \in {"Dispatch", "Wait", "Completed", "Failed"} BY <1>0 DEF Rows
  <2>2. CASE snap[c][r].status \in {"PAUSED", "RUNNING"}
    BY <2>1, <2>2 DEF ResumeExecution, Goto
  <2>3. CASE snap[c][r].status \notin {"PAUSED", "RUNNING"}
    BY <2>3 DEF ResumeExecution, Goto
  <2> QED BY <2>2, <2>3
<1>3. /\ RunType' /\ Others(c, r) /\ pc'[c][r] = p /\ doc'[c][r] = doc[c][r]
  <2>1. p \in RunPc /\ RunType BY DEF RunPc, Base, TypeOK
  <2>2. SetAt(pc', pc, c, r, p) /\ SetAt(snap', snap, c, r, NoRow) BY <1>1, <1>2 DEF SetAt
  <2>3. call' = call /\ doc' = doc /\ left' = left BY <1>1
  <2> QED BY <2>1, <2>2, <2>3, MoveEffect
<1>4. corr' = corr \/ corr' = [corr EXCEPT ![c].status = "RECEIVED"]
  BY DEF ResumeExecution
<1>5. /\ corr' \in [Callers -> Correlations]
      /\ corr'[c].status \in {corr[c].status, "RECEIVED"} /\ corr'[c].mb = corr[c].mb
      /\ \A d \in Callers \ {c} : corr'[d] = corr[d]
  <2>1. CASE corr' = corr BY <1>0, <2>1
  <2>2. CASE corr' = [corr EXCEPT ![c].status = "RECEIVED"]
    <3>1. corr[c] \in Correlations BY <1>0
    <3>2. PICK x : x = [corr[c] EXCEPT !.status = "RECEIVED"] OBVIOUS
    <3>3. x \in Correlations /\ x.status = "RECEIVED" /\ x.mb = corr[c].mb
      BY <3>1, <3>2 DEF Correlations
    <3>4. corr' = [corr EXCEPT ![c] = x] BY <2>2, <3>2
    <3> QED BY <1>0, <3>3, <3>4
  <2> QED BY <1>4, <2>1, <2>2
<1>6. row' \in [Callers -> Rows]
  <2>1. PICK x : x = [snap[c][r] EXCEPT !.status = "RUNNING"] OBVIOUS
  <2>2. x \in Rows BY <1>0, <2>1 DEF Rows
  <2>3. row' = row \/ row' = [row EXCEPT ![c] = x] BY <2>1 DEF ResumeExecution
  <2> QED BY <1>0, <2>2, <2>3
<1>7. RepoType' BY <1>1, <1>5, <1>6 DEF Base, TypeOK, RepoType
<1>8. faults' \in 0..MaxFaults BY <1>1 DEF Base, TypeOK
<1>9. /\ Base'
      /\ UNCHANGED <<lock, dispatched, barrier, pending, group, ipc, enq, wins>>
  BY <1>1, <1>2, <1>3, <1>7, <1>8, RunsOnly
<1> QED BY <1>1, <1>2, <1>3, <1>5, <1>9

LEMMA RunBulkEffect ==
    ASSUME Base, NEW c \in Callers, RunBulk(c)
    PROVE  /\ Base' /\ ~lock /\ lock' /\ call[c] = "new" /\ call'[c] = "locked"
           /\ \A d \in Callers \ {c} : call'[d] = call[d]
           /\ UNCHANGED <<dispatched, barrier, corr, pending, group, ipc, enq, wins, faults>>
           /\ UNCHANGED <<pc, doc, left>>
<1>1. /\ call[c] = "new" /\ ~lock /\ call' = [call EXCEPT ![c] = "locked"] /\ lock' = TRUE
      /\ UNCHANGED <<cursor, dispatched, barrier, window, processed, failed, rate>>
      /\ UNCHANGED <<pc, doc, left, snap>>
      /\ UNCHANGED repoVars /\ UNCHANGED queueVars /\ UNCHANGED itemVars
      /\ faults' = faults /\ enq' = enq /\ wins' = wins
  BY DEF RunBulk, histVars
<1>2. /\ call' \in [Callers -> {"new", "locked", "error", "running"}] /\ call'[c] = "locked"
      /\ \A d \in Callers \ {c} : call'[d] = call[d]
  BY <1>1 DEF Base, TypeOK, RunType
<1>3. RunType' BY <1>1, <1>2 DEF Base, TypeOK, RunType
<1>4. RedisType' BY <1>1 DEF Base, TypeOK, RedisType
<1>5. RepoType' /\ QueueType' /\ ItemType' BY <1>1, Frames DEF Base, TypeOK
<1>6. Aligned' /\ Loaded' BY <1>1 DEF Base, Aligned, Loaded, Slice
<1>7. Base' BY <1>1, <1>3, <1>4, <1>5, <1>6 DEF Base, TypeOK
<1> QED BY <1>1, <1>2, <1>7 DEF repoVars, queueVars, itemVars

LEMMA StoreBulkInputsEffect ==
    ASSUME Base, NEW c \in Callers, StoreBulkInputs(c)
    PROVE  /\ Base' /\ call[c] = "locked" /\ faults' \in {faults, faults + 1}
           /\ \A d \in Callers \ {c} : call'[d] = call[d]
           /\ UNCHANGED <<lock, dispatched, barrier, corr, pending, group, ipc, enq, wins>>
           /\ \/ call'[c] = "error" /\ UNCHANGED <<pc, doc, left>>
              \/ /\ call'[c] = "running" /\ Others(c, 0) /\ pc'[c][0] = "Dispatch"
                 /\ UNCHANGED <<doc, left>>
<1>0. 0 \in Runs
  <2>1. 0 \in MBs BY IndexInRange, BulkAssumption
  <2> QED BY <2>1, BulkAssumption DEF Runs, MBs
<1>1. /\ call[c] = "locked" /\ UNCHANGED redisVars /\ doc' = doc /\ left' = left /\ snap' = snap
      /\ corr' = corr /\ named' = named /\ UNCHANGED queueVars /\ UNCHANGED itemVars
      /\ enq' = enq /\ wins' = wins
  BY DEF StoreBulkInputs, redisVars, histVars
<1>2. RedisType' /\ QueueType' /\ ItemType' BY <1>1, Frames DEF Base, TypeOK
<1>3. UNCHANGED <<lock, dispatched, barrier, corr, pending, group, ipc, enq, wins>>
      /\ cursor' = cursor
  BY <1>1 DEF redisVars, queueVars, itemVars
<1>4. Aligned' BY <1>3 DEF Base, Aligned
<1>5. RunType BY DEF Base, TypeOK
<1>6. CASE call' = [call EXCEPT ![c] = "error"] /\ Fault /\ pc' = pc /\ row' = row
  <2>1. /\ call' \in [Callers -> {"new", "locked", "error", "running"}] /\ call'[c] = "error"
        /\ \A d \in Callers \ {c} : call'[d] = call[d]
    BY <1>6 DEF Base, TypeOK, RunType
  <2>2. RunType' BY <1>1, <1>6, <2>1 DEF Base, TypeOK, RunType
  <2>3. RepoType' BY <1>1, <1>6 DEF Base, TypeOK, RepoType
  <2>4. faults' \in 0..MaxFaults /\ faults' = faults + 1 BY <1>6, FaultCount DEF Base
  <2>5. Loaded' BY <1>1, <1>6 DEF Base, Loaded, Slice
  <2>6. Base' BY <1>1, <1>2, <1>4, <2>2, <2>3, <2>4, <2>5 DEF Base, TypeOK
  <2> QED BY <1>1, <1>3, <1>6, <2>1, <2>4, <2>6
<1>7. CASE /\ call' = [call EXCEPT ![c] = "running"] /\ pc' = [pc EXCEPT ![c][0] = "Dispatch"]
           /\ row' = [row EXCEPT ![c].status = "RUNNING"] /\ faults' = faults
  <2>1. /\ call' \in [Callers -> {"new", "locked", "error", "running"}] /\ call'[c] = "running"
        /\ \A d \in Callers \ {c} : call'[d] = call[d]
    BY <1>7 DEF Base, TypeOK, RunType
  <2>2. doc[c][0] \in Documents /\ left[c][0] \in SUBSET Items BY <1>0, <1>5 DEF RunType
  <2>3. "Dispatch" \in RunPc /\ SetAt(pc', pc, c, 0, "Dispatch") BY <1>7 DEF RunPc, SetAt
  <2>4. doc' = doc /\ left' = left /\ snap' = snap BY <1>1
  <2>5. RunType' /\ Others(c, 0) /\ pc'[c][0] = "Dispatch"
    <3>1. (doc' = doc /\ doc[c][0] = doc[c][0]) /\ (left' = left /\ left[c][0] = left[c][0])
      BY <2>4
    <3> QED BY <1>0, <1>5, <2>1, <2>2, <2>3, <2>4, <3>1, Emptied, RunEffect, ZenonT(60)
  <2>6. row' \in [Callers -> Rows]
    <3>1. row \in [Callers -> Rows] BY DEF Base, TypeOK, RepoType
    <3>2. PICK x : x = [row[c] EXCEPT !.status = "RUNNING"] OBVIOUS
    <3>3. x \in Rows BY <3>1, <3>2 DEF Rows
    <3>4. row' = [row EXCEPT ![c] = x] BY <1>7, <3>2
    <3> QED BY <3>1, <3>3, <3>4
  <2>7. RepoType' BY <1>1, <2>6 DEF Base, TypeOK, RepoType
  <2>8. Loaded' BY <1>0, <2>5, LoadedKept DEF Base
  <2>9. Base' BY <1>1, <1>2, <1>4, <1>7, <2>5, <2>7, <2>8 DEF Base, TypeOK
  <2> QED BY <1>1, <1>3, <1>7, <2>1, <2>5, <2>9
<1> QED BY <1>6, <1>7 DEF StoreBulkInputs

LEMMA LockExpiresEffect ==
    ASSUME Base, LockExpires
    PROVE  /\ Base' /\ \A c \in Callers : call[c] # "locked" /\ \A r \in Runs : AtRest(c, r)
           /\ \A k \in MBs : Quiet(k)
           /\ UNCHANGED <<dispatched, barrier, call, corr, pending, group, ipc, enq, wins, faults>>
           /\ UNCHANGED <<pc, doc, left>>
<1>1. /\ \A c \in Callers : call[c] # "locked" /\ \A r \in Runs : AtRest(c, r)
      /\ \A k \in MBs : Quiet(k)
      /\ lock' = FALSE
      /\ UNCHANGED <<cursor, dispatched, barrier, window, processed, failed, rate>>
      /\ UNCHANGED orchVars /\ UNCHANGED repoVars /\ UNCHANGED queueVars /\ UNCHANGED itemVars
      /\ faults' = faults /\ enq' = enq /\ wins' = wins
  BY DEF LockExpires, histVars
<1>2. UNCHANGED <<call, pc, doc, left>> BY <1>1 DEF orchVars
<1>3. RedisType' BY <1>1 DEF Base, TypeOK, RedisType
<1>4. RunType' /\ RepoType' /\ QueueType' /\ ItemType' BY <1>1, Frames DEF Base, TypeOK
<1>5. Aligned' /\ Loaded' BY <1>1, <1>2 DEF Base, Aligned, Loaded, Slice
<1>6. Base' BY <1>1, <1>3, <1>4, <1>5 DEF Base, TypeOK
<1>7. UNCHANGED <<dispatched, barrier, call, corr, pending, group, ipc, enq, wins, faults>>
  BY <1>1, <1>2 DEF repoVars, queueVars, itemVars
<1> QED BY <1>1, <1>2, <1>6, <1>7

\* What steps of asynq and its workers leave alone.
LEMMA WorkersOnly ==
    ASSUME Base, RedisType', UNCHANGED cursor, UNCHANGED <<call, pc, doc, left, snap>>, RepoType',
           QueueType', ItemType', faults' \in 0..MaxFaults, enq' = enq, wins' \in [MBs -> Nat]
    PROVE  Base'
<1>1. Aligned' /\ Loaded' BY DEF Base, Aligned, Loaded, Slice
<1>2. RunType' BY Frames DEF Base, TypeOK, orchVars
<1> QED BY <1>1, <1>2 DEF Base, TypeOK

LEMMA AggregateEffect ==
    ASSUME Base, NEW k \in MBs, Aggregate(k)
    PROVE  /\ Base' /\ pending[k] # {} /\ group[k].status \in {"none", "done"}
           /\ pending'[k] = {} /\ group'[k].status = "queued" /\ group'[k].items = pending[k]
           /\ \A j \in MBs \ {k} : pending'[j] = pending[j] /\ group'[j] = group[j]
           /\ UNCHANGED <<lock, dispatched, barrier, call, corr, ipc, enq, wins, faults>>
           /\ UNCHANGED <<pc, doc, left>>
<1>1. /\ pending[k] # {} /\ group[k].status \in {"none", "done"}
      /\ group' = [group EXCEPT ![k] = [status |-> "queued", items |-> pending[k], retried |-> 0]]
      /\ pending' = [pending EXCEPT ![k] = {}]
      /\ UNCHANGED redisVars /\ UNCHANGED orchVars /\ UNCHANGED repoVars /\ UNCHANGED itemVars
      /\ faults' = faults /\ enq' = enq /\ wins' = wins
  BY DEF Aggregate, histVars
<1>2. /\ pending \in [MBs -> SUBSET Items] /\ group \in [MBs -> BatchTasks]
      /\ \A j \in MBs : pending[j] \subseteq Slice(j) /\ group[j].items \subseteq Slice(j)
  BY DEF Base, TypeOK, QueueType
<1>3. PICK g \in BatchTasks : /\ group' = [group EXCEPT ![k] = g]
                              /\ g.status = "queued" /\ g.items = pending[k]
  <2>1. PICK g : g = [status |-> "queued", items |-> pending[k], retried |-> 0] OBVIOUS
  <2>2. 0 \in 0..MaxRetry BY BulkAssumption
  <2>3. g \in BatchTasks /\ g.status = "queued" /\ g.items = pending[k]
    BY <1>2, <2>1, <2>2 DEF BatchTasks
  <2> QED BY <1>1, <2>1, <2>3
<1>4. /\ group' \in [MBs -> BatchTasks] /\ group'[k] = g
      /\ pending' \in [MBs -> SUBSET Items] /\ pending'[k] = {}
      /\ \A j \in MBs \ {k} : pending'[j] = pending[j] /\ group'[j] = group[j]
  BY <1>1, <1>2, <1>3
<1>5. QueueType' BY <1>2, <1>3, <1>4 DEF QueueType, Slice
<1>6. RedisType' /\ RepoType' /\ ItemType' BY <1>1, Frames DEF Base, TypeOK
<1>7. UNCHANGED cursor /\ UNCHANGED <<call, pc, doc, left, snap>> BY <1>1 DEF redisVars, orchVars
<1>8. faults' \in 0..MaxFaults /\ wins' \in [MBs -> Nat] BY <1>1 DEF Base, TypeOK
<1>9. Base' BY <1>1, <1>5, <1>6, <1>7, <1>8, WorkersOnly
<1>10. UNCHANGED <<lock, dispatched, barrier, call, corr, ipc, enq, wins, faults>>
  BY <1>1, <1>7 DEF redisVars, repoVars, itemVars
<1> QED BY <1>1, <1>3, <1>4, <1>7, <1>9, <1>10

LEMMA HandleEffect ==
    ASSUME Base, NEW k \in MBs, HandleBatchExecution(k)
    PROVE  /\ Base' /\ group[k].status = "queued"
           /\ group'[k].status = "running" /\ group'[k].items = group[k].items
           /\ \A j \in MBs \ {k} : group'[j] = group[j]
           /\ \A i \in Items : ipc'[i] = IF i \in group[k].items THEN "load" ELSE ipc[i]
           /\ UNCHANGED <<lock, dispatched, barrier, call, corr, pending, enq, wins, faults>>
           /\ UNCHANGED <<pc, doc, left>>
<1>1. /\ group[k].status = "queued" /\ group' = [group EXCEPT ![k].status = "running"]
      /\ ipc' = [i \in Items |-> IF i \in group[k].items THEN "load" ELSE ipc[i]]
      /\ UNCHANGED redisVars /\ UNCHANGED orchVars /\ UNCHANGED repoVars
      /\ pending' = pending /\ failure' = failure
      /\ faults' = faults /\ enq' = enq /\ wins' = wins
  BY DEF HandleBatchExecution, histVars
<1>2. /\ group \in [MBs -> BatchTasks]
      /\ \A j \in MBs : pending[j] \subseteq Slice(j) /\ group[j].items \subseteq Slice(j)
  BY DEF Base, TypeOK, QueueType
<1>3. PICK g \in BatchTasks : /\ group' = [group EXCEPT ![k] = g]
                              /\ g.status = "running" /\ g.items = group[k].items
  <2>1. PICK g : g = [group[k] EXCEPT !.status = "running"] OBVIOUS
  <2>2. g \in BatchTasks /\ g.status = "running" /\ g.items = group[k].items
    BY <1>2, <2>1 DEF BatchTasks
  <2> QED BY <1>1, <2>1, <2>2
<1>4. /\ group' \in [MBs -> BatchTasks] /\ group'[k] = g
      /\ \A j \in MBs \ {k} : group'[j] = group[j]
  BY <1>2, <1>3
<1>5. QueueType' BY <1>1, <1>2, <1>3, <1>4 DEF QueueType, Slice, Base, TypeOK
<1>6. ItemType' BY <1>1 DEF Base, TypeOK, ItemType
<1>7. RedisType' /\ RepoType' BY <1>1, Frames DEF Base, TypeOK
<1>8. UNCHANGED cursor /\ UNCHANGED <<call, pc, doc, left, snap>> BY <1>1 DEF redisVars, orchVars
<1>9. faults' \in 0..MaxFaults /\ wins' \in [MBs -> Nat] BY <1>1 DEF Base, TypeOK
<1>10. Base' BY <1>1, <1>5, <1>6, <1>7, <1>8, <1>9, WorkersOnly
<1>11. UNCHANGED <<lock, dispatched, barrier, call, corr, pending, enq, wins, faults>>
  BY <1>1, <1>8 DEF redisVars, repoVars
<1>12. \A i \in Items : ipc'[i] = IF i \in group[k].items THEN "load" ELSE ipc[i] BY <1>1
<1> QED BY <1>1, <1>3, <1>4, <1>8, <1>10, <1>11, <1>12

LEMMA AttemptEffect ==
    ASSUME Base, NEW k \in MBs, FinishBatchExecution(k) \/ WorkerCrash(k)
    PROVE  /\ Base' /\ group[k].status = "running" /\ faults' \in {faults, faults + 1}
           /\ group'[k].status \in {"queued", "archived", "done"}
           /\ group'[k].items = group[k].items
           /\ \A j \in MBs \ {k} : group'[j] = group[j]
           /\ \A i \in Items : ipc'[i] = IF i \in group[k].items THEN "idle" ELSE ipc[i]
           /\ UNCHANGED <<lock, dispatched, barrier, call, corr, pending, enq, wins>>
           /\ UNCHANGED <<pc, doc, left>>
<1>1. /\ group[k].status = "running"
      /\ ipc' = [i \in Items |-> IF i \in group[k].items THEN "idle" ELSE ipc[i]]
      /\ failure' = [i \in Items |-> failure[i] /\ i \notin group[k].items]
      /\ UNCHANGED redisVars /\ UNCHANGED orchVars /\ UNCHANGED repoVars
      /\ pending' = pending /\ enq' = enq /\ wins' = wins
  BY DEF FinishBatchExecution, WorkerCrash, histVars
<1>2. /\ group \in [MBs -> BatchTasks]
      /\ \A j \in MBs : pending[j] \subseteq Slice(j) /\ group[j].items \subseteq Slice(j)
  BY DEF Base, TypeOK, QueueType
<1>3. PICK g \in BatchTasks : /\ group' = [group EXCEPT ![k] = g]
                              /\ g.status \in {"queued", "archived", "done"}
                              /\ g.items = group[k].items
  <2>1. PICK g : g = [group[k] EXCEPT !.status = "done"] OBVIOUS
  <2>2. g \in BatchTasks /\ g.status = "done" /\ g.items = group[k].items
    BY <1>2, <2>1 DEF BatchTasks
  <2>3. /\ AfterAttempt(group[k]) \in BatchTasks /\ AfterAttempt(group[k]).items = group[k].items
        /\ AfterAttempt(group[k]).status \in {"queued", "archived"}
    BY <1>2, Attempted
  <2>4. \/ group' = [group EXCEPT ![k] = AfterAttempt(group[k])]
        \/ group' = [group EXCEPT ![k] = g]
    <3>1. CASE FinishBatchExecution(k)
      <4>1. CASE \E i \in group[k].items : failure[i] BY <1>2, <3>1, <4>1 DEF FinishBatchExecution
      <4>2. CASE ~\E i \in group[k].items : failure[i] BY <1>2, <2>1, <3>1, <4>2 DEF FinishBatchExecution
      <4> QED BY <4>1, <4>2
    <3>2. CASE WorkerCrash(k) BY <3>2 DEF WorkerCrash
    <3> QED BY <3>1, <3>2
  <2> QED BY <2>2, <2>3, <2>4
<1>4. /\ group' \in [MBs -> BatchTasks] /\ group'[k] = g
      /\ \A j \in MBs \ {k} : group'[j] = group[j]
  BY <1>2, <1>3
<1>5. QueueType' BY <1>1, <1>2, <1>3, <1>4 DEF QueueType, Slice, Base, TypeOK
<1>6. ItemType' BY <1>1 DEF Base, TypeOK, ItemType
<1>7. RedisType' /\ RepoType' BY <1>1, Frames DEF Base, TypeOK
<1>8. UNCHANGED cursor /\ UNCHANGED <<call, pc, doc, left, snap>> BY <1>1 DEF redisVars, orchVars
<1>9. faults' \in 0..MaxFaults /\ faults' \in {faults, faults + 1}
  <2>1. CASE FinishBatchExecution(k) BY <2>1 DEF FinishBatchExecution, Base, TypeOK
  <2>2. CASE WorkerCrash(k) BY <2>2, FaultCount DEF WorkerCrash, Base
  <2> QED BY <2>1, <2>2
<1>10. wins' \in [MBs -> Nat] BY <1>1 DEF Base, TypeOK
<1>11. Base' BY <1>1, <1>5, <1>6, <1>7, <1>8, <1>9, <1>10, WorkersOnly
<1>12. UNCHANGED <<lock, dispatched, barrier, call, corr, pending, enq, wins>>
  BY <1>1, <1>8 DEF redisVars, repoVars
<1>13. \A i \in Items : ipc'[i] = IF i \in group[k].items THEN "idle" ELSE ipc[i] BY <1>1
<1> QED BY <1>1, <1>3, <1>4, <1>8, <1>9, <1>11, <1>12, <1>13

LEMMA ItemMoved ==
    ASSUME ItemType, NEW i \in Items, NEW from, NEW to, ItemGoto(i, from, to),
           to \in {"load", "record", "signal", "snapshot", "resume", "over"},
           failure' = failure \/ \E b \in BOOLEAN : failure' = [failure EXCEPT ![i] = b]
    PROVE  /\ ItemType' /\ ipc[i] = from /\ ipc'[i] = to
           /\ \A j \in Items \ {i} : ipc'[j] = ipc[j]
<1>1. /\ ipc \in [Items -> {"idle", "load", "record", "signal", "snapshot", "resume", "over"}]
      /\ failure \in [Items -> BOOLEAN]
  BY DEF ItemType
<1>2. ipc[i] = from /\ ipc' = [ipc EXCEPT ![i] = to] BY DEF ItemGoto
<1>3. ipc' \in [Items -> {"idle", "load", "record", "signal", "snapshot", "resume", "over"}]
  BY <1>1, <1>2
<1>4. failure' \in [Items -> BOOLEAN] BY <1>1
<1> QED BY <1>1, <1>2, <1>3, <1>4 DEF ItemType

\* The steps of a goroutine before and after its signal.
LEMMA ItemEffect ==
    ASSUME Base, NEW i \in Items,
           LoadFails(i) \/ ExecuteItem(i) \/ RecordOutcome(i) \/ SnapshotMicroBatchRate(i)
    PROVE  /\ Base' /\ ipc[i] # "idle" /\ Winning(i)' = Winning(i)
           /\ \A j \in Items \ {i} : ipc'[j] = ipc[j]
           /\ UNCHANGED <<lock, dispatched, barrier, call, corr, pending, group, enq, wins>>
           /\ UNCHANGED <<pc, doc, left>> /\ faults' \in {faults, faults + 1}
<1>1. /\ UNCHANGED <<lock, cursor, dispatched, barrier>>
      /\ UNCHANGED orchVars /\ row' = row /\ corr' = corr
      /\ UNCHANGED queueVars /\ enq' = enq /\ wins' = wins
  BY DEF LoadFails, ExecuteItem, RecordOutcome, SnapshotMicroBatchRate, redisVars, repoVars, histVars
<1>t. ItemType BY DEF Base, TypeOK
<1>2. /\ ItemType' /\ ipc[i] # "idle" /\ Winning(i)' = Winning(i)
      /\ \A j \in Items \ {i} : ipc'[j] = ipc[j]
  <2>1. CASE LoadFails(i)
    <3>1. ItemGoto(i, "load", "over") /\ failure' = [failure EXCEPT ![i] = TRUE]
      BY <2>1 DEF LoadFails
    <3>2. \E b \in BOOLEAN : failure' = [failure EXCEPT ![i] = b] BY <3>1
    <3>3. /\ ItemType' /\ ipc[i] = "load" /\ ipc'[i] = "over"
          /\ \A j \in Items \ {i} : ipc'[j] = ipc[j]
      BY <1>t, <3>1, <3>2, ItemMoved
    <3> QED BY <3>3 DEF Winning
  <2>2. CASE ExecuteItem(i)
    <3>1. /\ ItemGoto(i, "load", "record")
          /\ \E ok \in BOOLEAN : failure' = [failure EXCEPT ![i] = (i \in named \/ ~ok)]
      BY <2>2 DEF ExecuteItem
    <3>2. \E b \in BOOLEAN : failure' = [failure EXCEPT ![i] = b]
      <4>1. PICK ok \in BOOLEAN : failure' = [failure EXCEPT ![i] = (i \in named \/ ~ok)] BY <3>1
      <4>2. (i \in named \/ ~ok) \in BOOLEAN OBVIOUS
      <4> QED BY <4>1, <4>2
    <3>3. /\ ItemType' /\ ipc[i] = "load" /\ ipc'[i] = "record"
          /\ \A j \in Items \ {i} : ipc'[j] = ipc[j]
      BY <1>t, <3>1, <3>2, ItemMoved
    <3> QED BY <3>3 DEF Winning
  <2>3. CASE RecordOutcome(i)
    <3>1. ItemGoto(i, "record", "signal") /\ failure' = failure BY <2>3 DEF RecordOutcome
    <3>2. /\ ItemType' /\ ipc[i] = "record" /\ ipc'[i] = "signal"
          /\ \A j \in Items \ {i} : ipc'[j] = ipc[j]
      BY <1>t, <3>1, ItemMoved
    <3> QED BY <3>2 DEF Winning
  <2>4. CASE SnapshotMicroBatchRate(i)
    <3>1. ItemGoto(i, "snapshot", "resume") /\ failure' = failure BY <2>4 DEF SnapshotMicroBatchRate
    <3>2. /\ ItemType' /\ ipc[i] = "snapshot" /\ ipc'[i] = "resume"
          /\ \A j \in Items \ {i} : ipc'[j] = ipc[j]
      BY <1>t, <3>1, ItemMoved
    <3> QED BY <3>2 DEF Winning
  <2> QED BY <2>1, <2>2, <2>3, <2>4
<1>3. RedisType'
  <2>0. window \in Windows /\ processed \in Nat /\ failed \in 0..processed
    BY DEF Base, TypeOK, RedisType, Windows
  <2>1. CASE UNCHANGED <<window, processed, failed, rate>>
    BY <1>1, <2>1 DEF Base, TypeOK, RedisType
  <2>2. CASE RecordOutcome(i) /\ ~UNCHANGED <<window, processed, failed>>
    <3>1. PICK bit \in {0, 1} : window' = PushOutcome(window, bit)
      BY <2>2 DEF RecordOutcome
    <3>2. processed' = processed + 1 /\ failed' \in {failed, failed + 1} /\ rate' = rate
      BY <2>2 DEF RecordOutcome
    <3>3. window' \in Windows BY <2>0, <3>1, Pushed
    <3>4. window' \in Seq({0, 1}) /\ Len(window') <= WindowN BY <3>3 DEF Windows
    <3>5. processed' \in Nat /\ failed' \in 0..processed' BY <2>0, <3>2
    <3> QED BY <1>1, <3>2, <3>4, <3>5 DEF Base, TypeOK, RedisType
  <2>3. CASE SnapshotMicroBatchRate(i)
    <3>1. /\ UNCHANGED <<window, processed, failed>>
          /\ rate' = [rate EXCEPT ![MbOf(i)] = ComputeFailureRate(window)]
      BY <2>3 DEF SnapshotMicroBatchRate
    <3>2. ComputeFailureRate(window) \in 0..Whole BY <2>0, RateInRange
    <3>3. rate' \in [MBs -> {Missing} \cup 0..Whole]
      BY <3>1, <3>2 DEF Base, TypeOK, RedisType
    <3> QED BY <1>1, <3>1, <3>3 DEF Base, TypeOK, RedisType
  <2> QED BY <2>1, <2>2, <2>3 DEF LoadFails, ExecuteItem, RecordOutcome, redisVars
<1>4. RepoType'
  <2>1. named' = named \/ named' = named \cup {i}
    BY DEF LoadFails, ExecuteItem, RecordOutcome, SnapshotMicroBatchRate, repoVars
  <2> QED BY <1>1, <2>1 DEF Base, TypeOK, RepoType
<1>5. QueueType' BY <1>1, Frames DEF Base, TypeOK
<1>6. faults' \in 0..MaxFaults /\ faults' \in {faults, faults + 1}
  <2>1. CASE faults' = faults BY <2>1 DEF Base, TypeOK
  <2>2. CASE Fault BY <2>2, FaultCount DEF Base
  <2> QED BY <2>1, <2>2 DEF LoadFails, ExecuteItem, RecordOutcome, SnapshotMicroBatchRate
<1>7. UNCHANGED cursor /\ UNCHANGED <<call, pc, doc, left, snap>> BY <1>1 DEF orchVars
<1>8. wins' \in [MBs -> Nat] BY <1>1 DEF Base, TypeOK
<1>9. Base' BY <1>1, <1>2, <1>3, <1>4, <1>5, <1>6, <1>7, <1>8, WorkersOnly
<1> QED BY <1>1, <1>2, <1>6, <1>7, <1>9 DEF queueVars

LEMMA DecrementEffect ==
    ASSUME Base, NEW i \in Items, Decrement(i)
    PROVE  /\ Base' /\ ipc[i] = "signal"
           /\ \A j \in Items \ {i} : ipc'[j] = ipc[j]
           /\ UNCHANGED <<lock, dispatched, call, corr, pending, group, enq>>
           /\ UNCHANGED <<pc, doc, left>> /\ faults' \in {faults, faults + 1}
           /\ \/ /\ barrier[MbOf(i)] = 1 /\ barrier'[MbOf(i)] = Missing /\ ipc'[i] = "snapshot"
                 /\ wins'[MbOf(i)] = wins[MbOf(i)] + 1
                 /\ \A k \in MBs \ {MbOf(i)} : wins'[k] = wins[k] /\ barrier'[k] = barrier[k]
              \/ /\ barrier[MbOf(i)] = Missing => barrier'[MbOf(i)] = Missing
                 /\ \A k \in MBs \ {MbOf(i)} : barrier'[k] = barrier[k]
                 /\ ipc'[i] = "over" /\ wins' = wins
<1>1. /\ UNCHANGED <<lock, cursor, dispatched, window, processed, failed, rate>>
      /\ UNCHANGED orchVars /\ UNCHANGED repoVars /\ UNCHANGED queueVars
      /\ failure' = failure /\ enq' = enq
  BY DEF Decrement
<1>2. PICK k \in MBs : k = MbOf(i) BY Membership
<1>3. ItemType /\ barrier \in [MBs -> {Missing} \cup 1..MicroBatchSize] /\ wins \in [MBs -> Nat]
  BY DEF Base, TypeOK, RedisType
<1>4. UNCHANGED cursor /\ UNCHANGED <<call, pc, doc, left, snap>> BY <1>1 DEF orchVars
<1>5. RepoType' /\ QueueType' BY <1>1, Frames DEF Base, TypeOK
<1>6. UNCHANGED <<lock, dispatched, call, corr, pending, group, enq>>
  BY <1>1, <1>4 DEF repoVars, queueVars
<1>7. ASSUME NEW to \in {"snapshot", "over"}, ItemGoto(i, "signal", to),
             barrier' \in [MBs -> {Missing} \cup 1..MicroBatchSize], wins' \in [MBs -> Nat],
             faults' \in 0..MaxFaults
      PROVE  /\ Base' /\ ipc[i] = "signal" /\ ipc'[i] = to
             /\ \A j \in Items \ {i} : ipc'[j] = ipc[j]
  <2>1. /\ ItemType' /\ ipc[i] = "signal" /\ ipc'[i] = to
        /\ \A j \in Items \ {i} : ipc'[j] = ipc[j]
    <3>1. to \in {"load", "record", "signal", "snapshot", "resume", "over"} OBVIOUS
    <3>2. failure' = failure BY <1>1
    <3> QED BY <1>3, <1>7, <3>1, <3>2, ItemMoved
  <2>2. RedisType' BY <1>1, <1>7 DEF Base, TypeOK, RedisType
  <2>3. Base' BY <1>1, <1>4, <1>5, <1>7, <2>1, <2>2, WorkersOnly
  <2> QED BY <2>1, <2>3
<1>8. CASE /\ barrier[k] = 1 /\ ItemGoto(i, "signal", "snapshot")
           /\ barrier' = [barrier EXCEPT ![k] = Missing]
           /\ wins' = [wins EXCEPT ![k] = @ + 1] /\ faults' = faults
  <2>1. /\ barrier' \in [MBs -> {Missing} \cup 1..MicroBatchSize] /\ wins' \in [MBs -> Nat]
        /\ barrier'[k] = Missing /\ wins'[k] = wins[k] + 1
        /\ \A j \in MBs \ {k} : wins'[j] = wins[j] /\ barrier'[j] = barrier[j]
    BY <1>3, <1>8
  <2>2. faults' \in 0..MaxFaults BY <1>8 DEF Base, TypeOK
  <2>3. /\ Base' /\ ipc[i] = "signal" /\ ipc'[i] = "snapshot"
        /\ \A j \in Items \ {i} : ipc'[j] = ipc[j]
    BY <1>7, <1>8, <2>1, <2>2
  <2> QED BY <1>2, <1>4, <1>6, <1>8, <2>1, <2>3
<1>9. CASE /\ barrier[k] # 1 /\ ItemGoto(i, "signal", "over")
           /\ barrier' = [barrier EXCEPT ![k] = IF @ = Missing THEN @ ELSE @ - 1]
           /\ wins' = wins /\ faults' = faults
  <2>1. PICK v \in {Missing} \cup 1..MicroBatchSize :
           barrier' = [barrier EXCEPT ![k] = v] /\ (barrier[k] = Missing => v = Missing)
    <3>1. CASE barrier[k] = Missing BY <1>3, <1>9, <3>1
    <3>2. CASE barrier[k] # Missing
      <4>1. barrier[k] \in 1..MicroBatchSize BY <1>3, <3>2
      <4>2. barrier[k] - 1 \in 1..MicroBatchSize BY <1>9, <4>1, BulkAssumption
      <4>3. barrier' = [barrier EXCEPT ![k] = barrier[k] - 1] BY <1>9, <3>2
      <4> QED BY <3>2, <4>2, <4>3
    <3> QED BY <3>1, <3>2
  <2>2. /\ barrier' \in [MBs -> {Missing} \cup 1..MicroBatchSize] /\ barrier'[k] = v
        /\ \A j \in MBs \ {k} : barrier'[j] = barrier[j]
    BY <1>3, <2>1
  <2>3. faults' \in 0..MaxFaults /\ wins' \in [MBs -> Nat] BY <1>3, <1>9 DEF Base, TypeOK
  <2>4. /\ Base' /\ ipc[i] = "signal" /\ ipc'[i] = "over"
        /\ \A j \in Items \ {i} : ipc'[j] = ipc[j]
    BY <1>7, <1>9, <2>2, <2>3
  <2> QED BY <1>2, <1>4, <1>6, <1>9, <2>1, <2>2, <2>4
<1>10. CASE Fault /\ ItemGoto(i, "signal", "over") /\ barrier' = barrier /\ wins' = wins
  <2>1. faults' \in 0..MaxFaults /\ faults' = faults + 1 BY <1>10, FaultCount DEF Base
  <2>2. barrier' \in [MBs -> {Missing} \cup 1..MicroBatchSize] /\ wins' \in [MBs -> Nat]
    BY <1>3, <1>10
  <2>3. /\ Base' /\ ipc[i] = "signal" /\ ipc'[i] = "over"
        /\ \A j \in Items \ {i} : ipc'[j] = ipc[j]
    BY <1>7, <1>10, <2>1, <2>2
  <2> QED BY <1>2, <1>4, <1>6, <1>10, <2>1, <2>3
<1> QED BY <1>2, <1>8, <1>9, <1>10 DEF Decrement

LEMMA RunIndices ==
    /\ 0 \in Runs
    /\ \A k \in MBs : k + 1 \in Runs \ {0} /\ (k + 1) - 1 = k
    /\ \A r \in Runs \ {0} : r - 1 \in MBs /\ (r - 1) + 1 = r
<1>1. PICK q \in Nat : q = (NumInputs - 1) \div MicroBatchSize BY BulkAssumption
<1>2. MBs = 0..q /\ Runs = 0..(q + 1) BY <1>1 DEF MBs, Runs
<1> QED BY <1>2

LEMMA ResumeOrchestratorEffect ==
    ASSUME Base, NEW i \in Items, ResumeOrchestrator(i)
    PROVE  /\ Base' /\ ipc[i] = "resume" /\ ipc'[i] = "over"
           /\ \A j \in Items \ {i} : ipc'[j] = ipc[j]
           /\ UNCHANGED <<lock, dispatched, barrier, call, corr, pending, group, enq, wins, faults>>
           /\ left' = left
           /\ \A c \in Callers, s \in Runs : (c \notin Waiting(MbOf(i)) \/ s # MbOf(i) + 1) =>
                  pc'[c][s] = pc[c][s] /\ doc'[c][s] = doc[c][s]
           /\ \A c \in Waiting(MbOf(i)) :
                  pc'[c][MbOf(i) + 1] = "Resume" /\ doc'[c][MbOf(i) + 1].marker
<1>1. /\ ItemGoto(i, "resume", "over") /\ UNCHANGED redisVars /\ call' = call /\ left' = left
      /\ UNCHANGED repoVars /\ UNCHANGED queueVars /\ failure' = failure /\ faults' = faults
      /\ enq' = enq /\ wins' = wins
  BY DEF ResumeOrchestrator, histVars
<1>2. PICK k \in MBs : k = MbOf(i) /\ k + 1 \in Runs BY Membership, RunIndices
<1>3. PICK run \in Runs : run = k + 1 BY <1>2
<1>4. /\ pc \in [Callers -> [Runs -> RunPc]] /\ doc \in [Callers -> [Runs -> Documents]]
      /\ snap \in [Callers -> [Runs -> Rows]] /\ row \in [Callers -> Rows]
  BY DEF Base, TypeOK, RunType, RepoType
<1>5. pc' = [c \in Callers |-> IF c \in Waiting(k) THEN [pc[c] EXCEPT ![run] = "Resume"] ELSE pc[c]]
  BY <1>2, <1>3 DEF ResumeOrchestrator
<1>6. snap' = [c \in Callers |-> IF c \in Waiting(k) THEN [snap[c] EXCEPT ![run] = row[c]] ELSE snap[c]]
  BY <1>2, <1>3 DEF ResumeOrchestrator
<1> DEFINE msg(c) == [fresh |-> FALSE, batch |-> FALSE, marker |-> TRUE, mb |-> row[c].mb]
<1>7. doc' = [c \in Callers |-> IF c \in Waiting(k) THEN [doc[c] EXCEPT ![run] = msg(c)] ELSE doc[c]]
  BY <1>2, <1>3 DEF ResumeOrchestrator
<1>8. \A c \in Callers : msg(c) \in Documents /\ msg(c).marker
  <2>1. \A c \in Callers : row[c].mb \in MBs \cup {NoMB} BY <1>4 DEF Rows
  <2> QED BY <2>1 DEF Documents
<1> HIDE DEF msg
<1>9. /\ pc' \in [Callers -> [Runs -> RunPc]]
      /\ \A c \in Callers, s \in Runs : (c \notin Waiting(k) \/ s # run) => pc'[c][s] = pc[c][s]
      /\ \A c \in Waiting(k) : pc'[c][run] = "Resume"
  <2>1. "Resume" \in RunPc /\ Waiting(k) \subseteq Callers BY DEF RunPc, Waiting
  <2>2. \A c \in Callers : [pc[c] EXCEPT ![run] = "Resume"] \in [Runs -> RunPc] BY <1>4, <2>1
  <2>3. pc' \in [Callers -> [Runs -> RunPc]] BY <1>4, <1>5, <2>2
  <2> QED BY <1>4, <1>5, <2>1, <2>3
<1>10. /\ doc' \in [Callers -> [Runs -> Documents]]
       /\ \A c \in Callers, s \in Runs : (c \notin Waiting(k) \/ s # run) => doc'[c][s] = doc[c][s]
       /\ \A c \in Waiting(k) : doc'[c][run].marker
  <2>1. Waiting(k) \subseteq Callers BY DEF Waiting
  <2>2. \A c \in Callers : [doc[c] EXCEPT ![run] = msg(c)] \in [Runs -> Documents] BY <1>4, <1>8
  <2>3. doc' \in [Callers -> [Runs -> Documents]] BY <1>4, <1>7, <2>2
  <2>4. \A c \in Waiting(k) : doc'[c][run] = msg(c) BY <1>4, <1>7, <2>1
  <2>5. \A c \in Callers, s \in Runs : (c \notin Waiting(k) \/ s # run) => doc'[c][s] = doc[c][s]
    BY <1>4, <1>7
  <2> QED BY <1>8, <2>1, <2>3, <2>4, <2>5
<1>11. snap' \in [Callers -> [Runs -> Rows]]
  <2>1. \A c \in Callers : [snap[c] EXCEPT ![run] = row[c]] \in [Runs -> Rows] BY <1>4
  <2> QED BY <1>4, <1>6, <2>1
<1>12. RunType' BY <1>1, <1>9, <1>10, <1>11 DEF Base, TypeOK, RunType
<1>13. /\ ItemType' /\ ipc[i] = "resume" /\ ipc'[i] = "over"
       /\ \A j \in Items \ {i} : ipc'[j] = ipc[j]
  <2>1. ItemType /\ failure' = failure /\ ItemGoto(i, "resume", "over") BY <1>1 DEF Base, TypeOK
  <2> QED BY <2>1, ItemMoved
<1>14. RedisType' /\ RepoType' /\ QueueType' BY <1>1, Frames DEF Base, TypeOK
<1>15. Aligned' BY <1>1 DEF Base, Aligned, redisVars
<1>16. Loaded'
  <2> SUFFICES ASSUME NEW c \in Callers, NEW s \in Runs, pc'[c][s] \in {"Mark", "Enqueue"}
      PROVE  doc'[c][s].mb \in MBs /\ left'[c][s] \subseteq Slice(doc'[c][s].mb)
    BY DEF Loaded, Slice
  <2>1. c \notin Waiting(k) \/ s # run BY <1>9
  <2>2. pc'[c][s] = pc[c][s] /\ doc'[c][s] = doc[c][s] /\ left'[c][s] = left[c][s]
    BY <1>1, <1>9, <1>10, <2>1
  <2> QED BY <2>2 DEF Base, Loaded
<1>17. Base' BY <1>1, <1>12, <1>13, <1>14, <1>15, <1>16 DEF Base, TypeOK
<1>18. UNCHANGED <<lock, dispatched, barrier, call, corr, pending, group, enq, wins, faults>>
  BY <1>1 DEF redisVars, repoVars, queueVars
<1> QED BY <1>1, <1>2, <1>3, <1>9, <1>10, <1>13, <1>17, <1>18

\* The steps of the system, by what they share.
QuietStep(c, r) ==
    \/ DispatchComplete(c, r) \/ SkipDispatched(c, r) \/ MessageReceived(c, r)
    \/ PauseExecution(c, r) \/ Terminate(c, r) \/ EvaluateBulkMicroBatch(c, r)
    \/ TaskStateError(c, r) \/ Crash(c, r)

AttemptEnds(k) == FinishBatchExecution(k) \/ WorkerCrash(k)

OrdinaryItemStep(i) ==
    LoadFails(i) \/ ExecuteItem(i) \/ RecordOutcome(i) \/ SnapshotMicroBatchRate(i)

LEMMA QuietStepEffect ==
    ASSUME Base, NEW c \in Callers, NEW r \in Runs, QuietStep(c, r)
    PROVE  Base' /\ Quietly(c, r)
BY QuietDispatchComplete, QuietSkipDispatched, QuietMessageReceived, QuietEnd, QuietMove DEF QuietStep

LEMMA NextSplit ==
    ASSUME Next
    PROVE  \/ \E c \in Callers : RunBulk(c)
           \/ \E c \in Callers : StoreBulkInputs(c)
           \/ \E c \in Callers, r \in Runs : QuietStep(c, r)
           \/ \E c \in Callers, r \in Runs : InitBarrier(c, r)
           \/ \E c \in Callers, r \in Runs : MarkDispatched(c, r)
           \/ \E c \in Callers, r \in Runs : \E i \in Items : EnqueueNext(c, r, i)
           \/ \E c \in Callers, r \in Runs : SaveMessageCorrelation(c, r)
           \/ \E c \in Callers, r \in Runs : ResumeExecution(c, r)
           \/ LockExpires
           \/ \E k \in MBs : Aggregate(k)
           \/ \E k \in MBs : HandleBatchExecution(k)
           \/ \E k \in MBs : AttemptEnds(k)
           \/ \E i \in Items : OrdinaryItemStep(i)
           \/ \E i \in Items : Decrement(i)
           \/ \E i \in Items : ResumeOrchestrator(i)
BY DEF Next, RunStep, QueueStep, ItemStep, QuietStep, AttemptEnds, OrdinaryItemStep

LEMMA NextBase == Base /\ [Next]_vars => Base'
<1> SUFFICES ASSUME Base, [Next]_vars PROVE Base' OBVIOUS
<1>1. CASE Next
  BY <1>1, NextSplit, RunBulkEffect, StoreBulkInputsEffect, QuietStepEffect, InitBarrierEffect,
     MarkDispatchedEffect, EnqueueNextEffect, SaveMessageCorrelationEffect, ResumeExecutionEffect,
     LockExpiresEffect, AggregateEffect, HandleEffect, AttemptEffect, ItemEffect, DecrementEffect,
     ResumeOrchestratorEffect DEF AttemptEnds, OrdinaryItemStep
<1>2. CASE UNCHANGED vars
  <2>1. /\ UNCHANGED redisVars /\ UNCHANGED repoVars /\ UNCHANGED queueVars /\ UNCHANGED itemVars
        /\ UNCHANGED orchVars /\ UNCHANGED histVars /\ faults' = faults
    BY <1>2 DEF vars
  <2>2. RedisType' /\ RepoType' /\ QueueType' /\ ItemType' BY <2>1, Frames DEF Base, TypeOK
  <2>3. UNCHANGED cursor /\ UNCHANGED <<call, pc, doc, left, snap>> BY <2>1 DEF redisVars, orchVars
  <2>4. faults' \in 0..MaxFaults /\ enq' = enq /\ wins' \in [MBs -> Nat]
    BY <2>1 DEF Base, TypeOK, histVars
  <2> QED BY <2>2, <2>3, <2>4, WorkersOnly
<1> QED BY <1>1, <1>2

(* Types, for any number of calls, inputs, micro-batches, redeliveries and faults: in
   particular the cursor never passes the end of the inputs, a barrier never counts more
   than a micro-batch, and a snapshot is a rate.                              *)
THEOREM TypeCorrect == Spec => []TypeOK
<1>1. Spec => []Base BY InitBase, NextBase, PTL DEF Spec
<1>2. Base => TypeOK BY DEF Base
<1> QED BY <1>1, <1>2, PTL

-----------------------------------------------------------------------------
(* One winner per micro-batch.                                             *)

LEMMA CountingFrame ==
    ASSUME Counting, UNCHANGED <<dispatched, barrier, pending, group, ipc, enq, wins>>
    PROVE  Unmarked' /\ Elected' /\ Workers'
<1>1. Unmarked' BY DEF Counting, Unmarked, Slice
<1>2. Elected' BY DEF Counting, Elected, Winning, MbOf
<1>3. Workers' BY DEF Counting, Workers, MbOf
<1> QED BY <1>1, <1>2, <1>3

LEMMA MarkedFirstKept ==
    ASSUME Counting, NEW c \in Callers, NEW r \in Runs, Others(c, r), dispatched \subseteq dispatched',
           pc'[c][r] = "Enqueue" => doc'[c][r].mb \in dispatched'
    PROVE  MarkedFirst'
<1> SUFFICES ASSUME NEW d \in Callers, NEW s \in Runs, pc'[d][s] = "Enqueue"
    PROVE  doc'[d][s].mb \in dispatched'
  BY DEF MarkedFirst
<1>1. CASE d = c /\ s = r BY <1>1
<1>2. CASE d # c \/ s # r BY <1>2 DEF Others, Counting, MarkedFirst
<1> QED BY <1>1, <1>2

\* An item that runs belongs to a marked micro-batch.
LEMMA RunningIsMarked ==
    ASSUME Base, Counting, NEW i \in Items, ipc[i] # "idle"
    PROVE  /\ MbOf(i) \in MBs /\ MbOf(i) \in dispatched
           /\ group[MbOf(i)].status = "running" /\ i \in group[MbOf(i)].items
BY Membership DEF Counting, Workers, Unmarked

LEMMA CountingQuiet ==
    ASSUME Base, Counting, NEW c \in Callers, NEW r \in Runs, Quietly(c, r)
    PROVE  Counting'
<1>1. /\ UNCHANGED <<dispatched, barrier, pending, group, ipc, enq, wins>>
      /\ Others(c, r) /\ pc'[c][r] # "Enqueue"
  BY DEF Quietly
<1>2. Unmarked' /\ Elected' /\ Workers' BY <1>1, CountingFrame
<1>3. MarkedFirst' BY <1>1, MarkedFirstKept
<1> QED BY <1>2, <1>3 DEF Counting

LEMMA CountingInitBarrier ==
    ASSUME Base, Counting, NEW c \in Callers, NEW r \in Runs, InitBarrier(c, r)
    PROVE  Counting'
<1>1. /\ Others(c, r) /\ pc'[c][r] = "Mark" /\ doc'[c][r].mb \in MBs \ dispatched
      /\ UNCHANGED <<dispatched, pending, group, ipc, enq, wins>>
      /\ \A j \in MBs : j # doc'[c][r].mb => barrier'[j] = barrier[j]
  BY InitBarrierEffect
<1>2. Unmarked' /\ Workers' BY <1>1 DEF Counting, Unmarked, Workers, Slice, MbOf
<1>3. wins[doc'[c][r].mb] = 0 BY <1>1 DEF Counting, Unmarked
<1>4. Elected' BY <1>1, <1>3 DEF Counting, Elected, Winning, MbOf
<1>5. MarkedFirst' BY <1>1, MarkedFirstKept
<1> QED BY <1>2, <1>4, <1>5 DEF Counting

LEMMA CountingMarkDispatched ==
    ASSUME Base, Counting, NEW c \in Callers, NEW r \in Runs, MarkDispatched(c, r)
    PROVE  Counting'
<1>1. /\ Others(c, r) /\ doc'[c][r] = doc[c][r] /\ dispatched' = dispatched \cup {doc[c][r].mb}
      /\ UNCHANGED <<barrier, pending, group, ipc, enq, wins>>
  BY MarkDispatchedEffect
<1>2. Unmarked' BY <1>1 DEF Counting, Unmarked, Slice
<1>3. Elected' BY <1>1 DEF Counting, Elected, Winning, MbOf
<1>4. Workers' BY <1>1 DEF Counting, Workers, MbOf
<1>5. MarkedFirst' BY <1>1, MarkedFirstKept
<1> QED BY <1>2, <1>3, <1>4, <1>5 DEF Counting

LEMMA CountingEnqueueNext ==
    ASSUME Base, Counting, NEW c \in Callers, NEW r \in Runs, NEW i \in Items, EnqueueNext(c, r, i)
    PROVE  Counting'
<1>1. /\ Others(c, r) /\ doc'[c][r] = doc[c][r] /\ pc[c][r] = "Enqueue" /\ doc[c][r].mb \in MBs
      /\ i \in Slice(doc[c][r].mb)
      /\ UNCHANGED <<dispatched, barrier, group, ipc, wins>>
      /\ \/ UNCHANGED <<pending, enq>>
         \/ /\ \A j \in MBs : j # doc[c][r].mb => pending'[j] = pending[j]
            /\ \A j \in Items : j # i => enq'[j] = enq[j]
  BY EnqueueNextEffect
<1>2. doc[c][r].mb \in dispatched BY <1>1 DEF Counting, MarkedFirst
<1>3. Unmarked'
  <2> SUFFICES ASSUME NEW k \in MBs, k \notin dispatched
      PROVE  wins'[k] = 0 /\ pending'[k] = {} /\ group'[k].items = {} /\ \A j \in Slice(k) : enq'[j] = 0
    BY <1>1 DEF Unmarked, Slice
  <2>1. k # doc[c][r].mb BY <1>2
  <2>2. \A j \in Slice(k) : j \in Items /\ j # i BY <1>1, <2>1, Membership
  <2>3. pending'[k] = pending[k] /\ \A j \in Slice(k) : enq'[j] = enq[j] BY <1>1, <2>1, <2>2
  <2> QED BY <1>1, <2>3 DEF Counting, Unmarked
<1>4. Elected' BY <1>1 DEF Counting, Elected, Winning, MbOf
<1>5. Workers' BY <1>1 DEF Counting, Workers, MbOf
<1>6. MarkedFirst' BY <1>1, <1>2, MarkedFirstKept
<1> QED BY <1>3, <1>4, <1>5, <1>6 DEF Counting

LEMMA CountingOtherRuns ==
    ASSUME Base, Counting, NEW c \in Callers,
           \/ RunBulk(c) \/ StoreBulkInputs(c)
           \/ \E r \in Runs : SaveMessageCorrelation(c, r) \/ ResumeExecution(c, r)
    PROVE  Counting'
<1>1. CASE RunBulk(c)
  <2>1. /\ UNCHANGED <<dispatched, barrier, pending, group, ipc, enq, wins>>
        /\ UNCHANGED <<pc, doc>>
    BY <1>1, RunBulkEffect
  <2>2. MarkedFirst' BY <2>1 DEF Counting, MarkedFirst
  <2> QED BY <2>1, <2>2, CountingFrame DEF Counting
<1>2. CASE StoreBulkInputs(c)
  <2>1. /\ UNCHANGED <<dispatched, barrier, pending, group, ipc, enq, wins>>
        /\ (UNCHANGED <<pc, doc>> \/ (Others(c, 0) /\ pc'[c][0] = "Dispatch"))
    BY <1>2, StoreBulkInputsEffect
  <2>2. MarkedFirst'
    <3>1. CASE UNCHANGED <<pc, doc>> BY <2>1, <3>1 DEF Counting, MarkedFirst
    <3>2. CASE Others(c, 0) /\ pc'[c][0] = "Dispatch" BY <2>1, <3>2, RunIndices, MarkedFirstKept
    <3> QED BY <2>1, <3>1, <3>2
  <2> QED BY <2>1, <2>2, CountingFrame DEF Counting
<1>3. ASSUME NEW r \in Runs, SaveMessageCorrelation(c, r) \/ ResumeExecution(c, r)
      PROVE  Counting'
  <2>1. /\ UNCHANGED <<dispatched, barrier, pending, group, ipc, enq, wins>>
        /\ Others(c, r) /\ pc'[c][r] # "Enqueue"
    BY <1>3, SaveMessageCorrelationEffect, ResumeExecutionEffect
  <2>2. MarkedFirst' BY <2>1, MarkedFirstKept
  <2> QED BY <2>1, <2>2, CountingFrame DEF Counting
<1> QED BY <1>1, <1>2, <1>3

LEMMA CountingQueue ==
    ASSUME Base, Counting, NEW k \in MBs, Aggregate(k) \/ HandleBatchExecution(k) \/ AttemptEnds(k)
    PROVE  Counting'
<1>1. CASE Aggregate(k)
  <2>1. /\ pending[k] # {} /\ group[k].status \in {"none", "done"}
        /\ pending'[k] = {} /\ group'[k].items = pending[k]
        /\ \A j \in MBs \ {k} : pending'[j] = pending[j] /\ group'[j] = group[j]
        /\ UNCHANGED <<dispatched, barrier, ipc, enq, wins, pc, doc>>
    BY <1>1, AggregateEffect
  <2>2. Unmarked' BY <2>1 DEF Counting, Unmarked, Slice
  <2>3. Elected' BY <2>1 DEF Counting, Elected, Winning, MbOf
  <2>4. Workers'
    <3> SUFFICES ASSUME NEW i \in Items, ipc'[i] # "idle"
        PROVE  group'[MbOf(i)].status = "running" /\ i \in group'[MbOf(i)].items
      BY DEF Workers, MbOf
    <3>1. /\ MbOf(i) \in MBs /\ group[MbOf(i)].status = "running" /\ i \in group[MbOf(i)].items
      BY <2>1, RunningIsMarked
    <3> QED BY <2>1, <3>1
  <2>5. MarkedFirst' BY <2>1 DEF Counting, MarkedFirst
  <2> QED BY <2>2, <2>3, <2>4, <2>5 DEF Counting
<1>2. CASE HandleBatchExecution(k)
  <2>1. /\ group[k].status = "queued"
        /\ group'[k].status = "running" /\ group'[k].items = group[k].items
        /\ \A j \in MBs \ {k} : group'[j] = group[j]
        /\ \A i \in Items : ipc'[i] = IF i \in group[k].items THEN "load" ELSE ipc[i]
        /\ UNCHANGED <<dispatched, barrier, pending, enq, wins, pc, doc>>
    BY <1>2, HandleEffect
  <2>2. Unmarked' BY <2>1 DEF Counting, Unmarked, Slice
  <2>3. \A i \in Items : Winning(i)' => Winning(i) BY <2>1 DEF Winning
  <2>4. Elected' BY <2>1, <2>3 DEF Counting, Elected, MbOf
  <2>5. Workers'
    <3> SUFFICES ASSUME NEW i \in Items, ipc'[i] # "idle"
        PROVE  group'[MbOf(i)].status = "running" /\ i \in group'[MbOf(i)].items
      BY DEF Workers, MbOf
    <3>1. CASE i \in group[k].items
      <4>1. MbOf(i) = k BY <3>1, Membership DEF Base, TypeOK, QueueType
      <4> QED BY <2>1, <3>1, <4>1
    <3>2. CASE i \notin group[k].items
      <4>1. /\ MbOf(i) \in MBs /\ group[MbOf(i)].status = "running" /\ i \in group[MbOf(i)].items
        BY <2>1, <3>2, RunningIsMarked
      <4> QED BY <2>1, <4>1
    <3> QED BY <3>1, <3>2
  <2>6. MarkedFirst' BY <2>1 DEF Counting, MarkedFirst
  <2> QED BY <2>2, <2>4, <2>5, <2>6 DEF Counting
<1>3. CASE AttemptEnds(k)
  <2>1. /\ group[k].status = "running" /\ group'[k].items = group[k].items
        /\ \A j \in MBs \ {k} : group'[j] = group[j]
        /\ \A i \in Items : ipc'[i] = IF i \in group[k].items THEN "idle" ELSE ipc[i]
        /\ UNCHANGED <<dispatched, barrier, pending, enq, wins, pc, doc>>
    BY <1>3, AttemptEffect DEF AttemptEnds
  <2>2. Unmarked' BY <2>1 DEF Counting, Unmarked, Slice
  <2>3. \A i \in Items : Winning(i)' => Winning(i) BY <2>1 DEF Winning
  <2>4. Elected' BY <2>1, <2>3 DEF Counting, Elected, MbOf
  <2>5. Workers'
    <3> SUFFICES ASSUME NEW i \in Items, ipc'[i] # "idle"
        PROVE  group'[MbOf(i)].status = "running" /\ i \in group'[MbOf(i)].items
      BY DEF Workers, MbOf
    <3>1. i \notin group[k].items /\ ipc[i] # "idle" BY <2>1
    <3>2. /\ MbOf(i) \in MBs /\ group[MbOf(i)].status = "running" /\ i \in group[MbOf(i)].items
      BY <3>1, RunningIsMarked
    <3>3. MbOf(i) # k BY <3>1, <3>2
    <3> QED BY <2>1, <3>2, <3>3
  <2>6. MarkedFirst' BY <2>1 DEF Counting, MarkedFirst
  <2> QED BY <2>2, <2>4, <2>5, <2>6 DEF Counting
<1> QED BY <1>1, <1>2, <1>3

LEMMA CountingItem ==
    ASSUME Base, Counting, NEW i \in Items,
           OrdinaryItemStep(i) \/ Decrement(i) \/ ResumeOrchestrator(i)
    PROVE  Counting'
<1>1. /\ ipc[i] # "idle" /\ \A j \in Items \ {i} : ipc'[j] = ipc[j]
      /\ UNCHANGED <<dispatched, pending, group, enq>>
  BY ItemEffect, DecrementEffect, ResumeOrchestratorEffect DEF OrdinaryItemStep
<1>2. /\ MbOf(i) \in MBs /\ MbOf(i) \in dispatched
      /\ group[MbOf(i)].status = "running" /\ i \in group[MbOf(i)].items
  BY <1>1, RunningIsMarked
<1>3. Workers'
  <2> SUFFICES ASSUME NEW j \in Items, ipc'[j] # "idle"
      PROVE  group'[MbOf(j)].status = "running" /\ j \in group'[MbOf(j)].items
    BY DEF Workers, MbOf
  <2>1. CASE j = i BY <1>1, <1>2, <2>1
  <2>2. CASE j # i BY <1>1, <2>2, RunningIsMarked
  <2> QED BY <2>1, <2>2
<1>4. CASE OrdinaryItemStep(i)
  <2>1. UNCHANGED <<barrier, wins, pc, doc>> /\ Winning(i)' = Winning(i)
    BY <1>4, ItemEffect DEF OrdinaryItemStep
  <2>2. Unmarked' BY <1>1, <2>1 DEF Counting, Unmarked, Slice
  <2>3. \A j \in Items : Winning(j)' = Winning(j) BY <1>1, <2>1 DEF Winning
  <2>4. Elected' BY <2>1, <2>3 DEF Counting, Elected, MbOf
  <2>5. MarkedFirst' BY <1>1, <2>1 DEF Counting, MarkedFirst
  <2> QED BY <1>3, <2>2, <2>4, <2>5 DEF Counting
<1>5. CASE Decrement(i)
  <2>1. /\ ipc[i] = "signal" /\ UNCHANGED <<pc, doc>>
        /\ \/ /\ barrier[MbOf(i)] = 1 /\ barrier'[MbOf(i)] = Missing /\ ipc'[i] = "snapshot"
              /\ wins'[MbOf(i)] = wins[MbOf(i)] + 1
              /\ \A k \in MBs \ {MbOf(i)} : wins'[k] = wins[k] /\ barrier'[k] = barrier[k]
           \/ /\ barrier[MbOf(i)] = Missing => barrier'[MbOf(i)] = Missing
              /\ \A k \in MBs \ {MbOf(i)} : barrier'[k] = barrier[k]
              /\ ipc'[i] = "over" /\ wins' = wins
    BY <1>5, DecrementEffect
  <2>2. \A k \in MBs \ dispatched : wins'[k] = wins[k] BY <1>2, <2>1
  <2>3. Unmarked' BY <1>1, <2>2 DEF Counting, Unmarked, Slice
  <2>4. MarkedFirst' BY <1>1, <2>1 DEF Counting, MarkedFirst
  <2>5. Elected'
    <3>1. CASE /\ barrier[MbOf(i)] = 1 /\ barrier'[MbOf(i)] = Missing /\ ipc'[i] = "snapshot"
               /\ wins'[MbOf(i)] = wins[MbOf(i)] + 1
               /\ \A k \in MBs \ {MbOf(i)} : wins'[k] = wins[k] /\ barrier'[k] = barrier[k]
      <4>1. wins[MbOf(i)] = 0
        <5>1. wins[MbOf(i)] # 1 BY <1>2, <3>1 DEF Counting, Elected, Missing
        <5>2. wins[MbOf(i)] \in Nat /\ wins[MbOf(i)] <= 1
          BY <1>2 DEF Counting, Elected, Base, TypeOK
        <5> QED BY <5>1, <5>2
      <4>2. wins'[MbOf(i)] = 1 BY <3>1, <4>1
      <4>3. \A k \in MBs : wins'[k] <= 1 /\ (wins'[k] = 1 => barrier'[k] = Missing)
        BY <3>1, <4>2 DEF Counting, Elected
      <4>4. \A j \in Items : MbOf(j) = MbOf(i) => ~Winning(j) BY <4>1 DEF Counting, Elected
      <4>5. \A j \in Items \ {i} : Winning(j)' <=> Winning(j) BY <1>1 DEF Winning
      <4>6. \A j \in Items : Winning(j)' => wins'[MbOf(j)] = 1
        <5> SUFFICES ASSUME NEW j \in Items, Winning(j)' PROVE wins'[MbOf(j)] = 1 OBVIOUS
        <5>1. CASE j = i BY <4>2, <5>1
        <5>2. CASE j # i
          <6>1. Winning(j) BY <4>5, <5>2
          <6>2. MbOf(j) # MbOf(i) /\ MbOf(j) \in MBs BY <4>4, <6>1, Membership
          <6> QED BY <3>1, <6>1, <6>2 DEF Counting, Elected
        <5> QED BY <5>1, <5>2
      <4>7. \A j, l \in Items : Winning(j)' /\ Winning(l)' /\ MbOf(j) = MbOf(l) => j = l
        <5> SUFFICES ASSUME NEW j \in Items, NEW l \in Items, Winning(j)', Winning(l)', MbOf(j) = MbOf(l)
            PROVE  j = l
          OBVIOUS
        <5>1. CASE j # i /\ l # i BY <4>5, <5>1 DEF Counting, Elected
        <5>2. CASE j = i /\ l # i BY <4>4, <4>5, <5>2
        <5>3. CASE j # i /\ l = i BY <4>4, <4>5, <5>3
        <5> QED BY <5>1, <5>2, <5>3
      <4> QED BY <4>3, <4>6, <4>7 DEF Elected, MbOf
    <3>2. CASE /\ barrier[MbOf(i)] = Missing => barrier'[MbOf(i)] = Missing
               /\ \A k \in MBs \ {MbOf(i)} : barrier'[k] = barrier[k]
               /\ ipc'[i] = "over" /\ wins' = wins
      <4>1. \A k \in MBs : wins[k] = 1 => barrier'[k] = Missing BY <3>2 DEF Counting, Elected
      <4>2. \A j \in Items : Winning(j)' => Winning(j) BY <1>1, <3>2 DEF Winning
      <4> QED BY <3>2, <4>1, <4>2 DEF Counting, Elected, MbOf
    <3> QED BY <2>1, <3>1, <3>2
  <2> QED BY <1>3, <2>3, <2>4, <2>5 DEF Counting
<1>6. CASE ResumeOrchestrator(i)
  <2>1. /\ UNCHANGED <<barrier, wins>> /\ ipc'[i] = "over"
        /\ \A c \in Callers, s \in Runs : (c \notin Waiting(MbOf(i)) \/ s # MbOf(i) + 1) =>
               pc'[c][s] = pc[c][s] /\ doc'[c][s] = doc[c][s]
        /\ \A c \in Waiting(MbOf(i)) : pc'[c][MbOf(i) + 1] = "Resume"
    BY <1>6, ResumeOrchestratorEffect
  <2>2. Unmarked' BY <1>1, <2>1 DEF Counting, Unmarked, Slice
  <2>3. \A j \in Items : Winning(j)' => Winning(j) BY <1>1, <2>1 DEF Winning
  <2>4. Elected' BY <2>1, <2>3 DEF Counting, Elected, MbOf
  <2>5. MarkedFirst'
    <3> SUFFICES ASSUME NEW c \in Callers, NEW s \in Runs, pc'[c][s] = "Enqueue"
        PROVE  doc'[c][s].mb \in dispatched
      BY <1>1 DEF MarkedFirst
    <3>1. c \notin Waiting(MbOf(i)) \/ s # MbOf(i) + 1 BY <2>1
    <3>2. pc'[c][s] = pc[c][s] /\ doc'[c][s] = doc[c][s] BY <2>1, <3>1
    <3> QED BY <3>2 DEF Counting, MarkedFirst
  <2> QED BY <1>3, <2>2, <2>4, <2>5 DEF Counting
<1> QED BY <1>4, <1>5, <1>6

LEMMA LockExpiresCounting ==
    ASSUME Base, Counting, LockExpires
    PROVE  Counting'
<1>1. /\ UNCHANGED <<dispatched, barrier, pending, group, ipc, enq, wins>>
      /\ UNCHANGED <<pc, doc>>
  BY LockExpiresEffect
<1>2. MarkedFirst' BY <1>1 DEF Counting, MarkedFirst
<1> QED BY <1>1, <1>2, CountingFrame DEF Counting

LEMMA InitCounting == Init => Counting
<1> SUFFICES ASSUME Init PROVE Counting OBVIOUS
<1>1. Unmarked
  <2>1. \A k \in MBs : group[k].items = {} BY DEF Init
  <2>2. \A k \in MBs : Slice(k) \subseteq Items BY Membership
  <2> QED BY <2>1, <2>2 DEF Init, Unmarked
<1>2. Elected BY Membership DEF Init, Elected, Winning
<1>3. Workers /\ MarkedFirst BY DEF Init, Workers, MarkedFirst
<1> QED BY <1>1, <1>2, <1>3 DEF Counting

LEMMA NextCounting == Base /\ Counting /\ [Next]_vars => Counting'
<1> SUFFICES ASSUME Base, Counting, [Next]_vars PROVE Counting' OBVIOUS
<1>1. CASE Next
  BY <1>1, NextSplit, CountingQuiet, QuietStepEffect, CountingInitBarrier, CountingMarkDispatched,
     CountingEnqueueNext, CountingOtherRuns, CountingQueue, CountingItem, LockExpiresCounting
<1>2. CASE UNCHANGED vars
  <2>1. UNCHANGED <<dispatched, barrier, pending, group, ipc, enq, wins>> /\ UNCHANGED <<pc, doc>>
    BY <1>2 DEF vars, redisVars, orchVars, queueVars, itemVars, histVars
  <2>2. MarkedFirst' BY <2>1 DEF Counting, MarkedFirst
  <2> QED BY <2>1, <2>2, CountingFrame DEF Counting
<1> QED BY <1>1, <1>2

(* A micro-batch elects at most one winner, for any number of calls, inputs, redeliveries
   and faults.                                                                *)
THEOREM OneWinnerHolds == Spec => []OneWinner
<1>1. Base /\ Counting => OneWinner BY DEF Counting, Elected, OneWinner
<1>2. Spec => [](Base /\ Counting) BY InitBase, NextBase, InitCounting, NextCounting, PTL DEF Spec
<1> QED BY <1>1, <1>2, PTL

-----------------------------------------------------------------------------
(* Mutual exclusion of the orchestrator runs; no input is enqueued twice.  *)

LEMMA Sole ==
    ASSUME Roles, Exclusive, NEW c \in Callers, NEW r \in Runs, NEW d \in Callers, NEW s \in Runs,
           pc[c][r] \notin {"none", "ended", "Pause"}, pc[d][s] \notin {"none", "ended", "Pause"}
    PROVE  c = d /\ r = s
<1>1. Live(c) /\ Live(d) BY DEF Live, AtRest
<1>2. c = d BY <1>1 DEF Exclusive
<1>3. RolesOf(c) BY DEF Roles
<1>4. ASSUME NEW x \in Runs \ {0}, pc[c][x] # "none"
      PROVE  corr[c].status # "none" /\ corr[c].mb = x - 1 /\ pc[c][0] \in {"Pause", "ended"}
  BY <1>3, <1>4 DEF RolesOf, Resumed
<1>5. CASE r = 0 /\ s # 0 BY <1>2, <1>4, <1>5
<1>6. CASE r # 0 /\ s = 0 BY <1>2, <1>4, <1>6
<1>7. CASE r # 0 /\ s # 0
  <2>1. corr[c].mb = r - 1 /\ corr[c].mb = s - 1 BY <1>2, <1>4, <1>7
  <2>2. (r - 1) + 1 = r /\ (s - 1) + 1 = s BY <1>7, RunIndices
  <2> QED BY <1>2, <2>1, <2>2
<1> QED BY <1>2, <1>5, <1>6, <1>7

LEMMA ExclusiveKept ==
    ASSUME Exclusive, lock' = lock, \A d \in Callers : Live(d)' => Live(d)
    PROVE  Exclusive'
BY DEF Exclusive

\* A call on which a step has no effect does not come to life by it.
LEMMA StaysDead ==
    ASSUME NEW d \in Callers, Live(d)', call'[d] = call[d], corr'[d] = corr[d],
           \A s \in Runs : pc'[d][s] = pc[d][s],
           \A k \in MBs : Closed(k) => Closed(k)'
    PROVE  Live(d)
<1>1. CASE call[d] = "locked" BY <1>1 DEF Live
<1>2. CASE \E s \in Runs : ~AtRest(d, s) BY <1>2 DEF Live
<1>3. CASE call[d] # "locked" /\ \A s \in Runs : AtRest(d, s)
  <2>1. \A s \in Runs : AtRest(d, s)' BY <1>3 DEF AtRest
  <2>2. PICK k \in MBs : corr'[d].status = "WAITING" /\ corr'[d].mb = k /\ ~Closed(k)'
    BY <1>3, <2>1 DEF Live
  <2> QED BY <2>2 DEF Live
<1> QED BY <1>1, <1>2, <1>3

\* A step of run r keeps micro-batches closed unless it dispatches them.
LEMMA ClosedKept ==
    ASSUME NEW c \in Callers, NEW r \in Runs, Others(c, r), dispatched \subseteq dispatched',
           NEW k \in MBs, Closed(k), group'[k] = group[k], pending'[k] = pending[k],
           pc'[c][r] \in {"Mark", "Enqueue"} => doc'[c][r].mb # k
    PROVE  Closed(k)'
<1>1. Quiet(k)' BY DEF Closed, Quiet
<1>2. ASSUME NEW d \in Callers, NEW s \in Runs, pc'[d][s] \in {"Mark", "Enqueue"}
      PROVE  doc'[d][s].mb # k
  <2>1. CASE d = c /\ s = r BY <1>2, <2>1
  <2>2. CASE d # c \/ s # r
    <3>1. pc'[d][s] = pc[d][s] /\ doc'[d][s] = doc[d][s] BY <2>2 DEF Others
    <3> QED BY <1>2, <3>1 DEF Closed
  <2> QED BY <2>1, <2>2
<1> QED BY <1>1, <1>2 DEF Closed

LEMMA RolesFrame ==
    ASSUME Base, NEW d \in Callers, RolesOf(d), call'[d] = call[d], corr'[d] = corr[d],
           \A s \in Runs : pc'[d][s] = pc[d][s] /\ doc'[d][s] = doc[d][s],
           dispatched \subseteq dispatched',
           \A k \in MBs : wins[k] = 1 =>
               wins'[k] = 1 /\ \A i \in Slice(k) : ~Winning(i) => ~Winning(i)'
    PROVE  RolesOf(d)'
<1>0. 0 \in Runs BY RunIndices
<1>1. /\ pc'[d][0] \notin {"Resume", "Evaluate"} /\ ~doc'[d][0].marker
      /\ call'[d] # "running" => corr'[d].status = "none" /\ \A r \in Runs : pc'[d][r] = "none"
      /\ corr'[d].status # "none" => pc'[d][0] \in {"Pause", "ended"} /\ corr'[d].mb \in dispatched'
      /\ pc'[d][0] = "Wait" => doc'[d][0].mb \in dispatched'
  BY <1>0 DEF RolesOf
<1>2. ASSUME NEW r \in Runs \ {0}
      PROVE  /\ pc'[d][r] # "none" => Resumed(d, r)'
             /\ ~AtRest(d, r)' => doc'[d][r].marker
  <2>1. r - 1 \in MBs BY RunIndices
  <2>2. pc'[d][r] = pc[d][r] /\ doc'[d][r] = doc[d][r] OBVIOUS
  <2>3. ASSUME pc[d][r] # "none" PROVE Resumed(d, r)'
    <3>1. Resumed(d, r) BY <2>3 DEF RolesOf
    <3>2. wins'[r - 1] = 1 /\ \A i \in Slice(r - 1) : ~Winning(i)' BY <2>1, <3>1 DEF Resumed
    <3> QED BY <2>2, <3>1, <3>2 DEF Resumed, Slice
  <2>4. ~AtRest(d, r)' => doc'[d][r].marker BY <2>2 DEF RolesOf, AtRest
  <2> QED BY <2>2, <2>3, <2>4
<1> QED BY <1>1, <1>2 DEF RolesOf

\* A run that goes on, or ends.
LEMMA RolesRun ==
    ASSUME Base, NEW c \in Callers, NEW r \in Runs, RolesOf(c), Others(c, r), ~AtRest(c, r),
           pc'[c][r] \notin {"none", "Resume", "Pause"},
           pc'[c][r] = "Evaluate" => doc[c][r].marker,
           pc'[c][r] # "ended" => doc'[c][r].marker = doc[c][r].marker /\ pc[c][r] # "Pause",
           pc'[c][r] = "ended" => ~doc'[c][r].marker \/ r # 0,
           pc'[c][r] = "Wait" => doc'[c][r].mb \in dispatched' \/ r # 0,
           call'[c] = call[c], corr'[c].mb = corr[c].mb,
           corr'[c].status = "none" <=> corr[c].status = "none",
           dispatched \subseteq dispatched', wins' = wins, ipc' = ipc
    PROVE  RolesOf(c)'
<1>0. 0 \in Runs BY RunIndices
<1>1. call[c] = "running" BY DEF RolesOf, AtRest
<1>2. \A i \in Items : Winning(i)' <=> Winning(i) BY DEF Winning
<1>3. ASSUME NEW s \in Runs \ {0}, s # r
      PROVE  /\ pc'[c][s] # "none" => Resumed(c, s)'
             /\ ~AtRest(c, s)' => doc'[c][s].marker
  <2>1. pc'[c][s] = pc[c][s] /\ doc'[c][s] = doc[c][s] BY <1>3 DEF Others
  <2>2. ASSUME pc[c][s] # "none" PROVE Resumed(c, s)'
    <3>1. Resumed(c, s) BY <2>2 DEF RolesOf
    <3>2. \A i \in Slice(s - 1) : ~Winning(i)' BY <1>2, <3>1 DEF Resumed, Slice
    <3> QED BY <2>1, <3>1, <3>2 DEF Resumed, Slice
  <2> QED BY <2>1, <2>2 DEF RolesOf, AtRest
<1>4. CASE r = 0
  <2>1. corr[c].status # "none" => pc[c][0] = "Pause" BY <1>4 DEF RolesOf, AtRest
  <2>2. /\ pc'[c][0] \notin {"Resume", "Evaluate"} /\ ~doc'[c][0].marker
        /\ pc'[c][0] = "Wait" => doc'[c][0].mb \in dispatched'
        /\ corr'[c].status # "none" => pc'[c][0] = "ended" /\ corr'[c].mb \in dispatched'
    BY <1>4, <2>1 DEF RolesOf
  <2> QED BY <1>1, <1>3, <1>4, <2>2 DEF RolesOf
<1>5. CASE r # 0
  <2>1. pc'[c][0] = pc[c][0] /\ doc'[c][0] = doc[c][0] BY <1>0, <1>5 DEF Others
  <2>2. Resumed(c, r) /\ doc[c][r].marker BY <1>5 DEF RolesOf, AtRest
  <2>3. \A i \in Slice(r - 1) : ~Winning(i)' BY <1>2, <2>2 DEF Resumed, Slice
  <2>4. Resumed(c, r)' BY <2>2, <2>3 DEF Resumed, Slice
  <2>5. ~AtRest(c, r)' => doc'[c][r].marker BY <2>2 DEF AtRest
  <2>6. /\ pc'[c][0] \notin {"Resume", "Evaluate"} /\ ~doc'[c][0].marker
        /\ pc'[c][0] = "Wait" => doc'[c][0].mb \in dispatched'
        /\ corr'[c].status # "none" => pc'[c][0] \in {"Pause", "ended"} /\ corr'[c].mb \in dispatched'
    BY <2>1 DEF RolesOf
  <2> QED BY <1>1, <1>3, <2>4, <2>5, <2>6 DEF RolesOf
<1> QED BY <1>4, <1>5

LEMMA OneCallActs ==
    ASSUME Base, Roles, Exclusive, NEW c \in Callers, Live(c), RolesOf(c)', lock' = lock,
           \A d \in Callers \ {c} : /\ call'[d] = call[d] /\ corr'[d] = corr[d]
                                    /\ \A s \in Runs : pc'[d][s] = pc[d][s] /\ doc'[d][s] = doc[d][s],
           dispatched \subseteq dispatched', wins' = wins, ipc' = ipc,
           \A k \in MBs : Closed(k) => Closed(k)'
    PROVE  Roles' /\ Exclusive'
<1>1. \A i \in Items : Winning(i)' <=> Winning(i) BY DEF Winning
<1>2. \A k \in MBs : wins[k] = 1 =>
          wins'[k] = 1 /\ \A i \in Slice(k) : ~Winning(i) => ~Winning(i)'
  BY <1>1 DEF Slice
<1>3. ASSUME NEW d \in Callers PROVE RolesOf(d)'
  <2>1. CASE d = c BY <2>1
  <2>2. CASE d # c
    <3>1. RolesOf(d) BY DEF Roles
    <3>2. /\ call'[d] = call[d] /\ corr'[d] = corr[d]
          /\ \A s \in Runs : pc'[d][s] = pc[d][s] /\ doc'[d][s] = doc[d][s]
      BY <2>2
    <3> QED BY <1>2, <3>1, <3>2, RolesFrame
  <2> QED BY <2>1, <2>2
<1>4. ASSUME NEW d \in Callers, Live(d)' PROVE Live(d)
  <2>1. CASE d = c BY <2>1
  <2>2. CASE d # c
    <3>1. /\ call'[d] = call[d] /\ corr'[d] = corr[d]
          /\ \A s \in Runs : pc'[d][s] = pc[d][s]
      BY <2>2
    <3> QED BY <1>4, <3>1, StaysDead
  <2> QED BY <2>1, <2>2
<1>5. Exclusive' BY <1>4, ExclusiveKept
<1> QED BY <1>3, <1>5 DEF Roles

LEMMA OneRunActs ==
    ASSUME Base, Roles, Exclusive, NEW c \in Callers, NEW r \in Runs, Others(c, r), ~AtRest(c, r),
           RolesOf(c)', lock' = lock, call' = call,
           \A d \in Callers \ {c} : corr'[d] = corr[d],
           dispatched \subseteq dispatched', wins' = wins, ipc' = ipc,
           \A k \in MBs : Closed(k) => Closed(k)'
    PROVE  Roles' /\ Exclusive'
<1>1. Live(c) BY DEF Live
<1>2. \A d \in Callers \ {c} : /\ call'[d] = call[d] /\ corr'[d] = corr[d]
                               /\ \A s \in Runs : pc'[d][s] = pc[d][s] /\ doc'[d][s] = doc[d][s]
  BY DEF Others
<1> QED BY <1>1, <1>2, OneCallActs

LEMMA UntouchedKept ==
    ASSUME Untouched, NEW c \in Callers, NEW r \in Runs, Others(c, r),
           \/ dispatched' = dispatched /\ enq' = enq
           \/ \A d \in Callers, s \in Runs : (d # c \/ s # r) => pc[d][s] \notin {"Mark", "Enqueue"},
           pc'[c][r] = "Mark" =>
               doc'[c][r].mb \notin dispatched' /\ left'[c][r] = Slice(doc'[c][r].mb),
           pc'[c][r] = "Enqueue" => \A i \in left'[c][r] : enq'[i] = 0
    PROVE  Untouched'
<1> SUFFICES ASSUME NEW d \in Callers, NEW s \in Runs
    PROVE  /\ pc'[d][s] = "Mark" =>
                  doc'[d][s].mb \notin dispatched' /\ left'[d][s] = Slice(doc'[d][s].mb)
           /\ pc'[d][s] = "Enqueue" => \A i \in left'[d][s] : enq'[i] = 0
  BY DEF Untouched, Slice
<1>1. CASE d = c /\ s = r BY <1>1
<1>2. CASE d # c \/ s # r
  <2>1. pc'[d][s] = pc[d][s] /\ doc'[d][s] = doc[d][s] /\ left'[d][s] = left[d][s]
    BY <1>2 DEF Others
  <2> QED BY <1>2, <2>1 DEF Untouched
<1> QED BY <1>1, <1>2

LEMMA DispatchingQuiet ==
    ASSUME Base, Counting, Dispatching, NEW c \in Callers, NEW r \in Runs, Quietly(c, r)
    PROVE  Dispatching'
<1>1. /\ UNCHANGED <<lock, dispatched, barrier, call, corr, pending, group, ipc, enq, wins>>
      /\ Others(c, r) /\ ~AtRest(c, r)
      /\ pc'[c][r] \in {"Wait", "Evaluate", "Dispatch", "Completed", "Failed", "ended"}
      /\ pc'[c][r] # "ended" => doc'[c][r].marker = doc[c][r].marker /\ pc[c][r] # "Pause"
      /\ pc'[c][r] = "ended" => ~doc'[c][r].marker
      /\ pc'[c][r] = "Wait" => doc'[c][r].mb \in dispatched
      /\ pc'[c][r] = "Evaluate" => doc[c][r].marker
  BY DEF Quietly
<1>2. Roles /\ Exclusive /\ Untouched /\ Delivered /\ AtMostOnce BY DEF Dispatching
<1>3. RolesOf(c)'
  <2>1. RolesOf(c) BY <1>2 DEF Roles
  <2> QED BY <1>1, <2>1, RolesRun
<1>4. \A k \in MBs : Closed(k) => Closed(k)' BY <1>1, ClosedKept
<1>5. Roles' /\ Exclusive' BY <1>1, <1>2, <1>3, <1>4, OneRunActs
<1>6. Untouched' BY <1>1, <1>2, UntouchedKept
<1>7. Delivered' /\ AtMostOnce' BY <1>1, <1>2 DEF Delivered, AtMostOnce
<1> QED BY <1>5, <1>6, <1>7 DEF Dispatching

LEMMA DispatchingInitBarrier ==
    ASSUME Base, Counting, Dispatching, NEW c \in Callers, NEW r \in Runs, InitBarrier(c, r)
    PROVE  Dispatching'
<1>1. /\ UNCHANGED <<lock, dispatched, call, corr, pending, group, ipc, enq, wins>>
      /\ Others(c, r) /\ ~AtRest(c, r)
      /\ pc[c][r] = "Dispatch" /\ pc'[c][r] = "Mark"
      /\ doc'[c][r].marker = doc[c][r].marker
      /\ doc'[c][r].mb \in MBs \ dispatched
      /\ left'[c][r] = Slice(doc'[c][r].mb)
  BY InitBarrierEffect DEF AtRest
<1>2. Roles /\ Exclusive /\ Untouched /\ Delivered /\ AtMostOnce BY DEF Dispatching
<1>3. RolesOf(c)'
  <2>1. RolesOf(c) BY <1>2 DEF Roles
  <2> QED BY <1>1, <2>1, RolesRun
<1>4. ASSUME NEW k \in MBs, Closed(k) PROVE Closed(k)'
  <2>1. doc'[c][r].mb # k BY <1>1, <1>4 DEF Closed
  <2> QED BY <1>1, <1>4, <2>1, ClosedKept
<1>5. Roles' /\ Exclusive' BY <1>1, <1>2, <1>3, <1>4, OneRunActs
<1>6. Untouched' BY <1>1, <1>2, UntouchedKept
<1>7. Delivered' /\ AtMostOnce' BY <1>1, <1>2 DEF Delivered, AtMostOnce
<1> QED BY <1>5, <1>6, <1>7 DEF Dispatching

LEMMA DispatchingMarkDispatched ==
    ASSUME Base, Counting, Dispatching, NEW c \in Callers, NEW r \in Runs, MarkDispatched(c, r)
    PROVE  Dispatching'
<1>1. /\ UNCHANGED <<lock, call, corr, pending, group, ipc, enq, wins>>
      /\ Others(c, r) /\ ~AtRest(c, r)
      /\ pc[c][r] = "Mark" /\ pc'[c][r] = "Enqueue"
      /\ doc'[c][r] = doc[c][r] /\ left'[c][r] = left[c][r]
      /\ doc[c][r].mb \in MBs /\ dispatched' = dispatched \cup {doc[c][r].mb}
  BY MarkDispatchedEffect DEF AtRest
<1>2. Roles /\ Exclusive /\ Untouched /\ Delivered /\ AtMostOnce BY DEF Dispatching
<1>3. RolesOf(c)'
  <2>1. RolesOf(c) BY <1>2 DEF Roles
  <2>2. dispatched \subseteq dispatched' BY <1>1
  <2> QED BY <1>1, <2>1, <2>2, RolesRun
<1>4. ASSUME NEW k \in MBs, Closed(k) PROVE Closed(k)'
  <2>1. doc'[c][r].mb # k BY <1>1, <1>4 DEF Closed
  <2>2. dispatched \subseteq dispatched' BY <1>1
  <2> QED BY <1>1, <1>4, <2>1, <2>2, ClosedKept
<1>5. Roles' /\ Exclusive'
  <2>1. dispatched \subseteq dispatched' BY <1>1
  <2> QED BY <1>1, <1>2, <1>3, <1>4, <2>1, OneRunActs
<1>6. Untouched'
  <2>1. ASSUME NEW d \in Callers, NEW s \in Runs, d # c \/ s # r
        PROVE  pc[d][s] \notin {"Mark", "Enqueue"}
    BY <1>1, <1>2, <2>1, Sole
  <2>2. \A i \in left'[c][r] : enq'[i] = 0
    <3>1. doc[c][r].mb \notin dispatched /\ left[c][r] = Slice(doc[c][r].mb)
      BY <1>1, <1>2 DEF Untouched
    <3> QED BY <1>1, <3>1 DEF Counting, Unmarked
  <2> QED BY <1>1, <1>2, <2>1, <2>2, UntouchedKept
<1>7. Delivered' /\ AtMostOnce' BY <1>1, <1>2 DEF Delivered, AtMostOnce
<1> QED BY <1>5, <1>6, <1>7 DEF Dispatching

LEMMA DispatchingEnqueueNext ==
    ASSUME Base, Counting, Dispatching,
           NEW c \in Callers, NEW r \in Runs, NEW i \in Items, EnqueueNext(c, r, i)
    PROVE  Dispatching' /\ i \notin pending[doc[c][r].mb]
<1>1. /\ UNCHANGED <<lock, dispatched, call, corr, group, ipc, wins>>
      /\ Others(c, r) /\ ~AtRest(c, r)
      /\ pc[c][r] = "Enqueue" /\ doc'[c][r] = doc[c][r] /\ doc[c][r].mb \in MBs
      /\ i \in left[c][r]
  BY EnqueueNextEffect DEF AtRest
<1>2. Roles /\ Exclusive /\ Untouched /\ Delivered /\ AtMostOnce BY DEF Dispatching
<1>3. enq[i] = 0 /\ i \notin pending[doc[c][r].mb]
  <2>1. enq[i] = 0 BY <1>1, <1>2 DEF Untouched
  <2> QED BY <1>1, <1>2, <2>1 DEF Delivered
<1>4. /\ pc'[c][r] \in {"Wait", "Enqueue"} /\ left'[c][r] = left[c][r] \ {i}
      /\ pending'[doc[c][r].mb] = pending[doc[c][r].mb] \cup {i}
      /\ \A j \in MBs : j # doc[c][r].mb => pending'[j] = pending[j]
      /\ enq'[i] = enq[i] + 1 /\ \A j \in Items : j # i => enq'[j] = enq[j]
  BY <1>3, EnqueueNextEffect
<1>5. doc[c][r].mb \in dispatched BY <1>1 DEF Counting, MarkedFirst
<1>6. RolesOf(c)'
  <2>1. RolesOf(c) BY <1>2 DEF Roles
  <2> QED BY <1>1, <1>4, <1>5, <2>1, RolesRun
<1>7. ASSUME NEW k \in MBs, Closed(k) PROVE Closed(k)'
  <2>1. doc[c][r].mb # k BY <1>1, <1>7 DEF Closed
  <2>2. pending'[k] = pending[k] /\ doc'[c][r].mb # k BY <1>1, <1>4, <2>1
  <2> QED BY <1>1, <1>7, <2>2, ClosedKept
<1>8. Roles' /\ Exclusive' BY <1>1, <1>2, <1>6, <1>7, OneRunActs
<1>9. Untouched'
  <2>1. ASSUME NEW d \in Callers, NEW s \in Runs, d # c \/ s # r
        PROVE  pc[d][s] \notin {"Mark", "Enqueue"}
    BY <1>1, <1>2, <2>1, Sole
  <2>2. \A j \in left'[c][r] : enq'[j] = 0
    <3>1. left[c][r] \subseteq Items BY DEF Base, TypeOK, RunType
    <3> QED BY <1>1, <1>2, <1>4, <3>1 DEF Untouched
  <2> QED BY <1>1, <1>2, <1>4, <2>1, <2>2, UntouchedKept
<1>10. Delivered'
  <2> SUFFICES ASSUME NEW k \in MBs, NEW j \in pending'[k] PROVE enq'[j] = 1 BY DEF Delivered
  <2>1. CASE j = i BY <1>3, <1>4, <2>1
  <2>2. CASE j # i
    <3>1. j \in pending[k]
      <4>1. CASE k = doc[c][r].mb BY <1>4, <2>2, <4>1
      <4>2. CASE k # doc[c][r].mb BY <1>4, <4>2
      <4> QED BY <4>1, <4>2
    <3>2. enq[j] = 1 /\ j \in Items BY <1>2, <3>1 DEF Delivered, Base, TypeOK, QueueType
    <3> QED BY <1>4, <2>2, <3>2
  <2> QED BY <2>1, <2>2
<1>11. AtMostOnce' BY <1>2, <1>3, <1>4 DEF AtMostOnce
<1> QED BY <1>3, <1>8, <1>9, <1>10, <1>11 DEF Dispatching

LEMMA DispatchingSaveMessageCorrelation ==
    ASSUME Base, Counting, Dispatching, NEW c \in Callers, NEW r \in Runs, SaveMessageCorrelation(c, r)
    PROVE  Dispatching'
<1>1. /\ UNCHANGED <<lock, dispatched, call, pending, group, ipc, enq, wins>>
      /\ Others(c, r) /\ ~AtRest(c, r)
      /\ pc[c][r] = "Wait" /\ pc'[c][r] = "Pause" /\ ~doc[c][r].marker
      /\ doc'[c][r] = doc[c][r]
      /\ corr'[c].status = "WAITING" /\ corr'[c].mb = doc[c][r].mb
      /\ \A d \in Callers \ {c} : corr'[d] = corr[d]
  BY SaveMessageCorrelationEffect DEF AtRest
<1>2. Roles /\ Exclusive /\ Untouched /\ Delivered /\ AtMostOnce BY DEF Dispatching
<1>3. RolesOf(c) BY <1>2 DEF Roles
<1>4. r = 0 BY <1>1, <1>3 DEF RolesOf
<1>5. \A s \in Runs \ {0} : pc[c][s] = "none" BY <1>1, <1>3, <1>4 DEF RolesOf, Resumed
<1>6. RolesOf(c)'
  <2>1. call'[c] = "running" BY <1>1, <1>3 DEF RolesOf
  <2>2. \A s \in Runs \ {0} : pc'[c][s] = "none" BY <1>1, <1>4, <1>5 DEF Others
  <2>3. doc[c][0].mb \in dispatched /\ ~doc'[c][0].marker BY <1>1, <1>3, <1>4 DEF RolesOf
  <2>4. pc'[c][0] = "Pause" /\ corr'[c].mb \in dispatched' BY <1>1, <1>4, <2>3
  <2> QED BY <2>1, <2>2, <2>3, <2>4 DEF RolesOf, AtRest
<1>7. \A k \in MBs : Closed(k) => Closed(k)' BY <1>1, ClosedKept
<1>8. Roles' /\ Exclusive' BY <1>1, <1>2, <1>6, <1>7, OneRunActs
<1>9. Untouched' BY <1>1, <1>2, UntouchedKept
<1>10. Delivered' /\ AtMostOnce' BY <1>1, <1>2 DEF Delivered, AtMostOnce
<1> QED BY <1>8, <1>9, <1>10 DEF Dispatching

LEMMA DispatchingResumeExecution ==
    ASSUME Base, Counting, Dispatching, NEW c \in Callers, NEW r \in Runs, ResumeExecution(c, r)
    PROVE  Dispatching'
<1>1. /\ UNCHANGED <<lock, dispatched, call, pending, group, ipc, enq, wins>>
      /\ Others(c, r) /\ ~AtRest(c, r)
      /\ pc[c][r] = "Resume" /\ doc'[c][r] = doc[c][r]
      /\ pc'[c][r] \in {"Dispatch", "Wait", "Completed", "Failed", "ended"}
      /\ corr'[c].status \in {corr[c].status, "RECEIVED"} /\ corr'[c].mb = corr[c].mb
      /\ \A d \in Callers \ {c} : corr'[d] = corr[d]
  BY ResumeExecutionEffect DEF AtRest
<1>2. Roles /\ Exclusive /\ Untouched /\ Delivered /\ AtMostOnce BY DEF Dispatching
<1>3. RolesOf(c) BY <1>2 DEF Roles
<1>4. r # 0 /\ corr[c].status # "none" BY <1>1, <1>3 DEF RolesOf, Resumed
<1>5. corr'[c].status = "none" <=> corr[c].status = "none" BY <1>1, <1>4
<1>6. RolesOf(c)' BY <1>1, <1>3, <1>4, <1>5, RolesRun
<1>7. \A k \in MBs : Closed(k) => Closed(k)' BY <1>1, ClosedKept
<1>8. Roles' /\ Exclusive' BY <1>1, <1>2, <1>6, <1>7, OneRunActs
<1>9. Untouched' BY <1>1, <1>2, UntouchedKept
<1>10. Delivered' /\ AtMostOnce' BY <1>1, <1>2 DEF Delivered, AtMostOnce
<1> QED BY <1>8, <1>9, <1>10 DEF Dispatching

LEMMA DispatchingCalls ==
    ASSUME Base, Counting, Dispatching, NEW c \in Callers, RunBulk(c) \/ StoreBulkInputs(c)
    PROVE  Dispatching'
<1>1. Roles /\ Exclusive /\ Untouched /\ Delivered /\ AtMostOnce BY DEF Dispatching
<1>2. RolesOf(c) BY <1>1 DEF Roles
<1>3. /\ UNCHANGED <<dispatched, corr, pending, group, ipc, enq, wins, doc, left>>
      /\ \A d \in Callers \ {c} : call'[d] = call[d]
      /\ call[c] # "running"
  BY RunBulkEffect, StoreBulkInputsEffect
<1>4. corr[c].status = "none" /\ \A r \in Runs : pc[c][r] = "none" BY <1>2, <1>3 DEF RolesOf
<1>5. Delivered' /\ AtMostOnce' BY <1>1, <1>3 DEF Delivered, AtMostOnce
<1>6. CASE RunBulk(c)
  <2>1. /\ ~lock /\ lock' /\ call'[c] = "locked" /\ pc' = pc BY <1>6, RunBulkEffect
  <2>2. RolesOf(c)' BY <1>2, <1>3, <1>4, <2>1, RunIndices DEF RolesOf, AtRest
  <2>3. \A d \in Callers : ~Live(d) BY <1>1, <2>1 DEF Exclusive
  <2>4. \A i \in Items : Winning(i)' <=> Winning(i) BY <1>3 DEF Winning
  <2>5. \A k \in MBs : wins[k] = 1 =>
            wins'[k] = 1 /\ \A i \in Slice(k) : ~Winning(i) => ~Winning(i)'
    BY <1>3, <2>4 DEF Slice
  <2>6. \A k \in MBs : Closed(k) => Closed(k)' BY <1>3, <2>1 DEF Closed, Quiet
  <2>7. ASSUME NEW d \in Callers \ {c} PROVE RolesOf(d)' /\ ~Live(d)'
    <3>1. /\ RolesOf(d) /\ call'[d] = call[d] /\ corr'[d] = corr[d]
          /\ \A s \in Runs : pc'[d][s] = pc[d][s] /\ doc'[d][s] = doc[d][s]
      BY <1>1, <1>3, <2>1 DEF Roles
    <3>2. dispatched \subseteq dispatched' BY <1>3
    <3>3. RolesOf(d)' BY <2>5, <3>1, <3>2, RolesFrame
    <3>4. ~Live(d)' BY <2>3, <2>6, <3>1, StaysDead
    <3> QED BY <3>3, <3>4
  <2>8. Roles' BY <2>2, <2>7 DEF Roles
  <2>9. Exclusive' BY <2>1, <2>7 DEF Exclusive
  <2>10. Untouched' BY <1>1, <1>3, <2>1 DEF Untouched, Slice
  <2> QED BY <1>5, <2>8, <2>9, <2>10 DEF Dispatching
<1>7. CASE StoreBulkInputs(c)
  <2>0. 0 \in Runs BY RunIndices
  <2>1. /\ lock' = lock /\ call[c] = "locked"
        /\ \/ call'[c] = "error" /\ pc' = pc
           \/ call'[c] = "running" /\ Others(c, 0) /\ pc'[c][0] = "Dispatch"
    BY <1>7, StoreBulkInputsEffect
  <2>2. Live(c) BY <2>1 DEF Live
  <2>3. CASE call'[c] = "error" /\ pc' = pc
    <3>1. RolesOf(c)' BY <1>2, <1>3, <1>4, <2>0, <2>3 DEF RolesOf, AtRest
    <3>2. \A k \in MBs : Closed(k) => Closed(k)' BY <1>3, <2>3 DEF Closed, Quiet
    <3>3. \A d \in Callers \ {c} :
             /\ call'[d] = call[d] /\ corr'[d] = corr[d]
             /\ \A s \in Runs : pc'[d][s] = pc[d][s] /\ doc'[d][s] = doc[d][s]
      BY <1>3, <2>3
    <3>4. dispatched \subseteq dispatched' /\ wins' = wins /\ ipc' = ipc BY <1>3
    <3>5. Roles' /\ Exclusive' BY <1>1, <2>1, <2>2, <3>1, <3>2, <3>3, <3>4, OneCallActs
    <3>6. Untouched' BY <1>1, <1>3, <2>3 DEF Untouched, Slice
    <3> QED BY <1>5, <3>5, <3>6 DEF Dispatching
  <2>4. CASE call'[c] = "running" /\ Others(c, 0) /\ pc'[c][0] = "Dispatch"
    <3>1. \A s \in Runs \ {0} : pc'[c][s] = "none" BY <1>4, <2>0, <2>4 DEF Others
    <3>2. RolesOf(c)' BY <1>2, <1>3, <1>4, <2>4, <3>1 DEF RolesOf, AtRest
    <3>3. \A k \in MBs : Closed(k) => Closed(k)' BY <1>3, <2>0, <2>4, ClosedKept
    <3>4. \A d \in Callers \ {c} :
             /\ call'[d] = call[d] /\ corr'[d] = corr[d]
             /\ \A s \in Runs : pc'[d][s] = pc[d][s] /\ doc'[d][s] = doc[d][s]
      BY <1>3, <2>0, <2>4 DEF Others
    <3>5. dispatched \subseteq dispatched' /\ wins' = wins /\ ipc' = ipc BY <1>3
    <3>6. Roles' /\ Exclusive' BY <1>1, <2>1, <2>2, <3>2, <3>3, <3>4, <3>5, OneCallActs
    <3>7. Untouched' BY <1>1, <1>3, <2>0, <2>4, UntouchedKept
    <3> QED BY <1>5, <3>6, <3>7 DEF Dispatching
  <2> QED BY <2>1, <2>3, <2>4
<1> QED BY <1>6, <1>7

LEMMA DispatchingLockExpires ==
    ASSUME Base, Counting, Dispatching, LockExpires
    PROVE  Dispatching'
<1>1. /\ \A c \in Callers : call[c] # "locked" /\ \A r \in Runs : AtRest(c, r)
      /\ \A k \in MBs : Quiet(k)
      /\ UNCHANGED <<dispatched, call, corr, pending, group, ipc, enq, wins, pc, doc, left>>
  BY LockExpiresEffect
<1>2. Roles /\ Exclusive /\ Untouched /\ Delivered /\ AtMostOnce BY DEF Dispatching
<1>3. Roles' BY <1>1, <1>2 DEF Roles, RolesOf, Resumed, AtRest, Winning, Slice
<1>4. ASSUME NEW c \in Callers PROVE ~Live(c)'
  <2>1. call'[c] # "locked" /\ \A r \in Runs : AtRest(c, r)' BY <1>1 DEF AtRest
  <2>2. ASSUME NEW k \in MBs, corr'[c].status = "WAITING", corr'[c].mb = k PROVE Closed(k)'
    <3>1. k \in dispatched' BY <1>1, <1>2, <2>2 DEF Roles, RolesOf
    <3>2. Quiet(k)' BY <1>1 DEF Quiet
    <3>3. \A d \in Callers, r \in Runs : pc'[d][r] \notin {"Mark", "Enqueue"} BY <1>1 DEF AtRest
    <3> QED BY <3>1, <3>2, <3>3 DEF Closed
  <2> QED BY <2>1, <2>2 DEF Live
<1>5. Exclusive' BY <1>4 DEF Exclusive
<1>6. Untouched' BY <1>1, <1>2 DEF Untouched, Slice
<1>7. Delivered' /\ AtMostOnce' BY <1>1, <1>2 DEF Delivered, AtMostOnce
<1> QED BY <1>3, <1>5, <1>6, <1>7 DEF Dispatching

\* A step of the queue or of a worker: it touches no run, elects at most a first winner
\* and reopens nothing.
LEMMA DispatchingFrame ==
    ASSUME Base, Dispatching, UNCHANGED <<lock, dispatched, call, corr, enq, pc, doc, left>>,
           \A k \in MBs : wins[k] = 1 =>
               wins'[k] = 1 /\ \A i \in Slice(k) : ~Winning(i) => ~Winning(i)',
           \A k \in MBs : Quiet(k) => Quiet(k)',
           \A k \in MBs : pending'[k] \subseteq pending[k]
    PROVE  Dispatching'
<1>1. Roles /\ Exclusive /\ Untouched /\ Delivered /\ AtMostOnce BY DEF Dispatching
<1>2. \A k \in MBs : Closed(k) => Closed(k)' BY DEF Closed
<1>3. \A d \in Callers : /\ call'[d] = call[d] /\ corr'[d] = corr[d]
                         /\ \A s \in Runs : pc'[d][s] = pc[d][s] /\ doc'[d][s] = doc[d][s]
  OBVIOUS
<1>4. dispatched \subseteq dispatched' OBVIOUS
<1>5. Roles' BY <1>1, <1>3, <1>4, RolesFrame DEF Roles
<1>6. \A d \in Callers : Live(d)' => Live(d) BY <1>2, <1>3, StaysDead
<1>7. lock' = lock OBVIOUS
<1>8. Exclusive' BY <1>1, <1>6, <1>7, ExclusiveKept
<1>9. Untouched' BY <1>1 DEF Untouched, Slice
<1>10. Delivered' /\ AtMostOnce' BY <1>1 DEF Delivered, AtMostOnce
<1> QED BY <1>5, <1>8, <1>9, <1>10 DEF Dispatching

LEMMA DispatchingQueue ==
    ASSUME Base, Counting, Dispatching, NEW k \in MBs,
           Aggregate(k) \/ HandleBatchExecution(k) \/ AttemptEnds(k)
    PROVE  Dispatching'
<1>1. /\ ~Quiet(k)
      /\ UNCHANGED <<lock, dispatched, call, corr, enq, wins, pc, doc, left>>
      /\ \A j \in MBs \ {k} : pending'[j] = pending[j] /\ group'[j] = group[j]
      /\ \A j \in MBs : pending'[j] \subseteq pending[j]
      /\ \A i \in Items : Winning(i)' => Winning(i)
  <2>1. CASE Aggregate(k) BY <2>1, AggregateEffect DEF Quiet, Winning
  <2>2. CASE HandleBatchExecution(k) BY <2>2, HandleEffect DEF Quiet, Winning
  <2>3. CASE AttemptEnds(k) BY <2>3, AttemptEffect DEF AttemptEnds, Quiet, Winning
  <2> QED BY <2>1, <2>2, <2>3
<1>2. \A j \in MBs : Quiet(j) => Quiet(j)' BY <1>1 DEF Quiet
<1>3. \A j \in MBs : wins[j] = 1 =>
          wins'[j] = 1 /\ \A i \in Slice(j) : ~Winning(i) => ~Winning(i)'
  BY <1>1 DEF Slice
<1> QED BY <1>1, <1>2, <1>3, DispatchingFrame

LEMMA DispatchingSignal ==
    ASSUME Base, Counting, Dispatching, NEW i \in Items, OrdinaryItemStep(i) \/ Decrement(i)
    PROVE  Dispatching'
<1>1. /\ UNCHANGED <<lock, dispatched, call, corr, pending, group, enq, pc, doc, left>>
      /\ \A j \in Items \ {i} : ipc'[j] = ipc[j]
  BY ItemEffect, DecrementEffect DEF OrdinaryItemStep
<1>2. \A j \in MBs : Quiet(j) => Quiet(j)' BY <1>1 DEF Quiet
<1>3. \A j \in MBs : wins[j] = 1 => wins'[j] = 1 /\ (MbOf(i) = j /\ Winning(i)' => Winning(i))
  <2>1. CASE OrdinaryItemStep(i) BY <2>1, ItemEffect DEF OrdinaryItemStep
  <2>2. CASE Decrement(i)
    <3>1. \A j \in MBs : wins[j] = 1 => barrier[j] = Missing BY DEF Counting, Elected
    <3>2. 1 # Missing BY DEF Missing
    <3> QED BY <2>2, <3>1, <3>2, DecrementEffect DEF Winning
  <2> QED BY <2>1, <2>2
<1>4. \A j \in MBs : wins[j] = 1 =>
          wins'[j] = 1 /\ \A x \in Slice(j) : ~Winning(x) => ~Winning(x)'
  <2>1. \A x \in Items \ {i} : Winning(x)' <=> Winning(x) BY <1>1 DEF Winning
  <2> QED BY <1>3, <2>1, Membership
<1> QED BY <1>1, <1>2, <1>4, DispatchingFrame

LEMMA DispatchingResumeOrchestrator ==
    ASSUME Base, Counting, Dispatching, NEW i \in Items, ResumeOrchestrator(i)
    PROVE  Dispatching'
<1> DEFINE k == MbOf(i)
<1>1. /\ ipc[i] = "resume" /\ ipc'[i] = "over"
      /\ \A j \in Items \ {i} : ipc'[j] = ipc[j]
      /\ UNCHANGED <<lock, dispatched, call, corr, pending, group, enq, wins, left>>
      /\ \A c \in Callers, s \in Runs : (c \notin Waiting(k) \/ s # k + 1) =>
             pc'[c][s] = pc[c][s] /\ doc'[c][s] = doc[c][s]
      /\ \A c \in Waiting(k) : pc'[c][k + 1] = "Resume" /\ doc'[c][k + 1].marker
  BY ResumeOrchestratorEffect
<1>2. Roles /\ Exclusive /\ Untouched /\ Delivered /\ AtMostOnce BY DEF Dispatching
<1>3. k \in MBs /\ k \in dispatched /\ ~Quiet(k) BY <1>1, RunningIsMarked DEF Quiet
<1>4. Winning(i) /\ wins[k] = 1 BY <1>1 DEF Winning, Counting, Elected
<1>5. \A x \in Items : Winning(x)' => Winning(x) /\ x # i BY <1>1 DEF Winning
<1>6. \A x \in Slice(k) : ~Winning(x)'
  <2>1. \A x \in Slice(k) : x \in Items /\ MbOf(x) = MbOf(i) BY <1>3, Membership
  <2> QED BY <1>4, <1>5, <2>1 DEF Counting, Elected
<1>7. \A j \in MBs : wins[j] = 1 =>
          wins'[j] = 1 /\ \A x \in Slice(j) : ~Winning(x) => ~Winning(x)'
  BY <1>1, <1>5 DEF Slice
<1>8. \A c \in Callers : c \in Waiting(k) => corr[c].status = "WAITING" /\ corr[c].mb = k
  BY DEF Waiting
<1>r. 0 \in Runs /\ k + 1 \in Runs \ {0} /\ (k + 1) - 1 = k BY <1>3, RunIndices
<1> HIDE DEF k
<1>9. ASSUME NEW c \in Waiting(k), c \in Callers PROVE RolesOf(c)'
  <2>1. RolesOf(c) BY <1>2, <1>9 DEF Roles
  <2>2. corr[c].status = "WAITING" /\ corr[c].mb = k BY <1>8, <1>9
  <2>3. pc'[c][0] = pc[c][0] /\ doc'[c][0] = doc[c][0] BY <1>1, <1>9, <1>r
  <2>4. call'[c] = "running" BY <1>1, <1>9, <2>1, <2>2 DEF RolesOf
  <2>5. ASSUME NEW s \in Runs \ {0}, s # k + 1
        PROVE  pc'[c][s] = "none"
    <3>1. pc'[c][s] = pc[c][s] BY <1>1, <1>9, <2>5
    <3>2. pc[c][s] # "none" => corr[c].mb = s - 1 BY <2>1 DEF RolesOf, Resumed
    <3>3. (s - 1) + 1 = s BY RunIndices
    <3> QED BY <2>2, <2>5, <3>1, <3>2, <3>3
  <2>6. Resumed(c, k + 1)'
    <3>1. pc'[c][k + 1] = "Resume" BY <1>1, <1>9
    <3>2. corr'[c].status # "none" /\ corr'[c].mb = (k + 1) - 1 /\ wins'[(k + 1) - 1] = 1
      BY <1>1, <1>4, <1>9, <1>r, <2>2
    <3>3. \A x \in Slice((k + 1) - 1) : ~Winning(x)' BY <1>6, <1>r
    <3> QED BY <3>1, <3>2, <3>3 DEF Resumed, Slice
  <2>7. \A r \in Runs \ {0} : /\ pc'[c][r] # "none" => Resumed(c, r)'
                              /\ ~AtRest(c, r)' => doc'[c][r].marker
    BY <1>1, <1>9, <2>5, <2>6 DEF AtRest
  <2>8. /\ pc'[c][0] \notin {"Resume", "Evaluate"} /\ ~doc'[c][0].marker
        /\ corr'[c].status # "none" => pc'[c][0] \in {"Pause", "ended"} /\ corr'[c].mb \in dispatched'
        /\ pc'[c][0] = "Wait" => doc'[c][0].mb \in dispatched'
    BY <1>1, <2>1, <2>3 DEF RolesOf
  <2> QED BY <2>4, <2>7, <2>8 DEF RolesOf
<1>10. ASSUME NEW c \in Callers, c \notin Waiting(k)
       PROVE  /\ call'[c] = call[c] /\ corr'[c] = corr[c]
              /\ \A s \in Runs : pc'[c][s] = pc[c][s] /\ doc'[c][s] = doc[c][s]
  BY <1>1, <1>10
<1>11. Roles'
  <2>1. dispatched \subseteq dispatched' BY <1>1
  <2>2. ASSUME NEW c \in Callers, c \notin Waiting(k) PROVE RolesOf(c)'
    <3>1. RolesOf(c) BY <1>2 DEF Roles
    <3> QED BY <1>7, <1>10, <2>1, <2>2, <3>1, RolesFrame
  <2> QED BY <1>9, <2>2 DEF Roles
<1>12. \A c \in Callers, s \in Runs : pc'[c][s] # "Resume" =>
           pc'[c][s] = pc[c][s] /\ doc'[c][s] = doc[c][s]
  BY <1>1
<1>13. ASSUME NEW j \in MBs, Closed(j) PROVE Closed(j)'
  <2>1. Quiet(j)' BY <1>1, <1>13 DEF Closed, Quiet
  <2>2. \A c \in Callers, r \in Runs : pc'[c][r] \in {"Mark", "Enqueue"} => doc'[c][r].mb # j
    BY <1>12, <1>13 DEF Closed
  <2>3. j \in dispatched' BY <1>1, <1>13 DEF Closed
  <2> QED BY <2>1, <2>2, <2>3 DEF Closed
<1>14. ASSUME NEW c \in Callers, Live(c)' PROVE Live(c)
  <2>1. CASE c \in Waiting(k) BY <1>3, <1>8, <2>1 DEF Live, Closed
  <2>2. CASE c \notin Waiting(k) BY <1>10, <1>13, <1>14, <2>2, StaysDead
  <2> QED BY <2>1, <2>2
<1>15. lock' = lock BY <1>1
<1>16. Exclusive' BY <1>2, <1>14, <1>15, ExclusiveKept
<1>17. Untouched' BY <1>1, <1>2, <1>12 DEF Untouched, Slice
<1>18. Delivered' /\ AtMostOnce' BY <1>1, <1>2 DEF Delivered, AtMostOnce
<1> QED BY <1>11, <1>16, <1>17, <1>18 DEF Dispatching

LEMMA InitDispatching == Init => Dispatching
<1> SUFFICES ASSUME Init PROVE Dispatching OBVIOUS
<1>1. Roles
  <2>1. \A c \in Callers : corr[c].status = "none" BY DEF Init
  <2>2. \A c \in Callers : ~doc[c][0].marker BY RunIndices, Emptied DEF Init
  <2>3. \A c \in Callers, r \in Runs : pc[c][r] = "none" BY DEF Init
  <2> QED BY <2>1, <2>2, <2>3, RunIndices DEF Roles, RolesOf, AtRest
<1>2. \A c \in Callers : ~Live(c)
  <2>1. \A c \in Callers : corr[c].status = "none" BY DEF Init
  <2>2. \A c \in Callers : call[c] = "new" /\ \A r \in Runs : pc[c][r] = "none" BY DEF Init
  <2> QED BY <2>1, <2>2 DEF Live, AtRest
<1>3. Exclusive BY <1>2 DEF Exclusive
<1>4. Untouched /\ Delivered /\ AtMostOnce BY DEF Init, Untouched, Delivered, AtMostOnce
<1> QED BY <1>1, <1>3, <1>4 DEF Dispatching

LEMMA NextDispatching == IInv /\ [Next]_vars => Dispatching'
<1> SUFFICES ASSUME Base, Counting, Dispatching, [Next]_vars PROVE Dispatching' BY DEF IInv
<1>1. CASE Next
  BY <1>1, NextSplit, QuietStepEffect, DispatchingQuiet, DispatchingInitBarrier,
     DispatchingMarkDispatched, DispatchingEnqueueNext, DispatchingSaveMessageCorrelation,
     DispatchingResumeExecution, DispatchingCalls, DispatchingLockExpires, DispatchingQueue,
     DispatchingSignal, DispatchingResumeOrchestrator
<1>2. CASE UNCHANGED vars
  <2>1. UNCHANGED <<lock, dispatched, call, corr, pending, group, ipc, enq, wins, pc, doc, left>>
    BY <1>2 DEF vars, redisVars, orchVars, repoVars, queueVars, itemVars, histVars
  <2>2. \A k \in MBs : Quiet(k) => Quiet(k)' BY <2>1 DEF Quiet
  <2>3. \A k \in MBs : wins[k] = 1 =>
            wins'[k] = 1 /\ \A i \in Slice(k) : ~Winning(i) => ~Winning(i)'
    BY <2>1 DEF Winning, Slice
  <2> QED BY <2>1, <2>2, <2>3, DispatchingFrame
<1> QED BY <1>1, <1>2

(* The inductive invariant of calls, orchestrator runs, group tasks and workers: what a
   closed lock, the markers and the barrier together exclude.                  *)
THEOREM Invariance == Spec => []IInv
<1>1. Init => IInv BY InitBase, InitCounting, InitDispatching DEF IInv
<1>2. IInv /\ [Next]_vars => IInv' BY NextBase, NextCounting, NextDispatching DEF IInv
<1> QED BY <1>1, <1>2, PTL DEF Spec

(* No input is enqueued twice, whatever crashes and however often RunBulk is called for
   the batch, also after the lock has expired.                                *)
THEOREM AtMostOnceHolds == Spec => []AtMostOnce
<1>1. IInv => AtMostOnce BY DEF IInv, Dispatching
<1> QED BY <1>1, Invariance, PTL

-----------------------------------------------------------------------------
(* Dropped inputs.                                                         *)

\* Inputs outside X stay in hand.
LEMMA InHandKept ==
    ASSUME NEW c \in Callers, NEW r \in Runs, Others(c, r), NEW X,
           \A x \in Items \ X : pc[c][r] = "Enqueue" /\ x \in left[c][r] =>
               pc'[c][r] = "Enqueue" /\ x \in left'[c][r]
    PROVE  InHand \ X \subseteq InHand'
<1> SUFFICES ASSUME NEW x \in InHand \ X PROVE x \in InHand' OBVIOUS
<1>1. PICK d \in Callers, s \in Runs : pc[d][s] = "Enqueue" /\ x \in left[d][s] BY DEF InHand
<1>2. x \in Items BY DEF InHand
<1>3. pc'[d][s] = "Enqueue" /\ x \in left'[d][s]
  <2>1. CASE d = c /\ s = r BY <1>1, <1>2, <2>1
  <2>2. CASE d # c \/ s # r BY <1>1, <2>2 DEF Others
  <2> QED BY <2>1, <2>2
<1> QED BY <1>2, <1>3 DEF InHand

LEMMA DroppedFinite == IsFiniteSet(Dropped) /\ Cardinality(Dropped) \in Nat
<1>1. NumInputs \in Nat \ {0} BY BulkAssumption
<1>2. IsFiniteSet(0..(NumInputs - 1)) BY <1>1, FS_Interval
<1>3. IsFiniteSet(Items) BY <1>2 DEF Items
<1>4. Dropped \in SUBSET Items BY DEF Dropped
<1>5. IsFiniteSet(Dropped) BY <1>3, <1>4, FS_Subset
<1> QED BY <1>5, FS_CardinalityType

LEMMA NothingDropped ==
    ASSUME Base, DropsAreFaults, Dropped' \subseteq Dropped, faults' \in {faults, faults + 1}
    PROVE  DropsAreFaults'
<1>1. PICK n \in Nat, m \in Nat, M \in Nat :
          /\ n = Cardinality(Dropped) /\ m = Cardinality(Dropped') /\ M = MicroBatchSize
  <2>0. IsFiniteSet(Dropped') BY DroppedFinite, FS_Subset
  <2>1. Cardinality(Dropped') \in Nat BY <2>0, FS_CardinalityType
  <2> QED BY <2>1, DroppedFinite, BulkAssumption
<1>2. m <= n BY <1>1, DroppedFinite, FS_Subset
<1>3. faults \in Nat BY BulkAssumption DEF Base, TypeOK
<1>4. n <= faults * M BY <1>1 DEF DropsAreFaults
<1>5. (faults + 1) * M = faults * M + M /\ faults * M \in Nat BY <1>1, <1>3
<1>6. PICK p \in Nat : p = faults * M BY <1>5
<1>7. faults' * M = p \/ faults' * M = p + M
  <2>1. CASE faults' = faults BY <1>6, <2>1
  <2>2. CASE faults' = faults + 1 BY <1>5, <1>6, <2>2
  <2> QED BY <2>1, <2>2
<1>8. m <= faults' * M BY <1>1, <1>2, <1>4, <1>6, <1>7
<1> QED BY <1>1, <1>8 DEF DropsAreFaults

LEMMA OneMicroBatchDropped ==
    ASSUME Base, DropsAreFaults, NEW k \in MBs, Dropped' \subseteq Dropped \cup Slice(k),
           faults' = faults + 1
    PROVE  DropsAreFaults'
<1>1. IsFiniteSet(Slice(k)) /\ Cardinality(Slice(k)) \in 1..MicroBatchSize BY SliceSize
<1>2. MicroBatchSize \in Nat BY BulkAssumption
<1>3. /\ IsFiniteSet(Dropped \cup Slice(k))
      /\ Cardinality(Dropped \cup Slice(k)) =
             Cardinality(Dropped) + Cardinality(Slice(k)) - Cardinality(Dropped \cap Slice(k))
  BY <1>1, DroppedFinite, FS_Union
<1>4. IsFiniteSet(Dropped \cap Slice(k)) BY DroppedFinite, FS_Subset
<1>5. Cardinality(Dropped \cap Slice(k)) \in Nat BY <1>4, FS_CardinalityType
<1>6. PICK n \in Nat, s \in Nat, x \in Nat, M \in Nat :
          /\ n = Cardinality(Dropped) /\ s = Cardinality(Slice(k))
          /\ x = Cardinality(Dropped \cap Slice(k)) /\ M = MicroBatchSize /\ s <= M
  BY <1>1, <1>2, <1>5, DroppedFinite
<1>7. IsFiniteSet(Dropped') /\ Cardinality(Dropped') <= n + s - x BY <1>3, <1>6, FS_Subset
<1>8. PICK m \in Nat : m = Cardinality(Dropped') /\ m <= n + s - x BY <1>7, FS_CardinalityType
<1>9. faults \in Nat BY BulkAssumption DEF Base, TypeOK
<1>10. n <= faults * M BY <1>6 DEF DropsAreFaults
<1>11. faults' * M = faults * M + M /\ faults * M \in Nat BY <1>6, <1>9
<1>12. m <= faults' * M BY <1>6, <1>8, <1>10, <1>11
<1> QED BY <1>6, <1>8, <1>12 DEF DropsAreFaults

\* A step that enqueues and marks nothing and lets go of nothing.
LEMMA DropsFrame ==
    ASSUME Base, DropsAreFaults, UNCHANGED <<dispatched, enq>>, InHand \subseteq InHand',
           faults' \in {faults, faults + 1}
    PROVE  DropsAreFaults'
<1>1. Dropped' \subseteq Dropped BY DEF Dropped, MbOf
<1> QED BY <1>1, NothingDropped

\* A run that is not enqueueing.
LEMMA DropsRun ==
    ASSUME Base, DropsAreFaults, UNCHANGED <<dispatched, enq>>, faults' \in {faults, faults + 1},
           NEW c \in Callers, NEW r \in Runs, Others(c, r), pc[c][r] # "Enqueue"
    PROVE  DropsAreFaults'
<1>1. InHand \ {} \subseteq InHand' BY InHandKept
<1> QED BY <1>1, DropsFrame

LEMMA DropsQuiet ==
    ASSUME IInv, DropsAreFaults, NEW c \in Callers, NEW r \in Runs, Quietly(c, r)
    PROVE  DropsAreFaults'
<1>1. Base BY DEF IInv
<1>2. /\ UNCHANGED <<dispatched, enq>> /\ Others(c, r)
      /\ (faults' = faults /\ pc[c][r] # "Enqueue") \/ faults' = faults + 1
  BY DEF Quietly
<1>3. CASE pc[c][r] # "Enqueue" BY <1>1, <1>2, <1>3, DropsRun
<1>4. CASE pc[c][r] = "Enqueue"
  <2>1. PICK k \in MBs : left[c][r] \subseteq Slice(k) BY <1>1, <1>4 DEF Base, Loaded
  <2>2. InHand \ Slice(k) \subseteq InHand' BY <1>2, <2>1, InHandKept
  <2>3. Dropped' \subseteq Dropped \cup Slice(k) BY <1>2, <2>2 DEF Dropped, MbOf
  <2> QED BY <1>1, <1>2, <1>4, <2>3, OneMicroBatchDropped
<1> QED BY <1>3, <1>4

LEMMA DropsMarkDispatched ==
    ASSUME IInv, DropsAreFaults, NEW c \in Callers, NEW r \in Runs, MarkDispatched(c, r)
    PROVE  DropsAreFaults'
<1>1. Base /\ Untouched BY DEF IInv, Dispatching
<1>2. /\ Others(c, r) /\ UNCHANGED <<enq, faults>>
      /\ pc[c][r] = "Mark" /\ pc'[c][r] = "Enqueue" /\ left'[c][r] = left[c][r]
      /\ doc[c][r].mb \in MBs /\ dispatched' = dispatched \cup {doc[c][r].mb}
  BY <1>1, MarkDispatchedEffect
<1>3. left[c][r] = Slice(doc[c][r].mb) BY <1>1, <1>2 DEF Untouched
<1>4. InHand \ {} \subseteq InHand' BY <1>2, InHandKept
<1>5. ASSUME NEW x \in Dropped' PROVE x \in Dropped
  <2>1. x \in Items /\ x \notin InHand' /\ enq[x] = 0 /\ MbOf(x) \in dispatched'
    BY <1>2, <1>5 DEF Dropped, MbOf
  <2>2. x \notin left[c][r] BY <1>2, <2>1 DEF InHand
  <2>3. MbOf(x) # doc[c][r].mb BY <1>2, <1>3, <2>1, <2>2, Membership
  <2> QED BY <1>2, <1>4, <2>1, <2>3 DEF Dropped
<1>6. faults' \in {faults, faults + 1} BY <1>2
<1> QED BY <1>1, <1>5, <1>6, NothingDropped

LEMMA DropsEnqueueNext ==
    ASSUME IInv, DropsAreFaults, NEW c \in Callers, NEW r \in Runs, NEW i \in Items,
           EnqueueNext(c, r, i)
    PROVE  DropsAreFaults'
<1>1. Base /\ Counting /\ Dispatching BY DEF IInv
<1>2. i \notin pending[doc[c][r].mb] BY <1>1, DispatchingEnqueueNext
<1>3. /\ Others(c, r) /\ UNCHANGED <<dispatched, faults>> /\ pc[c][r] = "Enqueue"
      /\ (pc'[c][r] = "Wait" /\ left[c][r] = {i}) \/ pc'[c][r] = "Enqueue"
      /\ left'[c][r] = left[c][r] \ {i}
      /\ enq'[i] = enq[i] + 1 /\ \A j \in Items : j # i => enq'[j] = enq[j]
  BY <1>1, <1>2, EnqueueNextEffect
<1>4. InHand \ {i} \subseteq InHand'
  <2>1. \A x \in Items \ {i} : pc[c][r] = "Enqueue" /\ x \in left[c][r] =>
            pc'[c][r] = "Enqueue" /\ x \in left'[c][r]
    BY <1>3
  <2> QED BY <1>3, <2>1, InHandKept
<1>5. enq[i] \in Nat BY <1>1 DEF Base, TypeOK
<1>6. enq'[i] # 0 BY <1>3, <1>5
<1>7. Dropped' \subseteq Dropped BY <1>3, <1>4, <1>6 DEF Dropped, MbOf
<1>8. faults' \in {faults, faults + 1} BY <1>3
<1> QED BY <1>1, <1>7, <1>8, NothingDropped

LEMMA DropsOtherRuns ==
    ASSUME IInv, DropsAreFaults, NEW c \in Callers, NEW r \in Runs,
           InitBarrier(c, r) \/ SaveMessageCorrelation(c, r) \/ ResumeExecution(c, r)
    PROVE  DropsAreFaults'
<1>1. Base BY DEF IInv
<1>2. /\ Others(c, r) /\ UNCHANGED <<dispatched, enq>> /\ faults' = faults
      /\ pc[c][r] # "Enqueue"
  BY <1>1, InitBarrierEffect, SaveMessageCorrelationEffect, ResumeExecutionEffect
<1> QED BY <1>1, <1>2, DropsRun

LEMMA DropsCalls ==
    ASSUME IInv, DropsAreFaults, NEW c \in Callers, RunBulk(c) \/ StoreBulkInputs(c)
    PROVE  DropsAreFaults'
<1>1. Base /\ RolesOf(c) BY DEF IInv, Dispatching, Roles
<1>2. /\ UNCHANGED <<dispatched, enq>> /\ faults' \in {faults, faults + 1} /\ call[c] # "running"
      /\ UNCHANGED <<pc, left>> \/ Others(c, 0)
  BY <1>1, RunBulkEffect, StoreBulkInputsEffect
<1>3. 0 \in Runs /\ pc[c][0] # "Enqueue" BY <1>1, <1>2, RunIndices DEF RolesOf
<1>4. CASE UNCHANGED <<pc, left>>
  <2>1. InHand \subseteq InHand' BY <1>4 DEF InHand
  <2> QED BY <1>1, <1>2, <2>1, DropsFrame
<1>5. CASE Others(c, 0) BY <1>1, <1>2, <1>3, <1>5, DropsRun
<1> QED BY <1>2, <1>4, <1>5

LEMMA DropsElsewhere ==
    ASSUME IInv, DropsAreFaults,
           \/ LockExpires
           \/ \E k \in MBs : Aggregate(k) \/ HandleBatchExecution(k) \/ AttemptEnds(k)
           \/ \E i \in Items : OrdinaryItemStep(i) \/ Decrement(i)
    PROVE  DropsAreFaults'
<1>1. Base BY DEF IInv
<1>2. UNCHANGED <<dispatched, enq, pc, left>> /\ faults' \in {faults, faults + 1}
  <2>1. CASE LockExpires BY <1>1, <2>1, LockExpiresEffect
  <2>2. CASE \E k \in MBs : Aggregate(k) \/ HandleBatchExecution(k) \/ AttemptEnds(k)
    BY <1>1, <2>2, AggregateEffect, HandleEffect, AttemptEffect DEF AttemptEnds
  <2>3. CASE \E i \in Items : OrdinaryItemStep(i) \/ Decrement(i)
    BY <1>1, <2>3, ItemEffect, DecrementEffect DEF OrdinaryItemStep
  <2> QED BY <2>1, <2>2, <2>3
<1>3. InHand \subseteq InHand' BY <1>2 DEF InHand
<1> QED BY <1>1, <1>2, <1>3, DropsFrame

LEMMA DropsResumeOrchestrator ==
    ASSUME IInv, DropsAreFaults, NEW i \in Items, ResumeOrchestrator(i)
    PROVE  DropsAreFaults'
<1> DEFINE k == MbOf(i)
<1>1. Base /\ Counting /\ Roles BY DEF IInv, Dispatching
<1>2. /\ ipc[i] = "resume" /\ UNCHANGED <<dispatched, enq, left>> /\ faults' = faults
      /\ \A c \in Callers, s \in Runs : (c \notin Waiting(k) \/ s # k + 1) => pc'[c][s] = pc[c][s]
  BY <1>1, ResumeOrchestratorEffect
<1>3. k \in MBs /\ i \in Slice(k) /\ Winning(i) BY <1>2, Membership DEF Winning
<1>4. k + 1 \in Runs \ {0} /\ (k + 1) - 1 = k BY <1>3, RunIndices
<1>5. ASSUME NEW c \in Callers PROVE pc[c][k + 1] = "none"
  <2>1. pc[c][k + 1] # "none" => Resumed(c, k + 1) BY <1>1, <1>4 DEF Roles, RolesOf
  <2>2. Resumed(c, k + 1) => ~Winning(i) BY <1>3, <1>4 DEF Resumed
  <2> QED BY <1>3, <2>1, <2>2
<1>6. \A c \in Callers, s \in Runs : pc[c][s] = "Enqueue" => pc'[c][s] = "Enqueue" BY <1>2, <1>5
<1>7. InHand \subseteq InHand' BY <1>2, <1>6 DEF InHand
<1> QED BY <1>1, <1>2, <1>7, DropsFrame

LEMMA NextDrops == IInv /\ DropsAreFaults /\ [Next]_vars => DropsAreFaults'
<1> SUFFICES ASSUME IInv, DropsAreFaults, [Next]_vars PROVE DropsAreFaults' OBVIOUS
<1>1. Base BY DEF IInv
<1>2. CASE Next
  BY <1>1, <1>2, NextSplit, QuietStepEffect, DropsQuiet, DropsMarkDispatched, DropsEnqueueNext,
     DropsOtherRuns, DropsCalls, DropsElsewhere, DropsResumeOrchestrator
<1>3. CASE UNCHANGED vars
  <2>1. UNCHANGED <<dispatched, enq, pc, left, faults>>
    BY <1>3 DEF vars, redisVars, orchVars, histVars
  <2>2. InHand \subseteq InHand' BY <2>1 DEF InHand
  <2> QED BY <1>1, <2>1, <2>2, DropsFrame
<1> QED BY <1>2, <1>3

(* Marking a micro-batch before its inputs are enqueued costs at most MicroBatchSize
   inputs for every fault; without a fault nothing is dropped.                *)
THEOREM DropsAreFaultsHolds == Spec => []DropsAreFaults
<1>1. Init => DropsAreFaults
  <2> SUFFICES ASSUME Init PROVE DropsAreFaults OBVIOUS
  <2>1. Dropped = {} BY DEF Init, Dropped
  <2>2. Cardinality(Dropped) = 0 BY <2>1, FS_EmptySet
  <2>3. faults * MicroBatchSize = 0 BY BulkAssumption DEF Init
  <2> QED BY <2>2, <2>3 DEF DropsAreFaults
<1>2. Spec => [](IInv /\ DropsAreFaults) BY <1>1, Invariance, NextDrops, PTL DEF Spec
<1> QED BY <1>2, PTL

-----------------------------------------------------------------------------
(* The verdict and the counters.                                            *)

\* Every outcome was counted and none of the counters was deleted.
Trusted == ~cleaned /\ lostOutcomes = 0

Uniform(w, bit) == \A j \in 1..Len(w) : w[j] = bit

\* A goroutine that signals, the winner and a verdict come after an outcome; the window and the
\* snapshots hold failures exactly when the counters do.
Measured ==
    /\ \A k \in MBs : wins[k] # 0 => processed > 0
    /\ \A i \in Items : ipc[i] = "signal" => processed > 0
    /\ verdict # "none" => processed > 0
    /\ processed > 0 => window # <<>>
    /\ failed = 0 => Uniform(window, 0) /\ \A k \in MBs : rate[k] \in {Missing, 0}
    /\ failed = processed => Uniform(window, 1)

Agreeing == lostOutcomes \in Nat /\ (Trusted => Measured) /\ VerdictMatchesCounters

\* A set of finite sets that is not empty has one of least cardinality.
LEMMA Smallest ==
    ASSUME NEW C, C # {}, \A s \in C : Cardinality(s) \in Nat
    PROVE  \E s \in C : \A t \in C : Cardinality(s) <= Cardinality(t)
<1> DEFINE R == OpToRel(<, Nat)
           N == {Cardinality(s) : s \in C}
<1>1. N \subseteq Nat OBVIOUS
<1>2. PICK s0 \in C : TRUE OBVIOUS
<1>3. Cardinality(s0) \in N OBVIOUS
<1>4. \A a, b \in Nat : a < b => <<a, b>> \in R BY DEF OpToRel
<1>5. IsWellFoundedOn(R, Nat) BY NatLessThanWellFounded
<1> HIDE DEF R
<1>6. PICK n \in N : \A m \in N : ~(<<m, n>> \in R) BY <1>1, <1>3, <1>5, WFMin
<1>7. ASSUME NEW t \in C PROVE n <= Cardinality(t)
  <2>1. Cardinality(t) \in N /\ Cardinality(t) \in Nat /\ n \in Nat BY <1>1
  <2> HIDE DEF N
  <2>2. PICK m \in Nat : m = Cardinality(t) BY <2>1
  <2>3. ~(<<m, n>> \in R) BY <1>6, <2>1, <2>2
  <2>4. ~(m < n) BY <1>4, <2>1, <2>3
  <2> QED BY <2>1, <2>2, <2>4
<1> QED BY <1>6, <1>7

\* One unfolding of the sum of the snapshots; a sum of zeros is zero.
SumStep(f, S, z) == [s \in SUBSET S |-> IF s = {} THEN 0
                       ELSE f[CHOOSE x \in s : TRUE] + z[s \ {CHOOSE x \in s : TRUE}]]

Total(f, S) == MapThenSumSet(LAMBDA j : f[j], S)

LEMMA ZeroSum ==
    ASSUME NEW S, IsFiniteSet(S), NEW f, \A x \in S : f[x] = 0
    PROVE  Total(f, S) = 0
<1> DEFINE it == CHOOSE z : z = SumStep(f, S, z)
<1>1. Total(f, S) = it[S]
  BY DEF Total, MapThenSumSet, MapThenFoldSet, SumStep
<1>2. \E z : z = SumStep(f, S, z)
  <2> DEFINE z == [s \in SUBSET S |-> 0]
  <2>1. ASSUME NEW s \in SUBSET S, s # {}
        PROVE  f[CHOOSE x \in s : TRUE] + z[s \ {CHOOSE x \in s : TRUE}] = 0
    <3>1. (CHOOSE x \in s : TRUE) \in s BY <2>1
    <3> QED BY <3>1
  <2>2. z = SumStep(f, S, z) BY <2>1 DEF SumStep
  <2> HIDE DEF z
  <2> QED BY <2>2
<1>3. it = SumStep(f, S, it) BY <1>2
<1> HIDE DEF it
<1> DEFINE Wrong == {s \in SUBSET S : it[s] # 0}
<1>4. \A s \in SUBSET S : IsFiniteSet(s) /\ Cardinality(s) \in Nat
  BY FS_Subset, FS_CardinalityType
<1>5. Wrong = {}
  <2> SUFFICES ASSUME Wrong # {} PROVE FALSE OBVIOUS
  <2>1. PICK s \in Wrong : \A t \in Wrong : Cardinality(s) <= Cardinality(t)
    BY <1>4, Smallest
  <2>2. PICK x : x = CHOOSE y \in s : TRUE OBVIOUS
  <2>3. it[s] = IF s = {} THEN 0 ELSE f[x] + it[s \ {x}] BY <1>3, <2>2 DEF SumStep
  <2>4. s # {} BY <2>3
  <2>5. x \in s BY <2>2, <2>4
  <2>6. Cardinality(s \ {x}) = Cardinality(s) - 1 /\ Cardinality(s) \in Nat
    BY <1>4, <2>5, FS_RemoveElement
  <2>7. s \ {x} \in SUBSET S /\ Cardinality(s \ {x}) \in Nat BY <1>4
  <2>8. s \ {x} \notin Wrong BY <2>1, <2>6, <2>7
  <2>9. it[s \ {x}] = 0 /\ f[x] = 0 BY <2>5, <2>7, <2>8
  <2> QED BY <2>3, <2>9
<1> QED BY <1>1, <1>5

\* An entry pushed to a window: the window is not empty, and stays uniform.
LEMMA PushedEntries ==
    ASSUME NEW w \in Windows, NEW bit \in {0, 1}
    PROVE  PushOutcome(w, bit) # <<>> /\ (Uniform(w, bit) => Uniform(PushOutcome(w, bit), bit))
<1>1. WindowN \in Nat /\ WindowN >= 1 BY BulkAssumption
<1>2. w \in Seq({0, 1}) /\ Len(w) \in Nat /\ Len(w) <= WindowN BY DEF Windows
<1>a. Append(w, bit) \in Seq({0, 1}) BY <1>2
<1>b. Len(Append(w, bit)) = Len(w) + 1 BY <1>2
<1>c. \A j \in 1..(Len(w) + 1) : Append(w, bit)[j] = IF j <= Len(w) THEN w[j] ELSE bit BY <1>2
<1>3. PICK all \in Seq({0, 1}) :
          /\ all = Append(w, bit) /\ Len(all) = Len(w) + 1
          /\ \A j \in 1..(Len(w) + 1) : all[j] = IF j <= Len(w) THEN w[j] ELSE bit
  BY <1>a, <1>b, <1>c
<1>4. Uniform(w, bit) => \A j \in 1..Len(all) : all[j] = bit BY <1>2, <1>3 DEF Uniform
<1>5. CASE Len(all) > WindowN
  <2>1. Len(all) = WindowN + 1 BY <1>1, <1>2, <1>3, <1>5
  <2>2. PushOutcome(w, bit) = SubSeq(all, 2, Len(all)) BY <1>1, <1>3, <1>5, <2>1 DEF PushOutcome
  <2>3. Len(SubSeq(all, 2, Len(all))) = WindowN BY <1>1, <1>3, <2>1
  <2>4. \A j \in 1..WindowN : SubSeq(all, 2, Len(all))[j] = all[j + 1] BY <1>1, <1>3, <2>1
  <2>5. PICK p : p = PushOutcome(w, bit) /\ Len(p) = WindowN /\ \A j \in 1..WindowN : p[j] = all[j + 1]
    BY <2>2, <2>3, <2>4
  <2>6. p # <<>> BY <1>1, <2>5
  <2>7. ASSUME Uniform(w, bit), NEW j \in 1..WindowN PROVE p[j] = bit
    <3>1. j + 1 \in 1..Len(all) BY <1>1, <2>1, <2>7
    <3> QED BY <1>4, <2>5, <2>7, <3>1
  <2> QED BY <2>5, <2>6, <2>7 DEF Uniform
<1>6. CASE ~(Len(all) > WindowN)
  <2>1. PushOutcome(w, bit) = all BY <1>3, <1>6 DEF PushOutcome
  <2>2. all # <<>> BY <1>2, <1>3
  <2> QED BY <1>4, <2>1, <2>2 DEF Uniform
<1> QED BY <1>5, <1>6

\* A window of successes has rate 0, one of failures the whole.
LEMMA UniformRate ==
    ASSUME NEW w \in Windows
    PROVE  /\ Uniform(w, 0) => ComputeFailureRate(w) = 0
           /\ Uniform(w, 1) /\ w # <<>> => ComputeFailureRate(w) = Whole
<1>1. w \in Seq({0, 1}) /\ Len(w) \in Nat BY DEF Windows
<1>2. w # <<>> => Len(w) # 0 BY <1>1
<1>3. ASSUME Uniform(w, 0) PROVE ComputeFailureRate(w) = 0
  <2>1. {j \in 1..Len(w) : w[j] = 1} = {} BY <1>3 DEF Uniform
  <2>2. Failures(w) = 0 BY <2>1, FS_EmptySet DEF Failures
  <2>3. PICK n \in Nat : n = Len(w) BY <1>1
  <2>4. CASE w = <<>> BY <2>4 DEF ComputeFailureRate
  <2>5. CASE w # <<>>
    <3>1. n \in 1..WindowN BY <1>2, <2>3, <2>5, BulkAssumption DEF Windows
    <3>2. PICK u \in Nat : u = Whole \div n BY <3>1, UnitOfWindow
    <3>3. ComputeFailureRate(w) = 0 * u BY <2>2, <2>3, <2>5, <3>2 DEF ComputeFailureRate
    <3> QED BY <3>3
  <2> QED BY <2>4, <2>5
<1>4. ASSUME Uniform(w, 1), w # <<>> PROVE ComputeFailureRate(w) = Whole
  <2>1. {j \in 1..Len(w) : w[j] = 1} = 1..Len(w) BY <1>4 DEF Uniform
  <2>2. PICK n \in Nat : n = Len(w) BY <1>1
  <2>3. Cardinality(1..n) = n BY FS_Interval
  <2>4. Failures(w) = n BY <2>1, <2>2, <2>3 DEF Failures
  <2>5. n \in 1..WindowN BY <1>2, <1>4, <2>2, BulkAssumption DEF Windows
  <2>6. PICK u \in Nat : u = Whole \div n /\ n * u = Whole BY <2>5, UnitOfWindow
  <2>7. ComputeFailureRate(w) = n * u BY <1>4, <2>2, <2>4, <2>6 DEF ComputeFailureRate
  <2> QED BY <2>6, <2>7
<1> QED BY <1>3, <1>4

\* Without a failure in the snapshots the rolling average stays under the threshold.
LEMMA NotSoft ==
    ASSUME TypeOK, \A k \in MBs : rate[k] \in {Missing, 0}, NEW k \in MBs
    PROVE  ~RollingAtLeastSoft(k)
<1> DEFINE S == {j \in MBs : k - WindowM + 1 <= j /\ j <= k /\ rate[j] # Missing}
<1>1. IsFiniteSet(MBs)
  <2>1. (NumInputs - 1) \div MicroBatchSize \in Int BY BulkAssumption
  <2> QED BY <2>1, FS_Interval DEF MBs
<1>2. IsFiniteSet(S) BY <1>1, FS_Subset
<1>3. \A x \in S : rate[x] = 0 OBVIOUS
<1>4. RollingAtLeastSoft(k) <=> S # {} /\ 5 * Total(rate, S) >= Whole * Cardinality(S)
  BY DEF RollingAtLeastSoft, Total
<1> HIDE DEF S
<1>5. Total(rate, S) = 0 BY <1>2, <1>3, ZeroSum
<1>6. S # {} => Cardinality(S) \in Nat /\ Cardinality(S) # 0 BY <1>2, FS_CardinalityType, FS_EmptySet
<1>7. PICK n, m : n = Cardinality(S) /\ m = Total(rate, S) OBVIOUS
<1>8. RollingAtLeastSoft(k) <=> S # {} /\ 5 * m >= Whole * n BY <1>4, <1>7
<1>9. m = 0 /\ (S # {} => n \in Nat /\ n # 0) BY <1>5, <1>6, <1>7
<1>10. ASSUME S # {} PROVE ~RollingAtLeastSoft(k)
  <2>1. n \in Nat /\ n # 0 /\ Whole \in Nat /\ Whole # 0 BY <1>9, <1>10, BulkAssumption
  <2>2. PICK p \in Nat : p = Whole * n /\ p > 0 BY <2>1
  <2>3. 5 * m = 0 BY <1>9
  <2> QED BY <1>8, <2>2, <2>3
<1> QED BY <1>8, <1>10

-----------------------------------------------------------------------------
\* A step that leaves the measurements alone and brings no goroutine to its signal.
Unmeasured ==
    /\ window' = window /\ processed' = processed /\ failed' = failed /\ rate' = rate
    /\ wins' = wins /\ lostOutcomes' = lostOutcomes /\ cleaned' = cleaned /\ verdict' = verdict
    /\ \A i \in Items : ipc'[i] = "signal" => ipc[i] = "signal"

LEMMA AgreeingUnmeasured == ASSUME Agreeing, Unmeasured PROVE Agreeing'
<1>1. Trusted' = Trusted BY DEF Unmeasured, Trusted
<1>2. Uniform(window, 0)' = Uniform(window, 0) /\ Uniform(window, 1)' = Uniform(window, 1)
  BY DEF Unmeasured, Uniform
<1>3. Measured => Measured' BY <1>2 DEF Measured, Unmeasured
<1>4. VerdictMatchesCounters' BY DEF Agreeing, VerdictMatchesCounters, Unmeasured
<1>5. lostOutcomes' \in Nat BY DEF Agreeing, Unmeasured
<1> QED BY <1>1, <1>3, <1>4, <1>5 DEF Agreeing

LEMMA CallsUnmeasured ==
    ASSUME NEW c \in Callers, RunBulk(c) \/ StoreBulkInputs(c)
    PROVE  Unmeasured
<1>1. CASE RunBulk(c) BY <1>1 DEF RunBulk, itemVars, histVars, Unmeasured
<1>2. CASE StoreBulkInputs(c) BY <1>2 DEF StoreBulkInputs, itemVars, histVars, Unmeasured
<1> QED BY <1>1, <1>2

LEMMA RunUnmeasured ==
    ASSUME NEW c \in Callers, NEW r \in Runs,
           \/ SkipDispatched(c, r) \/ MessageReceived(c, r) \/ PauseExecution(c, r)
           \/ Terminate(c, r) \/ TaskStateError(c, r) \/ Crash(c, r) \/ InitBarrier(c, r)
           \/ MarkDispatched(c, r) \/ (\E i \in Items : EnqueueNext(c, r, i))
           \/ SaveMessageCorrelation(c, r) \/ ResumeExecution(c, r)
    PROVE  Unmeasured
<1> USE DEF itemVars, histVars, redisVars, Unmeasured
<1>1. CASE SkipDispatched(c, r) BY <1>1 DEF SkipDispatched
<1>2. CASE MessageReceived(c, r) BY <1>2 DEF MessageReceived
<1>3. CASE PauseExecution(c, r) BY <1>3 DEF PauseExecution
<1>4. CASE Terminate(c, r) BY <1>4 DEF Terminate
<1>5. CASE TaskStateError(c, r) BY <1>5 DEF TaskStateError
<1>6. CASE Crash(c, r) BY <1>6 DEF Crash
<1>7. CASE InitBarrier(c, r) BY <1>7 DEF InitBarrier
<1>8. CASE MarkDispatched(c, r) BY <1>8 DEF MarkDispatched
<1>9. CASE \E i \in Items : EnqueueNext(c, r, i) BY <1>9 DEF EnqueueNext
<1>10. CASE SaveMessageCorrelation(c, r) BY <1>10 DEF SaveMessageCorrelation
<1>11. CASE ResumeExecution(c, r) BY <1>11 DEF ResumeExecution
<1> QED BY <1>1, <1>2, <1>3, <1>4, <1>5, <1>6, <1>7, <1>8, <1>9, <1>10, <1>11

LEMMA QueueUnmeasured ==
    ASSUME \/ LockExpires
           \/ \E k \in MBs : Aggregate(k) \/ HandleBatchExecution(k) \/ AttemptEnds(k)
    PROVE  Unmeasured
<1> USE DEF itemVars, histVars, redisVars, Unmeasured
<1>1. CASE LockExpires BY <1>1 DEF LockExpires
<1>2. ASSUME NEW k \in MBs, Aggregate(k) PROVE Unmeasured BY <1>2 DEF Aggregate
<1>3. ASSUME NEW k \in MBs, HandleBatchExecution(k) PROVE Unmeasured
  BY <1>3 DEF HandleBatchExecution
<1>4. ASSUME NEW k \in MBs, FinishBatchExecution(k) PROVE Unmeasured
  BY <1>4 DEF FinishBatchExecution
<1>5. ASSUME NEW k \in MBs, WorkerCrash(k) PROVE Unmeasured BY <1>5 DEF WorkerCrash
<1> QED BY <1>1, <1>2, <1>3, <1>4, <1>5 DEF AttemptEnds

LEMMA ItemUnmeasured ==
    ASSUME TypeOK, NEW i \in Items, LoadFails(i) \/ ExecuteItem(i) \/ ResumeOrchestrator(i)
    PROVE  Unmeasured
<1> USE DEF histVars, redisVars, Unmeasured, ItemGoto, TypeOK, ItemType
<1>1. CASE LoadFails(i) BY <1>1 DEF LoadFails
<1>2. CASE ExecuteItem(i) BY <1>2 DEF ExecuteItem
<1>3. CASE ResumeOrchestrator(i) BY <1>3 DEF ResumeOrchestrator
<1> QED BY <1>1, <1>2, <1>3

LEMMA AgreeingDispatchComplete ==
    ASSUME Agreeing, NEW c \in Callers, NEW r \in Runs, DispatchComplete(c, r)
    PROVE  Agreeing'
<1>1. CASE doc[c][r].fresh \/ ~doc[c][r].batch
  <2>1. Unmeasured BY <1>1 DEF DispatchComplete, CleanupBatchResources, itemVars, Unmeasured
  <2> QED BY <2>1, AgreeingUnmeasured
<1>2. CASE ~(doc[c][r].fresh \/ ~doc[c][r].batch)
  <2>1. cleaned' = TRUE /\ lostOutcomes' = lostOutcomes
    BY <1>2 DEF DispatchComplete, CleanupBatchResources
  <2> QED BY <2>1 DEF Agreeing, Trusted, VerdictMatchesCounters
<1> QED BY <1>1, <1>2

LEMMA AgreeingRecordOutcome ==
    ASSUME TypeOK, Agreeing, NEW i \in Items, RecordOutcome(i)
    PROVE  Agreeing'
<1>1. /\ rate' = rate /\ wins' = wins /\ cleaned' = cleaned /\ verdict' = verdict
      /\ \A j \in Items : j # i => ipc'[j] = ipc[j]
  BY DEF RecordOutcome, ItemGoto, TypeOK, ItemType
<1>2. window \in Windows /\ processed \in Nat /\ failed \in 0..processed /\ failure[i] \in BOOLEAN
  BY DEF TypeOK, RedisType, ItemType, Windows
<1>3. CASE /\ window' = PushOutcome(window, IF failure[i] THEN 1 ELSE 0)
           /\ processed' = processed + 1 /\ lostOutcomes' = lostOutcomes
           /\ failed' = IF failure[i] THEN failed + 1 ELSE failed
  <2>1. PICK bit \in {0, 1} : bit = IF failure[i] THEN 1 ELSE 0 OBVIOUS
  <2>2. window' = PushOutcome(window, bit) /\ failed' = failed + bit BY <1>2, <1>3, <2>1
  <2>3. window' # <<>> /\ (Uniform(window, bit) => Uniform(window', bit)) BY <1>2, <2>2, PushedEntries
  <2>4. Trusted' = Trusted /\ lostOutcomes' \in Nat BY <1>1, <1>3 DEF Trusted, Agreeing
  <2>5. processed' > 0 BY <1>2, <1>3
  <2>6. failed' = 0 => failed = 0 /\ bit = 0 BY <1>2, <2>2
  <2>7. failed' = processed' => failed = processed /\ bit = 1 BY <1>2, <1>3, <2>2
  <2>8. ASSUME Trusted PROVE Measured'
    <3>1. Measured BY <2>8 DEF Agreeing
    <3>2. failed' = 0 => Uniform(window', 0) /\ \A k \in MBs : rate'[k] \in {Missing, 0}
      BY <1>1, <2>3, <2>6, <3>1 DEF Measured
    <3>3. failed' = processed' => Uniform(window', 1) BY <2>3, <2>7, <3>1 DEF Measured
    <3> QED BY <2>3, <2>5, <3>2, <3>3 DEF Measured, Uniform
  <2>9. VerdictMatchesCounters'
    <3> SUFFICES ASSUME verdict' # "none", Trusted
                 PROVE  /\ failed' = 0 => verdict' = "healthy"
                        /\ processed' > 0 /\ failed' = processed' => verdict' = "severe"
      BY <2>4 DEF VerdictMatchesCounters, Trusted
    <3>1. processed > 0 BY <1>1 DEF Agreeing, Measured
    <3>2. /\ failed = 0 => verdict = "healthy"
          /\ processed > 0 /\ failed = processed => verdict = "severe"
      BY <1>1 DEF Agreeing, VerdictMatchesCounters, Trusted
    <3> QED BY <1>1, <2>6, <2>7, <3>1, <3>2
  <2> QED BY <2>4, <2>8, <2>9 DEF Agreeing
<1>4. CASE lostOutcomes' = lostOutcomes + 1
  BY <1>4 DEF Agreeing, Trusted, VerdictMatchesCounters
<1> QED BY <1>3, <1>4 DEF RecordOutcome

LEMMA AgreeingDecrement ==
    ASSUME TypeOK, Agreeing, NEW i \in Items, Decrement(i)
    PROVE  Agreeing'
<1>1. /\ window' = window /\ processed' = processed /\ failed' = failed /\ rate' = rate
      /\ lostOutcomes' = lostOutcomes /\ cleaned' = cleaned /\ verdict' = verdict
  BY DEF Decrement
<1>2. ipc[i] = "signal" /\ \A j \in Items : ipc'[j] = "signal" => ipc[j] = "signal"
  BY DEF Decrement, ItemGoto, TypeOK, ItemType
<1>3. Trusted' = Trusted BY <1>1 DEF Trusted
<1>4. ASSUME Trusted PROVE Measured'
  <2>1. Measured BY <1>4 DEF Agreeing
  <2>2. processed > 0 BY <1>2, <2>1 DEF Measured
  <2> QED BY <1>1, <2>1, <2>2 DEF Measured, Uniform
<1>5. VerdictMatchesCounters' BY <1>1 DEF Agreeing, VerdictMatchesCounters
<1> QED BY <1>1, <1>3, <1>4, <1>5 DEF Agreeing

LEMMA AgreeingSnapshot ==
    ASSUME TypeOK, Agreeing, NEW i \in Items, SnapshotMicroBatchRate(i)
    PROVE  Agreeing'
<1>1. /\ window' = window /\ processed' = processed /\ failed' = failed /\ wins' = wins
      /\ lostOutcomes' = lostOutcomes /\ cleaned' = cleaned /\ verdict' = verdict
  BY DEF SnapshotMicroBatchRate, histVars
<1>2. \A j \in Items : ipc'[j] = "signal" => ipc[j] = "signal"
  BY DEF SnapshotMicroBatchRate, ItemGoto, TypeOK, ItemType
<1>3. window \in Windows BY DEF TypeOK, RedisType, Windows
<1>4. \A k \in MBs : rate'[k] = rate[k] \/ rate'[k] = ComputeFailureRate(window)
  BY DEF SnapshotMicroBatchRate, TypeOK, RedisType
<1>5. Trusted' = Trusted BY <1>1 DEF Trusted
<1>6. ASSUME Trusted PROVE Measured'
  <2>1. Measured BY <1>6 DEF Agreeing
  <2>2. failed = 0 => \A k \in MBs : rate'[k] \in {Missing, 0}
    BY <1>3, <1>4, <2>1, UniformRate DEF Measured
  <2> QED BY <1>1, <1>2, <2>1, <2>2 DEF Measured, Uniform
<1>7. VerdictMatchesCounters' BY <1>1 DEF Agreeing, VerdictMatchesCounters
<1> QED BY <1>1, <1>5, <1>6, <1>7 DEF Agreeing

LEMMA AgreeingEvaluate ==
    ASSUME IInv, Agreeing, NEW c \in Callers, NEW r \in Runs, EvaluateBulkMicroBatch(c, r)
    PROVE  Agreeing'
<1>0. TypeOK /\ RolesOf(c) BY DEF IInv, Base, Dispatching, Roles
<1>1. PICK k \in MBs \cup {NoMB} : k = doc[c][r].mb BY <1>0 DEF TypeOK, RunType, Documents
<1>2. /\ window' = window /\ processed' = processed /\ failed' = failed /\ rate' = rate
      /\ wins' = wins /\ lostOutcomes' = lostOutcomes /\ cleaned' = cleaned /\ ipc' = ipc
      /\ pc[c][r] = "Evaluate" /\ verdict' = IF k = NoMB THEN verdict ELSE Evaluate(k)
  BY <1>1 DEF EvaluateBulkMicroBatch, Goto, redisVars, itemVars
<1>3. CASE k = NoMB
  <2>1. Unmeasured BY <1>2, <1>3 DEF Unmeasured
  <2> QED BY <2>1, AgreeingUnmeasured
<1>4. CASE k \in MBs /\ k # NoMB
  <2>1. Trusted' = Trusted BY <1>2 DEF Trusted
  <2>2. r \in Runs \ {0} /\ r - 1 \in MBs
    <3>1. r # 0 BY <1>0, <1>2 DEF RolesOf
    <3>2. (NumInputs - 1) \div MicroBatchSize \in Int BY BulkAssumption
    <3> QED BY <3>1, <3>2 DEF Runs, MBs
  <2>3. wins[r - 1] = 1 BY <1>0, <1>2, <2>2 DEF RolesOf, Resumed
  <2>4. window \in Windows BY <1>0 DEF TypeOK, RedisType, Windows
  <2>5. ASSUME Trusted
        PROVE  /\ Measured' 
               /\ failed' = 0 => verdict' = "healthy"
               /\ failed' = processed' => verdict' = "severe"
    <3>1. Measured BY <2>5 DEF Agreeing
    <3>2. processed > 0 /\ window # <<>> BY <2>2, <2>3, <3>1 DEF Measured
    <3>3. Measured' BY <1>2, <3>1, <3>2 DEF Measured, Uniform
    <3>4. ASSUME failed = 0 PROVE Evaluate(k) = "healthy"
      <4>1. ~RollingAtLeastSoft(k) BY <1>0, <1>4, <3>1, <3>4, NotSoft DEF Measured
      <4>2. ComputeFailureRate(window) = 0 BY <2>4, <3>1, <3>4, UniformRate DEF Measured
      <4> QED BY <4>1, <4>2, BulkAssumption DEF Evaluate
    <3>5. ASSUME failed = processed PROVE Evaluate(k) = "severe"
      <4>1. ComputeFailureRate(window) = Whole BY <2>4, <3>1, <3>2, <3>5, UniformRate DEF Measured
      <4> QED BY <4>1, BulkAssumption DEF Evaluate
    <3> QED BY <1>2, <1>4, <3>3, <3>4, <3>5
  <2>6. VerdictMatchesCounters' BY <2>1, <2>5 DEF VerdictMatchesCounters, Trusted
  <2> QED BY <1>2, <2>1, <2>5, <2>6 DEF Agreeing
<1> QED BY <1>3, <1>4 DEF MBs, NoMB

LEMMA NextAgreeing == IInv /\ Agreeing /\ [Next]_vars => Agreeing'
<1> SUFFICES ASSUME IInv, Agreeing, [Next]_vars PROVE Agreeing' OBVIOUS
<1>1. TypeOK BY DEF IInv, Base
<1>2. CASE Next
  <2>1. ASSUME NEW c \in Callers, NEW r \in Runs, QuietStep(c, r) PROVE Agreeing'
    BY <2>1, AgreeingDispatchComplete, AgreeingEvaluate, RunUnmeasured, AgreeingUnmeasured DEF QuietStep
  <2>2. ASSUME NEW i \in Items, OrdinaryItemStep(i) \/ Decrement(i) \/ ResumeOrchestrator(i)
        PROVE  Agreeing'
    BY <1>1, <2>2, AgreeingRecordOutcome, AgreeingSnapshot, AgreeingDecrement, ItemUnmeasured,
       AgreeingUnmeasured DEF OrdinaryItemStep
  <2> QED BY <1>2, <2>1, <2>2, NextSplit, CallsUnmeasured, RunUnmeasured, QueueUnmeasured, AgreeingUnmeasured
<1>3. CASE UNCHANGED vars
  <2>1. Unmeasured BY <1>3 DEF vars, redisVars, itemVars, histVars, Unmeasured
  <2> QED BY <2>1, AgreeingUnmeasured
<1> QED BY <1>2, <1>3

(* Whatever is redelivered, crashes or is called again: as long as no outcome was lost and
   the counters were not deleted, a verdict of the evaluator agrees with the counters at both
   ends: no failure counted, healthy; nothing but failures, severe.            *)
THEOREM VerdictMatchesCountersHolds == Spec => []VerdictMatchesCounters
<1>1. Init => Agreeing
  <2> SUFFICES ASSUME Init PROVE Agreeing OBVIOUS
  <2>1. /\ window = <<>> /\ processed = 0 /\ failed = 0 /\ verdict = "none" /\ lostOutcomes = 0
        /\ \A k \in MBs : rate[k] = Missing /\ wins[k] = 0
        /\ \A i \in Items : ipc[i] = "idle"
    BY DEF Init
  <2>2. Uniform(window, 0) /\ Uniform(window, 1) BY <2>1 DEF Uniform
  <2> QED BY <2>1, <2>2 DEF Agreeing, Measured, VerdictMatchesCounters
<1>2. Spec => [](IInv /\ Agreeing) BY <1>1, Invariance, NextAgreeing, PTL DEF Spec
<1>3. Agreeing => VerdictMatchesCounters BY DEF Agreeing
<1> QED BY <1>2, <1>3, PTL

=============================================================================
