--------------------------- MODULE RepositoryProofs ---------------------------
(***************************************************************************)
(* Proofs, for every number of executions, processes and calls, of the     *)
(* safety properties of Repository.                                        *)
(***************************************************************************)
EXTENDS Repository, FiniteSetTheorems, WellFoundedInduction, TLAPS

-----------------------------------------------------------------------------
(* The inductive invariant                                                  *)

(* Times and sequence numbers in tables and memory lie before the clock.    *)
Clocked ==
    /\ clock \in Nat \ {0}
    /\ \A x \in executions \cup lastSave : x.start < clock /\ x.seq < clock
    /\ \A h \in state_history : h.at < clock
    /\ \A e \in Ids : /\ run[e].start < clock /\ run[e].seq < clock
                      /\ run[e].at # "none" => run[e].start >= 1

(* Sources and definitions are what their names say.                        *)
Sources ==
    /\ source \in [Ids -> Ids \cup {NoId}]
    /\ \A e \in Ids : run[e].at = "link" => source[e] # NoId

(* No entry and no fetch under way is older than the process's own save.    *)
Definitions ==
    /\ machine \in Nat
    /\ saver \in [Procs -> 0..machine] /\ own \in [Procs -> 0..machine]
    /\ \A p \in Procs \ raced : /\ cache[p] # 0 => cache[p] >= own[p]
                                /\ reader[p] # 0 => reader[p] >= own[p]

(* What a goroutine that runs e holds.                                      *)
Holds(e, c) ==
    /\ c.start < clock /\ c.seq < clock
    /\ c.at # "none" => c.start >= 1
    /\ c.at = "link" => source[e] # NoId

(* Records that messages hold lie before the clock too, and an execution    *)
(* that several goroutines run is disturbed.                                *)
Concurrent ==
    /\ others \in [Ids -> Seq(Contexts)]
    /\ messages \subseteq ExecutionRows
    /\ \A x \in messages : x.start < clock /\ x.seq < clock
    /\ \A e \in Ids : others[e] # <<>> => e \in disturbed
    /\ \A e \in Ids : \A i \in 1..Len(others[e]) : Holds(e, others[e][i])

(* What holds of an execution that ran once under its id, one goroutine at  *)
(* a time, and was neither removed nor cut off.  Before its first save      *)
(* there is no trace of it.                                                 *)
Fresh(e) ==
    (\A x \in lastSave : x.id # e) =>
        /\ run[e].at = "none"
        /\ \A x \in executions : x.id # e
        /\ \A c \in message_correlations : c.id # e
        /\ \A h \in state_history : h.id # e

(* It has one row; while it runs this is the row of its run, not finished.  *)
OneRow(e) ==
    /\ \A x, y \in executions : x.id = e /\ y.id = e => x = y
    /\ run[e].at # "none" =>
          \A x \in executions : x.id = e => x.start = run[e].start /\ x.status # "SUCCEEDED"

(* Its correlation waits only while it is, or will be, paused.              *)
Waits(e) ==
    \A c \in message_correlations : c.id = e /\ c.status = "WAITING" =>
        /\ run[e].at \in {"wait", "none"}
        /\ \A x \in executions : x.id = e => x.status # "SUCCEEDED"

(* It is linked to its source before it runs.                               *)
Linked(e) ==
    source[e] # NoId /\ source[e] \notin disturbed =>
        /\ \E x \in executions : x.id = source[e]
        /\ run[e].at # "link" => [source |-> source[e], target |-> e] \in linked_executions

(* Its history is numbered in the order of time, up to the number at which  *)
(* it continues.                                                            *)
Ordered(e) ==
    /\ \A h, k \in state_history : h.id = e /\ k.id = e /\ h.seq <= k.seq => h.at <= k.at
    /\ \A h \in state_history : h.id = e =>
          /\ run[e].at # "none" => h.seq <= run[e].seq
          /\ run[e].at = "none" => \A x \in executions : x.id = e => h.seq <= x.seq

Undisturbed(e) ==
    Fresh(e) /\ OneRow(e) /\ Waits(e) /\ Linked(e) /\ (Gorm => Ordered(e))

IInv ==
    /\ TypeOK /\ Clocked /\ Sources /\ Definitions /\ Concurrent /\ LastSaveSurvives
    /\ \A e \in Ids \ disturbed : Undisturbed(e)

-----------------------------------------------------------------------------
(* Rows                                                                     *)

(* A bounded set of numbers has a greatest element.                         *)
LEMMA Greatest ==
    ASSUME NEW S \in SUBSET Nat, S # {}, NEW n \in Nat, \A s \in S : s <= n
    PROVE  \E x \in S : \A y \in S : y <= x
<1> DEFINE R == OpToRel(<, Nat)
           T == {n - s : s \in S}
<1>1. T \subseteq Nat OBVIOUS
<1>2. PICK s0 \in S : TRUE OBVIOUS
<1>3. n - s0 \in T OBVIOUS
<1>4. \A a, b \in Nat : a < b => <<a, b>> \in R BY DEF OpToRel
<1>5. IsWellFoundedOn(R, Nat) BY NatLessThanWellFounded
<1> HIDE DEF R
<1>6. PICK t \in T : \A u \in T : ~(<<u, t>> \in R) BY <1>1, <1>3, <1>5, WFMin
<1>7. PICK x \in S : t = n - x BY <1>6
<1>8. \A y \in S : ~(n - y < n - x)
  <2>1. \A y \in S : n - y \in T /\ n - y \in Nat OBVIOUS
  <2>2. t \in Nat BY <1>1
  <2> QED BY <1>4, <1>6, <1>7, <2>1, <2>2
<1> QED BY <1>7, <1>8

(* The row that started last, of a set of rows that is not empty.           *)
LEMMA LatestRow ==
    ASSUME NEW X \in SUBSET ExecutionRows, X # {}
    PROVE  \E x \in X : \A y \in X : y.start <= x.start
<1> DEFINE S == {x.start : x \in X}
<1>1. S \subseteq Nat /\ S # {} BY DEF ExecutionRows
<1>2. \A s \in S : s <= MaxCalls BY RepositoryAssumption DEF ExecutionRows
<1>3. MaxCalls \in Nat BY RepositoryAssumption
<1> HIDE DEF S
<1>4. PICK s \in S : \A t \in S : t <= s BY <1>1, <1>2, <1>3, Greatest
<1> QED BY <1>4 DEF S

(* A row is determined by its columns.                                      *)
LEMMA RowColumns ==
    ASSUME NEW x \in ExecutionRows, NEW y \in ExecutionRows,
           x.id = y.id, x.start = y.start, x.status = y.status, x.seq = y.seq
    PROVE  x = y
BY DEF ExecutionRows

Revised(x, r) == [x EXCEPT !.status = r.status, !.seq = r.seq]

LEMMA RevisedRow ==
    ASSUME NEW x \in ExecutionRows, NEW r \in ExecutionRows
    PROVE  /\ Revised(x, r) \in ExecutionRows
           /\ Revised(x, r).id = x.id /\ Revised(x, r).start = x.start
           /\ Revised(x, r).status = r.status /\ Revised(x, r).seq = r.seq
BY DEF Revised, ExecutionRows

-----------------------------------------------------------------------------
(* SaveExecution: what both strategies do to the table.                     *)

LEMMA GormSaved ==
    ASSUME Gorm, NEW r \in ExecutionRows, executions \subseteq ExecutionRows, SaveExecution(r)
    PROVE  /\ executions' \subseteq ExecutionRows
           /\ \A x \in executions : x.id # r.id => x \in executions'
           /\ \A y \in executions' : y.id # r.id => y \in executions
           /\ \A y \in executions' : y.id = r.id =>
                 /\ y.status = r.status /\ y.seq = r.seq
                 /\ y = r \/ \E x \in executions : x.id = r.id /\ x.start = y.start
           /\ \E y \in executions' : y.id = r.id
           /\ \A y, z \in executions' : y.id = r.id /\ z.id = r.id =>
                 y = z \/ \E u, v \in executions : u.id = r.id /\ v.id = r.id /\ u # v
<1>1. CASE \E x \in executions : GormKey(x, r)
  <2>1. executions' = {IF x.id = r.id THEN Revised(x, r) ELSE x : x \in executions}
    BY <1>1 DEF SaveExecution, GormSaveExecution, GormKey, Revised
  <2>2. ASSUME NEW y \in executions'
        PROVE  \/ y \in executions /\ y.id # r.id
               \/ \E x \in executions : x.id = r.id /\ y = Revised(x, r)
    BY <2>1, <2>2
  <2>3. \A x \in executions : x.id # r.id => x \in executions' BY <2>1
  <2>4. PICK x \in executions : x.id = r.id BY <1>1 DEF GormKey
  <2>5. Revised(x, r) \in executions' BY <2>1, <2>4
  <2>6. ASSUME NEW y \in executions'
        PROVE  /\ y \in ExecutionRows
               /\ y.id # r.id => y \in executions
               /\ y.id = r.id =>
                    \E z \in executions : /\ z.id = r.id /\ y = Revised(z, r)
                                          /\ z.start = y.start
                                          /\ y.status = r.status /\ y.seq = r.seq
    BY <2>2, <2>6, RevisedRow
  <2>7. Revised(x, r).id = r.id BY <2>4, RevisedRow
  <2>8. ASSUME NEW y \in executions', NEW z \in executions', y.id = r.id, z.id = r.id
        PROVE  y = z \/ \E u, v \in executions : u.id = r.id /\ v.id = r.id /\ u # v
    BY <2>6, <2>8
  <2> QED BY <2>3, <2>5, <2>6, <2>7, <2>8
<1>2. CASE ~\E x \in executions : GormKey(x, r)
  <2>1. executions' = executions \cup {r}
    BY <1>2 DEF SaveExecution, GormSaveExecution
  <2> QED BY <1>2, <2>1 DEF GormKey
<1> QED BY <1>1, <1>2

LEMMA PgSaved ==
    ASSUME ~Gorm, NEW r \in ExecutionRows, executions \subseteq ExecutionRows, SaveExecution(r)
    PROVE  /\ executions' \subseteq ExecutionRows
           /\ r \in executions'
           /\ \A x \in executions : ~PgKey(x, r) => x \in executions'
           /\ \A y \in executions' : y = r \/ (y \in executions /\ ~PgKey(y, r))
BY DEF SaveExecution, PgSaveExecution

(* The last saves of other keys stay, the new one is added.                 *)
LEMMA SavedLast ==
    ASSUME NEW r \in ExecutionRows, lastSave \subseteq ExecutionRows, SaveExecution(r)
    PROVE  /\ lastSave' \subseteq ExecutionRows
           /\ r \in lastSave'
           /\ \A y \in lastSave' : y = r \/ (y \in lastSave /\ ~SameKey(y, r))
           /\ \A x \in lastSave : \E y \in lastSave' : y.id = x.id
<1>1. lastSave' = {x \in lastSave : ~SameKey(x, r)} \cup {r} BY DEF SaveExecution
<1>2. \A x \in lastSave : SameKey(x, r) => x.id = r.id BY DEF SameKey, GormKey, PgKey
<1> QED BY <1>1, <1>2

(* SaveExecution under either strategy.                                     *)
LEMMA Saved ==
    ASSUME TypeOK, NEW r \in ExecutionRows, SaveExecution(r), strategy' = strategy
    PROVE  /\ executions' \subseteq ExecutionRows
           /\ \A x, y \in executions' : SameKey(x, y)' => x = y
           /\ \A x \in executions : x.id # r.id => x \in executions'
           /\ \A y \in executions' : y.id # r.id => y \in executions
           /\ \E y \in executions' : y.id = r.id
           /\ (\A x \in executions : x.id = r.id => x.start = r.start) =>
                 \A y \in executions' : y.id = r.id => y = r
           /\ \A y \in executions' : /\ \E x \in executions \cup {r} : x.start = y.start
                                     /\ \E x \in executions \cup {r} : x.seq = y.seq
<1>1. executions \subseteq ExecutionRows /\ \A x, y \in executions : SameKey(x, y) => x = y
  BY DEF TypeOK
<1>2. CASE Gorm
  <2>1. \A x, y : SameKey(x, y) <=> x.id = y.id BY <1>2 DEF SameKey, GormKey
  <2>2. \A x, y : SameKey(x, y)' <=> x.id = y.id
    BY <1>2 DEF SameKey, GormKey, Gorm
  <2>3. /\ executions' \subseteq ExecutionRows
        /\ \A x \in executions : x.id # r.id => x \in executions'
        /\ \A y \in executions' : y.id # r.id => y \in executions
        /\ \A y \in executions' : y.id = r.id =>
              /\ y.status = r.status /\ y.seq = r.seq
              /\ y = r \/ \E x \in executions : x.id = r.id /\ x.start = y.start
        /\ \E y \in executions' : y.id = r.id
        /\ \A y, z \in executions' : y.id = r.id /\ z.id = r.id =>
              y = z \/ \E u, v \in executions : u.id = r.id /\ v.id = r.id /\ u # v
    BY <1>1, <1>2, GormSaved
  <2>4. \A x, y \in executions' : x.id = y.id => x = y BY <1>1, <2>1, <2>3
  <2>5. ASSUME \A x \in executions : x.id = r.id => x.start = r.start,
               NEW y \in executions', y.id = r.id
        PROVE  y = r
    <3>1. y \in ExecutionRows /\ y.start = r.start /\ y.status = r.status /\ y.seq = r.seq
      BY <2>3, <2>5
    <3> QED BY <2>5, <3>1, RowColumns
  <2>6. \A y \in executions' : /\ \E x \in executions \cup {r} : x.start = y.start
                               /\ \E x \in executions \cup {r} : x.seq = y.seq
    BY <2>3
  <2> QED BY <2>2, <2>3, <2>4, <2>5, <2>6
<1>3. CASE ~Gorm
  <2>1. \A x, y : SameKey(x, y) <=> PgKey(x, y) BY <1>3 DEF SameKey
  <2>2. \A x, y : SameKey(x, y)' <=> PgKey(x, y)
    BY <1>3 DEF SameKey, Gorm, PgKey
  <2>3. /\ executions' \subseteq ExecutionRows
        /\ r \in executions'
        /\ \A x \in executions : ~PgKey(x, r) => x \in executions'
        /\ \A y \in executions' : y = r \/ (y \in executions /\ ~PgKey(y, r))
    BY <1>1, <1>3, PgSaved
  <2>4. \A x, y \in executions' : PgKey(x, y) => x = y
    BY <1>1, <2>1, <2>3 DEF PgKey
  <2> QED BY <2>2, <2>3, <2>4 DEF PgKey
<1> QED BY <1>2, <1>3

(* What was saved last survives a SaveExecution.                            *)
LEMMA SaveSurvives ==
    ASSUME TypeOK, LastSaveSurvives, NEW r \in ExecutionRows, SaveExecution(r),
           strategy' = strategy, executions_archive' = executions_archive
    PROVE  LastSaveSurvives'
<1>1. executions \subseteq ExecutionRows /\ lastSave \subseteq ExecutionRows BY DEF TypeOK
<1>2. \A y \in lastSave' : y = r \/ (y \in lastSave /\ ~SameKey(y, r)) BY <1>1, SavedLast
<1> SUFFICES ASSUME NEW z \in lastSave'
             PROVE  IF \E x \in executions' : SameKey(x, z)'
                    THEN \E x \in executions' : SameKey(x, z)' /\ x.status = z.status /\ x.seq = z.seq
                    ELSE z \in executions_archive'
  BY DEF LastSaveSurvives
<1>3. CASE Gorm
  <2>1. \A x, y : SameKey(x, y) <=> x.id = y.id BY <1>3 DEF SameKey, GormKey
  <2>2. \A x, y : SameKey(x, y)' <=> x.id = y.id BY <1>3 DEF SameKey, GormKey, Gorm
  <2>3. /\ \A x \in executions : x.id # r.id => x \in executions'
        /\ \A y \in executions' : y.id # r.id => y \in executions
        /\ \A y \in executions' : y.id = r.id => y.status = r.status /\ y.seq = r.seq
        /\ \E y \in executions' : y.id = r.id
    BY <1>1, <1>3, GormSaved
  <2>4. CASE z = r BY <2>2, <2>3, <2>4
  <2>5. CASE z \in lastSave /\ z.id # r.id
    BY <2>1, <2>2, <2>3, <2>5 DEF LastSaveSurvives
  <2> QED BY <1>2, <2>1, <2>4, <2>5
<1>4. CASE ~Gorm
  <2>1. \A x, y : SameKey(x, y) <=> PgKey(x, y) BY <1>4 DEF SameKey
  <2>2. \A x, y : SameKey(x, y)' <=> PgKey(x, y) BY <1>4 DEF SameKey, Gorm, PgKey
  <2>3. /\ r \in executions'
        /\ \A x \in executions : ~PgKey(x, r) => x \in executions'
        /\ \A y \in executions' : y = r \/ (y \in executions /\ ~PgKey(y, r))
    BY <1>1, <1>4, PgSaved
  <2>4. CASE z = r BY <2>2, <2>3, <2>4 DEF PgKey
  <2>5. CASE z \in lastSave /\ ~PgKey(z, r)
    <3>1. \A x : PgKey(x, z) => ~PgKey(x, r) BY <2>5 DEF PgKey
    <3>2. \A x : PgKey(x, z) => (x \in executions <=> x \in executions')
      BY <2>3, <2>5, <3>1 DEF PgKey
    <3> QED BY <2>1, <2>2, <2>5, <3>2 DEF LastSaveSurvives
  <2> QED BY <1>2, <2>1, <2>4, <2>5
<1> QED BY <1>3, <1>4

-----------------------------------------------------------------------------
(* GetExecution                                                             *)

LEMMA Got ==
    ASSUME NEW e, executions \subseteq ExecutionRows, RowsOf(e) # {}
    PROVE  /\ GetExecution(e) \in ExecutionRows
           /\ \E y \in RowsOf(e) :
                 /\ GetExecution(e).id = y.id /\ GetExecution(e).start = y.start
                 /\ GetExecution(e).status = y.status
                 /\ GetExecution(e).seq \in {0, y.seq}
                 /\ Gorm => GetExecution(e) = y
                 /\ ~Gorm => \A z \in RowsOf(e) : z.start <= y.start
<1>1. RowsOf(e) \subseteq ExecutionRows BY DEF RowsOf
<1>2. CASE Gorm
  <2>1. GetExecution(e) = CHOOSE x \in RowsOf(e) : TRUE BY <1>2 DEF GetExecution, GormGetExecution
  <2>2. GetExecution(e) \in RowsOf(e) BY <2>1
  <2> QED BY <1>1, <1>2, <2>2
<1>3. CASE ~Gorm
  <2> DEFINE y == CHOOSE x \in RowsOf(e) : \A z \in RowsOf(e) : z.start <= x.start
  <2>1. y \in RowsOf(e) /\ \A z \in RowsOf(e) : z.start <= y.start BY <1>1, LatestRow
  <2>2. GetExecution(e) = [y EXCEPT !.seq = 0] BY <1>3 DEF GetExecution, PgGetExecution
  <2> HIDE DEF y
  <2>3. y \in ExecutionRows BY <1>1, <2>1
  <2>4. /\ GetExecution(e) \in ExecutionRows
        /\ GetExecution(e).id = y.id /\ GetExecution(e).start = y.start
        /\ GetExecution(e).status = y.status /\ GetExecution(e).seq = 0
    BY <2>2, <2>3, RepositoryAssumption DEF ExecutionRows
  <2> QED BY <1>3, <2>1, <2>4
<1> QED BY <1>2, <1>3

-----------------------------------------------------------------------------
(* Frames                                                                   *)

(* The invariant apart from the definitions of state machines and from the  *)
(* goroutines that are not scheduled.                                       *)
Tables ==
    /\ executions \cup executions_archive \cup lastSave \subseteq ExecutionRows
    /\ state_history \subseteq HistoryRows
    /\ message_correlations \subseteq CorrelationRows
    /\ linked_executions \subseteq LinkRows
    /\ run \in [Ids -> Contexts]
    /\ \A x, y \in executions : SameKey(x, y) => x = y
    /\ \A x, y \in executions_archive : PgKey(x, y) => x = y

Store ==
    /\ Tables /\ Clocked /\ Sources /\ LastSaveSurvives
    /\ \A e \in Ids \ disturbed : Undisturbed(e)

Cached ==
    /\ cache \in [Procs -> 0..machine] /\ reader \in [Procs -> 0..machine]
    /\ Definitions

LEMMA Parts == IInv <=> Store /\ Cached /\ Concurrent
BY DEF IInv, Store, Cached, TypeOK, Tables, Concurrent

LEMMA CachedUnchanged ==
    ASSUME Cached, UNCHANGED machines
    PROVE  Cached'
BY DEF Cached, Definitions, machines

LEMMA ConcurrentKept ==
    ASSUME IInv, clock' \in {clock, clock + 1}, others' = others, messages' = messages,
           disturbed \subseteq disturbed',
           \A e \in Ids : others[e] # <<>> => source'[e] = source[e]
    PROVE  Concurrent'
<1>1. Concurrent /\ clock \in Nat /\ MaxCalls \in Nat
  BY RepositoryAssumption DEF IInv, Clocked
<1>2. \A x \in messages : x.start < clock' /\ x.seq < clock'
  <2>1. \A x \in messages : /\ x.start \in Int /\ x.seq \in Int
                            /\ x.start < clock /\ x.seq < clock
    BY <1>1 DEF Concurrent, ExecutionRows
  <2> QED BY <1>1, <2>1
<1>3. ASSUME NEW e \in Ids, NEW i \in 1..Len(others[e]) PROVE Holds(e, others[e][i])'
  <2>1. others[e] \in Seq(Contexts) BY <1>1 DEF Concurrent
  <2>2. others[e] # <<>> /\ others[e][i] \in Contexts BY <1>3, <2>1
  <2>3. PICK c \in Contexts : c = others[e][i] BY <2>2
  <2>4. Holds(e, c) BY <1>1, <1>3, <2>3 DEF Concurrent
  <2>5. source'[e] = source[e] BY <2>2
  <2>6. c.start \in Int /\ c.seq \in Int BY <1>1 DEF Contexts
  <2>7. c.start < clock' /\ c.seq < clock' BY <1>1, <2>4, <2>6 DEF Holds
  <2> QED BY <2>3, <2>4, <2>5, <2>7 DEF Holds
<1> QED BY <1>1, <1>2, <1>3 DEF Concurrent

LEMMA StoreUnchanged ==
    ASSUME Store, clock' \in {clock, clock + 1},
           UNCHANGED <<strategy, tables, run, lastSave, disturbed, source>>
    PROVE  Store'
<1>1. Tables' BY DEF Store, Tables, SameKey, GormKey, PgKey, Gorm, tables
<1>2. Clocked' BY DEF Store, Clocked, Tables, tables, ExecutionRows, HistoryRows, Contexts
<1>3. Sources' BY DEF Store, Sources
<1>4. LastSaveSurvives'
  BY DEF Store, LastSaveSurvives, SameKey, GormKey, PgKey, Gorm, tables
<1>5. \A e \in Ids \ disturbed' : Undisturbed(e)'
  BY DEF Store, Undisturbed, Fresh, OneRow, Waits, Linked, Ordered, Gorm, tables
<1> QED BY <1>1, <1>2, <1>3, <1>4, <1>5 DEF Store

(* An execution f that a step does not concern.                             *)
LEMMA Bystander ==
    ASSUME NEW f \in Ids, Undisturbed(f), f \notin disturbed', disturbed \subseteq disturbed',
           strategy' = strategy, run'[f] = run[f], source'[f] = source[f], Sources,
           \A x \in executions : x.id = f => x \in executions',
           \A y \in executions' : y.id = f => y \in executions,
           \A g \in Ids \ disturbed' :
               (\E x \in executions : x.id = g) => \E y \in executions' : y.id = g,
           \A c \in message_correlations' : c.id = f => c \in message_correlations,
           \A h \in state_history' : h.id = f => h \in state_history,
           linked_executions \subseteq linked_executions',
           \A x \in lastSave : x.id = f => \E y \in lastSave' : y.id = f
    PROVE  Undisturbed(f)'
<1>1. Fresh(f)' BY DEF Undisturbed, Fresh
<1>2. OneRow(f)' BY DEF Undisturbed, OneRow
<1>3. Waits(f)' BY DEF Undisturbed, Waits
<1>4. Linked(f)' BY DEF Undisturbed, Linked, Sources
<1>5. (Gorm => Ordered(f))' BY DEF Undisturbed, Ordered, Gorm
<1> QED BY <1>1, <1>2, <1>3, <1>4, <1>5 DEF Undisturbed

(* The part of the invariant a SaveExecution of r touches.                  *)
LEMMA SaveKeeps ==
    ASSUME IInv, NEW r \in ExecutionRows, SaveExecution(r), Tick, r.start <= clock, r.seq <= clock,
           strategy' = strategy, executions_archive' = executions_archive
    PROVE  /\ (executions \cup executions_archive \cup lastSave)' \subseteq ExecutionRows
           /\ \A x, y \in executions' : SameKey(x, y)' => x = y
           /\ \A x, y \in executions_archive' : PgKey(x, y) => x = y
           /\ \A x \in (executions \cup lastSave)' : x.start < clock' /\ x.seq < clock'
           /\ LastSaveSurvives'
<1>1. /\ TypeOK /\ Clocked /\ LastSaveSurvives BY DEF IInv
<1>2. executions_archive \cup lastSave \subseteq ExecutionRows BY DEF IInv, TypeOK
<1>3. /\ lastSave' \subseteq ExecutionRows
      /\ \A y \in lastSave' : y = r \/ y \in lastSave
  BY <1>2, SavedLast
<1>4. /\ executions' \subseteq ExecutionRows
      /\ \A x, y \in executions' : SameKey(x, y)' => x = y
      /\ \A y \in executions' : /\ \E x \in executions \cup {r} : x.start = y.start
                                /\ \E x \in executions \cup {r} : x.seq = y.seq
  BY <1>1, Saved
<1>5. \A x \in executions \cup lastSave \cup {r} : x.start < clock' /\ x.seq < clock'
  <2>1. \A x \in executions \cup lastSave : x \in ExecutionRows /\ x.start < clock /\ x.seq < clock
    BY <1>1 DEF TypeOK, Clocked
  <2>2. clock \in Nat /\ clock' = clock + 1 BY <1>1 DEF Clocked, Tick
  <2> QED BY <2>1, <2>2, RepositoryAssumption DEF ExecutionRows
<1>6. LastSaveSurvives' BY <1>1, SaveSurvives
<1>7. \A x, y \in executions_archive' : PgKey(x, y) => x = y BY <1>1 DEF TypeOK
<1> QED BY <1>2, <1>3, <1>4, <1>5, <1>6, <1>7

(* Executions other than the one saved.                                     *)
LEMMA SaveBystander ==
    ASSUME IInv, NEW r \in ExecutionRows, SaveExecution(r), strategy' = strategy,
           NEW f \in Ids, f # r.id, f \notin disturbed', disturbed \subseteq disturbed',
           run'[f] = run[f], source'[f] = source[f],
           \A c \in message_correlations' : c.id = f => c \in message_correlations,
           state_history' = state_history, linked_executions' = linked_executions
    PROVE  Undisturbed(f)'
<1>1. TypeOK /\ Sources /\ Undisturbed(f) BY DEF IInv
<1>2. lastSave \subseteq ExecutionRows BY <1>1 DEF TypeOK
<1>3. \A x \in lastSave : \E y \in lastSave' : y.id = x.id BY <1>2, SavedLast
<1>4. /\ \A x \in executions : x.id # r.id => x \in executions'
      /\ \A y \in executions' : y.id # r.id => y \in executions
      /\ \E y \in executions' : y.id = r.id
  BY <1>1, Saved
<1> QED BY <1>1, <1>3, <1>4, Bystander

(* Executions other than the one a step concerns that saves nothing.        *)
LEMMA StepBystander ==
    ASSUME IInv, strategy' = strategy, executions' = executions, lastSave' = lastSave,
           disturbed \subseteq disturbed', source' = source,
           linked_executions \subseteq linked_executions',
           NEW f \in Ids, f \notin disturbed', run'[f] = run[f],
           \A c \in message_correlations' : c.id = f => c \in message_correlations,
           \A h \in state_history' : h.id = f => h \in state_history
    PROVE  Undisturbed(f)'
<1>1. Sources /\ Undisturbed(f) BY DEF IInv
<1>2. source'[f] = source[f] OBVIOUS
<1> QED BY <1>1, <1>2, Bystander

-----------------------------------------------------------------------------
(* Steps of executions                                                      *)

Context(a, t, n) == [at |-> a, start |-> t, seq |-> n]

LEMMA ContextFields ==
    ASSUME NEW a \in {"none", "link", "run", "wait"}, NEW t \in 0..MaxCalls, NEW n \in 0..MaxCalls
    PROVE  /\ Context(a, t, n) \in Contexts
           /\ Context(a, t, n).at = a /\ Context(a, t, n).start = t /\ Context(a, t, n).seq = n
BY DEF Context, Contexts

NewRow(e) == [id |-> e, start |-> clock, status |-> "RUNNING", seq |-> 0]

LEMMA ExecuteStep ==
    ASSUME IInv, NEW e \in Ids, NEW src \in Ids \cup {NoId}, Execute(e, src)
    PROVE  Store'
<1>1. clock \in Nat \ {0} /\ clock < MaxCalls /\ clock' = clock + 1 /\ MaxCalls \in Nat
  BY RepositoryAssumption DEF IInv, Clocked, Execute, Tick
<1>2. /\ NewRow(e) \in ExecutionRows /\ NewRow(e).id = e /\ NewRow(e).start = clock
      /\ NewRow(e).seq = 0 /\ NewRow(e).status = "RUNNING"
  BY <1>1 DEF NewRow, ExecutionRows, Statuses
<1>3. SaveExecution(NewRow(e)) /\ Tick BY DEF Execute, NewRow
<1>4. /\ strategy' = strategy /\ state_history' = state_history
      /\ message_correlations' = message_correlations
      /\ linked_executions' = linked_executions /\ executions_archive' = executions_archive
      /\ source' = [source EXCEPT ![e] = src]
      /\ disturbed' = IF \E x \in lastSave : x.id = e THEN disturbed \cup {e} ELSE disturbed
  BY DEF Execute
<1>5. PICK c : /\ run' = [run EXCEPT ![e] = c] /\ c \in Contexts /\ c.start = clock /\ c.seq = 0
               /\ c.at = IF src = NoId THEN "run" ELSE "link"
  <2>1. PICK c : c = Context(IF src = NoId THEN "run" ELSE "link", clock, 0) OBVIOUS
  <2>2. run' = [run EXCEPT ![e] = c] BY <2>1 DEF Execute, Context
  <2>3. (IF src = NoId THEN "run" ELSE "link") \in {"run", "link"} OBVIOUS
  <2>4. /\ c \in Contexts /\ c.start = clock /\ c.seq = 0
        /\ c.at = IF src = NoId THEN "run" ELSE "link"
    BY <1>1, <2>1, <2>3, ContextFields
  <2> QED BY <2>2, <2>4
<1>6. TypeOK /\ Clocked /\ Sources BY DEF IInv
<1>7. /\ (executions \cup executions_archive \cup lastSave)' \subseteq ExecutionRows
      /\ \A x, y \in executions' : SameKey(x, y)' => x = y
      /\ \A x, y \in executions_archive' : PgKey(x, y) => x = y
      /\ \A x \in (executions \cup lastSave)' : x.start < clock' /\ x.seq < clock'
      /\ LastSaveSurvives'
  <2>1. NewRow(e).start <= clock /\ NewRow(e).seq <= clock BY <1>1, <1>2
  <2> QED BY <1>2, <1>3, <1>4, <2>1, SaveKeeps
<1>8. run \in [Ids -> Contexts] /\ run' \in [Ids -> Contexts] /\ run'[e] = c
  BY <1>5, <1>6 DEF TypeOK
<1>9. \A f \in Ids : f # e => run'[f] = run[f] BY <1>5, <1>8
<1>10. Tables' BY <1>4, <1>6, <1>7, <1>8 DEF TypeOK, Tables
<1>11. Clocked'
  <2>1. \A h \in state_history' : h.at < clock' BY <1>1, <1>4, <1>6 DEF Clocked, TypeOK, HistoryRows
  <2>2. \A f \in Ids : /\ run'[f].start < clock' /\ run'[f].seq < clock'
                       /\ run'[f].at # "none" => run'[f].start >= 1
    <3>1. \A f \in Ids : run[f] \in Contexts BY <1>8
    <3> QED BY <1>1, <1>5, <1>6, <1>8, <1>9, <3>1 DEF Clocked, Contexts
  <2>3. clock' \in Nat \ {0} BY <1>1
  <2> QED BY <1>7, <2>1, <2>2, <2>3 DEF Clocked
<1>12. Sources' BY <1>4, <1>5, <1>6, <1>8, <1>9, RepositoryAssumption DEF Sources
<1>13. ASSUME NEW f \in Ids, f \notin disturbed' PROVE Undisturbed(f)'
  <2>1. CASE f # e
    <3>1. source'[f] = source[f] BY <1>4, <1>6, <2>1 DEF Sources
    <3>2. disturbed \subseteq disturbed' BY <1>4
    <3> QED BY <1>2, <1>3, <1>4, <1>9, <1>13, <2>1, <3>1, <3>2, SaveBystander
  <2>2. CASE f = e
    <3>1. e \notin disturbed /\ \A x \in lastSave : x.id # e BY <1>4, <1>13, <2>2
    <3>2. Undisturbed(e) BY <3>1 DEF IInv
    <3>3. /\ \A x \in executions : x.id # e
          /\ \A k \in message_correlations' : k.id # e
          /\ \A h \in state_history' : h.id # e
      BY <1>4, <3>1, <3>2 DEF Undisturbed, Fresh
    <3>4. /\ \A y \in executions' : y.id = e => y = NewRow(e)
          /\ \A x \in executions : x.id # e => x \in executions'
      BY <1>2, <1>3, <1>4, <1>6, <3>3, Saved
    <3>5. lastSave \subseteq ExecutionRows BY <1>6 DEF TypeOK
    <3>6. NewRow(e) \in lastSave' BY <1>2, <1>3, <3>5, SavedLast
    <3>7. Fresh(e)' BY <1>2, <3>6 DEF Fresh
    <3>8. OneRow(e)' BY <1>2, <1>5, <1>8, <3>4 DEF OneRow
    <3>9. Waits(e)' BY <3>3 DEF Waits
    <3>10. Linked(e)'
      <4>1. source'[e] = src BY <1>4, <1>6 DEF Sources
      <4>2. src # NoId => \E x \in executions' : x.id = src BY <3>4 DEF Execute, RowsOf
      <4> QED BY <1>5, <1>8, <4>1, <4>2 DEF Linked
    <3>11. Ordered(e)' BY <3>3 DEF Ordered
    <3> QED BY <2>2, <3>7, <3>8, <3>9, <3>10, <3>11 DEF Undisturbed
  <2> QED BY <2>1, <2>2
<1> QED BY <1>7, <1>10, <1>11, <1>12, <1>13 DEF Store

LEMMA SaveLinkedExecutionStep ==
    ASSUME IInv, NEW e \in Ids, SaveLinkedExecution(e)
    PROVE  Store'
<1>1. clock \in Nat \ {0} /\ clock' = clock + 1 BY DEF IInv, Clocked, SaveLinkedExecution, Tick
<1>2. /\ strategy' = strategy /\ executions' = executions /\ state_history' = state_history
      /\ message_correlations' = message_correlations
      /\ executions_archive' = executions_archive /\ lastSave' = lastSave
      /\ disturbed \subseteq disturbed' /\ source' = source
  BY DEF SaveLinkedExecution
<1>3. TypeOK /\ Clocked /\ Sources /\ LastSaveSurvives BY DEF IInv
<1>4. run \in [Ids -> Contexts] BY <1>3 DEF TypeOK
<1>5. /\ run' \in [Ids -> Contexts] /\ run[e].at = "link" /\ run'[e].at = "run"
      /\ run'[e].start = run[e].start /\ run'[e].seq = run[e].seq
      /\ \A f \in Ids : f # e => run'[f] = run[f]
  <2>1. run[e] \in Contexts BY <1>4
  <2>2. run' = [run EXCEPT ![e] = [run[e] EXCEPT !.at = "run"]] BY DEF SaveLinkedExecution
  <2>3. PICK c : c = [run[e] EXCEPT !.at = "run"] OBVIOUS
  <2>4. c \in Contexts /\ c.at = "run" /\ c.start = run[e].start /\ c.seq = run[e].seq
    BY <2>1, <2>3 DEF Contexts
  <2>5. run[e].at = "link" BY DEF SaveLinkedExecution
  <2>6. run' = [run EXCEPT ![e] = c] BY <2>2, <2>3
  <2> QED BY <1>4, <2>4, <2>5, <2>6
<1>6. source[e] \in Ids BY <1>3, <1>5 DEF Sources
<1>7. /\ linked_executions \subseteq linked_executions'
      /\ linked_executions' \subseteq LinkRows
      /\ e \notin disturbed' /\ (\E x \in executions : x.id = source[e]) =>
            [source |-> source[e], target |-> e] \in linked_executions'
  BY <1>3, <1>6 DEF SaveLinkedExecution, TypeOK, LinkRows, RowsOf
<1>8. Tables'
  BY <1>2, <1>3, <1>5, <1>7 DEF TypeOK, Tables, SameKey, GormKey, PgKey, Gorm
<1>9. Clocked'
  <2>1. \A f \in Ids : run[f] \in Contexts BY <1>4
  <2>2. \A f \in Ids : /\ run'[f].start < clock' /\ run'[f].seq < clock'
                       /\ run'[f].at # "none" => run'[f].start >= 1
    BY <1>1, <1>3, <1>5, <2>1 DEF Clocked, Contexts
  <2> QED BY <1>1, <1>2, <1>3, <2>2 DEF Clocked, TypeOK, ExecutionRows, HistoryRows
<1>10. Sources' BY <1>2, <1>3, <1>5 DEF Sources
<1>11. LastSaveSurvives' BY <1>2, <1>3 DEF LastSaveSurvives, SameKey, GormKey, PgKey, Gorm
<1>12. ASSUME NEW f \in Ids, f \notin disturbed' PROVE Undisturbed(f)'
  <2>1. CASE f # e BY <1>2, <1>5, <1>7, <1>12, <2>1, StepBystander
  <2>2. CASE f = e
    <3>1. Undisturbed(e) BY <1>2, <1>12, <2>2 DEF IInv
    <3>2. Fresh(e)' BY <1>2, <1>5, <3>1 DEF Undisturbed, Fresh
    <3>3. OneRow(e)' BY <1>2, <1>5, <3>1 DEF Undisturbed, OneRow
    <3>4. Waits(e)' BY <1>2, <1>5, <3>1 DEF Undisturbed, Waits
    <3>5. Linked(e)' BY <1>2, <1>5, <1>7, <1>12, <2>2, <3>1 DEF Undisturbed, Linked
    <3>6. (Gorm => Ordered(e))' BY <1>2, <1>5, <3>1 DEF Undisturbed, Ordered, Gorm
    <3> QED BY <2>2, <3>2, <3>3, <3>4, <3>5, <3>6 DEF Undisturbed
  <2> QED BY <2>1, <2>2
<1> QED BY <1>8, <1>9, <1>10, <1>11, <1>12 DEF Store

(* A history row is appended or, without its execution, refused.            *)
LEMMA SavedHistory ==
    ASSUME NEW h, SaveStateHistory(h)
    PROVE  state_history' = state_history \/ state_history' = state_history \cup {h}
BY DEF SaveStateHistory, GormSaveStateHistory, PgSaveStateHistory

LEMMA NewStateHistoryRow ==
    ASSUME IInv, Tick, NEW e \in Ids, NEW s \in StateNames, run[e].at # "none"
    PROVE  /\ NewStateHistory(e, s) \in HistoryRows
           /\ NewStateHistory(e, s).id = e /\ NewStateHistory(e, s).at = clock
           /\ NewStateHistory(e, s).seq = run[e].seq + 1
<1>1. /\ clock \in Nat \ {0} /\ clock < MaxCalls /\ MaxCalls \in Nat
      /\ run[e].seq < clock /\ run[e].start < clock /\ run[e].start >= 1
  BY RepositoryAssumption DEF IInv, Clocked, Tick
<1>2. run[e].seq \in Nat /\ run[e].start \in Nat BY DEF IInv, TypeOK, Contexts
<1>3. run[e].start \in 1..MaxCalls /\ run[e].seq + 1 \in 1..MaxCalls /\ clock \in 1..MaxCalls
  BY <1>1, <1>2
<1> HIDE DEF IInv
<1> QED BY <1>3 DEF NewStateHistory, HistoryRows

Settled(x, status) == [x EXCEPT !.status = status]

LEMMA SettledRow ==
    ASSUME NEW x \in CorrelationRows, NEW status \in {"WAITING", "RECEIVED"}
    PROVE  /\ Settled(x, status) \in CorrelationRows
           /\ Settled(x, status).id = x.id /\ Settled(x, status).status = status
BY DEF Settled, CorrelationRows

(* Saving a correlation leaves the correlations of other executions alone.  *)
LEMMA SavedCorrelation ==
    ASSUME NEW c \in CorrelationRows, message_correlations \subseteq CorrelationRows,
           SaveMessageCorrelation(c)
    PROVE  /\ message_correlations' \subseteq CorrelationRows
           /\ \A k \in message_correlations' : k.id # c.id => k \in message_correlations
<1>1. CASE Gorm BY <1>1 DEF SaveMessageCorrelation, GormSaveMessageCorrelation
<1>2. CASE ~Gorm /\ \E x \in message_correlations : x.id = c.id
  <2>1. message_correlations' =
          {IF x.id = c.id THEN Settled(x, c.status) ELSE x : x \in message_correlations}
    BY <1>2 DEF SaveMessageCorrelation, PgSaveMessageCorrelation, Settled
  <2>2. c.status \in {"WAITING", "RECEIVED"} BY DEF CorrelationRows
  <2>3. ASSUME NEW k \in message_correlations'
        PROVE  \/ k \in message_correlations
               \/ \E x \in message_correlations : x.id = c.id /\ k = Settled(x, c.status)
    BY <2>1, <2>3
  <2>4. ASSUME NEW k \in message_correlations'
        PROVE  k \in CorrelationRows /\ (k.id # c.id => k \in message_correlations)
    BY <2>2, <2>3, <2>4, SettledRow
  <2> QED BY <2>4
<1>3. CASE ~Gorm /\ ~\E x \in message_correlations : x.id = c.id
  BY <1>3 DEF SaveMessageCorrelation, PgSaveMessageCorrelation
<1> QED BY <1>1, <1>2, <1>3

(* A received message settles the correlations of its execution.            *)
LEMMA UpdatedCorrelation ==
    ASSUME message_correlations \subseteq CorrelationRows, NEW e \in Ids,
           message_correlations' = UpdateCorrelationStatus(e, "RECEIVED")
    PROVE  /\ message_correlations' \subseteq CorrelationRows
           /\ \A k \in message_correlations' : k.id # e => k \in message_correlations
           /\ \A k \in message_correlations' : k.id = e => k.status = "RECEIVED"
<1>1. message_correlations' =
        {IF x.id = e THEN Settled(x, "RECEIVED") ELSE x : x \in message_correlations}
  BY DEF UpdateCorrelationStatus, Settled
<1>2. ASSUME NEW k \in message_correlations'
      PROVE  \/ k \in message_correlations /\ k.id # e
             \/ \E x \in message_correlations : x.id = e /\ k = Settled(x, "RECEIVED")
  BY <1>1, <1>2
<1>3. ASSUME NEW k \in message_correlations'
      PROVE  /\ k \in CorrelationRows /\ (k.id # e => k \in message_correlations)
             /\ k.id = e => k.status = "RECEIVED"
  BY <1>2, <1>3, SettledRow
<1> QED BY <1>3

(* A state of e ran: RecordState and the first half of handleWaitingState.  *)
LEMMA HistoryStep ==
    ASSUME IInv, NEW e \in Ids, NEW s \in StateNames, NEW a \in {"run", "wait"},
           run[e].at = "run", Tick, SaveStateHistory(NewStateHistory(e, s)),
           run' = [run EXCEPT ![e] = Context(a, run[e].start, run[e].seq + 1)],
           message_correlations' \subseteq CorrelationRows,
           \A k \in message_correlations' : k.id # e => k \in message_correlations,
           a = "run" => message_correlations' = message_correlations,
           UNCHANGED <<strategy, executions, linked_executions, executions_archive,
                       lastSave, disturbed, source>>
    PROVE  Store'
<1>1. /\ strategy' = strategy /\ executions' = executions
      /\ linked_executions' = linked_executions /\ executions_archive' = executions_archive
      /\ lastSave' = lastSave /\ disturbed' = disturbed /\ source' = source
  OBVIOUS
<1>2. TypeOK /\ Clocked /\ Sources /\ LastSaveSurvives BY DEF IInv
<1>3. clock \in Nat \ {0} /\ clock' = clock + 1 /\ clock < MaxCalls /\ MaxCalls \in Nat
  BY <1>2, RepositoryAssumption DEF Clocked, Tick
<1>4. run \in [Ids -> Contexts] BY <1>2 DEF TypeOK
<1>5. /\ run[e].seq < clock /\ run[e].seq \in Nat /\ run[e].start \in 0..MaxCalls
      /\ run[e].start < clock /\ run[e].start >= 1 /\ run[e].seq + 1 \in 0..MaxCalls
  <2>1. run[e] \in Contexts BY <1>4
  <2>2. run[e].seq < clock /\ run[e].start < clock /\ run[e].start >= 1 BY <1>2 DEF Clocked
  <2> QED BY <1>3, <2>1, <2>2 DEF Contexts
<1>6. PICK c : c = Context(a, run[e].start, run[e].seq + 1) OBVIOUS
<1>7. c \in Contexts /\ c.at = a /\ c.start = run[e].start /\ c.seq = run[e].seq + 1
  BY <1>5, <1>6, ContextFields
<1>8. /\ run' \in [Ids -> Contexts] /\ run'[e] = c
      /\ \A f \in Ids : f # e => run'[f] = run[f]
  BY <1>4, <1>6, <1>7
<1>9. PICK h : h = NewStateHistory(e, s) OBVIOUS
<1>10. h \in HistoryRows /\ h.id = e /\ h.at = clock /\ h.seq = run[e].seq + 1
  BY <1>9, NewStateHistoryRow
<1>11. state_history' = state_history \/ state_history' = state_history \cup {h}
  BY <1>9, SavedHistory
<1>12. state_history \subseteq HistoryRows BY <1>2 DEF TypeOK
<1>13. Tables'
  BY <1>1, <1>2, <1>8, <1>10, <1>11 DEF TypeOK, Tables, SameKey, GormKey, PgKey, Gorm
<1>14. Clocked'
  <2>1. \A f \in Ids : run[f] \in Contexts BY <1>4
  <2>2. \A f \in Ids : /\ run'[f].start < clock' /\ run'[f].seq < clock'
                       /\ run'[f].at # "none" => run'[f].start >= 1
    BY <1>2, <1>3, <1>5, <1>7, <1>8, <2>1 DEF Clocked, Contexts
  <2>3. \A k \in state_history' : k.at < clock'
    BY <1>2, <1>3, <1>10, <1>11, <1>12 DEF Clocked, HistoryRows
  <2> QED BY <1>1, <1>2, <1>3, <2>2, <2>3 DEF Clocked, TypeOK, ExecutionRows
<1>15. Sources' BY <1>1, <1>2, <1>7, <1>8 DEF Sources
<1>16. LastSaveSurvives' BY <1>1, <1>2 DEF LastSaveSurvives, SameKey, GormKey, PgKey, Gorm
<1>17. ASSUME NEW f \in Ids, f \notin disturbed' PROVE Undisturbed(f)'
  <2>1. CASE f # e
    <3>1. \A k \in state_history' : k.id = f => k \in state_history BY <1>10, <1>11, <2>1
    <3> QED BY <1>1, <1>8, <1>17, <2>1, <3>1, StepBystander
  <2>2. CASE f = e
    <3>1. Undisturbed(e) BY <1>1, <1>17, <2>2 DEF IInv
    <3>2. Fresh(e)' BY <1>1, <3>1 DEF Undisturbed, Fresh
    <3>3. OneRow(e)' BY <1>1, <1>7, <1>8, <3>1 DEF Undisturbed, OneRow
    <3>4. Waits(e)'
      <4>1. CASE a = "run" BY <1>1, <3>1, <4>1 DEF Undisturbed, Waits
      <4>2. CASE a = "wait" BY <1>1, <1>7, <1>8, <3>1, <4>2 DEF Undisturbed, OneRow, Waits
      <4> QED BY <4>1, <4>2
    <3>5. Linked(e)' BY <1>1, <1>7, <1>8, <3>1 DEF Undisturbed, Linked
    <3>6. (Gorm => Ordered(e))'
      <4> SUFFICES ASSUME Gorm PROVE Ordered(e)' BY <1>1 DEF Gorm
      <4>1. Ordered(e) BY <3>1 DEF Undisturbed
      <4>2. \A k \in state_history : k.id = e =>
               k \in HistoryRows /\ k.seq <= run[e].seq /\ k.at < clock
        BY <1>2, <1>12, <4>1 DEF Ordered, Clocked
      <4>3. \A k, l \in state_history' : k.id = e /\ l.id = e /\ k.seq <= l.seq => k.at <= l.at
        BY <1>3, <1>5, <1>10, <1>11, <4>1, <4>2 DEF Ordered, HistoryRows
      <4>4. \A k \in state_history' : k.id = e => k.seq <= run'[e].seq
        BY <1>5, <1>7, <1>8, <1>10, <1>11, <4>2 DEF HistoryRows
      <4>5. run'[e].at # "none" BY <1>7, <1>8
      <4> QED BY <4>3, <4>4, <4>5 DEF Ordered
    <3> QED BY <2>2, <3>2, <3>3, <3>4, <3>5, <3>6 DEF Undisturbed
  <2> QED BY <2>1, <2>2
<1> QED BY <1>13, <1>14, <1>15, <1>16, <1>17 DEF Store

LEMMA RecordStateStep ==
    ASSUME IInv, NEW e \in Ids, NEW s \in StateNames, RecordState(e, s)
    PROVE  Store'
<1>1. run \in [Ids -> Contexts] /\ message_correlations \subseteq CorrelationRows
  BY DEF IInv, TypeOK
<1>2. run[e].at = "run" /\ Tick /\ SaveStateHistory(NewStateHistory(e, s)) BY DEF RecordState
<1>3. UNCHANGED <<strategy, executions, linked_executions, executions_archive,
                  lastSave, disturbed, source>> /\ message_correlations' = message_correlations
  BY DEF RecordState
<1>4. run' = [run EXCEPT ![e] = [run[e] EXCEPT !.seq = run[e].seq + 1]] BY DEF RecordState
<1>5. [run[e] EXCEPT !.seq = run[e].seq + 1] = Context("run", run[e].start, run[e].seq + 1)
  <2>1. run[e] \in Contexts BY <1>1
  <2> QED BY <1>2, <2>1 DEF Contexts, Context
<1>6. run' = [run EXCEPT ![e] = Context("run", run[e].start, run[e].seq + 1)] BY <1>4, <1>5
<1> QED BY <1>1, <1>2, <1>3, <1>6, HistoryStep

LEMMA WaitingContext ==
    ASSUME NEW c \in Contexts
    PROVE  [c EXCEPT !.seq = c.seq + 1, !.at = "wait"] = Context("wait", c.start, c.seq + 1)
<1>1. PICK d : d = [c EXCEPT !.seq = c.seq + 1] OBVIOUS
<1>2. d = Context(c.at, c.start, c.seq + 1) BY <1>1 DEF Contexts, Context
<1>3. [d EXCEPT !.at = "wait"] = Context("wait", c.start, c.seq + 1) BY <1>2 DEF Context
<1> QED BY <1>1, <1>3

LEMMA WaitForMessageStep ==
    ASSUME IInv, NEW e \in Ids, WaitForMessage(e)
    PROVE  Store'
<1>1. run \in [Ids -> Contexts] /\ message_correlations \subseteq CorrelationRows
  BY DEF IInv, TypeOK
<1>2. run[e].at = "run" /\ Tick /\ SaveStateHistory(NewStateHistory(e, "M")) BY DEF WaitForMessage
<1>3. UNCHANGED <<strategy, executions, linked_executions, executions_archive,
                  lastSave, disturbed, source>>
  BY DEF WaitForMessage
<1>4. run' = [run EXCEPT ![e] = [run[e] EXCEPT !.seq = run[e].seq + 1, !.at = "wait"]]
  BY <1>1 DEF WaitForMessage
<1>5. [run[e] EXCEPT !.seq = run[e].seq + 1, !.at = "wait"]
        = Context("wait", run[e].start, run[e].seq + 1)
  <2>1. run[e] \in Contexts BY <1>1
  <2> QED BY <2>1, WaitingContext
<1>6. run' = [run EXCEPT ![e] = Context("wait", run[e].start, run[e].seq + 1)] BY <1>4, <1>5
<1>7. PICK c : c = [id |-> e, start |-> run[e].start, status |-> "WAITING"] OBVIOUS
<1>8. c \in CorrelationRows /\ c.id = e
  <2>1. run[e] \in Contexts /\ run[e].start >= 1 BY <1>1, <1>2 DEF IInv, Clocked
  <2>2. run[e].start \in 1..MaxCalls BY <2>1, RepositoryAssumption DEF Contexts
  <2> QED BY <1>7, <2>2 DEF CorrelationRows
<1>9. SaveMessageCorrelation(c) BY <1>7 DEF WaitForMessage
<1>10. /\ message_correlations' \subseteq CorrelationRows
       /\ \A k \in message_correlations' : k.id # e => k \in message_correlations
  BY <1>1, <1>8, <1>9, SavedCorrelation
<1> QED BY <1>2, <1>3, <1>6, <1>10, HistoryStep DEF StateNames

(* Execution e is saved with the start of its run: Persist and ResumeExecution. *)
LEMMA OwnSaveStep ==
    ASSUME IInv, NEW e \in Ids, NEW r \in ExecutionRows, SaveExecution(r), Tick, r.id = e,
           r.start < clock, r.seq < clock, NEW c \in Contexts, run' = [run EXCEPT ![e] = c],
           c.start < clock, c.seq < clock, c.at = "run" \/ c.at = "none",
           c.at = "run" => c.start = r.start /\ c.seq = r.seq /\ r.status # "SUCCEEDED",
           e \notin disturbed' => \A x \in executions : x.id = e => x.start = r.start,
           message_correlations' \subseteq CorrelationRows,
           \A k \in message_correlations' : k.id # e => k \in message_correlations,
           e \notin disturbed' =>
              \A k \in message_correlations' : k.id = e /\ k.status = "WAITING" =>
                 c.at = "none" /\ r.status # "SUCCEEDED",
           e \notin disturbed' => run[e].at # "link",
           Gorm /\ e \notin disturbed' => \A h \in state_history : h.id = e => h.seq <= r.seq,
           disturbed \subseteq disturbed',
           UNCHANGED <<strategy, state_history, linked_executions, executions_archive, source>>
    PROVE  Store'
<1>1. /\ strategy' = strategy /\ state_history' = state_history
      /\ linked_executions' = linked_executions /\ executions_archive' = executions_archive
      /\ source' = source
  OBVIOUS
<1>2. TypeOK /\ Clocked /\ Sources /\ LastSaveSurvives BY DEF IInv
<1>3. clock \in Nat \ {0} /\ clock' = clock + 1 BY <1>2 DEF Clocked, Tick
<1>4. run \in [Ids -> Contexts] BY <1>2 DEF TypeOK
<1>5. /\ run' \in [Ids -> Contexts] /\ run'[e] = c
      /\ \A f \in Ids : f # e => run'[f] = run[f]
  BY <1>4
<1>6. /\ (executions \cup executions_archive \cup lastSave)' \subseteq ExecutionRows
      /\ \A x, y \in executions' : SameKey(x, y)' => x = y
      /\ \A x, y \in executions_archive' : PgKey(x, y) => x = y
      /\ \A x \in (executions \cup lastSave)' : x.start < clock' /\ x.seq < clock'
      /\ LastSaveSurvives'
  <2>1. r.start <= clock /\ r.seq <= clock BY <1>3 DEF ExecutionRows
  <2> QED BY <1>1, <2>1, SaveKeeps
<1>7. Tables' BY <1>1, <1>2, <1>5, <1>6 DEF TypeOK, Tables
<1>8. Clocked'
  <2>1. \A h \in state_history' : h.at < clock' BY <1>1, <1>2, <1>3 DEF Clocked, TypeOK, HistoryRows
  <2>2. \A f \in Ids : /\ run'[f].start < clock' /\ run'[f].seq < clock'
                       /\ run'[f].at # "none" => run'[f].start >= 1
    <3>1. \A f \in Ids : run[f] \in Contexts BY <1>4
    <3> QED BY <1>2, <1>3, <1>5, <3>1 DEF Clocked, Contexts, ExecutionRows
  <2>3. clock' \in Nat \ {0} BY <1>3
  <2> QED BY <1>6, <2>1, <2>2, <2>3 DEF Clocked
<1>9. Sources' BY <1>1, <1>2, <1>5 DEF Sources
<1>10. ASSUME NEW f \in Ids, f \notin disturbed' PROVE Undisturbed(f)'
  <2>1. CASE f # e
    <3>1. source'[f] = source[f] /\ disturbed \subseteq disturbed' BY <1>1
    <3>2. f # r.id /\ run'[f] = run[f] BY <1>5, <2>1
    <3>3. \A k \in message_correlations' : k.id = f => k \in message_correlations BY <2>1
    <3> QED BY <1>1, <1>10, <3>1, <3>2, <3>3, SaveBystander
  <2>2. CASE f = e
    <3>1. e \notin disturbed' /\ Undisturbed(e) BY <1>10, <2>2 DEF IInv
    <3>2. /\ \A y \in executions' : y.id = e => y = r
          /\ \A x \in executions : x.id # e => x \in executions'
          /\ \E y \in executions' : y.id = e
      BY <1>1, <1>2, <3>1, Saved
    <3>3. lastSave \subseteq ExecutionRows BY <1>2 DEF TypeOK
    <3>4. r \in lastSave' BY <3>3, SavedLast
    <3>5. Fresh(e)' BY <3>4 DEF Fresh
    <3>6. OneRow(e)' BY <1>5, <3>2 DEF OneRow
    <3>7. Waits(e)' BY <1>5, <3>1, <3>2 DEF Waits
    <3>8. Linked(e)' BY <1>1, <3>1, <3>2 DEF Undisturbed, Linked
    <3>9. (Gorm => Ordered(e))'
      <4> SUFFICES ASSUME Gorm PROVE Ordered(e)' BY <1>1 DEF Gorm
      <4>1. Ordered(e) BY <3>1 DEF Undisturbed
      <4> QED BY <1>1, <1>5, <3>1, <3>2, <4>1 DEF Ordered
    <3> QED BY <2>2, <3>5, <3>6, <3>7, <3>8, <3>9 DEF Undisturbed
  <2> QED BY <2>1, <2>2
<1> QED BY <1>6, <1>7, <1>8, <1>9, <1>10 DEF Store

LEMMA PersistStep ==
    ASSUME IInv, NEW e \in Ids, NEW status \in {"PAUSED", "SUCCEEDED"}, Persist(e, status),
           run[e].at = IF status = "PAUSED" THEN "wait" ELSE "run"
    PROVE  Store'
<1>1. TypeOK /\ Clocked BY DEF IInv
<1>2. run[e] \in Contexts BY <1>1 DEF TypeOK
<1>3. run[e].start < clock /\ run[e].start >= 1 /\ run[e].seq < clock BY <1>1 DEF Clocked
<1>4. PICK r : r = [id |-> e, start |-> run[e].start, status |-> status, seq |-> run[e].seq]
  OBVIOUS
<1>5. /\ r \in ExecutionRows /\ r.id = e /\ r.start = run[e].start /\ r.seq = run[e].seq
      /\ r.status = status
  <2>1. run[e].start \in 1..MaxCalls /\ run[e].seq \in 0..MaxCalls
    BY <1>2, <1>3, RepositoryAssumption DEF Contexts
  <2> QED BY <1>4, <2>1 DEF ExecutionRows, Statuses
<1>6. PICK c : c = Idle OBVIOUS
<1>7. /\ SaveExecution(r) /\ Tick /\ run' = [run EXCEPT ![e] = c]
      /\ message_correlations' = message_correlations
      /\ UNCHANGED <<strategy, state_history, linked_executions, executions_archive,
                     disturbed, source>>
  BY <1>4, <1>6 DEF Persist
<1>8. /\ c \in Contexts /\ c.at = "none" /\ c.start < clock /\ c.seq < clock
  BY <1>1, <1>6, RepositoryAssumption DEF Idle, Contexts, Clocked
<1>9. message_correlations' \subseteq CorrelationRows BY <1>1, <1>7 DEF TypeOK
<1>10. r.start < clock /\ r.seq < clock BY <1>3, <1>5
<1>11. ASSUME e \notin disturbed
       PROVE  /\ \A x \in executions : x.id = e => x.start = r.start
              /\ \A k \in message_correlations' : k.id = e /\ k.status = "WAITING" =>
                    r.status # "SUCCEEDED"
              /\ Gorm => \A h \in state_history : h.id = e => h.seq <= r.seq
  <2>1. Undisturbed(e) BY <1>11 DEF IInv
  <2>2. \A x \in executions : x.id = e => x.start = r.start
    BY <1>5, <2>1 DEF Undisturbed, OneRow
  <2>3. \A k \in message_correlations' : k.id = e /\ k.status = "WAITING" => r.status # "SUCCEEDED"
    BY <1>5, <1>7, <2>1 DEF Undisturbed, Waits
  <2>4. Gorm => \A h \in state_history : h.id = e => h.seq <= r.seq
    BY <1>5, <2>1 DEF Undisturbed, Ordered
  <2> QED BY <2>2, <2>3, <2>4
<1>12. run[e].at # "link" /\ disturbed' = disturbed BY <1>7
<1>13. \A k \in message_correlations' : k.id # e => k \in message_correlations BY <1>7
<1>14. /\ c.at = "run" \/ c.at = "none"
       /\ c.at = "run" => c.start = r.start /\ c.seq = r.seq /\ r.status # "SUCCEEDED"
  BY <1>8
<1>15. e \notin disturbed' => \A x \in executions : x.id = e => x.start = r.start BY <1>11, <1>12
<1>16. e \notin disturbed' =>
          \A k \in message_correlations' : k.id = e /\ k.status = "WAITING" =>
             c.at = "none" /\ r.status # "SUCCEEDED"
  BY <1>8, <1>11, <1>12
<1>17. Gorm /\ e \notin disturbed' => \A h \in state_history : h.id = e => h.seq <= r.seq
  BY <1>11, <1>12
<1> QED BY <1>5, <1>7, <1>8, <1>9, <1>10, <1>12, <1>13, <1>14, <1>15, <1>16, <1>17, OwnSaveStep

LEMMA ResumeExecutionStep ==
    ASSUME IInv, NEW x \in messages, ResumeExecution(x)
    PROVE  Store'
<1>1. TypeOK /\ Clocked /\ Sources /\ LastSaveSurvives /\ Concurrent BY DEF IInv
<1>2. executions \subseteq ExecutionRows /\ run \in [Ids -> Contexts]
      /\ message_correlations \subseteq CorrelationRows
  BY <1>1 DEF TypeOK
<1>3. PICK e : e = x.id OBVIOUS
<1>4. x \in ExecutionRows /\ e \in Ids BY <1>1, <1>3 DEF Concurrent, ExecutionRows
<1>5. disturbed \subseteq disturbed' /\ (e \notin disturbed' => UpToDate(x))
  BY <1>3 DEF ResumeExecution
<1>6. ASSUME UpToDate(x)
      PROVE  /\ run[e].at = "none"
             /\ \E y \in executions : /\ y.id = e /\ x.start = y.start
                                      /\ x.status = y.status /\ (Gorm => x = y)
  <2>1. run[e].at = "none" /\ RowsOf(e) # {} /\ x = GetExecution(e)
    BY <1>3, <1>6 DEF UpToDate
  <2>2. PICK y \in RowsOf(e) : x.start = y.start /\ x.status = y.status /\ (Gorm => x = y)
    BY <1>2, <2>1, Got
  <2> QED BY <2>1, <2>2 DEF RowsOf
<1>8. /\ Tick /\ x.status \in {"PAUSED", "RUNNING"}
      /\ message_correlations' = UpdateCorrelationStatus(e, "RECEIVED")
      /\ run' = [run EXCEPT ![e] = [at |-> "run", start |-> x.start, seq |-> x.seq]]
      /\ strategy' = strategy /\ state_history' = state_history
      /\ linked_executions' = linked_executions /\ executions_archive' = executions_archive
      /\ source' = source
  BY <1>3 DEF ResumeExecution
<1>9. /\ x.status = "PAUSED" => SaveExecution([x EXCEPT !.status = "RUNNING"])
      /\ x.status # "PAUSED" => executions' = executions /\ lastSave' = lastSave
  BY DEF ResumeExecution
<1>10. /\ clock \in Nat \ {0} /\ clock' = clock + 1
       /\ x.start < clock /\ x.seq < clock
  BY <1>1, <1>8 DEF Clocked, Concurrent, Tick
<1>11. PICK c : c = Context("run", x.start, x.seq) OBVIOUS
<1>12. c \in Contexts /\ c.at = "run" /\ c.start = x.start /\ c.seq = x.seq
  <2>1. x.start \in 0..MaxCalls /\ x.seq \in 0..MaxCalls BY <1>4, RepositoryAssumption DEF ExecutionRows
  <2> QED BY <1>11, <2>1, ContextFields
<1>13. run' = [run EXCEPT ![e] = c] BY <1>8, <1>11 DEF Context
<1>14. /\ message_correlations' \subseteq CorrelationRows
       /\ \A k \in message_correlations' : k.id # e => k \in message_correlations
       /\ \A k \in message_correlations' : k.id = e => k.status = "RECEIVED"
  BY <1>2, <1>4, <1>8, UpdatedCorrelation
<1>15. ASSUME e \notin disturbed'
       PROVE  /\ Undisturbed(e) /\ run[e].at = "none"
              /\ \A z \in executions : z.id = e => z.start = x.start /\ z.status = x.status
              /\ \E z \in executions : z.id = e
              /\ Gorm => \A h \in state_history : h.id = e => h.seq <= x.seq
  <2>1. PICK y \in executions : y.id = e /\ x.start = y.start /\ x.status = y.status
                                /\ (Gorm => x = y)
    BY <1>5, <1>6, <1>15
  <2>2. run[e].at = "none" /\ Undisturbed(e) BY <1>4, <1>5, <1>6, <1>15 DEF IInv
  <2>3. \A z \in executions : z.id = e => z = y BY <2>1, <2>2 DEF Undisturbed, OneRow
  <2>4. Gorm => \A h \in state_history : h.id = e => h.seq <= x.seq
    BY <2>1, <2>2 DEF Undisturbed, Ordered
  <2> QED BY <2>1, <2>2, <2>3, <2>4
<1>16. CASE x.status = "PAUSED"
  <2>1. PICK r : r = [x EXCEPT !.status = "RUNNING"] OBVIOUS
  <2>2. /\ r \in ExecutionRows /\ r.id = x.id /\ r.start = x.start /\ r.seq = x.seq
        /\ r.status = "RUNNING"
    BY <1>4, <2>1 DEF ExecutionRows, Statuses
  <2>3. SaveExecution(r) BY <1>9, <1>16, <2>1
  <2>4. r.id = e /\ r.start < clock /\ r.seq < clock /\ r.status # "SUCCEEDED"
    BY <1>3, <1>10, <2>2
  <2>5. /\ c.start < clock /\ c.seq < clock /\ c.start = r.start /\ c.seq = r.seq
    BY <1>10, <1>12, <2>2
  <2>6. e \notin disturbed' => \A z \in executions : z.id = e => z.start = r.start
    BY <1>15, <2>2
  <2>7. Gorm /\ e \notin disturbed' => \A h \in state_history : h.id = e => h.seq <= r.seq
    BY <1>15, <2>2
  <2>8. \A k \in message_correlations' : ~(k.id = e /\ k.status = "WAITING") BY <1>14
  <2>9. e \notin disturbed' => run[e].at # "link" BY <1>15
  <2> QED BY <1>4, <1>5, <1>8, <1>12, <1>13, <1>14, <2>2, <2>3, <2>4, <2>5, <2>6, <2>7, <2>8, <2>9, OwnSaveStep
<1>17. CASE x.status # "PAUSED"
  <2>1. executions' = executions /\ lastSave' = lastSave BY <1>9, <1>17
  <2>2. /\ run' \in [Ids -> Contexts] /\ run'[e] = c
        /\ \A f \in Ids : f # e => run'[f] = run[f]
    BY <1>2, <1>4, <1>12, <1>13
  <2>3. Tables'
    BY <1>1, <1>8, <1>14, <2>1, <2>2 DEF TypeOK, Tables, SameKey, GormKey, PgKey, Gorm
  <2>4. Clocked'
    <3>1. \A f \in Ids : run[f] \in Contexts BY <1>2
    <3>2. \A f \in Ids : /\ run'[f].start < clock' /\ run'[f].seq < clock'
                         /\ run'[f].at # "none" => run'[f].start >= 1
      BY <1>1, <1>4, <1>10, <1>12, <2>2, <3>1 DEF Clocked, Contexts, ExecutionRows
    <3> QED BY <1>1, <1>8, <1>10, <2>1, <3>2 DEF Clocked, TypeOK, ExecutionRows, HistoryRows
  <2>5. Sources' BY <1>1, <1>8, <1>12, <2>2 DEF Sources
  <2>6. LastSaveSurvives'
    BY <1>1, <1>8, <2>1 DEF LastSaveSurvives, SameKey, GormKey, PgKey, Gorm
  <2>7. ASSUME NEW f \in Ids, f \notin disturbed' PROVE Undisturbed(f)'
    <3>1. CASE f # e
      <4>1. \A k \in message_correlations' : k.id = f => k \in message_correlations BY <1>14, <3>1
      <4> QED BY <1>5, <1>8, <2>1, <2>2, <2>7, <3>1, <4>1, StepBystander
    <3>2. CASE f = e
      <4>1. e \notin disturbed' /\ Undisturbed(e) BY <1>15, <2>7, <3>2
      <4>2. Fresh(e)' BY <1>15, <2>1, <4>1 DEF Undisturbed, Fresh
      <4>3. OneRow(e)' BY <1>8, <1>12, <1>15, <2>1, <2>2, <4>1 DEF Undisturbed, OneRow
      <4>4. Waits(e)' BY <1>14 DEF Waits
      <4>5. Linked(e)' BY <1>5, <1>8, <1>15, <2>1, <4>1 DEF Undisturbed, Linked
      <4>6. (Gorm => Ordered(e))'
        <5> SUFFICES ASSUME Gorm PROVE Ordered(e)' BY <1>8 DEF Gorm
        <5>1. Ordered(e) BY <4>1 DEF Undisturbed
        <5> QED BY <1>8, <1>12, <1>15, <2>2, <4>1, <5>1 DEF Ordered
      <4> QED BY <3>2, <4>2, <4>3, <4>4, <4>5, <4>6 DEF Undisturbed
    <3> QED BY <3>1, <3>2
  <2> QED BY <2>3, <2>4, <2>5, <2>6, <2>7 DEF Store
<1> QED BY <1>16, <1>17

LEMMA CrashStep ==
    ASSUME IInv, NEW e \in Ids, Crash(e)
    PROVE  Store'
<1>1. /\ strategy' = strategy /\ executions' = executions /\ state_history' = state_history
      /\ message_correlations' = message_correlations
      /\ linked_executions' = linked_executions /\ executions_archive' = executions_archive
      /\ lastSave' = lastSave /\ source' = source /\ disturbed' = disturbed \cup {e}
  BY DEF Crash, tables
<1>2. TypeOK /\ Clocked /\ Sources /\ LastSaveSurvives BY DEF IInv
<1>3. clock \in Nat \ {0} /\ clock' = clock + 1 BY <1>2 DEF Clocked, Crash, Tick
<1>4. run \in [Ids -> Contexts] BY <1>2 DEF TypeOK
<1>5. PICK c : c = Idle OBVIOUS
<1>6. c \in Contexts /\ c.at = "none" /\ c.start = 0 /\ c.seq = 0
  BY <1>5, RepositoryAssumption DEF Idle, Contexts
<1>7. /\ run' \in [Ids -> Contexts] /\ run'[e] = c
      /\ \A f \in Ids : f # e => run'[f] = run[f]
  BY <1>4, <1>5, <1>6 DEF Crash
<1>8. Tables' BY <1>1, <1>2, <1>7 DEF TypeOK, Tables, SameKey, GormKey, PgKey, Gorm
<1>9. Clocked'
  <2>1. \A f \in Ids : run[f] \in Contexts BY <1>4
  <2>2. \A f \in Ids : /\ run'[f].start < clock' /\ run'[f].seq < clock'
                       /\ run'[f].at # "none" => run'[f].start >= 1
    BY <1>2, <1>3, <1>6, <1>7, <2>1 DEF Clocked, Contexts
  <2> QED BY <1>1, <1>2, <1>3, <2>2 DEF Clocked, TypeOK, ExecutionRows, HistoryRows
<1>10. Sources' BY <1>1, <1>2, <1>6, <1>7 DEF Sources
<1>11. LastSaveSurvives' BY <1>1, <1>2 DEF LastSaveSurvives, SameKey, GormKey, PgKey, Gorm
<1>12. ASSUME NEW f \in Ids, f \notin disturbed' PROVE Undisturbed(f)'
  <2>1. f # e BY <1>1, <1>12
  <2> QED BY <1>1, <1>7, <1>12, <2>1, StepBystander
<1> QED BY <1>8, <1>9, <1>10, <1>11, <1>12 DEF Store

-----------------------------------------------------------------------------
(* Steps that concern goroutines                                            *)

LEMMA HoldsRun ==
    ASSUME IInv, NEW e \in Ids
    PROVE  run[e] \in Contexts /\ Holds(e, run[e])
BY DEF IInv, TypeOK, Clocked, Sources, Holds

LEMMA Appended ==
    ASSUME NEW S, NEW s \in Seq(S), NEW c \in S
    PROVE  /\ Append(s, c) \in Seq(S)
           /\ \A i \in 1..Len(Append(s, c)) :
                 Append(s, c)[i] = c \/ \E j \in 1..Len(s) : Append(s, c)[i] = s[j]
OBVIOUS

LEMMA Removed ==
    ASSUME NEW S, NEW s \in Seq(S), s # <<>>
    PROVE  /\ Head(s) \in S /\ Head(s) = s[1] /\ 1 \in 1..Len(s)
           /\ Tail(s) \in Seq(S)
           /\ \A i \in 1..Len(Tail(s)) : \E j \in 1..Len(s) : Tail(s)[i] = s[j]
OBVIOUS

(* One more goroutine runs e after a message.                               *)
LEMMA ResumeExecutionConcurrent ==
    ASSUME IInv, NEW x \in messages, ResumeExecution(x)
    PROVE  Concurrent'
<1>1. Concurrent /\ Clocked /\ MaxCalls \in Nat BY RepositoryAssumption DEF IInv
<1>2. PICK e : e = x.id OBVIOUS
<1>3. e \in Ids BY <1>1, <1>2 DEF Concurrent, ExecutionRows
<1>4. /\ others' = [others EXCEPT ![e] =
                        IF run[e].at = "none" THEN others[e] ELSE Append(others[e], run[e])]
      /\ messages' = messages /\ source' = source /\ disturbed \subseteq disturbed'
      /\ e \notin disturbed' => UpToDate(x)
      /\ clock' = clock + 1
  BY <1>2 DEF ResumeExecution, Tick
<1>5. others \in [Ids -> Seq(Contexts)] /\ others[e] \in Seq(Contexts) /\ clock \in Nat
  BY <1>1, <1>3 DEF Concurrent, Clocked
<1>6. run[e] \in Contexts /\ Holds(e, run[e]) BY <1>3, HoldsRun
<1>7. PICK s : s = (IF run[e].at = "none" THEN others[e] ELSE Append(others[e], run[e])) OBVIOUS
<1>8. /\ s \in Seq(Contexts)
      /\ \A i \in 1..Len(s) : s[i] = run[e] \/ \E j \in 1..Len(others[e]) : s[i] = others[e][j]
  BY <1>5, <1>6, <1>7, Appended
<1>9. \A f \in Ids : f # e => others'[f] = others[f] BY <1>4, <1>5
<1>10. others' \in [Ids -> Seq(Contexts)] /\ others'[e] = s BY <1>3, <1>4, <1>5, <1>7, <1>8
<1>11. \A f \in Ids, c \in Contexts : Holds(f, c) => Holds(f, c)'
  <2> SUFFICES ASSUME NEW f \in Ids, NEW c \in Contexts, Holds(f, c) PROVE Holds(f, c)' OBVIOUS
  <2>1. c.start \in Int /\ c.seq \in Int BY <1>1 DEF Contexts
  <2>2. c.start < clock' /\ c.seq < clock' BY <1>4, <1>5, <2>1 DEF Holds
  <2> QED BY <1>4, <2>2 DEF Holds
<1>12. ASSUME NEW f \in Ids, NEW i \in 1..Len(others'[f]) PROVE Holds(f, others[f][i])'
  <2>1. PICK c : c = others'[f][i] OBVIOUS
  <2>2. c \in Contexts /\ Holds(f, c)
    <3>1. CASE f = e
      <4>1. c = run[e] \/ \E j \in 1..Len(others[e]) : c = others[e][j]
        BY <1>8, <1>10, <1>12, <2>1, <3>1
      <4>2. \A j \in 1..Len(others[e]) : others[e][j] \in Contexts /\ Holds(e, others[e][j])
        BY <1>1, <1>3, <1>5 DEF Concurrent
      <4> QED BY <1>6, <3>1, <4>1, <4>2
    <3>2. CASE f # e
      <4>1. i \in 1..Len(others[f]) /\ c = others[f][i] BY <1>9, <1>12, <2>1, <3>2
      <4>2. others[f] \in Seq(Contexts) BY <1>5
      <4> QED BY <1>1, <4>1, <4>2 DEF Concurrent
    <3> QED BY <3>1, <3>2
  <2>3. Holds(f, c)' BY <1>11, <2>2
  <2> QED BY <2>1, <2>3 DEF Holds
<1>13. \A f \in Ids : others'[f] # <<>> => f \in disturbed'
  <2>1. CASE e \in disturbed' BY <1>1, <1>4, <1>9, <2>1 DEF Concurrent
  <2>2. CASE e \notin disturbed'
    <3>1. run[e].at = "none" /\ others[e] = <<>> BY <1>2, <1>4, <2>2 DEF UpToDate
    <3>2. others'[e] = <<>> BY <1>7, <1>10, <3>1
    <3> QED BY <1>1, <1>4, <1>9, <3>2 DEF Concurrent
  <2> QED BY <2>1, <2>2
<1>14. messages' \subseteq ExecutionRows /\ \A z \in messages' : z.start < clock' /\ z.seq < clock'
  BY <1>1, <1>4, <1>5 DEF Concurrent, ExecutionRows
<1> QED BY <1>10, <1>12, <1>13, <1>14 DEF Concurrent

LEMMA SwitchStep ==
    ASSUME IInv, NEW e \in Ids, Switch(e)
    PROVE  Store' /\ Concurrent'
<1>1. /\ strategy' = strategy /\ executions' = executions /\ state_history' = state_history
      /\ message_correlations' = message_correlations
      /\ linked_executions' = linked_executions /\ executions_archive' = executions_archive
      /\ lastSave' = lastSave /\ source' = source /\ disturbed' = disturbed
      /\ messages' = messages /\ clock' = clock
      /\ others[e] # <<>> /\ run' = [run EXCEPT ![e] = Head(others[e])]
      /\ others' = [others EXCEPT ![e] = IF run[e].at = "none" THEN Tail(others[e])
                                        ELSE Append(Tail(others[e]), run[e])]
  BY DEF Switch, tables
<1>2. TypeOK /\ Clocked /\ Sources /\ LastSaveSurvives /\ Concurrent BY DEF IInv
<1>3. /\ run \in [Ids -> Contexts] /\ others \in [Ids -> Seq(Contexts)]
      /\ others[e] \in Seq(Contexts)
  BY <1>2 DEF TypeOK
<1>4. run[e] \in Contexts /\ Holds(e, run[e]) BY HoldsRun
<1>5. \A j \in 1..Len(others[e]) : others[e][j] \in Contexts /\ Holds(e, others[e][j])
  BY <1>2, <1>3 DEF Concurrent
<1>6. PICK c : c = Head(others[e]) OBVIOUS
<1>7. c \in Contexts /\ Holds(e, c) BY <1>1, <1>3, <1>5, <1>6, Removed
<1>8. /\ run' \in [Ids -> Contexts] /\ run'[e] = c
      /\ \A f \in Ids : f # e => run'[f] = run[f]
  BY <1>1, <1>3, <1>6, <1>7
<1>9. PICK t : t = Tail(others[e]) OBVIOUS
<1>10. /\ t \in Seq(Contexts)
       /\ \A i \in 1..Len(t) : \E j \in 1..Len(others[e]) : t[i] = others[e][j]
  BY <1>1, <1>3, <1>9, Removed
<1>11. PICK s : s = (IF run[e].at = "none" THEN t ELSE Append(t, run[e])) OBVIOUS
<1>12. s \in Seq(Contexts) /\ \A i \in 1..Len(s) : Holds(e, s[i])
  <2>1. \A i \in 1..Len(t) : Holds(e, t[i]) BY <1>5, <1>10
  <2>2. CASE run[e].at = "none" BY <1>10, <1>11, <2>1, <2>2
  <2>3. CASE run[e].at # "none"
    <3>1. s = Append(t, run[e]) BY <1>11, <2>3
    <3>2. s \in Seq(Contexts) /\ \A i \in 1..Len(s) :
              s[i] = run[e] \/ \E j \in 1..Len(t) : s[i] = t[j]
      BY <1>4, <1>10, <3>1, Appended
    <3> QED BY <1>4, <2>1, <3>2
  <2> QED BY <2>2, <2>3
<1>13. /\ others' \in [Ids -> Seq(Contexts)] /\ others'[e] = s
       /\ \A f \in Ids : f # e => others'[f] = others[f]
  BY <1>1, <1>3, <1>9, <1>11, <1>12
<1>14. e \in disturbed BY <1>1, <1>2 DEF Concurrent
<1>15. Concurrent'
  <2>1. \A f \in Ids : others'[f] # <<>> => f \in disturbed'
    BY <1>1, <1>2, <1>13, <1>14 DEF Concurrent
  <2>2. \A f \in Ids : \A i \in 1..Len(others'[f]) : Holds(f, others'[f][i])
    BY <1>2, <1>12, <1>13 DEF Concurrent
  <2>3. ASSUME NEW f \in Ids, NEW i \in 1..Len(others'[f]) PROVE Holds(f, others[f][i])'
    <3>1. Holds(f, others'[f][i]) BY <2>2, <2>3
    <3> QED BY <1>1, <3>1 DEF Holds
  <2> QED BY <1>1, <1>2, <1>13, <2>1, <2>3 DEF Concurrent
<1>16. Tables' BY <1>1, <1>2, <1>8 DEF TypeOK, Tables, SameKey, GormKey, PgKey, Gorm
<1>17. Clocked' BY <1>1, <1>2, <1>7, <1>8 DEF Clocked, Holds
<1>18. Sources' BY <1>1, <1>2, <1>7, <1>8 DEF Sources, Holds
<1>19. LastSaveSurvives' BY <1>1, <1>2 DEF LastSaveSurvives, SameKey, GormKey, PgKey, Gorm
<1>20. ASSUME NEW f \in Ids, f \notin disturbed' PROVE Undisturbed(f)'
  <2>1. f # e BY <1>1, <1>14, <1>20
  <2> QED BY <1>1, <1>8, <1>20, <2>1, StepBystander
<1> QED BY <1>15, <1>16, <1>17, <1>18, <1>19, <1>20 DEF Store

(* A message reads a row.                                                   *)
LEMMA FindWaitingStep ==
    ASSUME IInv, NEW e \in Ids, FindWaiting(e)
    PROVE  Concurrent'
<1>1. Concurrent /\ TypeOK /\ Clocked BY DEF IInv
<1>2. executions \subseteq ExecutionRows /\ clock \in Nat \ {0} BY <1>1 DEF TypeOK, Clocked
<1>3. PICK x : x = GetExecution(e) OBVIOUS
<1>4. /\ RowsOf(e) # {} /\ messages' = messages \cup {x} /\ clock' = clock
      /\ others' = others /\ disturbed' = disturbed /\ source' = source
  BY <1>3 DEF FindWaiting, FindWaitingExecutionsByCorrelation
<1>5. x \in ExecutionRows BY <1>2, <1>3, <1>4, Got
<1>6. PICK y \in RowsOf(e) : x.start = y.start /\ x.seq \in {0, y.seq} BY <1>2, <1>3, <1>4, Got
<1>7. x.start < clock /\ x.seq < clock BY <1>1, <1>2, <1>6 DEF Clocked, RowsOf
<1> QED BY <1>1, <1>4, <1>5, <1>7 DEF Concurrent, Holds

-----------------------------------------------------------------------------
(* Steps of maintenance                                                     *)

(* Removing rows, whatever the last saves are taken to be.                  *)
LEMMA DeleteRowsStep ==
    ASSUME IInv, Tick, NEW rows \in SUBSET executions, DeleteRows(rows),
           executions_archive' \subseteq ExecutionRows,
           \A x, y \in executions_archive' : PgKey(x, y) => x = y,
           lastSave' \subseteq lastSave,
           \A x \in lastSave \ lastSave' : \E y \in rows : y.id = x.id,
           UNCHANGED <<strategy, linked_executions, run, source>>
    PROVE  /\ Tables' /\ Clocked' /\ Sources'
           /\ \A f \in Ids \ disturbed' : Undisturbed(f)'
<1>1. /\ strategy' = strategy /\ linked_executions' = linked_executions
      /\ run' = run /\ source' = source
  OBVIOUS
<1>2. TypeOK /\ Clocked /\ Sources BY DEF IInv
<1>3. clock \in Nat \ {0} /\ clock' = clock + 1 BY <1>2 DEF Clocked, Tick
<1>4. /\ executions' = executions \ rows
      /\ state_history' \subseteq state_history
      /\ message_correlations' \subseteq message_correlations
      /\ disturbed' = disturbed \cup {x.id : x \in rows}
  BY DEF DeleteRows
<1>5. Tables'
  <2>1. \A x, y : SameKey(x, y)' <=> SameKey(x, y) BY <1>1 DEF SameKey, GormKey, PgKey, Gorm
  <2>2. \A x, y \in executions' : SameKey(x, y)' => x = y BY <1>2, <1>4, <2>1 DEF TypeOK
  <2> QED BY <1>1, <1>2, <1>4, <2>2 DEF TypeOK, Tables
<1>6. Clocked'
  <2>1. \A x \in (executions \cup lastSave)' :
           x \in ExecutionRows /\ x.start < clock /\ x.seq < clock
    BY <1>2, <1>4 DEF TypeOK, Clocked
  <2>2. \A h \in state_history' : h \in HistoryRows /\ h.at < clock
    BY <1>2, <1>4 DEF TypeOK, Clocked
  <2>3. \A f \in Ids : run[f] \in Contexts BY <1>2 DEF TypeOK
  <2> QED BY <1>1, <1>2, <1>3, <2>1, <2>2, <2>3 DEF Clocked, ExecutionRows, HistoryRows, Contexts
<1>7. Sources' BY <1>1, <1>2 DEF Sources
<1>8. ASSUME NEW f \in Ids, f \notin disturbed' PROVE Undisturbed(f)'
  <2>1. \A g : g \notin disturbed' => \A x \in executions : x.id = g => x \in executions'
    BY <1>4
  <2>2. \A x \in lastSave : x.id = f => x \in lastSave' BY <1>4, <1>8
  <2>3. Undisturbed(f) /\ disturbed \subseteq disturbed' BY <1>4, <1>8 DEF IInv
  <2>4. run'[f] = run[f] /\ source'[f] = source[f] BY <1>1
  <2>5. \A x \in executions : x.id = f => x \in executions' BY <1>8, <2>1
  <2>6. \A g \in Ids \ disturbed' :
           (\E x \in executions : x.id = g) => \E y \in executions' : y.id = g
    BY <2>1
  <2> QED BY <1>1, <1>2, <1>4, <1>8, <2>2, <2>3, <2>4, <2>5, <2>6, Bystander
<1> QED BY <1>5, <1>6, <1>7, <1>8

LEMMA DeleteExecutionStep ==
    ASSUME IInv, NEW e \in Ids, DeleteExecution(e)
    PROVE  Store'
<1>1. PICK rows : rows = RowsOf(e) OBVIOUS
<1>2. /\ Tick /\ DeleteRows(rows) /\ lastSave' = {x \in lastSave : x.id # e}
      /\ UNCHANGED <<strategy, linked_executions, run, source>>
      /\ executions_archive' = executions_archive /\ strategy' = strategy
  BY <1>1 DEF DeleteExecution, goroutines
<1>3. rows \in SUBSET executions /\ (\A x \in executions : x \in rows <=> x.id = e)
      /\ \E y \in rows : y.id = e
  BY <1>1 DEF RowsOf, DeleteExecution
<1>4. /\ executions_archive' \subseteq ExecutionRows
      /\ \A x, y \in executions_archive' : PgKey(x, y) => x = y
  BY <1>2 DEF IInv, TypeOK
<1>5. \A x \in lastSave \ lastSave' : \E y \in rows : y.id = x.id BY <1>2, <1>3
<1>6. /\ Tables' /\ Clocked' /\ Sources' /\ \A f \in Ids \ disturbed' : Undisturbed(f)'
  BY <1>2, <1>3, <1>4, <1>5, DeleteRowsStep
<1>7. LastSaveSurvives'
  <2>1. \A x, y : SameKey(x, y)' <=> SameKey(x, y) BY <1>2 DEF SameKey, GormKey, PgKey, Gorm
  <2>2. \A x, y : SameKey(x, y) => x.id = y.id BY DEF SameKey, GormKey, PgKey
  <2>3. executions' = executions \ rows BY <1>2 DEF DeleteRows
  <2>4. \A z \in lastSave' : z \in lastSave /\ \A x : SameKey(x, z) =>
           (x \in executions' <=> x \in executions)
    BY <1>2, <1>3, <2>2, <2>3
  <2>5. LastSaveSurvives BY DEF IInv
  <2> QED BY <1>2, <2>1, <2>4, <2>5 DEF LastSaveSurvives
<1> QED BY <1>6, <1>7 DEF Store

LEMMA ArchiveOldExecutionsStep ==
    ASSUME IInv, NEW cutoff \in 1..MaxCalls, ArchiveOldExecutions(cutoff)
    PROVE  Store'
<1>1. PICK rows : rows = {x \in executions : x.start < cutoff} OBVIOUS
<1>2. /\ ~Gorm /\ Tick /\ DeleteRows(rows) /\ lastSave' = lastSave
      /\ UNCHANGED <<strategy, linked_executions, run, source>> /\ strategy' = strategy
      /\ executions_archive' = executions_archive \cup rows
      /\ \A x \in rows, y \in executions_archive : ~PgKey(x, y)
  BY <1>1 DEF ArchiveOldExecutions, goroutines
<1>3. rows \in SUBSET executions BY <1>1
<1>4. \A x, y : SameKey(x, y) <=> PgKey(x, y) BY <1>2 DEF SameKey
<1>5. \A x, y : SameKey(x, y)' <=> PgKey(x, y) BY <1>2 DEF SameKey, Gorm, PgKey
<1>6. \A x, y : PgKey(x, y) => PgKey(y, x) BY DEF PgKey
<1>7. /\ executions_archive \cup executions \cup lastSave \subseteq ExecutionRows
      /\ \A x, y \in executions : PgKey(x, y) => x = y
      /\ \A x, y \in executions_archive : PgKey(x, y) => x = y
  BY <1>4 DEF IInv, TypeOK
<1>8. /\ executions_archive' \subseteq ExecutionRows
      /\ \A x, y \in executions_archive' : PgKey(x, y) => x = y
  BY <1>2, <1>3, <1>6, <1>7
<1>9. /\ Tables' /\ Clocked' /\ Sources' /\ \A f \in Ids \ disturbed' : Undisturbed(f)'
  BY <1>2, <1>3, <1>8, DeleteRowsStep
<1>10. LastSaveSurvives'
  <2>1. executions' = executions \ rows BY <1>2 DEF DeleteRows
  <2> SUFFICES ASSUME NEW z \in lastSave
               PROVE  IF \E x \in executions' : PgKey(x, z)
                      THEN \E x \in executions' : PgKey(x, z) /\ x.status = z.status /\ x.seq = z.seq
                      ELSE z \in executions_archive'
    BY <1>2, <1>5 DEF LastSaveSurvives
  <2>2. IF \E x \in executions : PgKey(x, z)
        THEN \E x \in executions : PgKey(x, z) /\ x.status = z.status /\ x.seq = z.seq
        ELSE z \in executions_archive
    BY <1>4 DEF IInv, LastSaveSurvives
  <2>3. CASE ~\E x \in executions : PgKey(x, z) BY <1>2, <2>1, <2>2, <2>3
  <2>4. CASE \E x \in executions : PgKey(x, z)
    <3>1. PICK x \in executions : PgKey(x, z) /\ x.status = z.status /\ x.seq = z.seq BY <2>2, <2>4
    <3>2. \A y \in executions : PgKey(y, z) => y = x BY <1>7, <3>1 DEF PgKey
    <3>3. x = z BY <1>7, <3>1, RowColumns DEF PgKey
    <3> QED BY <1>2, <2>1, <3>1, <3>2, <3>3
  <2> QED BY <2>3, <2>4
<1> QED BY <1>9, <1>10 DEF Store

-----------------------------------------------------------------------------
(* Steps of state machine definitions                                       *)

LEMMA SaveStateMachineStep ==
    ASSUME Cached, NEW p \in Procs, SaveStateMachine(p)
    PROVE  Cached'
<1>1. /\ machine' = machine + 1 /\ saver' = [saver EXCEPT ![p] = machine + 1]
      /\ cache' = cache /\ reader' = reader /\ own' = own /\ raced' = raced
  BY DEF SaveStateMachine
<1>2. /\ machine \in Nat /\ saver \in [Procs -> 0..machine] /\ own \in [Procs -> 0..machine]
      /\ cache \in [Procs -> 0..machine] /\ reader \in [Procs -> 0..machine]
  BY DEF Cached, Definitions
<1>3. /\ machine' \in Nat /\ saver' \in [Procs -> 0..machine'] /\ own' \in [Procs -> 0..machine']
      /\ cache' \in [Procs -> 0..machine'] /\ reader' \in [Procs -> 0..machine']
  BY <1>1, <1>2
<1>4. \A q \in Procs \ raced' : /\ cache'[q] # 0 => cache'[q] >= own'[q]
                                /\ reader'[q] # 0 => reader'[q] >= own'[q]
  BY <1>1 DEF Cached, Definitions
<1> QED BY <1>3, <1>4 DEF Cached, Definitions

LEMMA InvalidateCacheStep ==
    ASSUME Cached, NEW p \in Procs, InvalidateCache(p)
    PROVE  Cached'
<1>1. /\ cache' = [cache EXCEPT ![p] = 0] /\ saver' = [saver EXCEPT ![p] = 0]
      /\ own' = [own EXCEPT ![p] = saver[p]] /\ machine' = machine /\ reader' = reader
      /\ raced' = IF reader[p] \in 1..(saver[p] - 1) THEN raced \cup {p} ELSE raced \ {p}
  BY DEF InvalidateCache
<1>2. /\ machine \in Nat /\ saver \in [Procs -> 0..machine] /\ own \in [Procs -> 0..machine]
      /\ cache \in [Procs -> 0..machine] /\ reader \in [Procs -> 0..machine]
  BY DEF Cached, Definitions
<1>3. /\ saver' \in [Procs -> 0..machine'] /\ own' \in [Procs -> 0..machine']
      /\ cache' \in [Procs -> 0..machine'] /\ reader' \in [Procs -> 0..machine']
  BY <1>1, <1>2
<1>4. ASSUME NEW q \in Procs \ raced'
      PROVE  /\ cache'[q] # 0 => cache'[q] >= own'[q]
             /\ reader'[q] # 0 => reader'[q] >= own'[q]
  <2>1. CASE q # p
    <3>1. q \notin raced BY <1>1, <1>4, <2>1
    <3>2. cache'[q] = cache[q] /\ own'[q] = own[q] BY <1>1, <1>2, <2>1
    <3> QED BY <1>1, <3>1, <3>2 DEF Cached, Definitions
  <2>2. CASE q = p
    <3>1. cache'[p] = 0 /\ own'[p] = saver[p] BY <1>1, <1>2
    <3>2. ~(reader[p] \in 1..(saver[p] - 1)) BY <1>1, <1>4, <2>2
    <3>3. reader[p] \in Nat /\ saver[p] \in Nat BY <1>2
    <3> QED BY <1>1, <2>2, <3>1, <3>2, <3>3
  <2> QED BY <2>1, <2>2
<1> QED BY <1>1, <1>2, <1>3, <1>4 DEF Cached, Definitions

LEMMA FetchStateMachineStep ==
    ASSUME Cached, NEW p \in Procs, FetchStateMachine(p)
    PROVE  Cached'
<1>1. /\ reader' = [reader EXCEPT ![p] = machine] /\ machine' = machine
      /\ cache' = cache /\ saver' = saver /\ own' = own /\ raced' = raced
  BY DEF FetchStateMachine
<1>2. /\ machine \in Nat /\ saver \in [Procs -> 0..machine] /\ own \in [Procs -> 0..machine]
      /\ cache \in [Procs -> 0..machine] /\ reader \in [Procs -> 0..machine]
  BY DEF Cached, Definitions
<1>3. reader' \in [Procs -> 0..machine'] BY <1>1, <1>2
<1>4. \A q \in Procs \ raced' : /\ cache'[q] # 0 => cache'[q] >= own'[q]
                                /\ reader'[q] # 0 => reader'[q] >= own'[q]
  <2>1. machine >= own[p] BY <1>2
  <2> QED BY <1>1, <1>2, <2>1 DEF Cached, Definitions
<1> QED BY <1>1, <1>2, <1>3, <1>4 DEF Cached, Definitions

LEMMA StoreStateMachineStep ==
    ASSUME Cached, NEW p \in Procs, StoreStateMachine(p)
    PROVE  Cached'
<1>1. /\ cache' = [cache EXCEPT ![p] = reader[p]] /\ reader' = [reader EXCEPT ![p] = 0]
      /\ reader[p] # 0 /\ machine' = machine /\ saver' = saver /\ own' = own /\ raced' = raced
  BY DEF StoreStateMachine
<1>2. /\ machine \in Nat /\ saver \in [Procs -> 0..machine] /\ own \in [Procs -> 0..machine]
      /\ cache \in [Procs -> 0..machine] /\ reader \in [Procs -> 0..machine]
  BY DEF Cached, Definitions
<1>3. cache' \in [Procs -> 0..machine'] /\ reader' \in [Procs -> 0..machine'] BY <1>1, <1>2
<1>4. \A q \in Procs \ raced' : /\ cache'[q] # 0 => cache'[q] >= own'[q]
                                /\ reader'[q] # 0 => reader'[q] >= own'[q]
  BY <1>1, <1>2 DEF Cached, Definitions
<1> QED BY <1>1, <1>2, <1>3, <1>4 DEF Cached, Definitions

-----------------------------------------------------------------------------
(* Invariance                                                               *)

LEMMA Initial == Init => IInv
<1> SUFFICES ASSUME Init PROVE IInv OBVIOUS
<1>1. TypeOK
  <2>1. Idle \in Contexts BY RepositoryAssumption DEF Idle, Contexts
  <2>2. run \in [Ids -> Contexts] BY <2>1 DEF Init
  <2>3. others \in [Ids -> Seq(Contexts)] BY DEF Init
  <2> QED BY <2>2, <2>3 DEF Init, TypeOK
<1>2. Clocked BY DEF Init, Clocked, Idle
<1>3. Sources BY DEF Init, Sources, Idle
<1>4. Definitions BY DEF Init, Definitions
<1>5. LastSaveSurvives BY DEF Init, LastSaveSurvives
<1>6. \A e \in Ids \ disturbed : Undisturbed(e)
  BY DEF Init, Undisturbed, Fresh, OneRow, Waits, Linked, Ordered, Idle
<1>7. Concurrent
  <2>1. \A e \in Ids : others[e] = <<>> BY DEF Init
  <2>2. \A e \in Ids : Len(others[e]) = 0 BY <2>1
  <2> QED BY <1>1, <2>1, <2>2 DEF Init, TypeOK, Concurrent
<1> QED BY <1>1, <1>2, <1>3, <1>4, <1>5, <1>6, <1>7 DEF IInv

LEMMA Inductive == IInv /\ [Next]_vars => IInv'
<1> SUFFICES ASSUME IInv, [Next]_vars PROVE IInv' OBVIOUS
<1>1. Store /\ Cached BY Parts
<1>2. Store' /\ Cached' /\ Concurrent' => IInv' BY Parts, PTL
<1>3. CASE UNCHANGED vars
  <2>1. UNCHANGED machines
        /\ strategy' = strategy /\ executions' = executions /\ state_history' = state_history
        /\ message_correlations' = message_correlations
        /\ linked_executions' = linked_executions /\ executions_archive' = executions_archive
        /\ lastSave' = lastSave /\ source' = source /\ disturbed' = disturbed
        /\ run' = run /\ others' = others /\ messages' = messages /\ clock' = clock
    BY <1>3 DEF vars, tables, goroutines
  <2>2. Cached' BY <1>1, <2>1, CachedUnchanged
  <2>3. Tables' BY <1>1, <2>1 DEF Store, Tables, SameKey, GormKey, PgKey, Gorm
  <2>4. Clocked' /\ Sources' BY <1>1, <2>1 DEF Store, Clocked, Sources
  <2>5. LastSaveSurvives'
    BY <1>1, <2>1 DEF Store, LastSaveSurvives, SameKey, GormKey, PgKey, Gorm
  <2>6. \A e \in Ids \ disturbed' : Undisturbed(e)'
    BY <1>1, <2>1 DEF Store, Undisturbed, Fresh, OneRow, Waits, Linked, Ordered, Gorm
  <2>7. Concurrent' BY <2>1, ConcurrentKept
  <2> QED BY <1>2, <2>2, <2>3, <2>4, <2>5, <2>6, <2>7 DEF Store
<1>4. ASSUME NEW e \in Ids, NEW src \in Ids \cup {NoId}, Execute(e, src) PROVE IInv'
  <2>1. Store' BY <1>4, ExecuteStep DEF Execute
  <2>2. Cached' BY <1>1, <1>4, CachedUnchanged DEF Execute
  <2>3. source \in [Ids -> Ids \cup {NoId}] BY DEF IInv, Sources
  <2>4. \A f \in Ids : others[f] # <<>> => source'[f] = source[f] BY <1>4, <2>3 DEF Execute
  <2>5. Concurrent' BY <1>4, <2>4, ConcurrentKept DEF Execute, Tick
  <2> QED BY <1>2, <2>1, <2>2, <2>5
<1>5. ASSUME NEW e \in Ids, SaveLinkedExecution(e) PROVE IInv'
  <2>1. Store' BY <1>5, SaveLinkedExecutionStep DEF SaveLinkedExecution
  <2>2. Cached' BY <1>1, <1>5, CachedUnchanged DEF SaveLinkedExecution
  <2>3. Concurrent' BY <1>5, ConcurrentKept DEF SaveLinkedExecution, Tick
  <2> QED BY <1>2, <2>1, <2>2, <2>3
<1>6. ASSUME NEW e \in Ids, NEW s \in StateNames, RecordState(e, s) PROVE IInv'
  <2>1. Store' BY <1>6, RecordStateStep DEF RecordState
  <2>2. Cached' BY <1>1, <1>6, CachedUnchanged DEF RecordState
  <2>3. Concurrent' BY <1>6, ConcurrentKept DEF RecordState, Tick
  <2> QED BY <1>2, <2>1, <2>2, <2>3
<1>7. ASSUME NEW e \in Ids, WaitForMessage(e) PROVE IInv'
  <2>1. Store' BY <1>7, WaitForMessageStep DEF WaitForMessage
  <2>2. Cached' BY <1>1, <1>7, CachedUnchanged DEF WaitForMessage
  <2>3. Concurrent' BY <1>7, ConcurrentKept DEF WaitForMessage, Tick
  <2> QED BY <1>2, <2>1, <2>2, <2>3
<1>8. ASSUME NEW e \in Ids, Pause(e) PROVE IInv'
  <2>1. Store' BY <1>8, PersistStep DEF Pause
  <2>2. Cached' BY <1>1, <1>8, CachedUnchanged DEF Pause, Persist
  <2>3. Concurrent' BY <1>8, ConcurrentKept DEF Pause, Persist, Tick
  <2> QED BY <1>2, <2>1, <2>2, <2>3
<1>9. ASSUME NEW e \in Ids, Finish(e) PROVE IInv'
  <2>1. Store' BY <1>9, PersistStep DEF Finish
  <2>2. Cached' BY <1>1, <1>9, CachedUnchanged DEF Finish, Persist
  <2>3. Concurrent' BY <1>9, ConcurrentKept DEF Finish, Persist, Tick
  <2> QED BY <1>2, <2>1, <2>2, <2>3
<1>10. ASSUME NEW e \in Ids, Crash(e) PROVE IInv'
  <2>1. Store' BY <1>10, CrashStep DEF Crash
  <2>2. Cached' BY <1>1, <1>10, CachedUnchanged DEF Crash
  <2>3. Concurrent' BY <1>10, ConcurrentKept DEF Crash, Tick
  <2> QED BY <1>2, <2>1, <2>2, <2>3
<1>11. ASSUME NEW e \in Ids, DeleteExecution(e) PROVE IInv'
  <2>1. Store' BY <1>11, DeleteExecutionStep DEF DeleteExecution
  <2>2. Cached' BY <1>1, <1>11, CachedUnchanged DEF DeleteExecution
  <2>3. Concurrent' BY <1>11, ConcurrentKept DEF DeleteExecution, DeleteRows, goroutines, Tick
  <2> QED BY <1>2, <2>1, <2>2, <2>3
<1>12. ASSUME NEW cutoff \in 1..MaxCalls, ArchiveOldExecutions(cutoff) PROVE IInv'
  <2>1. Store' BY <1>12, ArchiveOldExecutionsStep DEF ArchiveOldExecutions
  <2>2. Cached' BY <1>1, <1>12, CachedUnchanged DEF ArchiveOldExecutions
  <2>3. Concurrent' BY <1>12, ConcurrentKept DEF ArchiveOldExecutions, DeleteRows, goroutines, Tick
  <2> QED BY <1>2, <2>1, <2>2, <2>3
<1>13. ASSUME NEW x \in messages, ResumeExecution(x) PROVE IInv'
  BY <1>1, <1>2, <1>13, ResumeExecutionStep, ResumeExecutionConcurrent, CachedUnchanged
  DEF ResumeExecution
<1>14. ASSUME NEW e \in Ids, Switch(e) PROVE IInv'
  BY <1>1, <1>2, <1>14, SwitchStep, CachedUnchanged DEF Switch
<1>15. ASSUME NEW e \in Ids, FindWaiting(e) PROVE IInv'
  BY <1>1, <1>2, <1>15, FindWaitingStep, StoreUnchanged, CachedUnchanged DEF FindWaiting
<1>16. ASSUME NEW p \in Procs, SaveStateMachine(p) PROVE IInv'
  <2>1. Cached' BY <1>1, <1>16, SaveStateMachineStep
  <2>2. Store' BY <1>1, <1>16, StoreUnchanged DEF SaveStateMachine, goroutines, Tick
  <2>3. Concurrent' BY <1>16, ConcurrentKept DEF SaveStateMachine, goroutines, Tick
  <2> QED BY <1>2, <2>1, <2>2, <2>3
<1>17. ASSUME NEW p \in Procs, InvalidateCache(p) PROVE IInv'
  <2>1. Cached' BY <1>1, <1>17, InvalidateCacheStep
  <2>2. Store' BY <1>1, <1>17, StoreUnchanged DEF InvalidateCache, goroutines, Tick
  <2>3. Concurrent' BY <1>17, ConcurrentKept DEF InvalidateCache, goroutines, Tick
  <2> QED BY <1>2, <2>1, <2>2, <2>3
<1>18. ASSUME NEW p \in Procs, FetchStateMachine(p) PROVE IInv'
  <2>1. Cached' BY <1>1, <1>18, FetchStateMachineStep
  <2>2. Store' BY <1>1, <1>18, StoreUnchanged DEF FetchStateMachine, goroutines, Tick
  <2>3. Concurrent' BY <1>18, ConcurrentKept DEF FetchStateMachine, goroutines, Tick
  <2> QED BY <1>2, <2>1, <2>2, <2>3
<1>19. ASSUME NEW p \in Procs, StoreStateMachine(p) PROVE IInv'
  <2>1. Cached' BY <1>1, <1>19, StoreStateMachineStep
  <2>2. Store' BY <1>1, <1>19, StoreUnchanged DEF StoreStateMachine, goroutines, Tick
  <2>3. Concurrent' BY <1>19, ConcurrentKept DEF StoreStateMachine, goroutines, Tick
  <2> QED BY <1>2, <2>1, <2>2, <2>3
<1> QED BY <1>3, <1>4, <1>5, <1>6, <1>7, <1>8, <1>9, <1>10, <1>11,
           <1>12, <1>13, <1>14, <1>15, <1>16, <1>17, <1>18, <1>19 DEF Next

(* The invariant above holds of every state the calls on the persistence    *)
(* layer reach, for either strategy.                                        *)
THEOREM Invariance == Spec => []IInv
BY Initial, Inductive, PTL DEF Spec

(* Every row the strategies write has its type, and the primary keys that   *)
(* Initialize creates for executions and their archive stay unique.         *)
THEOREM TypeCorrect == Spec => []TypeOK
<1>1. IInv => TypeOK BY DEF IInv
<1> QED BY <1>1, Invariance, PTL

(* What SaveExecution wrote last is in the table or the archive until the   *)
(* execution is deleted.                                                    *)
THEOREM LastSaveSurvivesHolds == Spec => []LastSaveSurvives
<1>1. IInv => LastSaveSurvives BY DEF IInv
<1> QED BY <1>1, Invariance, PTL

(* A process never uses a state machine definition older than the one it    *)
(* saved last, unless a lookup of its own was under way while it saved.     *)
THEOREM ReadYourWritesHolds == Spec => []ReadYourWrites
<1>1. IInv => ReadYourWrites BY DEF IInv, Definitions, ReadYourWrites
<1> QED BY <1>1, Invariance, PTL

(* GetExecutionOutput of gorm_postgres.go returns the output of the most    *)
(* recent run of a state, for every execution that ran once, one goroutine  *)
(* at a time.                                                               *)
THEOREM GormLatestOutputHolds == Spec => []GormLatestOutput
<1>1. IInv => GormLatestOutput
  <2> SUFFICES ASSUME IInv, Gorm, NEW e \in Ids \ disturbed, NEW s \in StateNames,
                      NEW h \in GetExecutionOutput(e, s), NEW k \in GetStateHistory(e, s)
               PROVE  k.at <= h.at
    BY DEF GormLatestOutput, LatestOutput
  <2>1. Ordered(e) BY DEF IInv, Undisturbed
  <2>2. /\ h \in state_history /\ h.id = e /\ k \in state_history /\ k.id = e
        /\ k.seq <= h.seq
    BY DEF GetExecutionOutput, GetStateHistory
  <2> QED BY <2>1, <2>2 DEF Ordered
<1> QED BY <1>1, Invariance, PTL

(* FindWaitingExecutionsByCorrelation never hands a message to an execution *)
(* that has finished, unless two goroutines ran it, it was run from an      *)
(* outdated record, or it was restarted, removed or cut off.                *)
THEOREM WaitingNotFinishedHolds == Spec => []WaitingNotFinished
<1>1. IInv => WaitingNotFinished
  <2> SUFFICES ASSUME IInv, NEW e \in FindWaitingExecutionsByCorrelation, e \notin disturbed
               PROVE  GetExecution(e).status # "SUCCEEDED"
    BY DEF WaitingNotFinished
  <2>1. executions \subseteq ExecutionRows /\ message_correlations \subseteq CorrelationRows
    BY DEF IInv, TypeOK
  <2>2. RowsOf(e) # {} /\ \E c \in message_correlations : c.id = e /\ c.status = "WAITING"
    BY DEF FindWaitingExecutionsByCorrelation, FindWaitingCorrelations
  <2>3. e \in Ids BY <2>1, <2>2 DEF CorrelationRows
  <2>4. PICK y \in RowsOf(e) : GetExecution(e).status = y.status BY <2>1, <2>2, Got
  <2>5. Waits(e) BY <2>3 DEF IInv, Undisturbed
  <2> QED BY <2>2, <2>4, <2>5 DEF Waits, RowsOf
<1> QED BY <1>1, Invariance, PTL

(* The source of a finished chained execution is no longer listed as not    *)
(* linked, so ApplyUnique does not process it again.                        *)
THEOREM LinkedOnceHolds == Spec => []LinkedOnce
<1>1. IInv => LinkedOnce
  <2> SUFFICES ASSUME IInv, NEW x \in executions, x.status = "SUCCEEDED", source[x.id] # NoId,
                      x.id \notin disturbed, source[x.id] \notin disturbed
               PROVE  source[x.id] \notin ListNonLinkedExecutions
    BY DEF LinkedOnce
  <2>1. x.id \in Ids BY DEF IInv, TypeOK, ExecutionRows
  <2>2. OneRow(x.id) /\ Linked(x.id) BY <2>1 DEF IInv, Undisturbed
  <2>3. run[x.id].at = "none" BY <2>2 DEF OneRow
  <2>4. PICK l : l = [source |-> source[x.id], target |-> x.id] OBVIOUS
  <2>5. l \in linked_executions BY <2>2, <2>3, <2>4 DEF Linked
  <2>6. l.source = source[x.id] BY <2>4
  <2> QED BY <2>5, <2>6 DEF ListNonLinkedExecutions
<1> QED BY <1>1, Invariance, PTL

Joined(l, n) == [link |-> l, row |-> n]

LEMMA JoinedFields == \A l, n : Joined(l, n).link = l /\ Joined(l, n).row = n
BY DEF Joined

(* CountLinkedExecutions and ListLinkedExecutions agree, a link appears     *)
(* twice only when its source was restarted under "postgres", and a listed  *)
(* source is never also listed as not linked.                               *)
THEOREM LinksAgreeHolds == Spec => []LinksAgree
<1>1. IInv => LinksAgree
  <2> SUFFICES ASSUME IInv, NEW f \in LinkFilters
               PROVE  /\ CountLinkedExecutions(f) = Cardinality(ListLinkedExecutions(f))
                      /\ \A r, q \in ListLinkedExecutions(f) : r.link = q.link /\ r # q =>
                            ~Gorm /\ r.link.source \in disturbed
                      /\ \A r \in ListLinkedExecutions(f) :
                            r.link.source \notin ListNonLinkedExecutions
    BY DEF LinksAgree
  <2>1. CountLinkedExecutions(f) = Cardinality(ListLinkedExecutions(f))
    BY DEF CountLinkedExecutions, ListLinkedExecutions
  <2>2. ASSUME NEW r \in ListLinkedExecutions(f)
        PROVE  \E l \in linked_executions :
                  \/ f.status = "" /\ r = Joined(l, 0)
                  \/ /\ f.status # ""
                     /\ \E x \in RowsOf(l.source) : r = Joined(l, x.start)
    <3>1. r \in JoinedLinks(f) BY <2>2 DEF ListLinkedExecutions
    <3>2. CASE f.status = "" BY <3>1, <3>2 DEF JoinedLinks, Joined
    <3>3. CASE f.status # "" BY <3>1, <3>3 DEF JoinedLinks, Joined
    <3> QED BY <3>2, <3>3
  <2>3. \A r \in ListLinkedExecutions(f) : r.link \in linked_executions
    <3>1. ASSUME NEW r \in ListLinkedExecutions(f) PROVE r.link \in linked_executions
      <4>1. PICK l \in linked_executions : \E n : r = Joined(l, n) BY <2>2
      <4> QED BY <4>1, JoinedFields
    <3> QED BY <3>1
  <2>4. ASSUME NEW r \in ListLinkedExecutions(f), NEW q \in ListLinkedExecutions(f),
               r.link = q.link, r # q
        PROVE  ~Gorm /\ r.link.source \in disturbed
    <3>1. PICK l \in linked_executions :
             \/ f.status = "" /\ r = Joined(l, 0)
             \/ /\ f.status # ""
                /\ \E x \in RowsOf(l.source) : r = Joined(l, x.start)
      BY <2>2
    <3>2. PICK k \in linked_executions :
             \/ f.status = "" /\ q = Joined(k, 0)
             \/ /\ f.status # ""
                /\ \E x \in RowsOf(k.source) : q = Joined(k, x.start)
      BY <2>2
    <3>3. r.link = l /\ q.link = k BY <3>1, <3>2, JoinedFields
    <3>4. l = k BY <2>4, <3>3
    <3>5. f.status # "" BY <2>4, <3>1, <3>2, <3>4
    <3>6. PICK x \in RowsOf(l.source) : r = Joined(l, x.start) BY <3>1, <3>5
    <3>7. PICK y \in RowsOf(l.source) : q = Joined(l, y.start) BY <3>2, <3>4, <3>5
    <3>8. x # y BY <2>4, <3>6, <3>7
    <3>9. x \in executions /\ y \in executions /\ x.id = l.source /\ y.id = l.source
      BY DEF RowsOf
    <3>10. l.source \in Ids BY DEF IInv, TypeOK, LinkRows
    <3>11. ~Gorm BY <3>8, <3>9 DEF IInv, TypeOK, SameKey, GormKey
    <3>12. l.source \in disturbed BY <3>8, <3>9, <3>10 DEF IInv, Undisturbed, OneRow
    <3> QED BY <3>3, <3>11, <3>12
  <2>5. \A r \in ListLinkedExecutions(f) : r.link.source \notin ListNonLinkedExecutions
    BY <2>3 DEF ListNonLinkedExecutions
  <2> QED BY <2>1, <2>4, <2>5
<1> QED BY <1>1, Invariance, PTL

-----------------------------------------------------------------------------
(* Listing executions                                                       *)

LEMMA SameWithoutSeq ==
    ASSUME NEW x \in ExecutionRows, NEW y \in ExecutionRows,
           x.id = y.id, x.start = y.start, x.status = y.status
    PROVE  WithoutSeq(x) = WithoutSeq(y)
BY DEF WithoutSeq, ExecutionRows

Found(f) == {x \in executions : Matches(x, f)}

LEMMA Listed ==
    ASSUME NEW f, executions \subseteq ExecutionRows
    PROVE  /\ Gorm => ListExecutions(f) = Found(f)
           /\ ~Gorm => ListExecutions(f) =
                 {x \in Found(f) : \A y \in Found(f) : y.id = x.id => y.start <= x.start}
           /\ ListExecutions(f) \subseteq Found(f)
           /\ \A x \in Found(f) : \E z \in ListExecutions(f) : z.id = x.id
<1>1. Found(f) \subseteq ExecutionRows BY DEF Found
<1>2. CASE Gorm
  <2>1. ListExecutions(f) = Found(f) BY <1>2 DEF ListExecutions, GormListExecutions, Found
  <2> QED BY <1>2, <2>1
<1>3. CASE ~Gorm
  <2>1. ListExecutions(f) =
           {x \in Found(f) : \A y \in Found(f) : y.id = x.id => y.start <= x.start}
    BY <1>3 DEF ListExecutions, PgListExecutions, Found
  <2>2. ASSUME NEW x \in Found(f) PROVE \E z \in ListExecutions(f) : z.id = x.id
    <3>1. PICK X : X = {y \in Found(f) : y.id = x.id} OBVIOUS
    <3>2. X \in SUBSET ExecutionRows /\ X # {} BY <1>1, <2>2, <3>1
    <3>3. PICK z \in X : \A y \in X : y.start <= z.start BY <3>2, LatestRow
    <3> QED BY <2>1, <3>1, <3>3
  <2> QED BY <1>3, <2>1, <2>2
<1> QED BY <1>2, <1>3

(* ListExecutions, ListExecutionIDs, CountExecutions and                    *)
(* FindOrphanedExecutions agree, and a listed row is the one GetExecution   *)
(* returns.                                                                 *)
THEOREM ListShowsCurrentHolds == Spec => []ListShowsCurrent
<1>1. IInv => ListShowsCurrent
  <2> SUFFICES ASSUME IInv, NEW f \in Filters, ~QueryFails(f)
               PROVE  /\ ListExecutionIDs(f) = {x.id : x \in ListExecutions(f)}
                      /\ \A x \in ListExecutions(f) : x.id \notin disturbed \/ f = NoFilter =>
                            WithoutSeq(x) = WithoutSeq(GetExecution(x.id))
                      /\ (\A x \in ListExecutions(f) : x.id \notin disturbed) =>
                            CountExecutions(f) = Cardinality(ListExecutions(f))
                      /\ f = Orphans => ListExecutions(f) = FindOrphanedExecutions(f.before + 1)
    BY DEF ListShowsCurrent
  <2>1. executions \subseteq ExecutionRows /\ \A x, y \in executions : SameKey(x, y) => x = y
    BY DEF IInv, TypeOK
  <2>2. /\ Gorm => ListExecutions(f) = Found(f)
        /\ ~Gorm => ListExecutions(f) =
              {x \in Found(f) : \A y \in Found(f) : y.id = x.id => y.start <= x.start}
        /\ ListExecutions(f) \subseteq Found(f)
        /\ \A x \in Found(f) : \E z \in ListExecutions(f) : z.id = x.id
    BY <2>1, Listed
  <2>3. Found(f) \subseteq executions BY DEF Found
  <2>4. ListExecutionIDs(f) = {x.id : x \in ListExecutions(f)}
    <3>1. ListExecutionIDs(f) = {x.id : x \in Found(f)} BY DEF ListExecutionIDs, Found
    <3> QED BY <2>2, <3>1
  <2>5. \A x, y \in executions : x.id = y.id /\ x.id \notin disturbed => x = y
    <3>1. \A x \in executions : x.id \in Ids BY <2>1 DEF ExecutionRows
    <3> QED BY <3>1 DEF IInv, Undisturbed, OneRow
  <2>6. ASSUME NEW x \in ListExecutions(f), x.id \notin disturbed \/ f = NoFilter
        PROVE  WithoutSeq(x) = WithoutSeq(GetExecution(x.id))
    <3>1. x \in executions /\ x \in RowsOf(x.id) /\ x \in ExecutionRows
      BY <2>1, <2>2, <2>3, <2>6 DEF RowsOf
    <3>2. PICK g : g = GetExecution(x.id) OBVIOUS
    <3>3. g \in ExecutionRows BY <2>1, <3>1, <3>2, Got
    <3>4. PICK y \in RowsOf(x.id) :
             /\ g.id = y.id /\ g.start = y.start /\ g.status = y.status
             /\ ~Gorm => \A z \in RowsOf(x.id) : z.start <= y.start
      BY <2>1, <3>1, <3>2, Got
    <3>5. y \in executions /\ y.id = x.id /\ y \in ExecutionRows BY <2>1, <3>4 DEF RowsOf
    <3>6. y = x
      <4>1. CASE Gorm BY <2>1, <3>1, <3>5, <4>1 DEF SameKey, GormKey
      <4>2. CASE ~Gorm /\ f # NoFilter BY <2>5, <2>6, <3>1, <3>5, <4>2
      <4>3. CASE ~Gorm /\ f = NoFilter
        <5>1. f.status = "" /\ f.after = 0 /\ f.before = 0 BY <4>3 DEF NoFilter
        <5>2. Found(f) = executions BY <5>1 DEF Found, Matches
        <5>3. y.start <= x.start BY <2>2, <2>6, <3>5, <4>3, <5>2
        <5>4. x.start <= y.start BY <3>1, <3>4, <4>3
        <5>5. x.start = y.start BY <3>1, <3>5, <5>3, <5>4 DEF ExecutionRows
        <5> QED BY <2>1, <3>1, <3>5, <4>3, <5>5 DEF SameKey, PgKey
      <4> QED BY <4>1, <4>2, <4>3
    <3> QED BY <3>1, <3>2, <3>3, <3>4, <3>6, SameWithoutSeq
  <2>7. ASSUME \A x \in ListExecutions(f) : x.id \notin disturbed
        PROVE  CountExecutions(f) = Cardinality(ListExecutions(f))
    <3>1. \A x \in Found(f) : x \in ListExecutions(f) BY <2>2, <2>3, <2>5, <2>7
    <3>2. ListExecutions(f) = Found(f) BY <2>2, <3>1
    <3> QED BY <3>2 DEF CountExecutions, Found
  <2>8. ASSUME f = Orphans PROVE ListExecutions(f) = FindOrphanedExecutions(f.before + 1)
    <3>1. f.status = "RUNNING" /\ f.after = 0 /\ f.before = 2 BY <2>8 DEF Orphans
    <3>2. Gorm BY <3>1 DEF QueryFails
    <3>3. \A x \in executions : Matches(x, f) <=> x.status = "RUNNING" /\ x.start < 3
      BY <2>1, <3>1 DEF Matches, ExecutionRows
    <3>4. f.before + 1 = 3 BY <3>1
    <3> QED BY <2>2, <3>2, <3>3, <3>4 DEF Found, FindOrphanedExecutions
  <2> QED BY <2>4, <2>6, <2>7, <2>8
<1> QED BY <1>1, Invariance, PTL

=============================================================================
