----------------------------- MODULE Repository -----------------------------
(***************************************************************************)
(* The persistence layer: the executions, state_history,                   *)
(* message_correlations, linked_executions and state_machines tables as    *)
(* pkg/repository reads and writes them, for both strategies a Manager can *)
(* be given ("postgres" and "gorm-postgres"), under the calls that a       *)
(* persistent state machine makes while it runs, pauses and resumes        *)
(* executions, and under deletion, archiving and chaining.                 *)
(*                                                                         *)
(* The two strategies differ in their keys: with "gorm-postgres" an        *)
(* execution is keyed by its id, with "postgres" by its id and start time. *)
(* A call is one step. Every call takes one tick of the clock, so ticks    *)
(* also serve as start times and as the nanoseconds in history ids.        *)
(***************************************************************************)
EXTENDS Integers, FiniteSets, Sequences

CONSTANTS
    Ids,        \* execution ids
    Procs,      \* processes, each with one Manager
    NoId,       \* "" as a source execution id
    MaxCalls    \* bound: calls in a behaviour

ASSUME RepositoryAssumption == NoId \notin Ids /\ MaxCalls \in Nat

VARIABLES
    strategy,               \* config.Strategy
    executions,             \* rows [id, start, status, seq]
    state_history,          \* rows [id, start, state, seq, at]
    message_correlations,   \* rows [id, start, status], one per execution
    linked_executions,      \* rows [source, target]
    executions_archive,     \* rows of executions
    machine,                \* version of the row in state_machines, 0: none
    cache,                  \* stateMachineCache of each process, 0: no entry
    reader,                 \* per process: version a GetStateMachine fetched, 0: none
    saver,                  \* per process: version a SaveStateMachine wrote, 0: none
    run,                    \* per id: the execution in the memory of the goroutine that runs it
    others,                 \* per id: in the memory of further goroutines that run it
    messages,               \* records that messages found and have not resumed yet
    clock,
    lastSave,   \* history: what the last SaveExecution of each key wrote
    disturbed,  \* history: ids executed twice, removed, cut off by the death of a process,
                \* resumed while they ran or from an outdated record, or not linked
    source,     \* history: the source execution of each chained execution
    own,        \* history: per process, the version of its last finished save
    raced       \* history: processes in which a fetch overlapped that save

tables == <<executions, state_history, message_correlations, linked_executions,
            executions_archive>>
machines == <<machine, cache, reader, saver, own, raced>>
goroutines == <<run, others, messages>>
vars == <<strategy, tables, machines, goroutines, clock, lastSave, disturbed, source>>

Gorm == strategy = "gorm-postgres"

\* A task state and a Message state.
StateNames == {"T", "M"}

Tick == clock < MaxCalls /\ clock' = clock + 1

Idle == [at |-> "none", start |-> 0, seq |-> 0]

\* NewPersistenceManager: any other strategy is an error.
Init ==
    /\ strategy \in {"postgres", "gorm-postgres"}
    /\ executions = {} /\ state_history = {} /\ message_correlations = {}
    /\ linked_executions = {} /\ executions_archive = {}
    /\ machine = 0
    /\ cache = [p \in Procs |-> 0] /\ reader = [p \in Procs |-> 0]
    /\ saver = [p \in Procs |-> 0] /\ own = [p \in Procs |-> 0] /\ raced = {}
    /\ run = [e \in Ids |-> Idle] /\ others = [e \in Ids |-> <<>>] /\ messages = {}
    /\ clock = 1
    /\ lastSave = {} /\ disturbed = {}
    /\ source = [e \in Ids |-> NoId]

-----------------------------------------------------------------------------
(* Writing.                                                                *)

\* The primary keys and the foreign keys that Initialize creates.
GormKey(x, y) == x.id = y.id

PgKey(x, y) == x.id = y.id /\ x.start = y.start

SameKey(x, y) == IF Gorm THEN GormKey(x, y) ELSE PgKey(x, y)

\* Variant: the key is the one of the other strategy.
GormSaveExecutionByStart(r) ==
    {x \in executions : ~PgKey(x, r)} \cup {r}

\* INSERT; on a duplicate key UPDATE of status and history_sequence_number, which
\* leaves the start time alone.
GormSaveExecution(r) ==
    IF \E x \in executions : GormKey(x, r)
    THEN {IF GormKey(x, r) THEN [x EXCEPT !.status = r.status, !.seq = r.seq] ELSE x :
              x \in executions}
    ELSE executions \cup {r}

\* INSERT ... ON CONFLICT (execution_id, start_time) DO UPDATE.
PgSaveExecution(r) ==
    {x \in executions : ~PgKey(x, r)} \cup {r}

\* Manager.SaveExecution.
SaveExecution(r) ==
    /\ executions' = IF Gorm THEN GormSaveExecution(r) ELSE PgSaveExecution(r)
    /\ lastSave' = {x \in lastSave : ~SameKey(x, r)} \cup {r}

\* State history refers to an execution: without one the INSERT fails, and the
\* caller prints a warning.
GormSaveStateHistory(h) ==
    IF \E x \in executions : GormKey(x, h) THEN state_history \cup {h} ELSE state_history

PgSaveStateHistory(h) ==
    IF \E x \in executions : PgKey(x, h) THEN state_history \cup {h} ELSE state_history

SaveStateHistory(h) ==
    state_history' = IF Gorm THEN GormSaveStateHistory(h) ELSE PgSaveStateHistory(h)

\* Save: all columns are replaced, and nothing refers to executions.
GormSaveMessageCorrelation(c) ==
    {x \in message_correlations : x.id # c.id} \cup {c}

\* INSERT ... ON CONFLICT (id) DO UPDATE of the status, so that a row keeps the start
\* time it was inserted with; the INSERT needs its execution.
PgSaveMessageCorrelation(c) ==
    IF \E x \in message_correlations : x.id = c.id
    THEN {IF x.id = c.id THEN [x EXCEPT !.status = c.status] ELSE x :
              x \in message_correlations}
    ELSE message_correlations \cup {y \in {c} : \E x \in executions : PgKey(x, y)}

SaveMessageCorrelation(c) ==
    message_correlations' = IF Gorm THEN GormSaveMessageCorrelation(c)
                            ELSE PgSaveMessageCorrelation(c)

\* Variant: a received message leaves the correlation as it is.
UpdateCorrelationStatusNot(e, status) == message_correlations

\* UpdateCorrelationStatus; nothing happens when there is no row.
UpdateCorrelationStatus(e, status) ==
    {IF x.id = e THEN [x EXCEPT !.status = status] ELSE x : x \in message_correlations}

\* Deleting rows of executions takes the rows that refer to them along; only with
\* "postgres" do message correlations refer to executions.
DeleteRows(rows) ==
    LET left == executions \ rows
        Owned(x) == \E y \in left : SameKey(x, y) IN
    /\ executions' = left
    /\ state_history' = {x \in state_history : Owned(x)}
    /\ message_correlations' = IF Gorm THEN message_correlations
                               ELSE {x \in message_correlations : Owned(x)}
    /\ disturbed' = disturbed \cup {x.id : x \in rows}

-----------------------------------------------------------------------------
(* Reading.                                                                *)

RowsOf(e) == {x \in executions : x.id = e}

\* Variant: the history sequence number is not among the columns read.
GormGetExecutionNoSeq(e) == [(CHOOSE x \in RowsOf(e) : TRUE) EXCEPT !.seq = 0]

GormGetExecution(e) == CHOOSE x \in RowsOf(e) : TRUE

\* The row that started last. history_sequence_number is not among the columns of the
\* query, so the record says 0.
PgGetExecution(e) ==
    [(CHOOSE x \in RowsOf(e) : \A y \in RowsOf(e) : y.start <= x.start) EXCEPT !.seq = 0]

GetExecution(e) == IF Gorm THEN GormGetExecution(e) ELSE PgGetExecution(e)

\* buildExecutionFilters and addFiltersToQuery; "" and 0 are fields not set.
Matches(x, f) ==
    /\ f.status \in {"", x.status}
    /\ f.after = 0 \/ x.start >= f.after
    /\ f.before = 0 \/ x.start <= f.before

\* With "postgres" the condition on StartBefore names a column that does not exist.
QueryFails(f) == ~Gorm /\ f.before # 0

GormListExecutions(f) == {x \in executions : Matches(x, f)}

\* Variant: a row is listed for each start time.
PgListExecutionsAll(f) == {x \in executions : Matches(x, f)}

\* DISTINCT ON (execution_id) over the rows that match, latest start first.
PgListExecutions(f) ==
    LET found == {x \in executions : Matches(x, f)} IN
    {x \in found : \A y \in found : y.id = x.id => y.start <= x.start}

ListExecutions(f) == IF Gorm THEN GormListExecutions(f) ELSE PgListExecutions(f)

ListExecutionIDs(f) == {x.id : x \in {y \in executions : Matches(y, f)}}

\* COUNT over the rows.
CountExecutions(f) == Cardinality({x \in executions : Matches(x, f)})

FindOrphanedExecutions(cutoff) ==
    {x \in executions : x.status = "RUNNING" /\ x.start < cutoff}

\* FindWaitingCorrelations with the status filter that Manager sets.
FindWaitingCorrelations == {c \in message_correlations : c.status = "WAITING"}

\* Executions of correlations that wait; those GetExecution does not find are skipped.
FindWaitingExecutionsByCorrelation ==
    {e \in {c.id : c \in FindWaitingCorrelations} : RowsOf(e) # {}}

\* GetStateHistory in the order of GetExecutionOutput for one state.
GetStateHistory(e, s) == {h \in state_history : h.id = e /\ h.state = s}

\* The rows with the highest sequence number; the database picks one of them.
GetExecutionOutput(e, s) ==
    {h \in GetStateHistory(e, s) : \A k \in GetStateHistory(e, s) : k.seq <= h.seq}

\* A filter on the status of the source joins executions, one result per joined row.
\* "row" tells the results of one link apart.
JoinedLinks(f) ==
    IF f.status = ""
    THEN {[link |-> l, row |-> 0] : l \in linked_executions}
    ELSE UNION {{[link |-> l, row |-> x.start] :
                     x \in {y \in RowsOf(l.source) : y.status = f.status}} :
                l \in linked_executions}

\* Both strategies build the same query.
ListLinkedExecutions(f) ==
    {r \in JoinedLinks(f) : f.source \in {NoId, r.link.source}}

\* Variant: the status of the source is not looked at.
CountLinkedExecutionsAll(f) ==
    Cardinality({l \in linked_executions : f.source \in {NoId, l.source}})

CountLinkedExecutions(f) ==
    Cardinality({r \in JoinedLinks(f) : f.source \in {NoId, r.link.source}})

\* Variant: executions that are not the target of a link.
ListNonLinkedExecutionsTarget ==
    {x.id : x \in executions} \ {l.target : l \in linked_executions}

\* Executions that are not the source of a link; the sub-query does not use the source
\* status of the filter. (With "postgres" this method panics.)
ListNonLinkedExecutions ==
    {x.id : x \in executions} \ {l.source : l \in linked_executions}

-----------------------------------------------------------------------------
(* A persistent state machine running execution e.                         *)

\* Execute with an Execution whose ID the caller chose: SaveExecution of a RUNNING
\* row. Chained executions first need the output of their source. Callers do not use
\* the id of an execution that is running.
Execute(e, src) ==
    /\ run[e].at = "none" /\ others[e] = <<>> /\ src # e
    /\ src # NoId => RowsOf(src) # {}
    /\ Tick
    /\ SaveExecution([id |-> e, start |-> clock, status |-> "RUNNING", seq |-> 0])
    /\ run' = [run EXCEPT ![e] = [at |-> IF src = NoId THEN "run" ELSE "link",
                                  start |-> clock, seq |-> 0]]
    /\ source' = [source EXCEPT ![e] = src]
    /\ disturbed' = IF \E x \in lastSave : x.id = e THEN disturbed \cup {e} ELSE disturbed
    /\ UNCHANGED <<strategy, state_history, message_correlations, linked_executions,
                   executions_archive, machines, others, messages>>

\* saveLinkedExecution; without a source row, or when the save fails, only a warning.
SaveLinkedExecution(e) ==
    /\ run[e].at = "link"
    /\ Tick
    /\ \/ /\ linked_executions' = IF RowsOf(source[e]) = {} THEN linked_executions
                ELSE linked_executions \cup {[source |-> source[e], target |-> e]}
          /\ UNCHANGED disturbed
       \/ /\ disturbed' = disturbed \cup {e}
          /\ UNCHANGED linked_executions
    /\ run' = [run EXCEPT ![e].at = "run"]
    /\ UNCHANGED <<strategy, executions, state_history, message_correlations,
                   executions_archive, machines, others, messages, lastSave, source>>

NewStateHistory(e, s) ==
    [id |-> e, start |-> run[e].start, state |-> s, seq |-> run[e].seq + 1, at |-> clock]

\* A state ran.
RecordState(e, s) ==
    /\ run[e].at = "run"
    /\ Tick
    /\ SaveStateHistory(NewStateHistory(e, s))
    /\ run' = [run EXCEPT ![e].seq = @ + 1]
    /\ UNCHANGED <<strategy, executions, message_correlations, linked_executions,
                   executions_archive, machines, others, messages, lastSave, disturbed, source>>

\* handleWaitingState up to the correlation.
WaitForMessage(e) ==
    /\ run[e].at = "run"
    /\ Tick
    /\ SaveStateHistory(NewStateHistory(e, "M"))
    /\ SaveMessageCorrelation([id |-> e, start |-> run[e].start, status |-> "WAITING"])
    /\ run' = [run EXCEPT ![e].seq = @ + 1, ![e].at = "wait"]
    /\ UNCHANGED <<strategy, executions, linked_executions, executions_archive, machines,
                   others, messages, lastSave, disturbed, source>>

\* persistExecution of run[e], which then leaves the memory of its process.
Persist(e, status) ==
    /\ Tick
    /\ SaveExecution([id |-> e, start |-> run[e].start, status |-> status, seq |-> run[e].seq])
    /\ run' = [run EXCEPT ![e] = Idle]
    /\ UNCHANGED <<strategy, state_history, message_correlations, linked_executions,
                   executions_archive, machines, others, messages, disturbed, source>>

Pause(e) == run[e].at = "wait" /\ Persist(e, "PAUSED")

Finish(e) == run[e].at = "run" /\ Persist(e, "SUCCEEDED")

\* A message: FindWaitingExecutionsByCorrelation reads the record of e,
FindWaiting(e) ==
    /\ e \in FindWaitingExecutionsByCorrelation
    /\ messages' = messages \cup {GetExecution(e)}
    /\ UNCHANGED <<strategy, tables, machines, run, others, clock, lastSave, disturbed, source>>

\* The record is still the row's, and nobody runs the execution.
UpToDate(x) ==
    /\ run[x.id].at = "none" /\ others[x.id] = <<>>
    /\ RowsOf(x.id) # {} /\ x = GetExecution(x.id)

\* and ResumeExecution runs that record, whatever happened since, in a goroutine of
\* its own. Any number of messages may have read the same record, so it stays.
ResumeExecution(x) ==
    LET e == x.id IN
    /\ x.status \in {"PAUSED", "RUNNING"}
    /\ Tick
    /\ message_correlations' = UpdateCorrelationStatus(e, "RECEIVED")
    /\ IF x.status = "PAUSED" THEN SaveExecution([x EXCEPT !.status = "RUNNING"])
       ELSE UNCHANGED <<executions, lastSave>>
    /\ run' = [run EXCEPT ![e] = [at |-> "run", start |-> x.start, seq |-> x.seq]]
    /\ others' = [others EXCEPT ![e] = IF run[e].at = "none" THEN @ ELSE Append(@, run[e])]
    /\ disturbed' = IF UpToDate(x) THEN disturbed ELSE disturbed \cup {e}
    /\ UNCHANGED <<strategy, state_history, linked_executions, executions_archive, machines,
                   messages, source>>

\* Another goroutine that runs e is scheduled.
Switch(e) ==
    /\ others[e] # <<>>
    /\ run' = [run EXCEPT ![e] = Head(others[e])]
    /\ others' = [others EXCEPT ![e] =
                      IF run[e].at = "none" THEN Tail(@) ELSE Append(Tail(@), run[e])]
    /\ UNCHANGED <<strategy, tables, machines, messages, clock, lastSave, disturbed, source>>

Crash(e) ==
    /\ run[e].at # "none"
    /\ Tick
    /\ run' = [run EXCEPT ![e] = Idle]
    /\ disturbed' = disturbed \cup {e}
    /\ UNCHANGED <<strategy, tables, machines, others, messages, lastSave, source>>

-----------------------------------------------------------------------------
(* Maintenance.                                                            *)

\* DeleteExecution; an error when there is no row. A process that runs e goes on.
DeleteExecution(e) ==
    /\ RowsOf(e) # {}
    /\ Tick
    /\ DeleteRows(RowsOf(e))
    /\ lastSave' = {x \in lastSave : x.id # e}
    /\ UNCHANGED <<strategy, linked_executions, executions_archive, machines, goroutines, source>>

\* Variant: an archived row is replaced by nothing newer.
ArchiveOldExecutionsKeep(cutoff) ==
    LET rows == {x \in executions : x.start < cutoff} IN
    /\ ~Gorm /\ rows # {}
    /\ Tick
    /\ executions_archive' = executions_archive \cup
          {x \in rows : ~\E y \in executions_archive : PgKey(x, y)}
    /\ DeleteRows(rows)
    /\ UNCHANGED <<strategy, linked_executions, machines, goroutines, lastSave, source>>

\* ArchiveOldExecutions. The archive has the primary key of executions: a row that
\* was archived before and saved again since makes the transaction fail. History is
\* deleted by the cascade before the statement that would archive it.
ArchiveOldExecutions(cutoff) ==
    LET rows == {x \in executions : x.start < cutoff} IN
    /\ ~Gorm /\ rows # {}
    /\ ~\E x \in rows, y \in executions_archive : PgKey(x, y)
    /\ Tick
    /\ executions_archive' = executions_archive \cup rows
    /\ DeleteRows(rows)
    /\ UNCHANGED <<strategy, linked_executions, machines, goroutines, lastSave, source>>

-----------------------------------------------------------------------------
(* State machine definitions; only "gorm-postgres" has a cache.            *)

\* SaveStateMachine writes the row,
SaveStateMachine(p) ==
    /\ Gorm /\ saver[p] = 0
    /\ Tick
    /\ machine' = machine + 1
    /\ saver' = [saver EXCEPT ![p] = machine + 1]
    /\ UNCHANGED <<strategy, tables, cache, reader, goroutines, lastSave, disturbed, source, own, raced>>

\* Variant: the entry stays.
InvalidateCacheNot(p) ==
    /\ saver[p] # 0
    /\ Tick
    /\ saver' = [saver EXCEPT ![p] = 0]
    /\ own' = [own EXCEPT ![p] = saver[p]]
    /\ raced' = IF reader[p] \in 1..(saver[p] - 1) THEN raced \cup {p} ELSE raced \ {p}
    /\ UNCHANGED <<strategy, tables, machine, cache, reader, goroutines, lastSave, disturbed, source>>

\* and then deletes the entry of its own process.
InvalidateCache(p) ==
    /\ saver[p] # 0
    /\ Tick
    /\ cache' = [cache EXCEPT ![p] = 0]
    /\ saver' = [saver EXCEPT ![p] = 0]
    /\ own' = [own EXCEPT ![p] = saver[p]]
    /\ raced' = IF reader[p] \in 1..(saver[p] - 1) THEN raced \cup {p} ELSE raced \ {p}
    /\ UNCHANGED <<strategy, tables, machine, reader, goroutines, lastSave, disturbed, source>>

\* GetStateMachine on a miss: fetch, then store.
FetchStateMachine(p) ==
    /\ Gorm /\ cache[p] = 0 /\ reader[p] = 0 /\ machine # 0
    /\ Tick
    /\ reader' = [reader EXCEPT ![p] = machine]
    /\ UNCHANGED <<strategy, tables, machine, cache, saver, goroutines, lastSave, disturbed, source, own, raced>>

StoreStateMachine(p) ==
    /\ reader[p] # 0
    /\ Tick
    /\ cache' = [cache EXCEPT ![p] = reader[p]]
    /\ reader' = [reader EXCEPT ![p] = 0]
    /\ UNCHANGED <<strategy, tables, machine, saver, goroutines, lastSave, disturbed, source, own, raced>>

-----------------------------------------------------------------------------
Next ==
    \/ \E e \in Ids :
          \/ \E src \in Ids \cup {NoId} : Execute(e, src)
          \/ SaveLinkedExecution(e)
          \/ \E s \in StateNames : RecordState(e, s)
          \/ WaitForMessage(e) \/ Pause(e) \/ Finish(e) \/ FindWaiting(e)
          \/ Switch(e) \/ Crash(e) \/ DeleteExecution(e)
    \/ \E x \in messages : ResumeExecution(x)
    \/ \E cutoff \in 1..MaxCalls : ArchiveOldExecutions(cutoff)
    \/ \E p \in Procs : \/ SaveStateMachine(p) \/ InvalidateCache(p)
                        \/ FetchStateMachine(p) \/ StoreStateMachine(p)

Spec == Init /\ [][Next]_vars

-----------------------------------------------------------------------------
(* Properties.                                                             *)

Statuses == {"RUNNING", "PAUSED", "SUCCEEDED"}

ExecutionRows == [id : Ids, start : 1..MaxCalls, status : Statuses, seq : 0..MaxCalls]
HistoryRows ==
    [id : Ids, start : 1..MaxCalls, state : StateNames, seq : 1..MaxCalls, at : 1..MaxCalls]
CorrelationRows == [id : Ids, start : 1..MaxCalls, status : {"WAITING", "RECEIVED"}]
LinkRows == [source : Ids, target : Ids]
Contexts ==
    [at : {"none", "link", "run", "wait"}, start : 0..MaxCalls, seq : 0..MaxCalls]

(* Types, and the primary keys.                                             *)
TypeOK ==
    /\ executions \cup executions_archive \cup lastSave \subseteq ExecutionRows
    /\ state_history \subseteq HistoryRows
    /\ message_correlations \subseteq CorrelationRows
    /\ linked_executions \subseteq LinkRows
    /\ run \in [Ids -> Contexts] /\ others \in [Ids -> Seq(Contexts)]
    /\ messages \subseteq ExecutionRows
    /\ cache \in [Procs -> 0..machine] /\ reader \in [Procs -> 0..machine]
    /\ \A x, y \in executions : SameKey(x, y) => x = y
    /\ \A x, y \in executions_archive : PgKey(x, y) => x = y

NoFilter == [status |-> "", after |-> 0, before |-> 0]
Orphans == [status |-> "RUNNING", after |-> 0, before |-> 2]
Filters == [status : Statuses \cup {""}, after : {0, 2}, before : {0, 2}]

WithoutSeq(x) == [x EXCEPT !.seq = 0]

(* What is listed, the ids, the count and the orphans agree. Without a filter the row
   listed is the one GetExecution returns; with one, this is so for executions that
   ran once under their id (filters are applied before DISTINCT ON, so a restarted
   one may be listed with a status it no longer has).                        *)
ListShowsCurrent ==
    \A f \in Filters : ~QueryFails(f) =>
        LET rows == ListExecutions(f) IN
        /\ ListExecutionIDs(f) = {x.id : x \in rows}
        /\ \A x \in rows : x.id \notin disturbed \/ f = NoFilter =>
              WithoutSeq(x) = WithoutSeq(GetExecution(x.id))
        /\ (\A x \in rows : x.id \notin disturbed) => CountExecutions(f) = Cardinality(rows)
        /\ f = Orphans => rows = FindOrphanedExecutions(f.before + 1)

(* GetExecutionOutput returns the output of the most recent run of a state.  *)
LatestOutput(e) ==
    \A s \in StateNames : \A h \in GetExecutionOutput(e, s) :
        \A k \in GetStateHistory(e, s) : k.at <= h.at

(* With "gorm-postgres" sequence numbers go on after a pause, so this holds for
   every execution that ran once, was not cut off by a crash, and was resumed only
   from its current record and while nobody ran it. (A message that arrives before the
   PAUSED save starts a second run, which numbers its history from the same point.) *)
GormLatestOutput == Gorm => \A e \in Ids \ disturbed : LatestOutput(e)

(* With either strategy.                                                     *)
StateOutputIsLatest == \A e \in Ids \ disturbed : LatestOutput(e)

(* What SaveExecution wrote last is in the table or, if it is not there, in the
   archive, until the execution is deleted; also for a row that was archived or
   deleted while its process went on.                                        *)
LastSaveSurvives ==
    \A r \in lastSave :
        IF \E x \in executions : SameKey(x, r)
        THEN \E x \in executions : SameKey(x, r) /\ x.status = r.status /\ x.seq = r.seq
        ELSE r \in executions_archive

(* A message never finds an execution that has finished, under the same conditions.
   (Of two runs of one execution, one may finish and the other wait again.)  *)
WaitingNotFinished ==
    \A e \in FindWaitingExecutionsByCorrelation \ disturbed : GetExecution(e).status # "SUCCEEDED"

(* Once a chained execution whose link save did not fail has finished, its source is
   no longer listed as not linked, so that ApplyUnique does not process it again. *)
LinkedOnce ==
    \A x \in executions :
        /\ x.status = "SUCCEEDED" /\ source[x.id] # NoId
        /\ x.id \notin disturbed /\ source[x.id] \notin disturbed
        => source[x.id] \notin ListNonLinkedExecutions

LinkFilters == [source : Ids \cup {NoId}, status : {"", "RUNNING", "SUCCEEDED"}]

(* Counting links agrees with listing them, a link is listed once unless its source
   was restarted under "postgres", and no source listed is also listed as not linked. *)
LinksAgree ==
    \A f \in LinkFilters :
        LET found == ListLinkedExecutions(f) IN
        /\ CountLinkedExecutions(f) = Cardinality(found)
        /\ \A r, q \in found : r.link = q.link /\ r # q =>
              ~Gorm /\ r.link.source \in disturbed
        /\ \A r \in found : r.link.source \notin ListNonLinkedExecutions

(* A process never uses a definition older than the one it saved last, unless a
   lookup of its own was under way while it saved.                           *)
ReadYourWrites ==
    \A p \in Procs : cache[p] # 0 /\ p \notin raced => cache[p] >= own[p]

=============================================================================
