-------------------------- MODULE MessageWaitProofs --------------------------
(***************************************************************************)
(* Proofs, for every number of messages, retries and crashes, of the       *)
(* safety properties of MessageWait.                                       *)
(***************************************************************************)
EXTENDS MessageWait, TLAPS

-----------------------------------------------------------------------------
(* The inductive invariant                                                  *)

Live == {"RUNNING", "PAUSED"}

(* What holds whatever the messages carry.  A live execution is in front of *)
(* a branch, and a paused one at Wait; who resumes it continues there.  A   *)
(* message reads the row once.  The queue delivers the task only while it   *)
(* has an attempt left.                                                     *)
Base ==
    /\ row.status \in Live => row.cur \in {"Task", "Wait"}
    /\ row.status = "PAUSED" => row.cur = "Wait"
    /\ \A p \in Procs :
          /\ pc[p] = "Resume" /\ ctx[p].status \in Live => ctx[p].cur \in {"Task", "Wait"}
          /\ pc[p] \in {"Cancel", "Save"} => ctx[p].cur \in {"Task", "Wait"}
    /\ \A m \in Messages : pc[m] \in {"idle", "Find", "Fetch"} => ctx[m].doc = {}
    /\ task = "scheduled" => attempts = 0
    /\ task = "retry" => attempts <= MaxRetry

(* When every message carries its marker, only the goroutine of Execute     *)
(* waits; until it has scheduled the timeout nothing else has happened.     *)
Begun ==
    /\ pc[Starter] \in {"Task", "Wait", "Corr", "Schedule", "Pause", "done", "dead"}
    /\ ctx[Starter].doc = {"data"}
    /\ pc[Starter] \in {"Task", "Wait", "Corr"} => corr = "none"
    /\ pc[Starter] \in {"Task", "Wait", "Corr", "Schedule"} =>
          task = "none" /\ taken["TimeoutPath"] = 0 /\ ~cancelled

(* A message that resumes has found the execution waiting, and goes through *)
(* Wait to Next.                                                            *)
Delivered(m) ==
    /\ pc[m] \in {"idle", "Find", "Fetch", "Resume", "Cancel", "Save", "Wait",
                  "Branch", "End", "done", "dead"}
    /\ pc[m] \in {"Fetch", "Resume"} => corr # "none"
    /\ pc[m] \in {"Resume", "Cancel", "Save", "Wait"} =>
          ctx[m].doc = {"data", "message"} /\ ctx[m].cur = "Wait"
    /\ pc[m] \in {"Branch", "End"} => ctx[m].cur = "Next"

(* A worker that has found the correlation WAITING is the first one on the  *)
(* TimeoutPath, and from where it has resumed the correlation is closed.    *)
TimedOut ==
    /\ pc[Timer] \in {"idle", "CheckCorr", "CheckRow", "Recheck", "Fetch", "Resume",
                      "Save", "Wait", "Branch", "End"}
    /\ pc[Timer] \in {"Recheck", "Fetch"} => row.cur # "Task"
    /\ (pc[Timer] = "Resume" /\ ctx[Timer].status \in Live) \/ pc[Timer] \in {"Save", "Wait"} =>
          ctx[Timer].cur = "Wait" /\ "timeout" \in ctx[Timer].doc
    /\ pc[Timer] \in {"CheckRow", "Recheck", "Fetch", "Resume", "Save", "Wait", "Branch"} =>
          taken["TimeoutPath"] = 0
    /\ taken["TimeoutPath"] > 0 \/ pc[Timer] \in {"Save", "Wait", "Branch", "End"} =>
          corr \in {"RECEIVED", "TIMEOUT"}
    /\ taken["TimeoutPath"] <= 1

(* Before its first delivery the task has led nowhere; once it was          *)
(* cancelled then, it does not come back.                                   *)
Undisturbed ==
    /\ task = "scheduled" \/ cancelled => taken["TimeoutPath"] = 0
    /\ cancelled => task = "none"

Marked == Begun /\ (\A m \in Messages : Delivered(m)) /\ TimedOut /\ Undisturbed

IInv == TypeOK /\ Base /\ (MarkersCarried => Marked)

-----------------------------------------------------------------------------
USE MessageWaitAssumption DEF Procs, Starter, Timer

(* The only write to a context that keeps the others' fields.               *)
LEMMA Moved ==
    ASSUME NEW p \in Procs, NEW s \in State, ctx \in [Procs -> Context],
           ctx' = [ctx EXCEPT ![p].cur = s]
    PROVE  /\ ctx' \in [Procs -> Context]
           /\ ctx'[p].cur = s
           /\ ctx'[p].doc = ctx[p].doc /\ ctx'[p].status = ctx[p].status
           /\ \A q \in Procs \ {p} : ctx'[q] = ctx[q]
           /\ \A q \in Procs : ctx'[q].doc = ctx[q].doc
<1> DEFINE c == [ctx[p] EXCEPT !.cur = s]
<1>1. ctx' = [ctx EXCEPT ![p] = c] OBVIOUS
<1>2. /\ c \in Context /\ c.cur = s
      /\ c.doc = ctx[p].doc /\ c.status = ctx[p].status
  BY DEF Context
<1> HIDE DEF c
<1> QED BY <1>1, <1>2

(* How a run ends for its caller.                                           *)
LEMMA Returned ==
    ASSUME NEW p \in Procs, NEW ok \in BOOLEAN, TypeOK, Return(p, ok), pc[p] # "idle"
    PROVE  /\ pc' \in [Procs -> Pc]
           /\ pc'[p] = IF p = Timer THEN "idle" ELSE "done"
           /\ \A q \in Procs \ {p} : pc'[q] = pc[q]
           /\ reply' \in [Messages -> {"none", "NO_MATCH", "RESUMED", "ERROR"}]
           /\ p # Timer => task' = task
           /\ p = Timer => /\ task = "active"
                           /\ task' \in {"retained", "retry", "archived"}
                           /\ task' = "retry" => attempts <= MaxRetry
<1>1. pc' \in [Procs -> Pc] /\ pc'[p] = (IF p = Timer THEN "idle" ELSE "done")
  BY DEF TypeOK, Return, Pc
<1>2. \A q \in Procs \ {p} : pc'[q] = pc[q] BY DEF TypeOK, Return
<1>3. reply' \in [Messages -> {"none", "NO_MATCH", "RESUMED", "ERROR"}]
  BY DEF TypeOK, Return
<1>4. p # Timer => task' = task BY DEF Return
<1>5. p = Timer => /\ task = "active"
                   /\ task' \in {"retained", "retry", "archived"}
                   /\ task' = "retry" => attempts <= MaxRetry
  BY DEF TypeOK, Return, AfterAttempt
<1> QED BY <1>1, <1>2, <1>3, <1>4, <1>5

LEMMA Gone ==
    ASSUME NEW p \in Procs, NEW s \in Pc, TypeOK, Goto(p, s)
    PROVE  /\ pc' \in [Procs -> Pc] /\ pc'[p] = s
           /\ \A q \in Procs \ {p} : pc'[q] = pc[q]
           /\ reply' = reply /\ task' = task
BY DEF TypeOK, Goto

-----------------------------------------------------------------------------
(* RunExecution                                                             *)

LEMMA RunTaskStep ==
    ASSUME NEW p \in Procs, IInv, RunTask(p)
    PROVE  IInv'
<1>1. TypeOK /\ Base BY DEF IInv
<1>2. UNCHANGED <<row, corr, attempts, mode, crashes, taken, cancelled>> /\ pc[p] = "Task"
  BY DEF RunTask
<1>3. /\ pc' \in [Procs -> Pc] /\ pc'[p] = "Wait"
      /\ \A q \in Procs \ {p} : pc'[q] = pc[q]
      /\ reply' = reply /\ task' = task
  BY <1>1, Gone DEF RunTask, Pc
<1>4. /\ ctx' \in [Procs -> Context]
      /\ \A q \in Procs \ {p} : ctx'[q] = ctx[q]
      /\ \A q \in Procs : ctx'[q].doc = ctx[q].doc
  BY <1>1, Moved DEF RunTask, TypeOK, State
<1>5. TypeOK' BY <1>1, <1>2, <1>3, <1>4 DEF TypeOK
<1>6. Base' BY <1>1, <1>2, <1>3, <1>4 DEF Base
<1>7. ASSUME MarkersCarried' PROVE Marked'
  <2>1. MarkersCarried BY <1>2, <1>4, <1>7 DEF MarkersCarried
  <2>2. Marked BY <2>1 DEF IInv
  <2>3. p = Starter BY <1>2, <2>2 DEF Marked, Delivered, TimedOut
  <2>4. Begun' BY <1>2, <1>3, <1>4, <2>2, <2>3 DEF Marked, Begun
  <2>5. \A m \in Messages : Delivered(m)'
    <3>1. \A m \in Messages : ctx'[m] = ctx[m] /\ pc'[m] = pc[m] BY <1>3, <1>4, <2>3
    <3> QED BY <1>2, <2>2, <3>1 DEF Marked, Delivered
  <2>6. TimedOut' BY <1>2, <1>3, <1>4, <2>2, <2>3 DEF Marked, TimedOut
  <2>7. Undisturbed' BY <1>2, <1>3, <2>2 DEF Marked, Undisturbed
  <2> QED BY <2>4, <2>5, <2>6, <2>7 DEF Marked
<1> QED BY <1>5, <1>6, <1>7 DEF IInv

(* A transition out of Wait.                                                *)
LEMMA RunWaitStep ==
    ASSUME NEW p \in Procs, IInv, RunWait(p)
    PROVE  IInv'
<1> DEFINE d == ctx[p].doc
<1>1. TypeOK /\ Base BY DEF IInv
<1>2. UNCHANGED <<corr, attempts, mode, crashes, taken, cancelled>> /\ pc[p] = "Wait"
  BY DEF RunWait
<1>3. CASE /\ "timeout" \in d
           /\ ctx' = [ctx EXCEPT ![p].cur = "TimeoutPath"]
           /\ Goto(p, "Branch") /\ UNCHANGED row
  <2>1. /\ pc' \in [Procs -> Pc] /\ pc'[p] = "Branch"
        /\ \A q \in Procs \ {p} : pc'[q] = pc[q]
        /\ reply' = reply /\ task' = task
    BY <1>1, <1>3, Gone DEF Pc
  <2>2. /\ ctx' \in [Procs -> Context]
        /\ \A q \in Procs \ {p} : ctx'[q] = ctx[q]
        /\ \A q \in Procs : ctx'[q].doc = ctx[q].doc
    BY <1>1, <1>3, Moved DEF TypeOK, State
  <2>3. TypeOK' BY <1>1, <1>2, <1>3, <2>1, <2>2 DEF TypeOK
  <2>4. Base' BY <1>1, <1>2, <1>3, <2>1, <2>2 DEF Base
  <2>5. ASSUME MarkersCarried' PROVE Marked'
    <3>1. MarkersCarried BY <1>2, <2>2, <2>5 DEF MarkersCarried
    <3>2. Marked BY <3>1 DEF IInv
    <3>3. p = Timer BY <1>2, <1>3, <3>2 DEF Marked, Delivered, Begun
    <3>4. Begun' BY <1>2, <2>1, <2>2, <3>2, <3>3 DEF Marked, Begun
    <3>5. \A m \in Messages : Delivered(m)'
      <4>1. \A m \in Messages : ctx'[m] = ctx[m] /\ pc'[m] = pc[m] BY <2>1, <2>2, <3>3
      <4> QED BY <1>2, <3>2, <4>1 DEF Marked, Delivered
    <3>6. TimedOut' BY <1>2, <2>1, <3>2, <3>3 DEF Marked, TimedOut
    <3>7. Undisturbed' BY <1>2, <2>1, <3>2 DEF Marked, Undisturbed
    <3> QED BY <3>4, <3>5, <3>6, <3>7 DEF Marked
  <2> QED BY <2>3, <2>4, <2>5 DEF IInv
<1>4. CASE /\ "timeout" \notin d /\ "message" \in d
           /\ ctx' = [ctx EXCEPT ![p].cur = "Next"]
           /\ Goto(p, "Branch") /\ UNCHANGED row
  <2>1. /\ pc' \in [Procs -> Pc] /\ pc'[p] = "Branch"
        /\ \A q \in Procs \ {p} : pc'[q] = pc[q]
        /\ reply' = reply /\ task' = task
    BY <1>1, <1>4, Gone DEF Pc
  <2>2. /\ ctx' \in [Procs -> Context]
        /\ ctx'[p].cur = "Next"
        /\ \A q \in Procs \ {p} : ctx'[q] = ctx[q]
        /\ \A q \in Procs : ctx'[q].doc = ctx[q].doc
    BY <1>1, <1>4, Moved DEF TypeOK, State
  <2>3. TypeOK' BY <1>1, <1>2, <1>4, <2>1, <2>2 DEF TypeOK
  <2>4. Base' BY <1>1, <1>2, <1>4, <2>1, <2>2 DEF Base
  <2>5. ASSUME MarkersCarried' PROVE Marked'
    <3>1. MarkersCarried BY <1>2, <2>2, <2>5 DEF MarkersCarried
    <3>2. Marked BY <3>1 DEF IInv
    <3>3. p \in Messages BY <1>2, <1>4, <3>2 DEF Marked, TimedOut, Begun
    <3>4. Begun' BY <1>2, <2>1, <2>2, <3>2, <3>3 DEF Marked, Begun
    <3>5. \A m \in Messages : Delivered(m)'
      BY <1>2, <2>1, <2>2, <3>2, <3>3 DEF Marked, Delivered
    <3>6. TimedOut' BY <1>2, <1>4, <2>1, <2>2, <3>2, <3>3 DEF Marked, TimedOut
    <3>7. Undisturbed' BY <1>2, <2>1, <3>2 DEF Marked, Undisturbed
    <3> QED BY <3>4, <3>5, <3>6, <3>7 DEF Marked
  <2> QED BY <2>3, <2>4, <2>5 DEF IInv
<1>5. CASE d = {"data"} /\ Goto(p, "Corr") /\ UNCHANGED <<row, ctx>>
  <2>1. /\ pc' \in [Procs -> Pc] /\ pc'[p] = "Corr"
        /\ \A q \in Procs \ {p} : pc'[q] = pc[q]
        /\ reply' = reply /\ task' = task
    BY <1>1, <1>5, Gone DEF Pc
  <2>2. TypeOK' BY <1>1, <1>2, <1>5, <2>1 DEF TypeOK
  <2>3. Base' BY <1>1, <1>2, <1>5, <2>1 DEF Base
  <2>4. ASSUME MarkersCarried' PROVE Marked'
    <3>1. MarkersCarried BY <1>2, <1>5, <2>4 DEF MarkersCarried
    <3>2. Marked BY <3>1 DEF IInv
    <3>3. p = Starter BY <1>2, <1>5, <3>2 DEF Marked, Delivered, TimedOut
    <3>4. Begun' BY <1>2, <1>5, <2>1, <3>2, <3>3 DEF Marked, Begun
    <3>5. \A m \in Messages : Delivered(m)'
      BY <1>2, <1>5, <2>1, <3>2, <3>3, ZenonT(60) DEF Marked, Delivered
    <3>6. TimedOut' BY <1>2, <1>5, <2>1, <3>2, <3>3 DEF Marked, TimedOut
    <3>7. Undisturbed' BY <1>2, <2>1, <3>2 DEF Marked, Undisturbed
    <3> QED BY <3>4, <3>5, <3>6, <3>7 DEF Marked
  <2> QED BY <2>2, <2>3, <2>4 DEF IInv
<1>6. CASE /\ d = {}
           /\ row' = [status |-> "FAILED", cur |-> "Wait", out |-> ctx[p].out]
           /\ Return(p, FALSE) /\ UNCHANGED ctx
  <2>1. /\ pc' \in [Procs -> Pc]
        /\ pc'[p] \in {"idle", "done"}
        /\ pc'[p] = IF p = Timer THEN "idle" ELSE "done"
        /\ \A q \in Procs \ {p} : pc'[q] = pc[q]
        /\ reply' \in [Messages -> {"none", "NO_MATCH", "RESUMED", "ERROR"}]
        /\ p # Timer => task' = task
        /\ p = Timer => /\ task = "active"
                        /\ task' \in {"retained", "retry", "archived"}
                        /\ task' = "retry" => attempts <= MaxRetry
    BY <1>1, <1>2, <1>6, Returned
  <2>2. /\ row' \in [status : Status, cur : State, out : Doc]
        /\ row'.status = "FAILED"
    BY <1>1, <1>6 DEF TypeOK, Context, Status, State
  <2>3. TypeOK' BY <1>1, <1>2, <1>6, <2>1, <2>2 DEF TypeOK
  <2>4. Base' BY <1>1, <1>2, <1>6, <2>1, <2>2 DEF Base, Live
  <2>5. ASSUME MarkersCarried' PROVE FALSE
    <3>1. MarkersCarried BY <1>2, <1>6, <2>5 DEF MarkersCarried
    <3>2. Marked BY <3>1 DEF IInv
    <3> QED BY <1>2, <1>6, <3>2 DEF Marked, Delivered, TimedOut, Begun
  <2> QED BY <2>3, <2>4, <2>5 DEF IInv
<1> QED BY <1>3, <1>4, <1>5, <1>6 DEF RunWait

LEMMA SaveCorrelationStep ==
    ASSUME NEW p \in Procs, IInv, SaveCorrelation(p)
    PROVE  IInv'
<1>1. TypeOK /\ Base BY DEF IInv
<1>2. /\ UNCHANGED <<row, attempts, ctx, mode, crashes, taken, cancelled>>
      /\ pc[p] = "Corr" /\ corr' = "WAITING"
  BY DEF SaveCorrelation
<1>3. /\ pc' \in [Procs -> Pc] /\ pc'[p] = "Schedule"
      /\ \A q \in Procs \ {p} : pc'[q] = pc[q]
      /\ reply' = reply /\ task' = task
  BY <1>1, Gone DEF SaveCorrelation, Pc
<1>4. TypeOK' BY <1>1, <1>2, <1>3 DEF TypeOK
<1>5. Base' BY <1>1, <1>2, <1>3 DEF Base
<1>6. ASSUME MarkersCarried' PROVE Marked'
  <2>1. MarkersCarried BY <1>2, <1>6 DEF MarkersCarried
  <2>2. Marked BY <2>1 DEF IInv
  <2>3. p = Starter BY <1>2, <2>2 DEF Marked, Delivered, TimedOut
  <2>4. Begun' BY <1>2, <1>3, <2>2, <2>3 DEF Marked, Begun
  <2>5. \A m \in Messages : Delivered(m)'
    BY <1>2, <1>3, <2>2, <2>3, ZenonT(60) DEF Marked, Delivered
  <2>6. pc[Timer] = "idle" /\ taken["TimeoutPath"] = 0
    BY <1>1, <1>2, <2>2, <2>3 DEF TypeOK, Marked, Begun
  <2>7. TimedOut' BY <1>2, <1>3, <2>3, <2>6 DEF TimedOut
  <2>8. Undisturbed' BY <1>2, <1>3, <2>2 DEF Marked, Undisturbed
  <2> QED BY <2>4, <2>5, <2>7, <2>8 DEF Marked
<1> QED BY <1>4, <1>5, <1>6 DEF IInv

LEMMA ScheduleTimeoutStep ==
    ASSUME NEW p \in Procs, IInv, ScheduleTimeout(p)
    PROVE  IInv'
<1>1. TypeOK /\ Base BY DEF IInv
<1>2. /\ UNCHANGED <<row, corr, ctx, mode, reply, crashes, taken, cancelled>>
      /\ pc[p] = "Schedule"
  BY DEF ScheduleTimeout
<1>3. /\ pc' \in [Procs -> Pc] /\ pc'[p] = "Pause"
      /\ \A q \in Procs \ {p} : pc'[q] = pc[q]
  BY <1>1 DEF ScheduleTimeout, TypeOK, Pc
<1>4. \/ task = "none" /\ task' = "scheduled" /\ attempts' = 0
      \/ task # "none" /\ task' = task /\ attempts' = attempts
  BY DEF ScheduleTimeout
<1>5. TypeOK' BY <1>1, <1>2, <1>3, <1>4 DEF TypeOK
<1>6. Base' BY <1>1, <1>2, <1>3, <1>4 DEF Base
<1>7. ASSUME MarkersCarried' PROVE Marked'
  <2>1. MarkersCarried BY <1>2, <1>7 DEF MarkersCarried
  <2>2. Marked BY <2>1 DEF IInv
  <2>3. p = Starter BY <1>2, <2>2 DEF Marked, Delivered, TimedOut
  <2>4. Begun' BY <1>2, <1>3, <2>2, <2>3 DEF Marked, Begun
  <2>5. \A m \in Messages : Delivered(m)'
    BY <1>2, <1>3, <2>2, <2>3 DEF Marked, Delivered
  <2>6. TimedOut' BY <1>2, <1>3, <2>2, <2>3 DEF Marked, TimedOut
  <2>7. Undisturbed' BY <1>2, <1>4, <2>2, <2>3 DEF Marked, Undisturbed, Begun
  <2> QED BY <2>4, <2>5, <2>6, <2>7 DEF Marked
<1> QED BY <1>5, <1>6, <1>7 DEF IInv

LEMMA PauseStep ==
    ASSUME NEW p \in Procs, IInv, Pause(p)
    PROVE  IInv'
<1>1. TypeOK /\ Base BY DEF IInv
<1>2. /\ UNCHANGED <<corr, attempts, ctx, mode, crashes, taken, cancelled>>
      /\ pc[p] = "Pause"
  BY DEF Pause
<1>3. /\ pc' \in [Procs -> Pc]
      /\ pc'[p] = IF p = Timer THEN "idle" ELSE "done"
      /\ \A q \in Procs \ {p} : pc'[q] = pc[q]
      /\ reply' \in [Messages -> {"none", "NO_MATCH", "RESUMED", "ERROR"}]
      /\ p # Timer => task' = task
      /\ p = Timer => /\ task = "active"
                      /\ task' \in {"retained", "retry", "archived"}
                      /\ task' = "retry" => attempts <= MaxRetry
  BY <1>1, <1>2, Returned DEF Pause
<1>4. /\ row' \in [status : Status, cur : State, out : Doc]
      /\ row'.status = "PAUSED" /\ row'.cur = "Wait"
  BY <1>1 DEF Pause, TypeOK, Context, Status, State
<1>5. TypeOK' BY <1>1, <1>2, <1>3, <1>4 DEF TypeOK
<1>6. Base' BY <1>1, <1>2, <1>3, <1>4, ZenonT(60) DEF Base
<1>7. ASSUME MarkersCarried' PROVE Marked'
  <2>1. MarkersCarried BY <1>2, <1>7 DEF MarkersCarried
  <2>2. Marked BY <2>1 DEF IInv
  <2>3. p = Starter BY <1>2, <2>2 DEF Marked, Delivered, TimedOut
  <2>4. Begun' BY <1>2, <1>3, <2>2, <2>3 DEF Marked, Begun
  <2>5. \A m \in Messages : Delivered(m)'
    BY <1>2, <1>3, <2>2, <2>3, ZenonT(60) DEF Marked, Delivered
  <2>6. TimedOut' BY <1>2, <1>3, <1>4, <2>2, <2>3 DEF Marked, TimedOut
  <2>7. Undisturbed' BY <1>2, <1>3, <2>2, <2>3 DEF Marked, Undisturbed
  <2> QED BY <2>4, <2>5, <2>6, <2>7 DEF Marked
<1> QED BY <1>5, <1>6, <1>7 DEF IInv

LEMMA RunBranchStep ==
    ASSUME NEW p \in Procs, IInv, RunBranch(p)
    PROVE  IInv'
<1>1. TypeOK /\ Base BY DEF IInv
<1>2. /\ UNCHANGED <<row, corr, attempts, ctx, mode, crashes, cancelled>>
      /\ pc[p] = "Branch"
  BY DEF RunBranch
<1>3. /\ pc' \in [Procs -> Pc] /\ pc'[p] = "End"
      /\ \A q \in Procs \ {p} : pc'[q] = pc[q]
      /\ reply' = reply /\ task' = task
  BY <1>1, Gone DEF RunBranch, Pc
<1>4. /\ taken' \in [{"Next", "TimeoutPath"} -> Nat]
      /\ taken'["TimeoutPath"] \in {taken["TimeoutPath"], taken["TimeoutPath"] + 1}
      /\ ctx[p].cur = "Next" => taken'["TimeoutPath"] = taken["TimeoutPath"]
  <2>1. taken \in [{"Next", "TimeoutPath"} -> Nat] BY <1>1 DEF TypeOK
  <2>2. taken' = [taken EXCEPT ![ctx[p].cur] = taken[ctx[p].cur] + 1] BY DEF RunBranch
  <2>3. CASE ctx[p].cur \in {"Next", "TimeoutPath"}
    <3>1. taken[ctx[p].cur] + 1 \in Nat BY <2>1, <2>3
    <3> QED BY <2>1, <2>2, <2>3, <3>1
  <2>4. CASE ctx[p].cur \notin {"Next", "TimeoutPath"}
    <3>1. taken' = taken BY <2>1, <2>2, <2>4
    <3> QED BY <2>1, <2>4, <3>1
  <2> QED BY <2>3, <2>4
<1>5. TypeOK' BY <1>1, <1>2, <1>3, <1>4 DEF TypeOK
<1>6. Base' BY <1>1, <1>2, <1>3 DEF Base
<1>7. ASSUME MarkersCarried' PROVE Marked'
  <2>1. MarkersCarried BY <1>2, <1>7 DEF MarkersCarried
  <2>2. Marked BY <2>1 DEF IInv
  <2>3. p # Starter BY <1>2, <2>2 DEF Marked, Begun
  <2>4. CASE p = Timer
    <3>1. taken["TimeoutPath"] = 0 /\ task = "active" /\ corr \in {"RECEIVED", "TIMEOUT"}
      BY <1>1, <1>2, <2>2, <2>4 DEF Marked, TimedOut, TypeOK
    <3>2. Begun' BY <1>2, <1>3, <2>2, <2>4, <3>1 DEF Marked, Begun
    <3>3. \A m \in Messages : Delivered(m)'
      BY <1>2, <1>3, <2>2, <2>4 DEF Marked, Delivered
    <3>4. TimedOut' BY <1>2, <1>3, <1>4, <2>4, <3>1 DEF TimedOut
    <3>5. Undisturbed' BY <1>2, <1>3, <2>2, <3>1 DEF Marked, Undisturbed
    <3> QED BY <3>2, <3>3, <3>4, <3>5 DEF Marked
  <2>5. CASE p \in Messages
    <3>1. ctx[p].cur = "Next" BY <1>2, <2>2, <2>5 DEF Marked, Delivered
    <3>2. taken'["TimeoutPath"] = taken["TimeoutPath"] BY <1>4, <3>1
    <3>3. Begun' BY <1>2, <1>3, <2>2, <2>5, <3>2 DEF Marked, Begun
    <3>4. \A m \in Messages : Delivered(m)'
      BY <1>2, <1>3, <2>2, <2>5 DEF Marked, Delivered
    <3>5. TimedOut' BY <1>2, <1>3, <2>2, <2>5, <3>2 DEF Marked, TimedOut
    <3>6. Undisturbed' BY <1>2, <1>3, <2>2, <3>2 DEF Marked, Undisturbed
    <3> QED BY <3>3, <3>4, <3>5, <3>6 DEF Marked
  <2> QED BY <2>3, <2>4, <2>5
<1> QED BY <1>5, <1>6, <1>7 DEF IInv

LEMMA SucceedStep ==
    ASSUME NEW p \in Procs, IInv, Succeed(p)
    PROVE  IInv'
<1>1. TypeOK /\ Base BY DEF IInv
<1>2. /\ UNCHANGED <<corr, attempts, ctx, mode, crashes, taken, cancelled>>
      /\ pc[p] = "End"
  BY DEF Succeed
<1>3. /\ pc' \in [Procs -> Pc]
      /\ pc'[p] = IF p = Timer THEN "idle" ELSE "done"
      /\ \A q \in Procs \ {p} : pc'[q] = pc[q]
      /\ reply' \in [Messages -> {"none", "NO_MATCH", "RESUMED", "ERROR"}]
      /\ p # Timer => task' = task
      /\ p = Timer => /\ task = "active"
                      /\ task' \in {"retained", "retry", "archived"}
                      /\ task' = "retry" => attempts <= MaxRetry
  BY <1>1, <1>2, Returned DEF Succeed
<1>4. /\ row' \in [status : Status, cur : State, out : Doc]
      /\ row'.status = "SUCCEEDED" /\ row'.cur = ctx[p].cur
  BY <1>1 DEF Succeed, TypeOK, Context, Status
<1>5. TypeOK' BY <1>1, <1>2, <1>3, <1>4 DEF TypeOK
<1>6. Base' BY <1>1, <1>2, <1>3, <1>4, ZenonT(60) DEF Base, Live
<1>7. ASSUME MarkersCarried' PROVE Marked'
  <2>1. MarkersCarried BY <1>2, <1>7 DEF MarkersCarried
  <2>2. Marked BY <2>1 DEF IInv
  <2>3. p # Starter /\ (p \in Messages => ctx[p].cur = "Next")
    BY <1>2, <2>2 DEF Marked, Begun, Delivered
  <2>4. Begun' BY <1>2, <1>3, <2>2, <2>3 DEF Marked, Begun
  <2>5. \A m \in Messages : Delivered(m)'
    BY <1>2, <1>3, <2>2, <2>3, ZenonT(60) DEF Marked, Delivered
  <2>6. TimedOut' BY <1>2, <1>3, <1>4, <2>2, <2>3 DEF Marked, TimedOut
  <2>7. Undisturbed' BY <1>2, <1>3, <2>2, <2>3 DEF Marked, Undisturbed
  <2> QED BY <2>4, <2>5, <2>6, <2>7 DEF Marked
<1> QED BY <1>5, <1>6, <1>7 DEF IInv

-----------------------------------------------------------------------------
(* ResumeExecution                                                          *)

LEMMA ResumeExecutionStep ==
    ASSUME NEW p \in Procs, IInv, ResumeExecution(p)
    PROVE  IInv'
<1>1. TypeOK /\ Base BY DEF IInv
<1>2. /\ UNCHANGED <<row, attempts, ctx, mode, crashes, taken, cancelled>>
      /\ pc[p] = "Resume"
  BY DEF ResumeExecution
<1>3. CASE ctx[p].status \in {"PAUSED", "RUNNING"}
  <2>1. corr' = IF ctx[p].cur # "Wait" THEN corr
                ELSE IF p = Timer THEN "TIMEOUT" ELSE "RECEIVED"
    BY <1>3 DEF ResumeExecution
  <2>2. /\ pc' \in [Procs -> Pc]
        /\ pc'[p] = IF p = Timer THEN "Save" ELSE "Cancel"
        /\ \A q \in Procs \ {p} : pc'[q] = pc[q]
        /\ reply' = reply /\ task' = task
    BY <1>1, <1>3, Gone DEF ResumeExecution, Pc
  <2>3. TypeOK' BY <1>1, <1>2, <2>1, <2>2 DEF TypeOK
  <2>4. Base' BY <1>1, <1>2, <1>3, <2>2 DEF Base, Live
  <2>5. ASSUME MarkersCarried' PROVE Marked'
    <3>1. MarkersCarried BY <1>2, <2>5 DEF MarkersCarried
    <3>2. Marked BY <3>1 DEF IInv
    <3>3. p # Starter BY <1>2, <3>2 DEF Marked, Begun
    <3>4. ctx[p].cur = "Wait"
      BY <1>2, <1>3, <3>2, <3>3 DEF Marked, Delivered, TimedOut, Live
    <3>5. corr' \in {"RECEIVED", "TIMEOUT"} BY <2>1, <3>4
    <3>6. pc[Starter] \notin {"Task", "Wait", "Corr"}
      BY <1>1, <1>2, <3>2, <3>3 DEF Marked, Begun, Delivered, TypeOK
    <3>7. Begun' BY <1>2, <2>2, <3>2, <3>3, <3>6 DEF Marked, Begun
    <3>8. \A m \in Messages : Delivered(m)'
      BY <1>2, <2>2, <3>2, <3>3, <3>5, ZenonT(60) DEF Marked, Delivered
    <3>9. TimedOut' BY <1>2, <1>3, <2>2, <3>2, <3>3, <3>5 DEF Marked, TimedOut, Live
    <3>10. Undisturbed' BY <1>2, <2>2, <3>2 DEF Marked, Undisturbed
    <3> QED BY <3>7, <3>8, <3>9, <3>10 DEF Marked
  <2> QED BY <2>3, <2>4, <2>5 DEF IInv
<1>4. CASE ctx[p].status \notin {"PAUSED", "RUNNING"}
  <2>1. corr' = corr /\ Return(p, FALSE) BY <1>4 DEF ResumeExecution
  <2>2. /\ pc' \in [Procs -> Pc]
        /\ pc'[p] = IF p = Timer THEN "idle" ELSE "done"
        /\ \A q \in Procs \ {p} : pc'[q] = pc[q]
        /\ reply' \in [Messages -> {"none", "NO_MATCH", "RESUMED", "ERROR"}]
        /\ p # Timer => task' = task
        /\ p = Timer => /\ task = "active"
                        /\ task' \in {"retained", "retry", "archived"}
                        /\ task' = "retry" => attempts <= MaxRetry
    BY <1>1, <1>2, <2>1, Returned
  <2>3. TypeOK' BY <1>1, <1>2, <2>1, <2>2 DEF TypeOK
  <2>4. Base' BY <1>1, <1>2, <2>2 DEF Base
  <2>5. ASSUME MarkersCarried' PROVE Marked'
    <3>1. MarkersCarried BY <1>2, <2>5 DEF MarkersCarried
    <3>2. Marked BY <3>1 DEF IInv
    <3>3. p # Starter BY <1>2, <3>2 DEF Marked, Begun
    <3>4. Begun' BY <1>2, <2>1, <2>2, <3>2, <3>3 DEF Marked, Begun
    <3>5. \A m \in Messages : Delivered(m)'
      BY <1>2, <2>1, <2>2, <3>2, <3>3, ZenonT(60) DEF Marked, Delivered
    <3>6. TimedOut' BY <1>2, <2>1, <2>2, <3>2, <3>3 DEF Marked, TimedOut
    <3>7. Undisturbed' BY <1>2, <2>2, <3>2 DEF Marked, Undisturbed
    <3> QED BY <3>4, <3>5, <3>6, <3>7 DEF Marked
  <2> QED BY <2>3, <2>4, <2>5 DEF IInv
<1> QED BY <1>3, <1>4

LEMMA CancelTimeoutStep ==
    ASSUME NEW p \in Procs, IInv, CancelTimeout(p)
    PROVE  IInv'
<1>1. TypeOK /\ Base BY DEF IInv
<1>2. /\ UNCHANGED <<row, corr, attempts, ctx, mode, reply, crashes, taken>>
      /\ pc[p] = "Cancel"
  BY DEF CancelTimeout
<1>3. /\ pc' \in [Procs -> Pc] /\ pc'[p] = "Save"
      /\ \A q \in Procs \ {p} : pc'[q] = pc[q]
  BY <1>1 DEF CancelTimeout, TypeOK, Pc
<1>4. \/ /\ task \notin {"none", "active"} /\ task' = "none"
         /\ cancelled' = (cancelled \/ task = "scheduled")
      \/ task' = task /\ cancelled' = cancelled
  BY DEF CancelTimeout
<1>5. cancelled' \in BOOLEAN /\ (cancelled' => cancelled \/ (task = "scheduled" /\ task' = "none"))
  <2>1. cancelled \in BOOLEAN BY <1>1 DEF TypeOK
  <2>2. CASE task' = task /\ cancelled' = cancelled BY <2>1, <2>2
  <2>3. CASE task' = "none" /\ cancelled' = (cancelled \/ task = "scheduled")
    <3>1. CASE cancelled \/ task = "scheduled"
      <4>1. cancelled' = TRUE BY <2>3, <3>1
      <4> QED BY <2>3, <3>1, <4>1
    <3>2. CASE ~(cancelled \/ task = "scheduled")
      <4>1. cancelled' = FALSE BY <2>3, <3>2
      <4> QED BY <4>1
    <3> QED BY <3>1, <3>2
  <2> QED BY <1>4, <2>2, <2>3
<1>6. TypeOK' BY <1>1, <1>2, <1>3, <1>4, <1>5 DEF TypeOK
<1>7. Base' BY <1>1, <1>2, <1>3, <1>4 DEF Base
<1>8. ASSUME MarkersCarried' PROVE Marked'
  <2>1. MarkersCarried BY <1>2, <1>8 DEF MarkersCarried
  <2>2. Marked BY <2>1 DEF IInv
  <2>3. p \in Messages BY <1>2, <2>2 DEF Marked, Begun, TimedOut
  <2>4. Begun' BY <1>2, <1>3, <1>4, <1>5, <2>2, <2>3 DEF Marked, Begun
  <2>5. \A m \in Messages : Delivered(m)'
    BY <1>2, <1>3, <2>2, <2>3 DEF Marked, Delivered
  <2>6. TimedOut' BY <1>2, <1>3, <2>2, <2>3 DEF Marked, TimedOut
  <2>7. Undisturbed' BY <1>2, <1>4, <1>5, <2>2 DEF Marked, Undisturbed
  <2> QED BY <2>4, <2>5, <2>6, <2>7 DEF Marked
<1> QED BY <1>6, <1>7, <1>8 DEF IInv

LEMMA SaveRunningStep ==
    ASSUME NEW p \in Procs, IInv, SaveRunning(p)
    PROVE  IInv'
<1>1. TypeOK /\ Base BY DEF IInv
<1>2. /\ UNCHANGED <<corr, attempts, ctx, mode, crashes, taken, cancelled>>
      /\ pc[p] = "Save"
  BY DEF SaveRunning
<1>3. ctx[p].cur \in {"Task", "Wait"} BY <1>1, <1>2 DEF Base
<1>4. /\ pc' \in [Procs -> Pc] /\ pc'[p] = ctx[p].cur
      /\ \A q \in Procs \ {p} : pc'[q] = pc[q]
      /\ reply' = reply /\ task' = task
  BY <1>1, <1>3, Gone DEF SaveRunning, Pc
<1>5. /\ row' \in [status : Status, cur : State, out : Doc]
      /\ row' = row \/ (row'.status = "RUNNING" /\ row'.cur = ctx[p].cur)
  <2>1. row' = row
        \/ row' = [status |-> "RUNNING", cur |-> ctx[p].cur, out |-> ctx[p].out]
    BY DEF SaveRunning
  <2> QED BY <1>1, <2>1 DEF TypeOK, Context, Status
<1>6. TypeOK' BY <1>1, <1>2, <1>3, <1>4, <1>5 DEF TypeOK
<1>7. Base' BY <1>1, <1>2, <1>3, <1>4, <1>5 DEF Base
<1>8. ASSUME MarkersCarried' PROVE Marked'
  <2>1. MarkersCarried BY <1>2, <1>8 DEF MarkersCarried
  <2>2. Marked BY <2>1 DEF IInv
  <2>3. p # Starter BY <1>2, <2>2 DEF Marked, Begun
  <2>4. ctx[p].cur = "Wait" BY <1>2, <2>2, <2>3 DEF Marked, Delivered, TimedOut
  <2>5. Begun' BY <1>2, <1>4, <2>2, <2>3 DEF Marked, Begun
  <2>6. \A m \in Messages : Delivered(m)'
    BY <1>2, <1>4, <2>2, <2>3, <2>4 DEF Marked, Delivered
  <2>7. TimedOut' BY <1>2, <1>4, <1>5, <2>2, <2>3, <2>4 DEF Marked, TimedOut
  <2>8. Undisturbed' BY <1>2, <1>4, <2>2 DEF Marked, Undisturbed
  <2> QED BY <2>5, <2>6, <2>7, <2>8 DEF Marked
<1> QED BY <1>6, <1>7, <1>8 DEF IInv

-----------------------------------------------------------------------------
(* Delivery of a message                                                    *)

LEMMA ArriveStep ==
    ASSUME NEW m \in Messages, IInv, Arrive(m)
    PROVE  IInv'
<1>1. TypeOK /\ Base BY DEF IInv
<1>2. /\ UNCHANGED <<row, corr, attempts, ctx, mode, crashes, taken, cancelled>>
      /\ pc[m] = "idle"
  BY DEF Arrive
<1>3. /\ pc' \in [Procs -> Pc] /\ pc'[m] = "Find"
      /\ \A q \in Procs \ {m} : pc'[q] = pc[q]
      /\ reply' = reply /\ task' = task
  BY <1>1, Gone DEF Arrive, Pc
<1>4. TypeOK' BY <1>1, <1>2, <1>3 DEF TypeOK
<1>5. Base' BY <1>1, <1>2, <1>3 DEF Base
<1>6. ASSUME MarkersCarried' PROVE Marked'
  <2>1. MarkersCarried BY <1>2, <1>6 DEF MarkersCarried
  <2>2. Marked BY <2>1 DEF IInv
  <2>3. Begun' BY <1>2, <1>3, <2>2 DEF Marked, Begun
  <2>4. \A n \in Messages : Delivered(n)' BY <1>2, <1>3, <2>2 DEF Marked, Delivered
  <2>5. TimedOut' BY <1>2, <1>3, <2>2 DEF Marked, TimedOut
  <2>6. Undisturbed' BY <1>2, <1>3, <2>2 DEF Marked, Undisturbed
  <2> QED BY <2>3, <2>4, <2>5, <2>6 DEF Marked
<1> QED BY <1>4, <1>5, <1>6 DEF IInv

LEMMA FindWaitingStep ==
    ASSUME NEW m \in Messages, IInv, FindWaiting(m)
    PROVE  IInv'
<1>1. TypeOK /\ Base BY DEF IInv
<1>2. /\ UNCHANGED <<row, corr, attempts, ctx, mode, crashes, taken, cancelled>>
      /\ pc[m] = "Find" /\ task' = task
  BY DEF FindWaiting, Goto
<1>3. /\ pc' \in [Procs -> Pc]
      /\ pc'[m] = IF corr = "WAITING" THEN "Fetch" ELSE "done"
      /\ \A q \in Procs \ {m} : pc'[q] = pc[q]
      /\ reply' \in [Messages -> {"none", "NO_MATCH", "RESUMED", "ERROR"}]
  <2>1. CASE corr = "WAITING" BY <1>1, <2>1, Gone, ZenonT(60) DEF FindWaiting, Pc, TypeOK
  <2>2. CASE corr # "WAITING" BY <1>1, <2>2, ZenonT(60) DEF FindWaiting, Pc, TypeOK
  <2> QED BY <2>1, <2>2
<1>4. TypeOK' BY <1>1, <1>2, <1>3 DEF TypeOK
<1>5. Base' BY <1>1, <1>2, <1>3 DEF Base
<1>6. ASSUME MarkersCarried' PROVE Marked'
  <2>1. MarkersCarried BY <1>2, <1>6 DEF MarkersCarried
  <2>2. Marked BY <2>1 DEF IInv
  <2>3. Begun' BY <1>2, <1>3, <2>2 DEF Marked, Begun
  <2>4. \A n \in Messages : Delivered(n)' BY <1>2, <1>3, <2>2 DEF Marked, Delivered
  <2>5. TimedOut' BY <1>2, <1>3, <2>2 DEF Marked, TimedOut
  <2>6. Undisturbed' BY <1>2, <1>3, <2>2 DEF Marked, Undisturbed
  <2> QED BY <2>3, <2>4, <2>5, <2>6 DEF Marked
<1> QED BY <1>4, <1>5, <1>6 DEF IInv

LEMMA FetchStep ==
    ASSUME NEW m \in Messages, IInv, Fetch(m)
    PROVE  IInv'
<1>1. TypeOK /\ Base BY DEF IInv
<1>2. /\ UNCHANGED <<row, corr, attempts, mode, crashes, taken, cancelled>>
      /\ pc[m] = "Fetch"
  BY DEF Fetch
<1>3. /\ pc' \in [Procs -> Pc] /\ pc'[m] = "Resume"
      /\ \A q \in Procs \ {m} : pc'[q] = pc[q]
      /\ reply' = reply /\ task' = task
  BY <1>1, Gone DEF Fetch, Pc
<1>4. PICK input, doc, out :
        /\ input = {"data"} \cup (IF row.cur = "Wait" THEN {"message"} ELSE {})
        /\ doc = IF mode[m] = "direct" THEN input ELSE row.out
        /\ out = IF mode[m] = "direct" THEN {} ELSE row.out
        /\ ctx' = [ctx EXCEPT ![m] = [status |-> row.status, cur |-> row.cur,
                                      doc |-> doc, out |-> out]]
  BY DEF Fetch
<1>5. doc \in Doc /\ out \in Doc BY <1>1, <1>4 DEF TypeOK, Doc
<1>6. /\ ctx' \in [Procs -> Context]
      /\ ctx'[m].status = row.status /\ ctx'[m].cur = row.cur /\ ctx'[m].doc = doc
      /\ \A q \in Procs \ {m} : ctx'[q] = ctx[q]
  BY <1>1, <1>4, <1>5 DEF TypeOK, Context
<1>7. TypeOK' BY <1>1, <1>2, <1>3, <1>6 DEF TypeOK
<1>8. Base' BY <1>1, <1>2, <1>3, <1>6 DEF Base
<1>9. ASSUME MarkersCarried' PROVE Marked'
  <2>1. ctx[m].doc = {} BY <1>1, <1>2 DEF Base
  <2>2. MarkersCarried BY <1>2, <1>6, <1>9, <2>1 DEF MarkersCarried
  <2>3. Marked BY <2>2 DEF IInv
  <2>4. mode[m] = "direct" /\ doc = input BY <1>4, <2>2 DEF MarkersCarried
  <2>5. doc # {} BY <1>4, <2>4
  <2>6. "message" \in doc BY <1>6, <1>9, <2>5 DEF MarkersCarried
  <2>7. row.cur = "Wait" BY <1>4, <2>4, <2>6
  <2>8. doc = {"data", "message"} BY <1>4, <2>4, <2>7
  <2>9. Begun' BY <1>2, <1>3, <1>6, <2>3 DEF Marked, Begun
  <2>10. \A n \in Messages : Delivered(n)'
    BY <1>2, <1>3, <1>6, <2>3, <2>7, <2>8, ZenonT(60) DEF Marked, Delivered
  <2>11. TimedOut' BY <1>2, <1>3, <1>6, <2>3 DEF Marked, TimedOut
  <2>12. Undisturbed' BY <1>2, <1>3, <2>3 DEF Marked, Undisturbed
  <2> QED BY <2>9, <2>10, <2>11, <2>12 DEF Marked
<1> QED BY <1>7, <1>8, <1>9 DEF IInv

LEMMA RunLoadedStep ==
    ASSUME NEW m \in Messages, IInv, RunLoaded(m)
    PROVE  IInv'
<1>1. TypeOK /\ Base BY DEF IInv
<1>2. /\ UNCHANGED <<row, corr, attempts, ctx, mode, crashes, cancelled>>
      /\ pc[m] = "Fetch" /\ mode[m] = "loaded"
  BY DEF RunLoaded
<1>3. /\ pc' \in [Procs -> Pc] /\ pc'[m] = "done"
      /\ \A q \in Procs \ {m} : pc'[q] = pc[q]
      /\ reply' \in [Messages -> {"none", "NO_MATCH", "RESUMED", "ERROR"}]
      /\ task' = task
  BY <1>1, <1>2, Returned DEF RunLoaded
<1>4. taken' \in [{"Next", "TimeoutPath"} -> Nat]
  <2>1. taken \in [{"Next", "TimeoutPath"} -> Nat] BY <1>1 DEF TypeOK
  <2>2. taken["Next"] + 1 \in Nat BY <2>1
  <2> QED BY <2>1, <2>2 DEF RunLoaded
<1>5. TypeOK' BY <1>1, <1>2, <1>3, <1>4 DEF TypeOK
<1>6. Base' BY <1>1, <1>2, <1>3 DEF Base
<1>7. ~MarkersCarried' BY <1>2 DEF MarkersCarried
<1> QED BY <1>5, <1>6, <1>7 DEF IInv

-----------------------------------------------------------------------------
(* The timeout task                                                         *)

LEMMA FireTimeoutStep ==
    ASSUME IInv, FireTimeout
    PROVE  IInv'
<1>1. TypeOK /\ Base BY DEF IInv
<1>2. /\ UNCHANGED <<row, corr, ctx, mode, reply, crashes, taken, cancelled>>
      /\ pc[Timer] = "idle" /\ task \in {"scheduled", "retry"}
      /\ task' = "active" /\ attempts' = attempts + 1
  BY DEF FireTimeout
<1>3. /\ pc' \in [Procs -> Pc] /\ pc'[Timer] = "CheckCorr"
      /\ \A q \in Procs \ {Timer} : pc'[q] = pc[q]
  BY <1>1 DEF FireTimeout, TypeOK, Pc
<1>4. attempts' \in 0..(MaxRetry + 1) BY <1>1, <1>2 DEF TypeOK, Base
<1>5. TypeOK' BY <1>1, <1>2, <1>3, <1>4 DEF TypeOK
<1>6. Base' BY <1>1, <1>2, <1>3 DEF Base
<1>7. ASSUME MarkersCarried' PROVE Marked'
  <2>1. MarkersCarried BY <1>2, <1>7 DEF MarkersCarried
  <2>2. Marked BY <2>1 DEF IInv
  <2>3. Begun' BY <1>2, <1>3, <2>2 DEF Marked, Begun
  <2>4. \A m \in Messages : Delivered(m)' BY <1>2, <1>3, <2>2, ZenonT(60) DEF Marked, Delivered
  <2>5. TimedOut' BY <1>2, <1>3, <2>2 DEF Marked, TimedOut
  <2>6. Undisturbed' BY <1>2, <2>2 DEF Marked, Undisturbed
  <2> QED BY <2>3, <2>4, <2>5, <2>6 DEF Marked
<1> QED BY <1>5, <1>6, <1>7 DEF IInv

(* A check of the worker either lets it go on or ends the delivery: what    *)
(* the end of a delivery preserves.                                         *)
LEMMA DeliveryEnds ==
    ASSUME IInv, NEW ok \in BOOLEAN, pc[Timer] # "idle", Return(Timer, ok),
           UNCHANGED <<row, corr, attempts, ctx, mode, crashes, taken, cancelled>>
    PROVE  IInv'
<1>1. TypeOK /\ Base BY DEF IInv
<1>2. /\ pc' \in [Procs -> Pc] /\ pc'[Timer] = "idle"
      /\ \A q \in Procs \ {Timer} : pc'[q] = pc[q]
      /\ reply' \in [Messages -> {"none", "NO_MATCH", "RESUMED", "ERROR"}]
      /\ task = "active" /\ task' \in {"retained", "retry", "archived"}
      /\ task' = "retry" => attempts <= MaxRetry
  BY <1>1, Returned
<1>3. TypeOK' BY <1>1, <1>2 DEF TypeOK
<1>4. Base' BY <1>1, <1>2 DEF Base
<1>5. ASSUME MarkersCarried' PROVE Marked'
  <2>1. MarkersCarried BY <1>5 DEF MarkersCarried
  <2>2. Marked BY <2>1 DEF IInv
  <2>3. Begun' BY <1>2, <2>2 DEF Marked, Begun
  <2>4. \A m \in Messages : Delivered(m)' BY <1>2, <2>2 DEF Marked, Delivered
  <2>5. TimedOut' BY <1>2, <2>2 DEF Marked, TimedOut
  <2>6. Undisturbed' BY <1>2, <2>2 DEF Marked, Undisturbed
  <2> QED BY <2>3, <2>4, <2>5, <2>6 DEF Marked
<1> QED BY <1>3, <1>4, <1>5 DEF IInv

(* What a check that succeeds preserves.                                    *)
LEMMA CheckPasses ==
    ASSUME IInv, NEW s \in {"CheckRow", "Recheck", "Fetch"}, Goto(Timer, s),
           \/ pc[Timer] = "CheckCorr" /\ s = "CheckRow" /\ corr = "WAITING"
           \/ pc[Timer] = "CheckRow" /\ s = "Recheck" /\ row.status = "PAUSED"
           \/ pc[Timer] = "Recheck" /\ s = "Fetch",
           UNCHANGED <<row, corr, attempts, ctx, mode, crashes, taken, cancelled>>
    PROVE  IInv'
<1>1. TypeOK /\ Base BY DEF IInv
<1>2. /\ pc' \in [Procs -> Pc] /\ pc'[Timer] = s
      /\ \A q \in Procs \ {Timer} : pc'[q] = pc[q]
      /\ reply' = reply /\ task' = task
  <2>1. s \in Pc BY DEF Pc
  <2> QED BY <1>1, <2>1, Gone
<1>3. TypeOK' BY <1>1, <1>2 DEF TypeOK
<1>4. Base' BY <1>1, <1>2 DEF Base
<1>5. ASSUME MarkersCarried' PROVE Marked'
  <2>1. MarkersCarried BY <1>5 DEF MarkersCarried
  <2>2. Marked BY <2>1 DEF IInv
  <2>3. Begun' BY <1>2, <2>2 DEF Marked, Begun
  <2>4. \A m \in Messages : Delivered(m)' BY <1>2, <2>2, ZenonT(60) DEF Marked, Delivered
  <2>5. s # "CheckRow" => row.cur # "Task" BY <1>1, <2>2 DEF Base, Marked, TimedOut
  <2>6. taken["TimeoutPath"] = 0 BY <1>1, <2>2 DEF Marked, TimedOut, TypeOK
  <2>7. TimedOut' BY <1>2, <2>5, <2>6 DEF TimedOut
  <2>8. Undisturbed' BY <1>2, <2>2 DEF Marked, Undisturbed
  <2> QED BY <2>3, <2>4, <2>7, <2>8 DEF Marked
<1> QED BY <1>3, <1>4, <1>5 DEF IInv

LEMMA ChecksStep ==
    ASSUME IInv, CheckCorrelation \/ CheckPaused \/ RecheckCorrelation
    PROVE  IInv'
<1>1. CASE CheckCorrelation BY <1>1, DeliveryEnds, CheckPasses DEF CheckCorrelation
<1>2. CASE CheckPaused BY <1>2, DeliveryEnds, CheckPasses DEF CheckPaused
<1>3. CASE RecheckCorrelation BY <1>3, DeliveryEnds, CheckPasses DEF RecheckCorrelation
<1> QED BY <1>1, <1>2, <1>3

LEMMA FetchForTimeoutStep ==
    ASSUME IInv, FetchForTimeout
    PROVE  IInv'
<1>1. TypeOK /\ Base BY DEF IInv
<1>2. /\ UNCHANGED <<row, corr, attempts, mode, crashes, taken, cancelled>>
      /\ pc[Timer] = "Fetch"
  BY DEF FetchForTimeout
<1>3. /\ pc' \in [Procs -> Pc] /\ pc'[Timer] = "Resume"
      /\ \A q \in Procs \ {Timer} : pc'[q] = pc[q]
      /\ reply' = reply /\ task' = task
  BY <1>1, Gone DEF FetchForTimeout, Pc
<1>4. PICK doc :
        /\ doc = row.out \cup (IF row.cur = "Wait" THEN {"timeout"} ELSE {})
        /\ ctx' = [ctx EXCEPT ![Timer] = [status |-> row.status, cur |-> row.cur,
                                          doc |-> doc, out |-> {}]]
  BY DEF FetchForTimeout
<1>5. doc \in Doc /\ {} \in Doc BY <1>1, <1>4 DEF TypeOK, Doc
<1>6. /\ ctx' \in [Procs -> Context]
      /\ ctx'[Timer].status = row.status /\ ctx'[Timer].cur = row.cur
      /\ ctx'[Timer].doc = doc
      /\ \A q \in Procs \ {Timer} : ctx'[q] = ctx[q]
  BY <1>1, <1>4, <1>5 DEF TypeOK, Context
<1>7. TypeOK' BY <1>1, <1>2, <1>3, <1>6 DEF TypeOK
<1>8. Base' BY <1>1, <1>2, <1>3, <1>6 DEF Base
<1>9. ASSUME MarkersCarried' PROVE Marked'
  <2>1. MarkersCarried BY <1>2, <1>6, <1>9 DEF MarkersCarried
  <2>2. Marked BY <2>1 DEF IInv
  <2>3. row.status \in Live => row.cur = "Wait" /\ "timeout" \in doc
    BY <1>1, <1>2, <1>4, <2>2 DEF Base, Marked, TimedOut
  <2>4. Begun' BY <1>2, <1>3, <1>6, <2>2 DEF Marked, Begun
  <2>5. \A m \in Messages : Delivered(m)'
    BY <1>2, <1>3, <1>6, <2>2, ZenonT(60) DEF Marked, Delivered
  <2>6. TimedOut' BY <1>2, <1>3, <1>6, <2>2, <2>3 DEF Marked, TimedOut
  <2>7. Undisturbed' BY <1>2, <1>3, <2>2 DEF Marked, Undisturbed
  <2> QED BY <2>4, <2>5, <2>6, <2>7 DEF Marked
<1> QED BY <1>7, <1>8, <1>9 DEF IInv

LEMMA CrashStep ==
    ASSUME NEW p \in Procs, IInv, Crash(p)
    PROVE  IInv'
<1>1. TypeOK /\ Base BY DEF IInv
<1>2. /\ UNCHANGED <<row, corr, attempts, ctx, mode, reply, taken, cancelled>>
      /\ pc[p] \notin {"idle", "done", "dead"}
      /\ crashes < MaxCrashes /\ crashes' = crashes + 1
  BY DEF Crash
<1>3. /\ pc' \in [Procs -> Pc]
      /\ pc'[p] = IF p = Timer THEN "idle" ELSE "dead"
      /\ \A q \in Procs \ {p} : pc'[q] = pc[q]
  BY <1>1 DEF Crash, TypeOK, Pc
<1>4. /\ p # Timer => task' = task
      /\ p = Timer => /\ task = "active" /\ task' \in {"retry", "archived"}
                      /\ task' = "retry" => attempts <= MaxRetry
  BY <1>1, <1>2 DEF Crash, AfterAttempt, TypeOK
<1>5. TypeOK' BY <1>1, <1>2, <1>3, <1>4 DEF TypeOK
<1>6. Base' BY <1>1, <1>2, <1>3, <1>4 DEF Base
<1>7. ASSUME MarkersCarried' PROVE Marked'
  <2>1. MarkersCarried BY <1>2, <1>7 DEF MarkersCarried
  <2>2. Marked BY <2>1 DEF IInv
  <2>3. Begun' BY <1>2, <1>3, <1>4, <2>2 DEF Marked, Begun
  <2>4. \A m \in Messages : Delivered(m)' BY <1>2, <1>3, <2>2 DEF Marked, Delivered
  <2>5. TimedOut' BY <1>2, <1>3, <2>2 DEF Marked, TimedOut
  <2>6. Undisturbed' BY <1>2, <1>4, <2>2 DEF Marked, Undisturbed
  <2> QED BY <2>3, <2>4, <2>5, <2>6 DEF Marked
<1> QED BY <1>5, <1>6, <1>7 DEF IInv

-----------------------------------------------------------------------------
LEMMA Initial == Init => IInv
<1> SUFFICES ASSUME Init PROVE IInv OBVIOUS
<1>1. PICK s \in StartStates :
        /\ row = [status |-> "RUNNING", cur |-> s, out |-> {}]
        /\ pc = [p \in Procs |-> IF p = Starter THEN s ELSE "idle"]
        /\ ctx = [p \in Procs |->
                    [status |-> "RUNNING", cur |-> s, out |-> {},
                     doc |-> IF p = Starter THEN {"data"} ELSE {}]]
  BY DEF Init
<1>2. s \in {"Task", "Wait"} OBVIOUS
<1>3. /\ corr = "none" /\ task = "none" /\ attempts = 0 /\ mode \in [Messages -> Modes]
      /\ reply = [m \in Messages |-> "none"] /\ crashes = 0 /\ cancelled = FALSE
      /\ taken = [b \in {"Next", "TimeoutPath"} |-> 0]
  BY DEF Init
<1>4. /\ row \in [status : Status, cur : State, out : Doc]
      /\ row.status = "RUNNING" /\ row.cur = s
  BY <1>1, <1>2 DEF Status, State, Doc
<1>5. /\ ctx \in [Procs -> Context]
      /\ \A p \in Procs : ctx[p].cur = s
      /\ ctx[Starter].doc = {"data"}
      /\ \A m \in Messages : ctx[m].doc = {}
  <2>1. \A p \in Procs : (IF p = Starter THEN {"data"} ELSE {}) \in Doc BY DEF Doc
  <2>2. "RUNNING" \in Status /\ s \in State /\ {} \in Doc BY <1>2 DEF Status, State, Doc
  <2>3. ctx \in [Procs -> Context] BY <1>1, <2>1, <2>2 DEF Context
  <2> QED BY <1>1, <2>3
<1>6. pc \in [Procs -> Pc] BY <1>1, <1>2 DEF Pc
<1>7. TypeOK
  <2>1. pc[Timer] = "idle" BY <1>1
  <2>2. cancelled \in BOOLEAN BY <1>3
  <2>3. /\ reply \in [Messages -> {"none", "NO_MATCH", "RESUMED", "ERROR"}]
        /\ taken \in [{"Next", "TimeoutPath"} -> Nat]
        /\ attempts \in 0..(MaxRetry + 1) /\ crashes \in 0..MaxCrashes
    BY <1>3
  <2> QED BY <1>3, <1>4, <1>5, <1>6, <2>1, <2>2, <2>3 DEF TypeOK
<1>8. Base BY <1>1, <1>2, <1>3, <1>4, <1>5 DEF Base
<1>9. Begun BY <1>1, <1>2, <1>3, <1>5 DEF Begun
<1>10. \A m \in Messages : Delivered(m) BY <1>1 DEF Delivered
<1>11. TimedOut /\ Undisturbed BY <1>1, <1>3 DEF TimedOut, Undisturbed
<1> QED BY <1>7, <1>8, <1>9, <1>10, <1>11 DEF IInv, Marked

LEMMA Inductive == IInv /\ [Next]_vars => IInv'
<1> SUFFICES ASSUME IInv, [Next]_vars PROVE IInv' OBVIOUS
<1>1. ASSUME NEW p \in Procs, Run(p) PROVE IInv'
  BY <1>1, RunTaskStep, RunWaitStep, SaveCorrelationStep, ScheduleTimeoutStep, PauseStep,
     RunBranchStep, SucceedStep, ResumeExecutionStep, CancelTimeoutStep, SaveRunningStep
  DEF Run
<1>2. ASSUME NEW p \in Procs, Crash(p) PROVE IInv' BY <1>2, CrashStep
<1>3. ASSUME NEW m \in Messages, Arrive(m) \/ Deliver(m) PROVE IInv'
  BY <1>3, ArriveStep, FindWaitingStep, FetchStep, RunLoadedStep DEF Deliver
<1>4. CASE HandleTimeout
  BY <1>4, FireTimeoutStep, ChecksStep, FetchForTimeoutStep DEF HandleTimeout
<1>5. CASE UNCHANGED vars
  BY <1>5 DEF vars, IInv, TypeOK, Base, MarkersCarried, Marked, Begun, Delivered,
              TimedOut, Undisturbed
<1> QED BY <1>1, <1>2, <1>3, <1>4, <1>5 DEF Next

(* The inductive invariant holds in every behaviour.                        *)
THEOREM Invariance == Spec => []IInv
<1>1. Init => IInv BY Initial
<1>2. IInv /\ [Next]_vars => IInv' BY Inductive
<1> QED BY <1>1, <1>2, PTL DEF Spec

(* The types of rows, contexts and the queue, and: the timeout task is      *)
(* active exactly while the worker holds it, with at most MaxRetry + 1      *)
(* deliveries (the handler of asynq and AfterAttempt).                      *)
THEOREM TypeCorrect == Spec => []TypeOK
<1>1. IInv => TypeOK BY DEF IInv
<1> QED BY <1>1, Invariance, PTL

(* TimeoutPath runs at most once, for every number of messages, redelivered *)
(* timeout tasks and processes that die (HandleTimeout, ResumeExecution).   *)
THEOREM TimeoutOnceHolds == Spec => []TimeoutOnce
<1>1. IInv => TimeoutOnce BY DEF IInv, TimeoutOnce, Marked, TimedOut
<1> QED BY <1>1, Invariance, PTL

(* A timeout cancelled before its first delivery (CancelTimeout) stays      *)
(* cancelled: nobody schedules it again and TimeoutPath does not run.       *)
THEOREM CancelIsFinalHolds == Spec => []CancelIsFinal
<1>1. IInv => CancelIsFinal
  BY DEF IInv, CancelIsFinal, Marked, Undisturbed, TypeOK
<1> QED BY <1>1, Invariance, PTL

=============================================================================
