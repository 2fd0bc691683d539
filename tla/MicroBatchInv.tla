---------------------------- MODULE MicroBatchInv ----------------------------
(***************************************************************************)
(* The inductive invariant behind TypeOK, OneWinner, EnqueueOnce, JoinSound*)
(* and CleanupAfterDispatch of MicroBatch.  Its heart is that the cursor   *)
(* has one writer at a time: run 0 until it pauses, then the run that the  *)
(* winner of micro-batch 0 starts.                                         *)
(***************************************************************************)
EXTENDS MicroBatch

(* The items micro-batch k may hold.                                        *)
Span(k) == {i \in Items : MicroBatchSize * k <= i /\ i < MicroBatchSize * k + MicroBatchSize}

(* Only run 0, and the run started by the winner of micro-batch 0, exist.   *)
(* Run 0 dispatches micro-batch 0 and never passes the Message state; the   *)
(* resumed run carries the marker, so it never waits there.                 *)
Roles ==
    /\ \A r \in Runs : r > 1 => pc[r] = "none"
    /\ pc[0] \notin {"none", "Resume", "Evaluate"}
    /\ pc[0] = "Dispatch" => doc[0] = OrchestratorInput /\ cursor = 0
    /\ pc[0] \in {"Enqueue", "Check", "Wait"} =>
          doc[0].mb = 0 /\ ~doc[0].marker
    /\ corr.status # "none" => corr.mb = 0 /\ pc[0] \in {"Pause", "ended"}
    /\ pc[1] # "none" => corr.status # "none" /\ doc[1].marker /\ wins[0] = 1

(* Some run may still dispatch a micro-batch.                               *)
MayDispatch ==
    \/ pc[0] \in {"Dispatch", "Check", "Wait"}
    \/ /\ corr.status # "none"
       /\ pc[1] \in {"none", "Resume", "Dispatch", "Check", "Wait", "Evaluate"}
       /\ ~(pc[1] = "Check" /\ doc[1].complete)

(* Nothing at or after position c was dispatched, everything before it was. *)
Frontier(c) ==
    /\ \A i \in Items : i >= c => enq[i] = 0
    /\ \A k \in MBs : MicroBatchSize * k >= c => members[k] = {}

Cursor ==
    /\ MayDispatch =>
          /\ ~cleaned
          /\ cursor = TotalCount \/ \E m \in 0..TotalCount : cursor = MicroBatchSize * m
          /\ \A i \in Items : i < cursor => enq[i] = 1
          /\ Frontier(cursor)
    /\ \A r \in {0, 1} : pc[r] = "Enqueue" =>
          /\ ~cleaned
          /\ doc[r].mb \in MBs /\ cursor = MicroBatchSize * doc[r].mb /\ cursor < TotalCount
          /\ members[doc[r].mb] = Span(doc[r].mb) /\ left[r] \subseteq Span(doc[r].mb)
          /\ newCursor[r] = IF cursor + MicroBatchSize <= TotalCount
                            THEN cursor + MicroBatchSize ELSE TotalCount
          /\ \A i \in Items : i < newCursor[r] /\ i \notin left[r] => enq[i] = 1
          /\ \A i \in left[r] : enq[i] = 0
          /\ Frontier(newCursor[r])
    /\ cleaned => \A i \in Items : enq[i] = 1

Tasks ==
    /\ \A k \in MBs : members[k] \subseteq Span(k)
    /\ \A k \in dispatched : members[k] # {}
    /\ \A i \in Items :
          /\ enq[i] \in {0, 1}
          /\ enq[i] = 0 => tpc[i] = "none" /\ attempts[i] = 0 /\ i \notin signalled
          /\ enq[i] = 1 => mbOf[i] \in MBs /\ i \in members[mbOf[i]]
          /\ tpc[i] = "queued" => attempts[i] <= MaxRetry
          /\ tpc[i] = "signal" => i \in finished
          /\ tpc[i] \in {"delivered", "executing", "signal"} => attempts[i] >= 1
          /\ i \in signalled => i \in finished /\ attempts[i] >= 1
          /\ i \in signalled /\ tpc[i] \in {"delivered", "executing", "signal"} =>
                attempts[i] >= 2

(* A barrier exists from Init until its only winner deletes it.             *)
Winners ==
    /\ \A k \in MBs :
          \/ members[k] = {} /\ barrier[k] = Missing /\ wins[k] = 0
          \/ members[k] # {} /\ barrier[k] # Missing /\ wins[k] = 0
          \/ members[k] # {} /\ barrier[k] = Missing /\ wins[k] = 1
    /\ \A i \in Items : tpc[i] = "resume" =>
          /\ wins[mbOf[i]] = 1
          /\ mbOf[i] = 0 => pc[1] = "none"
    /\ \A i, j \in Items :
          tpc[i] = "resume" /\ tpc[j] = "resume" /\ mbOf[i] = mbOf[j] => i = j

(* Without redelivery the counter is the number of members yet to signal.   *)
Counted ==
    \A k \in MBs :
        members[k] # {} /\ (\A i \in members[k] : attempts[i] <= 1) =>
            /\ wins[k] = 0 => barrier[k] = Cardinality(members[k] \ signalled)
            /\ wins[k] = 1 => members[k] \subseteq signalled

(* The inductive invariant of MicroBatch: what the stores, the queue and the  *)
(* goroutines of the orchestrator and the workers keep between any two steps. *)
IInv == TypeOK /\ Roles /\ Cursor /\ Tasks /\ Winners /\ Counted

=============================================================================
