------------------------- MODULE MicroBatchForkJoin -------------------------
(***************************************************************************)
(* Without redelivery (MaxRetry = 0) the orchestrator, its barrier and its *)
(* workers implement ForkJoin: an item is forked when its task is enqueued,*)
(* done when its handler has an outcome, and its micro-batch is joined     *)
(* when the Lua script elects the winner.                                  *)
(***************************************************************************)
EXTENDS MicroBatch

(* The micro-batch of an item, from the cursor that handleDispatch divides. *)
MbOfItem(i) == i \div MicroBatchSize

FJ == INSTANCE ForkJoin WITH
        Task    <- Items,
        Group   <- MBs,
        GroupOf <- MbOfItem,
        forked  <- {i \in Items : enq[i] > 0},
        done    <- finished,
        joined  <- {k \in MBs : wins[k] > 0}

(* Every step of the implementation is a fork, a finish, a join or none:    *)
(* Barrier.Init happens before the first enqueue and counts all ids, so no  *)
(* group is joined while handleDispatch is still enqueuing its tasks.       *)
ImplementsForkJoin == FJ!Spec

=============================================================================
