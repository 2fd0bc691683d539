------------------------------ MODULE ForkJoin ------------------------------
(***************************************************************************)
(* What the micro-batch barrier promises: tasks are forked in groups and a *)
(* group is joined, once, after all of its tasks are done.                 *)
(***************************************************************************)
EXTENDS Naturals

CONSTANTS
    Task,          \* the tasks of the whole batch
    Group,         \* the groups (micro-batches)
    GroupOf(_)     \* the group of a task

VARIABLES forked, done, joined

vars == <<forked, done, joined>>

Tasks(g) == {t \in Task : GroupOf(t) = g}

Init == forked = {} /\ done = {} /\ joined = {}

(* A task is forked once, and never into a group that was already joined.   *)
Fork(t) ==
    /\ t \notin forked /\ GroupOf(t) \notin joined
    /\ forked' = forked \cup {t}
    /\ UNCHANGED <<done, joined>>

Finish(t) ==
    /\ t \in forked \ done
    /\ done' = done \cup {t}
    /\ UNCHANGED <<forked, joined>>

Join(g) ==
    /\ g \notin joined
    /\ Tasks(g) # {} /\ Tasks(g) \subseteq done
    /\ joined' = joined \cup {g}
    /\ UNCHANGED <<forked, done>>

Next ==
    \/ \E t \in Task : Fork(t) \/ Finish(t)
    \/ \E g \in Group : Join(g)

Spec == Init /\ [][Next]_vars

=============================================================================
