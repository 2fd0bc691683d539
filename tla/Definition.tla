----------------------------- MODULE Definition -----------------------------
(***************************************************************************)
(* State machine definitions and what New accepts: the state factory, the  *)
(* Validate method of every state type and the graph checks of             *)
(* internal/validator. Message states are in module MessageWait.           *)
(*                                                                         *)
(* A definition is [startAt, states, timeout]. All state types share one   *)
(* record; "" is an absent name, <<>> an absent path, list or template,    *)
(* Null an absent Result.                                                  *)
(***************************************************************************)
EXTENDS ChoiceRules, FiniteSets

State == [type |-> "Pass", next |-> "", end |-> FALSE,
          inPath |-> <<>>, resPath |-> <<>>, outPath |-> <<>>,
          result |-> Null, params |-> <<>>, selector |-> <<>>,
          waits |-> <<>>, timed |-> FALSE, retry |-> <<>>, catch |-> <<>>,
          choices |-> <<>>, default |-> "", branches |-> <<>>]

GetNext(s) == IF s.type \in {"Fail", "Succeed", "Choice"} THEN "" ELSE s.next

IsEnd(s) ==
    IF s.type = "Choice" THEN FALSE ELSE s.type \in {"Fail", "Succeed"} \/ s.end

\* The Next names of a sequence of choice rules or catch policies.
NextsOf(rules) == {rules[i].next : i \in DOMAIN rules}

GetNextStates(s) ==
    CASE s.type = "Choice" -> NextsOf(s.choices) \cup {s.default}
      [] s.type = "Task" -> NextsOf(s.catch) \cup {s.next}
      [] OTHER -> {GetNext(s)}
----------------------------------------------------------------------------
BaseValidate(s) == s.end <=> s.next = ""

PassValidate(s) == BaseValidate(s) /\ ~(s.result # Null /\ s.params # <<>>)

\* No BaseValidate: a Task may have both Next and End, or neither.
TaskValidate(s) ==
    /\ \A i \in DOMAIN s.retry : s.retry[i].errors # {}
    /\ \A i \in DOMAIN s.catch : s.catch[i].errors # {} /\ s.catch[i].next # ""

WaitValidate(s) ==
    /\ Len(s.waits) = 1
    /\ Head(s.waits).method = "Seconds" => Head(s.waits).arg.num >= 0

ChoiceValidate(s) ==
    /\ s.next = "" /\ ~s.end
    /\ s.choices # <<>> \/ s.default # ""
    /\ \A i \in DOMAIN s.choices : validateChoice(s.choices[i])

\* The states of a branch are not validated themselves, nor that Next exists.
ParallelValidate(s) ==
    /\ s.branches # <<>>
    /\ \A i \in DOMAIN s.branches :
          LET b == s.branches[i]
          IN  /\ b.startAt \in DOMAIN b.states
              /\ \A n \in DOMAIN b.states :
                     IsEnd(b.states[n]) \/ GetNext(b.states[n]) # ""

FailValidate(s) == s.next = "" /\ ~s.end /\ s.inPath = <<>> /\ s.resPath = <<>> /\ s.outPath = <<>>

SucceedValidate(s) == s.next = "" /\ ~s.end /\ s.resPath = <<>>

\* The factory knows the types and validates the state it made.
CreateState(s) ==
    CASE s.type = "Pass" -> PassValidate(s)
      [] s.type = "Task" -> TaskValidate(s)
      [] s.type = "Wait" -> WaitValidate(s)
      [] s.type = "Choice" -> ChoiceValidate(s)
      [] s.type = "Parallel" -> ParallelValidate(s)
      [] s.type = "Fail" -> FailValidate(s)
      [] s.type = "Succeed" -> SucceedValidate(s)
      [] OTHER -> FALSE
----------------------------------------------------------------------------
\* What both searches go on to from a state.
Follows(s) == (GetNextStates(s) \cup {GetNext(s)}) \ {""}

\* The names that marked states lead to and that are not marked yet.
Ahead(d, reachable) ==
    LET open == {n \in reachable \cap DOMAIN d.states : ~IsEnd(d.states[n])}
    IN  (UNION {Follows(d.states[n]) : n \in open}) \ reachable

\* The depth-first search as the set it marks, a name that does not exist included.
markReachable(d) ==
    LET names == {d.startAt} \cup UNION {Follows(d.states[n]) : n \in DOMAIN d.states}
        mark[reachable \in SUBSET names] ==
            IF Ahead(d, reachable) = {} THEN reachable
            ELSE mark[reachable \cup {CHOOSE n \in Ahead(d, reachable) : TRUE}]
    IN  mark[{d.startAt}]

\* Mutant: coming back to a state counts as an exit.
canReachAnyEndStateByCycle(n, d, visited) ==
    LET can[v \in SUBSET DOMAIN d.states] ==
            {m \in DOMAIN d.states :
                m \in v \/ IsEnd(d.states[m]) \/ Follows(d.states[m]) \cap can[v \cup {m}] # {}}
    IN  n \in can[visited]

\* Each path has its own visited set: can[v] holds the states with a path to an end
\* state that keeps out of v and visits no state twice.
canReachAnyEndState(n, d, visited) ==
    LET can[v \in SUBSET DOMAIN d.states] ==
            {m \in DOMAIN d.states \ v :
                IsEnd(d.states[m]) \/ Follows(d.states[m]) \cap can[v \cup {m}] # {}}
    IN  n \in can[visited]

validateGraph(d) ==
    LET reachable == markReachable(d)
    IN  /\ DOMAIN d.states \subseteq reachable
        /\ \E n \in DOMAIN d.states : IsEnd(d.states[n])
        /\ \A n \in DOMAIN d.states : canReachAnyEndState(n, d, {})

\* Mutant: Next is not looked up.
ValidateNextNot(d) == TRUE

\* getNextStateNames returns nothing for Choice and Task, so the targets of rules,
\* Default and Catch are never looked up.
ValidateNext(d) ==
    \A n \in DOMAIN d.states :
        GetNext(d.states[n]) # "" => GetNext(d.states[n]) \in DOMAIN d.states

Validate(d) ==
    /\ d.startAt \in DOMAIN d.states
    /\ \A n \in DOMAIN d.states : CreateState(d.states[n])
    /\ ValidateNext(d)
    /\ validateGraph(d)
=============================================================================
