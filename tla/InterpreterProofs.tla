------------------------ MODULE InterpreterProofs ------------------------
(***************************************************************************)
(* What module Interpreter promises, for every set of definitions: the     *)
(* graph searches of the validator are sound, so what New accepts can      *)
(* always end; a Parallel state neither loses the error of a branch nor is *)
(* outlived by one; and only the targets the validator does not look up    *)
(* can be missing.                                                         *)
(*                                                                         *)
(* A search is a recursive function, CHOOSE of a solution of its equation: *)
(* the proof exhibits a solution (the least closed set), then takes a      *)
(* counterexample that has the fewest unvisited states. The steps are      *)
(* proved in two halves: what an action does to the goroutines (Effect),   *)
(* and that every such effect keeps the invariant (EffectInv).             *)
(***************************************************************************)
EXTENDS Interpreter, FiniteSetTheorems, WellFoundedInduction, TLAPS

\* A set of finite sets that is not empty has one of least cardinality.
LEMMA Smallest ==
    ASSUME NEW C, C # {}, \A s \in C : Cardinality(s) \in Nat
    PROVE  \E s \in C : \A t \in C : Cardinality(s) <= Cardinality(t)
<1> DEFINE R == OpToRel(<, Nat)
           N == {Cardinality(s) : s \in C}
<1>1. N \subseteq Nat OBVIOUS
<1>2. PICK s0 \in C : TRUE OBVIOUS
<1>3. Cardinality(s0) \in N OBVIOUS
<1>4. \A a, b \in Nat : a < b => <<a, b>> \in R BY DEF OpToRel
<1>5. IsWellFoundedOn(R, Nat) BY NatLessThanWellFounded
<1> HIDE DEF R
<1>6. PICK n \in N : \A m \in N : ~(<<m, n>> \in R) BY <1>1, <1>3, <1>5, WFMin
<1>7. ASSUME NEW t \in C PROVE n <= Cardinality(t)
  <2>1. Cardinality(t) \in N /\ Cardinality(t) \in Nat /\ n \in Nat BY <1>1
  <2> HIDE DEF N
  <2>2. PICK m \in Nat : m = Cardinality(t) BY <2>1
  <2>3. ~(<<m, n>> \in R) BY <1>6, <2>1, <2>2
  <2>4. ~(m < n) BY <1>4, <2>1, <2>3
  <2> QED BY <2>1, <2>2, <2>4
<1> QED BY <1>6, <1>7

-----------------------------------------------------------------------------
(* The search for an end state.                                             *)

\* The states of X and the states outside v that end, or lead to X without entering v.
BackClosed(d, v, X) ==
    \A n \in DOMAIN d.states \ v :
        IsEnd(d.states[n]) \/ Follows(d.states[n]) \cap (X \ v) # {} => n \in X

\* The least such set: the states with a path to an end state that keeps out of v.
Exiting(d, v) ==
    {n \in DOMAIN d.states \ v : \A X \in SUBSET DOMAIN d.states : BackClosed(d, v, X) => n \in X}

CanStep(d, c) ==
    [v \in SUBSET DOMAIN d.states |->
        {m \in DOMAIN d.states \ v :
            IsEnd(d.states[m]) \/ Follows(d.states[m]) \cap c[v \cup {m}] # {}}]

LEMMA ExitingClosed ==
    ASSUME NEW d, NEW v \in SUBSET DOMAIN d.states, NEW n \in DOMAIN d.states \ v,
           IsEnd(d.states[n]) \/ Follows(d.states[n]) \cap Exiting(d, v) # {}
    PROVE  n \in Exiting(d, v)
<1> SUFFICES ASSUME NEW X \in SUBSET DOMAIN d.states, BackClosed(d, v, X) PROVE n \in X
  BY DEF Exiting
<1>1. Exiting(d, v) \subseteq X \ v BY DEF Exiting
<1>2. IsEnd(d.states[n]) \/ Follows(d.states[n]) \cap (X \ v) # {} BY <1>1
<1> QED BY <1>2 DEF BackClosed

LEMMA ExitingShrinks ==
    ASSUME NEW d, NEW v \in SUBSET DOMAIN d.states, NEW n \in DOMAIN d.states \ v
    PROVE  Exiting(d, v \cup {n}) \subseteq Exiting(d, v)
<1> SUFFICES ASSUME NEW m \in Exiting(d, v \cup {n}), NEW X \in SUBSET DOMAIN d.states, BackClosed(d, v, X)
             PROVE  m \in X
  BY DEF Exiting
<1>1. BackClosed(d, v \cup {n}, X) BY DEF BackClosed
<1> QED BY <1>1 DEF Exiting

LEMMA ExitingStep ==
    ASSUME NEW d, NEW v \in SUBSET DOMAIN d.states, NEW n \in DOMAIN d.states \ v
    PROVE  n \in Exiting(d, v) <=>
               IsEnd(d.states[n]) \/ Follows(d.states[n]) \cap Exiting(d, v \cup {n}) # {}
<1> DEFINE Y == Exiting(d, v \cup {n})
<1>1. IsEnd(d.states[n]) \/ Follows(d.states[n]) \cap Y # {} => n \in Exiting(d, v)
  BY ExitingShrinks, ExitingClosed
<1>2. ASSUME ~IsEnd(d.states[n]), Follows(d.states[n]) \cap Y = {} PROVE n \notin Exiting(d, v)
  <2>1. Y \in SUBSET DOMAIN d.states /\ n \notin Y /\ Y \cap v = {} BY DEF Exiting
  <2>2. BackClosed(d, v, Y)
    <3> SUFFICES ASSUME NEW p \in DOMAIN d.states \ v,
                        IsEnd(d.states[p]) \/ Follows(d.states[p]) \cap (Y \ v) # {}
                 PROVE  p \in Y
      BY DEF BackClosed
    <3>1. p # n BY <1>2
    <3>2. IsEnd(d.states[p]) \/ Follows(d.states[p]) \cap Y # {} OBVIOUS
    <3>3. v \cup {n} \in SUBSET DOMAIN d.states /\ p \in DOMAIN d.states \ (v \cup {n}) BY <3>1
    <3> HIDE DEF Y
    <3> QED BY <3>2, <3>3, ExitingClosed DEF Y
  <2> QED BY <2>1, <2>2 DEF Exiting
<1> QED BY <1>1, <1>2

\* The equation of the search has a solution.
LEMMA CanExists == ASSUME NEW d PROVE \E c : c = CanStep(d, c)
<1> DEFINE c == [v \in SUBSET DOMAIN d.states |-> Exiting(d, v)]
<1>1. ASSUME NEW v \in SUBSET DOMAIN d.states
      PROVE  Exiting(d, v) = {m \in DOMAIN d.states \ v :
                 IsEnd(d.states[m]) \/ Follows(d.states[m]) \cap c[v \cup {m}] # {}}
  <2>1. \A m \in DOMAIN d.states : c[v \cup {m}] = Exiting(d, v \cup {m}) OBVIOUS
  <2>2. Exiting(d, v) \subseteq DOMAIN d.states \ v BY DEF Exiting
  <2>3. ASSUME NEW m \in DOMAIN d.states \ v
        PROVE  m \in Exiting(d, v) <=>
                   IsEnd(d.states[m]) \/ Follows(d.states[m]) \cap c[v \cup {m}] # {}
    <3>1. c[v \cup {m}] = Exiting(d, v \cup {m}) BY <2>1
    <3> HIDE DEF c
    <3> QED BY <3>1, ExitingStep
  <2> HIDE DEF c
  <2> QED BY <2>2, <2>3
<1>2. c = CanStep(d, c) BY <1>1 DEF CanStep
<1> HIDE DEF c
<1> QED BY <1>2

\* A set of states the search cannot leave.
ClosedStates(d, S) ==
    \A n \in S : ~IsEnd(d.states[n]) => Follows(d.states[n]) \cap DOMAIN d.states \subseteq S

\* Where the search succeeds, no closed set around the state is without an end state.
LEMMA CanSound ==
    ASSUME NEW d, IsFiniteSet(DOMAIN d.states), NEW n \in DOMAIN d.states,
           canReachAnyEndState(n, d, {}), NEW S \in SUBSET DOMAIN d.states, ClosedStates(d, S), n \in S
    PROVE  \E m \in S : IsEnd(d.states[m])
<1> DEFINE N == DOMAIN d.states
           can == CHOOSE c : c = CanStep(d, c)
<1>1. n \in can[{}] BY DEF canReachAnyEndState, CanStep
<1>2. can = CanStep(d, can) BY CanExists
<1> HIDE DEF can
<1>3. \A v \in SUBSET N : can[v] = {m \in N \ v : IsEnd(d.states[m]) \/ Follows(d.states[m]) \cap can[v \cup {m}] # {}}
  BY <1>2 DEF CanStep
<1> SUFFICES ASSUME \A m \in S : ~IsEnd(d.states[m]) PROVE FALSE OBVIOUS
<1> DEFINE Bad == {v \in SUBSET N : can[v] \cap S # {}}
           C == {N \ v : v \in Bad}
<1>4. {} \in Bad BY <1>1
<1>5. \A v \in SUBSET N : IsFiniteSet(N \ v) /\ Cardinality(N \ v) \in Nat
  BY FS_Subset, FS_CardinalityType
<1>6. PICK s \in C : \A t \in C : Cardinality(s) <= Cardinality(t)
  <2>1. C # {} BY <1>4
  <2>2. \A s \in C : Cardinality(s) \in Nat BY <1>5
  <2> HIDE DEF C
  <2> QED BY <2>1, <2>2, Smallest
<1>7. PICK v \in Bad : s = N \ v BY <1>6
<1>8. PICK m \in S : m \in can[v] BY <1>7
<1>9. m \in N \ v /\ Follows(d.states[m]) \cap can[v \cup {m}] # {}
  <2>1. v \in SUBSET N BY <1>7
  <2>2. m \in {k \in N \ v : IsEnd(d.states[k]) \/ Follows(d.states[k]) \cap can[v \cup {k}] # {}}
    BY <1>3, <1>8, <2>1
  <2> HIDE DEF N
  <2> QED BY <2>2
<1>10. PICK p : p \in Follows(d.states[m]) /\ p \in can[v \cup {m}] BY <1>9
<1>11. v \cup {m} \in SUBSET N BY <1>9
<1>12. p \in N BY <1>3, <1>10, <1>11
<1>13. p \in S BY <1>8, <1>10, <1>12 DEF ClosedStates
<1>14. v \cup {m} \in Bad BY <1>10, <1>11, <1>13
<1>15. N \ (v \cup {m}) \in C /\ N \ (v \cup {m}) = s \ {m} BY <1>7, <1>14
<1>16. m \in s /\ IsFiniteSet(s) /\ Cardinality(s) \in Nat BY <1>5, <1>7, <1>9
<1>17. Cardinality(s \ {m}) = Cardinality(s) - 1 BY <1>16, FS_RemoveElement
<1>18. Cardinality(s) <= Cardinality(s \ {m}) BY <1>6, <1>15
<1> QED BY <1>16, <1>17, <1>18

-----------------------------------------------------------------------------
(* The marking of reachable names.                                          *)

LEMMA FiniteImage ==
    ASSUME NEW S, IsFiniteSet(S), NEW f
    PROVE  IsFiniteSet({f[x] : x \in S})
<1> DEFINE T == {f[x] : x \in S}
           g == [x \in S |-> f[x]]
<1>1. g \in Surjection(S, T) BY DEF Surjection
<1> HIDE DEF g, T
<1> QED BY <1>1, FS_Surjection DEF T

Names(d) == {d.startAt} \cup UNION {Follows(d.states[n]) : n \in DOMAIN d.states}

MarkStep(d, c) ==
    [r \in SUBSET Names(d) |->
        IF Ahead(d, r) = {} THEN r ELSE c[r \cup {CHOOSE n \in Ahead(d, r) : TRUE}]]

\* The least set of names around r that leads nowhere else.
Closure(d, r) ==
    {x \in Names(d) : \A X \in SUBSET Names(d) : r \subseteq X /\ Ahead(d, X) = {} => x \in X}

LEMMA AheadElements ==
    ASSUME NEW d, NEW r, NEW x
    PROVE  x \in Ahead(d, r) <=>
               /\ x \notin r
               /\ \E n \in r \cap DOMAIN d.states : ~IsEnd(d.states[n]) /\ x \in Follows(d.states[n])
<1> DEFINE open == {n \in r \cap DOMAIN d.states : ~IsEnd(d.states[n])}
           U == UNION {Follows(d.states[n]) : n \in open}
<1>1. Ahead(d, r) = U \ r BY DEF Ahead
<1>2. x \in U <=> \E n \in open : x \in Follows(d.states[n]) OBVIOUS
<1>3. (\E n \in open : x \in Follows(d.states[n])) <=>
          \E n \in r \cap DOMAIN d.states : ~IsEnd(d.states[n]) /\ x \in Follows(d.states[n])
  OBVIOUS
<1> HIDE DEF open, U
<1>4. x \in Ahead(d, r) <=> x \in U /\ x \notin r BY <1>1
<1> QED BY <1>2, <1>3, <1>4

LEMMA AheadNames ==
    ASSUME NEW d, NEW r \in SUBSET Names(d), NEW x \in Ahead(d, r)
    PROVE  /\ x \in Names(d) /\ x \notin r
           /\ \E n \in r \cap DOMAIN d.states : ~IsEnd(d.states[n]) /\ x \in Follows(d.states[n])
<1>1. PICK n \in r \cap DOMAIN d.states : ~IsEnd(d.states[n]) /\ x \in Follows(d.states[n])
  BY AheadElements
<1>2. x \in UNION {Follows(d.states[k]) : k \in DOMAIN d.states} BY <1>1
<1>3. x \in Names(d) BY <1>2 DEF Names
<1>4. x \notin r BY AheadElements
<1> QED BY <1>1, <1>3, <1>4

LEMMA ClosureStep ==
    ASSUME NEW d, NEW r \in SUBSET Names(d)
    PROVE  /\ Ahead(d, r) = {} => Closure(d, r) = r
           /\ \A x \in Ahead(d, r) : Closure(d, r) = Closure(d, r \cup {x})
<1>1. Ahead(d, r) = {} => Closure(d, r) = r BY DEF Closure
<1>2. ASSUME NEW x \in Ahead(d, r), NEW X \in SUBSET Names(d), r \subseteq X, Ahead(d, X) = {}
      PROVE  x \in X
  <2>1. PICK n \in r \cap DOMAIN d.states : ~IsEnd(d.states[n]) /\ x \in Follows(d.states[n])
    BY AheadNames
  <2>2. n \in X \cap DOMAIN d.states BY <1>2, <2>1
  <2> QED BY <1>2, <2>1, <2>2, AheadElements
<1>3. ASSUME NEW x \in Ahead(d, r) PROVE Closure(d, r) = Closure(d, r \cup {x})
  <2>1. \A X \in SUBSET Names(d) : r \subseteq X /\ Ahead(d, X) = {} <=> r \cup {x} \subseteq X /\ Ahead(d, X) = {}
    BY <1>2
  <2> QED BY <2>1 DEF Closure
<1> QED BY <1>1, <1>3

LEMMA MarkExists == ASSUME NEW d PROVE \E c : c = MarkStep(d, c)
<1> DEFINE c == [r \in SUBSET Names(d) |-> Closure(d, r)]
<1>1. ASSUME NEW r \in SUBSET Names(d)
      PROVE  Closure(d, r) = IF Ahead(d, r) = {} THEN r
                             ELSE c[r \cup {CHOOSE n \in Ahead(d, r) : TRUE}]
  <2>1. CASE Ahead(d, r) = {} BY <2>1, ClosureStep
  <2>2. CASE Ahead(d, r) # {}
    <3>1. PICK x : x = CHOOSE n \in Ahead(d, r) : TRUE OBVIOUS
    <3>2. x \in Ahead(d, r) BY <2>2, <3>1
    <3>3. r \cup {x} \in SUBSET Names(d) BY <3>2, AheadNames
    <3>4. c[r \cup {x}] = Closure(d, r \cup {x}) BY <3>3
    <3>5. Closure(d, r) = Closure(d, r \cup {x}) BY <3>2, ClosureStep
    <3> HIDE DEF c
    <3> QED BY <2>2, <3>1, <3>4, <3>5
  <2> QED BY <2>1, <2>2
<1>2. c = MarkStep(d, c) BY <1>1 DEF MarkStep
<1> HIDE DEF c
<1> QED BY <1>2

\* States, rules and policies of a definition are finite in number.
FiniteDefinition(d) ==
    /\ IsFiniteSet(DOMAIN d.states)
    /\ \A n \in DOMAIN d.states :
          IsFiniteSet(DOMAIN d.states[n].choices) /\ IsFiniteSet(DOMAIN d.states[n].catch)

LEMMA NextsFinite ==
    ASSUME NEW rules, IsFiniteSet(DOMAIN rules)
    PROVE  IsFiniteSet(NextsOf(rules))
<1> DEFINE f == [i \in DOMAIN rules |-> rules[i].next]
<1>1. NextsOf(rules) = {f[i] : i \in DOMAIN rules} BY DEF NextsOf
<1> HIDE DEF f
<1> QED BY <1>1, FiniteImage

\* Where the loop may go includes where the searches go.
LEMMA FollowsSuccessors ==
    ASSUME NEW s
    PROVE  /\ Follows(s) \subseteq {s.next, s.default} \cup NextsOf(s.choices) \cup NextsOf(s.catch)
           /\ ~IsEnd(s) => Follows(s) \subseteq Successors(s)
<1>1. GetNext(s) \in {"", s.next} BY DEF GetNext
<1>2. GetNextStates(s) \subseteq {"", s.next, s.default} \cup NextsOf(s.choices) \cup NextsOf(s.catch)
  BY <1>1 DEF GetNextStates
<1>3. Follows(s) \subseteq ({s.next, s.default} \cup NextsOf(s.choices) \cup NextsOf(s.catch)) \ {""}
  BY <1>1, <1>2 DEF Follows
<1> QED BY <1>3 DEF Successors

LEMMA NamesFinite ==
    ASSUME NEW d, FiniteDefinition(d)
    PROVE  IsFiniteSet(Names(d))
<1> DEFINE f == [n \in DOMAIN d.states |-> Follows(d.states[n])]
           sets == {f[n] : n \in DOMAIN d.states}
<1>1. IsFiniteSet(sets) BY FiniteImage DEF FiniteDefinition
<1>2. ASSUME NEW n \in DOMAIN d.states PROVE IsFiniteSet(Follows(d.states[n]))
  <2>1. PICK s : s = d.states[n] OBVIOUS
  <2>2. IsFiniteSet(NextsOf(s.choices)) /\ IsFiniteSet(NextsOf(s.catch))
    BY <2>1, NextsFinite DEF FiniteDefinition
  <2>3. IsFiniteSet({s.next, s.default})
    <3>1. IsFiniteSet({s.next}) /\ IsFiniteSet({s.default}) BY FS_Singleton
    <3>2. {s.next, s.default} = {s.next} \cup {s.default} OBVIOUS
    <3> QED BY <3>1, <3>2, FS_Union
  <2>4. IsFiniteSet({s.next, s.default} \cup NextsOf(s.choices)) BY <2>2, <2>3, FS_Union
  <2>5. IsFiniteSet({s.next, s.default} \cup NextsOf(s.choices) \cup NextsOf(s.catch))
    BY <2>2, <2>4, FS_Union
  <2>6. Follows(s) \subseteq {s.next, s.default} \cup NextsOf(s.choices) \cup NextsOf(s.catch)
    BY FollowsSuccessors
  <2> QED BY <2>1, <2>5, <2>6, FS_Subset
<1>3. \A T \in sets : IsFiniteSet(T) BY <1>2
<1>4. UNION sets = UNION {Follows(d.states[n]) : n \in DOMAIN d.states} OBVIOUS
<1> HIDE DEF sets
<1>5. IsFiniteSet(UNION sets) BY <1>1, <1>3, FS_UNION
<1>6. IsFiniteSet({d.startAt}) BY FS_Singleton
<1> QED BY <1>4, <1>5, <1>6, FS_Union DEF Names

\* The search marks nothing outside a closed set that holds StartAt.
LEMMA MarkSound ==
    ASSUME NEW d, FiniteDefinition(d), NEW S \in SUBSET DOMAIN d.states, ClosedStates(d, S), d.startAt \in S
    PROVE  markReachable(d) \cap DOMAIN d.states \subseteq S
<1> DEFINE N == DOMAIN d.states
           mark == CHOOSE c : c = MarkStep(d, c)
<1>1. markReachable(d) = mark[{d.startAt}] BY DEF markReachable, MarkStep, Names
<1>2. mark = MarkStep(d, mark) BY MarkExists
<1> HIDE DEF mark
<1>3. \A r \in SUBSET Names(d) : mark[r] = IF Ahead(d, r) = {} THEN r
                                         ELSE mark[r \cup {CHOOSE n \in Ahead(d, r) : TRUE}]
  BY <1>2 DEF MarkStep
<1> SUFFICES ASSUME ~(mark[{d.startAt}] \cap N \subseteq S) PROVE FALSE BY <1>1
<1> DEFINE Bad == {r \in SUBSET Names(d) : r \cap N \subseteq S /\ ~(mark[r] \cap N \subseteq S)}
           C == {Names(d) \ r : r \in Bad}
<1>4. {d.startAt} \in Bad BY DEF Names, Bad
<1> HIDE DEF Bad
<1>5. \A r \in SUBSET Names(d) : IsFiniteSet(Names(d) \ r) /\ Cardinality(Names(d) \ r) \in Nat
  BY NamesFinite, FS_Subset, FS_CardinalityType
<1>6. PICK s \in C : \A t \in C : Cardinality(s) <= Cardinality(t)
  <2>1. C # {} BY <1>4
  <2>2. \A s \in C : Cardinality(s) \in Nat BY <1>5 DEF Bad
  <2> HIDE DEF C
  <2> QED BY <2>1, <2>2, Smallest
<1>7. PICK r \in Bad : s = Names(d) \ r BY <1>6
<1>8. PICK x : x = CHOOSE n \in Ahead(d, r) : TRUE OBVIOUS
<1>9. r \in SUBSET Names(d) /\ r \cap N \subseteq S /\ ~(mark[r] \cap N \subseteq S) BY <1>7 DEF Bad
<1>10. Ahead(d, r) # {} /\ mark[r] = mark[r \cup {x}] BY <1>3, <1>8, <1>9
<1>11. x \in Ahead(d, r) BY <1>8, <1>10
<1>12. x \in Names(d) /\ x \notin r /\ (x \in N => x \in S)
  BY <1>9, <1>11, AheadNames DEF ClosedStates
<1>13. r \cup {x} \in Bad BY <1>9, <1>10, <1>12 DEF Bad
<1>14. Names(d) \ (r \cup {x}) \in C /\ Names(d) \ (r \cup {x}) = s \ {x} BY <1>7, <1>13
<1>15. x \in s /\ IsFiniteSet(s) /\ Cardinality(s) \in Nat BY <1>5, <1>7, <1>9, <1>12
<1>16. Cardinality(s \ {x}) = Cardinality(s) - 1 BY <1>15, FS_RemoveElement
<1>17. Cardinality(s) <= Cardinality(s \ {x}) BY <1>6, <1>14
<1> QED BY <1>15, <1>16, <1>17

-----------------------------------------------------------------------------
(* The inductive invariant.                                                 *)

\* Only a validated definition is executed.
Checked ==
    /\ Accepted => def \in Definitions /\ Validate(def)
    /\ ~Accepted => abandoned = 0

ThreadFields == {"phase", "name", "via", "doc", "in", "taskInput", "attempt", "err", "out"}
Shape == DOMAIN thr = Threads /\ \A t \in Threads : DOMAIN thr[t] = ThreadFields

\* Between executions no goroutine runs.
Idle == status # "RUNNING" => \A t \in Threads : thr[t] = Off

\* The phase of the execution's own goroutine fits the state it is in, and a name that
\* was not checked came from a Choice or a Catch.
Placed ==
    status = "RUNNING" =>
        /\ thr[0].phase \in {"enter", "task", "backoff", "wait", "join"}
        /\ thr[0].phase # "enter" => thr[0].name \in DOMAIN def.states
        /\ thr[0].phase = "enter" => \/ thr[0].name \in DOMAIN def.states
                                     \/ thr[0].via \in {"choice", "catch"}
        /\ thr[0].phase \in {"task", "backoff"} => def.states[thr[0].name].type = "Task"
        /\ thr[0].phase = "wait" => def.states[thr[0].name].type = "Wait"
        /\ thr[0].phase = "join" => def.states[thr[0].name].type = "Parallel"

\* Goroutines of branches exist only while their Parallel state is joined.
Forked ==
    status = "RUNNING" =>
        \A t \in Branches : thr[t].phase # "off" =>
            thr[0].phase = "join" /\ t \in DOMAIN def.states[thr[0].name].branches

\* The error of a branch is still there when the Parallel state looks for it.
Remembered ==
    branchFailed =>
        /\ status \notin {"NEW", "REJECTED", "READY", "SUCCEEDED"}
        /\ status = "RUNNING" =>
              \E t \in Branches : thr[t].phase = "done" /\ thr[t].err # ""

IInv == Checked /\ Shape /\ Idle /\ Placed /\ Forked /\ Remembered

-----------------------------------------------------------------------------
(* What a definition that passed Validate promises.                         *)

StateTypes == {"Pass", "Task", "Wait", "Choice", "Parallel", "Fail", "Succeed"}

LEMMA Factory == ASSUME NEW s, CreateState(s) PROVE s.type \in StateTypes
BY DEF CreateState, StateTypes

LEMMA ValidatedStates ==
    ASSUME NEW d, Validate(d), NEW n \in DOMAIN d.states
    PROVE  /\ d.startAt \in DOMAIN d.states /\ d.states[n].type \in StateTypes
           /\ d.states[n].type \notin {"Fail", "Succeed", "Choice"} /\ d.states[n].next # "" =>
                 d.states[n].next \in DOMAIN d.states
<1>1. CreateState(d.states[n]) /\ d.startAt \in DOMAIN d.states BY DEF Validate
<1>2. GetNext(d.states[n]) # "" => GetNext(d.states[n]) \in DOMAIN d.states BY DEF Validate, ValidateNext
<1>3. d.states[n].type \notin {"Fail", "Succeed", "Choice"} => GetNext(d.states[n]) = d.states[n].next
  BY DEF GetNext
<1> QED BY <1>1, <1>2, <1>3, Factory

\* The graph checks find what they are for.
LEMMA GraphChecks ==
    ASSUME NEW d, FiniteDefinition(d), Validate(d), NEW S \in SUBSET DOMAIN d.states, S # {},
           \A n \in S : Successors(d.states[n]) \cap DOMAIN d.states \subseteq S
    PROVE  /\ \E n \in S : IsEnd(d.states[n])
           /\ d.startAt \in S => S = DOMAIN d.states
<1>1. ClosedStates(d, S) BY FollowsSuccessors DEF ClosedStates
<1>2. PICK n \in S : TRUE OBVIOUS
<1>3. /\ \A m \in DOMAIN d.states : canReachAnyEndState(m, d, {})
      /\ DOMAIN d.states \subseteq markReachable(d)
  BY DEF Validate, validateGraph
<1>4. \E m \in S : IsEnd(d.states[m]) BY <1>1, <1>2, <1>3, CanSound DEF FiniteDefinition
<1>5. d.startAt \in S => S = DOMAIN d.states BY <1>1, <1>3, MarkSound
<1> QED BY <1>4, <1>5

LEMMA DefinitionFacts ==
    ASSUME NEW d \in Definitions
    PROVE  /\ FiniteDefinition(d)
           /\ \A n \in DOMAIN d.states :
                 /\ DOMAIN d.states[n].branches \subseteq Branches
                 /\ \A b \in DOMAIN d.states[n].branches :
                       \A k \in DOMAIN d.states[n].branches[b].states :
                           d.states[n].branches[b].states[k].type \in StateTypes \ {"Parallel"}
<1>1. IsFiniteSet(DOMAIN d.states) BY DefinitionsAssumption
<1>2. ASSUME NEW n \in DOMAIN d.states
      PROVE  /\ IsFiniteSet(DOMAIN d.states[n].choices) /\ IsFiniteSet(DOMAIN d.states[n].catch)
             /\ DOMAIN d.states[n].branches \subseteq Branches
             /\ \A b \in DOMAIN d.states[n].branches :
                   \A k \in DOMAIN d.states[n].branches[b].states :
                       d.states[n].branches[b].states[k].type \in
                           {"Pass", "Task", "Wait", "Choice", "Fail", "Succeed"}
  BY DefinitionsAssumption, Zenon
<1>3. {"Pass", "Task", "Wait", "Choice", "Fail", "Succeed"} = StateTypes \ {"Parallel"}
  BY DEF StateTypes
<1>4. FiniteDefinition(d) BY <1>1, <1>2 DEF FiniteDefinition
<1> QED BY <1>2, <1>3, <1>4, Zenon

LEMMA CheckedCanEnd == ASSUME Checked PROVE AcceptedCanEnd
<1> SUFFICES ASSUME Accepted, NEW S \in SUBSET DOMAIN def.states, S # {},
                    \A n \in S : Successors(def.states[n]) \cap DOMAIN def.states \subseteq S
             PROVE  /\ \E n \in S : IsEnd(def.states[n])
                    /\ def.startAt \in S => S = DOMAIN def.states
  BY DEF AcceptedCanEnd
<1>1. PICK d \in Definitions : d = def /\ Validate(d) BY DEF Checked
<1>2. FiniteDefinition(d) BY <1>1, DefinitionFacts
<1> QED BY <1>1, <1>2, GraphChecks

-----------------------------------------------------------------------------
(* What a step does to the goroutines.                                      *)

Over == {"SUCCEEDED", "FAILED", "TIMED_OUT", "CANCELLED", "CRASHED"}

\* The execution ends.
Ended ==
    /\ status' \in Over /\ branchFailed' = branchFailed
    /\ thr' = [t \in Threads |-> Off]
    /\ status' = "SUCCEEDED" => ~branchFailed

\* Its goroutine goes on to another state.
Moved ==
    /\ status' = status /\ branchFailed' = branchFailed /\ Shape'
    /\ thr'[0].phase = "enter"
    /\ thr'[0].name \in DOMAIN def.states \/ thr'[0].via \in {"choice", "catch"}
    /\ \A t \in Branches : thr'[t].phase = "off"
    /\ ~branchFailed

\* Its goroutine stays in its state.
Stayed ==
    /\ status' = status /\ branchFailed' = branchFailed /\ Shape'
    /\ thr[0].phase # "join" /\ thr'[0].phase \in {"task", "backoff", "wait"}
    /\ thr'[0].name = thr[0].name /\ thr[0].name \in DOMAIN def.states
    /\ thr'[0].phase \in {"task", "backoff"} => def.states[thr[0].name].type = "Task"
    /\ thr'[0].phase = "wait" => def.states[thr[0].name].type = "Wait"
    /\ \A t \in Branches : thr'[t] = thr[t]

\* It starts the goroutines of the branches.
Started ==
    /\ status' = status /\ branchFailed' = branchFailed /\ Shape'
    /\ thr[0].phase # "join" /\ thr'[0].phase = "join"
    /\ thr'[0].name = thr[0].name /\ thr[0].name \in DOMAIN def.states
    /\ def.states[thr[0].name].type = "Parallel"
    /\ \A t \in Branches : thr'[t].phase # "off" => t \in DOMAIN def.states[thr[0].name].branches

\* The goroutine of branch t takes a step.
Branched(t) ==
    /\ status' = status /\ Shape' /\ thr[t].phase \notin {"off", "done"}
    /\ \A u \in Threads \ {t} : thr'[u] = thr[u]
    /\ branchFailed' => branchFailed \/ (thr'[t].phase = "done" /\ thr'[t].err # "")

LEMMA ThreadIndices ==
    /\ 0 \in Threads /\ Branches \subseteq Threads /\ 0 \notin Branches
    /\ \A t \in Threads : t # 0 => t \in Branches
BY InterpreterAssumption DEF Threads, Branches

LEMMA OffFields == DOMAIN Off = ThreadFields /\ Off.phase = "off" BY DEF Off, ThreadFields

Running == IInv /\ status = "RUNNING" /\ UNCHANGED def

LEMMA InvEnded == ASSUME IInv, Accepted, def' = def, Ended PROVE IInv'
<1>1. status' \in Over /\ branchFailed' = branchFailed /\ thr' = [t \in Threads |-> Off]
      /\ (status' = "SUCCEEDED" => ~branchFailed)
  BY DEF Ended
<1>2. Accepted' BY <1>1 DEF Accepted, Over
<1>3. Checked' BY <1>2 DEF IInv, Checked, Accepted
<1>4. status' # "RUNNING" /\ status' \notin {"NEW", "REJECTED", "READY"} BY <1>1 DEF Over
<1>5. Shape' BY <1>1, OffFields DEF Shape
<1>6. Idle' BY <1>1 DEF Idle
<1>7. Placed' /\ Forked' BY <1>4 DEF Placed, Forked
<1>8. Remembered' BY <1>1, <1>4 DEF Remembered
<1> QED BY <1>3, <1>5, <1>6, <1>7, <1>8 DEF IInv

LEMMA CheckedRuns == ASSUME Running, status' = "RUNNING" PROVE Checked' /\ Idle' /\ Accepted
<1>1. Accepted /\ Accepted' BY DEF Running, Accepted
<1> QED BY <1>1 DEF Running, IInv, Checked, Idle

LEMMA InvMoved == ASSUME Running, Moved PROVE IInv'
<1>1. status' = "RUNNING" /\ def' = def BY DEF Running, Moved
<1>2. Checked' /\ Idle' BY <1>1, CheckedRuns
<1>3. Placed' BY <1>1 DEF Moved, Placed
<1>4. Forked' BY DEF Moved, Forked
<1>5. Remembered' BY DEF Moved, Remembered
<1> QED BY <1>2, <1>3, <1>4, <1>5 DEF IInv, Moved

\* As long as the goroutine of the execution is not joining, there are no branches.
LEMMA NoBranches ==
    ASSUME Running, thr[0].phase # "join"
    PROVE  ~branchFailed /\ \A t \in Branches : thr[t].phase = "off"
<1>1. \A t \in Branches : thr[t].phase = "off" BY DEF Running, IInv, Forked
<1> QED BY <1>1 DEF Running, IInv, Remembered

LEMMA InvStayed == ASSUME Running, Stayed PROVE IInv'
<1>1. status' = "RUNNING" /\ def' = def BY DEF Running, Stayed
<1>2. Checked' /\ Idle' BY <1>1, CheckedRuns
<1>3. ~branchFailed /\ \A t \in Branches : thr[t].phase = "off" BY NoBranches DEF Stayed
<1>4. Placed' BY <1>1 DEF Stayed, Placed
<1>5. Forked' BY <1>3 DEF Stayed, Forked
<1>6. Remembered' BY <1>3 DEF Stayed, Remembered
<1> QED BY <1>2, <1>4, <1>5, <1>6 DEF IInv, Stayed

LEMMA InvStarted == ASSUME Running, Started PROVE IInv'
<1>1. status' = "RUNNING" /\ def' = def BY DEF Running, Started
<1>2. Checked' /\ Idle' BY <1>1, CheckedRuns
<1>3. ~branchFailed BY NoBranches DEF Started
<1>4. Placed' BY <1>1 DEF Started, Placed
<1>5. Forked' BY <1>1 DEF Started, Forked
<1>6. Remembered' BY <1>3 DEF Started, Remembered
<1> QED BY <1>2, <1>4, <1>5, <1>6 DEF IInv, Started

LEMMA InvBranched == ASSUME Running, NEW t \in Branches, Branched(t) PROVE IInv'
<1>1. status' = "RUNNING" /\ def' = def /\ status = "RUNNING" BY DEF Running, Branched
<1>2. Checked' /\ Idle' BY <1>1, CheckedRuns
<1>3. thr[0].phase = "join" /\ t \in DOMAIN def.states[thr[0].name].branches
  BY DEF Running, IInv, Forked, Branched
<1>4. thr'[0] = thr[0] BY ThreadIndices DEF Branched
<1>5. Placed' BY <1>1, <1>4 DEF Running, IInv, Placed
<1>6. ASSUME NEW u \in Branches, thr'[u].phase # "off"
      PROVE  u \in DOMAIN def.states[thr[0].name].branches
  <2>1. CASE u = t BY <1>3, <2>1
  <2>2. CASE u # t
    <3>1. thr'[u] = thr[u] BY <2>2, ThreadIndices DEF Branched
    <3> QED BY <1>1, <1>6, <3>1 DEF Running, IInv, Forked
  <2> QED BY <2>1, <2>2
<1>7. Forked' BY <1>1, <1>3, <1>4, <1>6 DEF Forked
<1>8. Remembered'
  <2>1. CASE branchFailed
    <3>1. PICK u \in Branches : thr[u].phase = "done" /\ thr[u].err # ""
      BY <1>1, <2>1 DEF Running, IInv, Remembered
    <3>2. u # t BY <3>1 DEF Branched
    <3>3. thr'[u] = thr[u] BY <3>2, ThreadIndices DEF Branched
    <3> QED BY <1>1, <3>1, <3>3 DEF Remembered
  <2>2. CASE thr'[t].phase = "done" /\ thr'[t].err # "" BY <1>1, <2>2 DEF Remembered
  <2>3. CASE ~branchFailed' BY <2>3 DEF Remembered
  <2> QED BY <2>1, <2>2, <2>3 DEF Branched
<1> QED BY <1>2, <1>5, <1>7, <1>8 DEF IInv, Branched

\* What Execute of a state returns names a next state only if it was given one.
LEMMA ReturnsNext ==
    ASSUME NEW v, NEW next
    PROVE  Returns(v, next).next \in {"", next}
BY DEF Returns, Fault

\* The loop of the execution takes the outcome of a state.
LEMMA LoopGoesOn ==
    ASSUME Running, NEW r, NEW via, StateReturns(0, r, via),
           r.err = "" => ~branchFailed,
           \A t \in Branches : thr[t].phase \in {"off", "done"},
           r.next = "" \/ r.next \in DOMAIN def.states \/ via \in {"choice", "catch"}
    PROVE  Ended \/ Moved
<1>1. RunExecution(r, via) BY DEF StateReturns
<1>2. ASSUME NEW st \in {"SUCCEEDED", "FAILED"}, NEW why, End(st, why),
             st = "SUCCEEDED" => ~branchFailed
      PROVE  Ended
  BY <1>2 DEF End, Ended, Over
<1>3. ASSUME NEW doc, GoTo(r.next, via, doc), r.next # "", ~branchFailed PROVE Moved
  <2>1. /\ status' = status /\ branchFailed' = branchFailed
        /\ thr' = [t \in Threads |-> IF t = 0 THEN At(r.next, via, doc)
                                    ELSE IF thr[t].phase = "done" THEN Off ELSE thr[t]]
    BY <1>3 DEF GoTo
  <2>2. thr'[0] = At(r.next, via, doc) BY <2>1, ThreadIndices
  <2>3. \A t \in Branches : thr'[t] = IF thr[t].phase = "done" THEN Off ELSE thr[t]
    BY <2>1, ThreadIndices
  <2>4. \A t \in Branches : thr'[t].phase = "off" BY <2>3, OffFields
  <2>5. Shape'
    <3>1. DOMAIN thr' = Threads BY <2>1
    <3>2. \A t \in Branches : DOMAIN thr'[t] = ThreadFields
      BY <2>3, OffFields, ThreadIndices DEF Running, IInv, Shape
    <3>3. DOMAIN thr'[0] = ThreadFields BY <2>2 DEF At, Off, ThreadFields
    <3> QED BY <3>1, <3>2, <3>3, ThreadIndices DEF Shape
  <2>6. thr'[0].phase = "enter" /\ thr'[0].name = r.next /\ thr'[0].via = via
    BY <2>2 DEF At, Off
  <2> QED BY <1>3, <2>1, <2>4, <2>5, <2>6 DEF Moved
<1>4. CASE r.err # "" BY <1>1, <1>2, <1>4 DEF RunExecution
<1>5. CASE r.err = ""
  <2>1. CASE IsEnd(StateOf(0)) \/ r.next = "" BY <1>1, <1>2, <1>5, <2>1 DEF RunExecution
  <2>2. CASE ~(IsEnd(StateOf(0)) \/ r.next = "")
    BY <1>1, <1>3, <1>5, <2>2 DEF RunExecution
  <2> QED BY <2>1, <2>2
<1> QED BY <1>4, <1>5

\* The loop of a branch takes the outcome of a state.
LEMMA BranchGoesOn ==
    ASSUME Running, NEW t \in Branches, thr[t].phase \notin {"off", "done"},
           NEW r, NEW via, StateReturns(t, r, via)
    PROVE  Ended \/ Branched(t)
<1>0. t # 0 /\ t \in Threads BY ThreadIndices
<1>1. CASE r.err = "panic"
  <2>1. End("CRASHED", "panic") BY <1>0, <1>1 DEF StateReturns, Crash
  <2> QED BY <2>1 DEF End, Ended, Over
<1>2. CASE r.err # "panic"
  <2>1. executeBranch(t, r, via) BY <1>0, <1>2 DEF StateReturns
  <2>2. PICK x : /\ thr' = [thr EXCEPT ![t] = x]
                 /\ x = IF r.err # "" THEN [Off EXCEPT !.phase = "done", !.err = r.err]
                        ELSE IF IsEnd(StateOf(t)) \/ r.next = ""
                             THEN [Off EXCEPT !.phase = "done", !.out = r.out]
                             ELSE At(r.next, via, r.out)
    BY <2>1 DEF executeBranch
  <2>3. status' = status /\ branchFailed' = (branchFailed \/ r.err # "") BY <2>1 DEF executeBranch
  <2>4. DOMAIN x = ThreadFields
    <3>1. DOMAIN [Off EXCEPT !.phase = "done", !.err = r.err] = ThreadFields BY DEF Off, ThreadFields
    <3>2. DOMAIN [Off EXCEPT !.phase = "done", !.out = r.out] = ThreadFields BY DEF Off, ThreadFields
    <3>3. DOMAIN At(r.next, via, r.out) = ThreadFields BY DEF At, Off, ThreadFields
    <3> QED BY <2>2, <3>1, <3>2, <3>3
  <2>a. ASSUME r.err # "" PROVE x.phase = "done" /\ x.err # ""
    <3>1. x = [Off EXCEPT !.phase = "done", !.err = r.err] BY <2>2, <2>a
    <3>2. x.err = r.err /\ x.phase = "done" BY <3>1 DEF Off
    <3> QED BY <2>a, <3>2
  <2>5. DOMAIN thr = Threads /\ \A u \in Threads : DOMAIN thr[u] = ThreadFields
    BY DEF Running, IInv, Shape
  <2>6. thr'[t] = x /\ DOMAIN thr' = Threads /\ \A u \in Threads \ {t} : thr'[u] = thr[u]
    BY <1>0, <2>2, <2>5
  <2>7. Shape' BY <2>4, <2>5, <2>6 DEF Shape
  <2>8. branchFailed' => branchFailed \/ r.err # "" BY <2>3
  <2> QED BY <2>3, <2>6, <2>7, <2>8, <2>a DEF Branched
<1> QED BY <1>1, <1>2

Effect == Ended \/ Moved \/ Stayed \/ Started \/ \E u \in Branches : Branched(u)

\* The next state of an outcome was checked, or came from a Choice or a Catch.
Aimed(r, via) == r.next = "" \/ r.next \in DOMAIN def.states \/ via \in {"choice", "catch"}

LEMMA Returned ==
    ASSUME Running, NEW t \in Threads, thr[t].phase \in {"enter", "task", "backoff", "wait"},
           NEW r, NEW via, StateReturns(t, r, via), t = 0 => Aimed(r, via)
    PROVE  Effect
<1>1. CASE t = 0
  <2>1. ~branchFailed /\ \A u \in Branches : thr[u].phase = "off" BY <1>1, NoBranches
  <2> QED BY <1>1, <2>1, LoopGoesOn DEF Aimed, Effect
<1>2. CASE t \in Branches BY <1>2, BranchGoesOn DEF Effect
<1> QED BY <1>1, <1>2, ThreadIndices

\* Thread t goes to another phase of the same state.
Rephased(t, phase) ==
    /\ status' = status /\ branchFailed' = branchFailed
    /\ DOMAIN thr' = Threads /\ DOMAIN thr'[t] = ThreadFields
    /\ \A u \in Threads \ {t} : thr'[u] = thr[u]
    /\ thr'[t].phase = phase /\ thr'[t].name = thr[t].name

LEMMA PhaseEffect ==
    ASSUME Running, NEW t \in Threads, thr[t].phase \in {"enter", "task", "backoff", "wait"},
           NEW phase \in {"task", "backoff", "wait"}, Rephased(t, phase),
           t = 0 => /\ thr[0].name \in DOMAIN def.states
                    /\ def.states[thr[0].name].type = IF phase = "wait" THEN "Wait" ELSE "Task"
    PROVE  Effect
<1>1. Shape' BY DEF Running, IInv, Shape, Rephased
<1>2. CASE t = 0
  <2>1. \A u \in Branches : thr'[u] = thr[u] BY <1>2, ThreadIndices DEF Rephased
  <2>2. Stayed BY <1>1, <1>2, <2>1 DEF Rephased, Stayed
  <2> QED BY <2>2 DEF Effect
<1>3. CASE t \in Branches
  <2>1. Branched(t) BY <1>1, <1>3 DEF Rephased, Branched
  <2> QED BY <1>3, <2>1 DEF Effect
<1> QED BY <1>2, <1>3, ThreadIndices

\* Branch t ends with an error.
LEMMA BranchStops ==
    ASSUME Running, NEW t \in Branches, thr[t].phase \notin {"off", "done"}, NEW e, e # "",
           status' = status, thr' = [thr EXCEPT ![t] = [Off EXCEPT !.phase = "done", !.err = e]]
    PROVE  Effect
<1>1. t \in Threads BY ThreadIndices
<1>2. DOMAIN thr = Threads /\ \A u \in Threads : DOMAIN thr[u] = ThreadFields
  BY DEF Running, IInv, Shape
<1>3. /\ thr'[t] = [Off EXCEPT !.phase = "done", !.err = e] /\ DOMAIN thr' = Threads
      /\ \A u \in Threads \ {t} : thr'[u] = thr[u]
  BY <1>1, <1>2
<1>a. PICK x : x = [Off EXCEPT !.phase = "done", !.err = e] OBVIOUS
<1>b. DOMAIN x = ThreadFields BY <1>a DEF Off, ThreadFields
<1>c. x.phase = "done" /\ x.err = e BY <1>a DEF Off
<1>4. DOMAIN thr'[t] = ThreadFields /\ thr'[t].phase = "done" /\ thr'[t].err = e
  BY <1>3, <1>a, <1>b, <1>c
<1>5. Shape' BY <1>1, <1>2, <1>3, <1>4 DEF Shape
<1>6. Branched(t) BY <1>3, <1>4, <1>5 DEF Branched
<1> QED BY <1>6 DEF Effect

LEMMA EndEffect ==
    ASSUME NEW st \in Over, st # "SUCCEEDED", NEW why, End(st, why)
    PROVE  Effect
BY DEF End, Ended, Effect

LEMMA StopEffect ==
    ASSUME IInv, NEW t \in Threads, Stop(t)
    PROVE  Running /\ Effect
<1>1. Running /\ thr[t].phase = "enter" BY DEF Stop, Running
<1>2. CASE t = 0
  <2>1. End("TIMED_OUT", "timeout") \/ End("CANCELLED", "canceled") BY <1>2 DEF Stop
  <2> QED BY <1>1, <2>1, EndEffect DEF Over
<1>3. CASE t \in Branches
  <2>1. t # 0 /\ t \in Threads BY <1>3, ThreadIndices
  <2>2. /\ status' = status
        /\ thr' = [thr EXCEPT ![t] = [Off EXCEPT !.phase = "done", !.err = "canceled"]]
    BY <2>1 DEF Stop
  <2> QED BY <1>1, <1>3, <2>2, BranchStops
<1> QED BY <1>2, <1>3, ThreadIndices

LEMMA NotFoundEffect ==
    ASSUME IInv, NEW t \in Threads, NotFound(t)
    PROVE  Running /\ Effect
<1>1. Running /\ thr[t].phase = "enter" BY DEF NotFound, Running
<1>2. CASE t = 0
  <2>1. End("FAILED", "not found") BY <1>2 DEF NotFound
  <2> QED BY <1>1, <2>1, EndEffect DEF Over
<1>3. CASE t \in Branches
  <2>1. t # 0 /\ t \in Threads BY <1>3, ThreadIndices
  <2>2. /\ status' = status
        /\ thr' = [thr EXCEPT ![t] = [Off EXCEPT !.phase = "done", !.err = "not found in branch"]]
    BY <2>1 DEF NotFound
  <2> QED BY <1>1, <1>3, <2>2, BranchStops
<1> QED BY <1>2, <1>3, ThreadIndices

\* An attempt that failed is made again, or the outcome is up to Catch.
LEMMA AttemptEffect ==
    ASSUME Running, NEW t \in Threads, thr[t].phase = "task", NEW e, AttemptFails(t, e)
    PROVE  Effect
<1>1. CASE StateReturns(t, handleTaskFailure(StateOf(t), thr[t].in, e), "catch")
  BY <1>1, Returned DEF Aimed
<1>2. CASE /\ thr' = [thr EXCEPT ![t].phase = "backoff"]
           /\ status' = status /\ branchFailed' = branchFailed
  <2>1. DOMAIN thr = Threads /\ DOMAIN thr[t] = ThreadFields BY DEF Running, IInv, Shape
  <2>2. Rephased(t, "backoff") BY <1>2, <2>1 DEF Rephased, ThreadFields
  <2>3. t = 0 => thr[0].name \in DOMAIN def.states /\ def.states[thr[0].name].type = "Task"
    BY DEF Running, IInv, Placed
  <2> QED BY <2>2, <2>3, PhaseEffect
<1> QED BY <1>1, <1>2 DEF AttemptFails

\* Where a state other than a Choice sends the loop with its Next.
LEMMA AimedNext ==
    ASSUME Running, thr[0].name \in DOMAIN def.states,
           def.states[thr[0].name].type \notin {"Fail", "Succeed", "Choice"}, NEW v, NEW via
    PROVE  Aimed(Returns(v, def.states[thr[0].name].next), via)
<1>1. Accepted BY DEF Running, Accepted
<1>2. Validate(def) BY <1>1 DEF Running, IInv, Checked
<1>3. PICK d, n : d = def /\ n = thr[0].name OBVIOUS
<1>4. d.states[n].next # "" => d.states[n].next \in DOMAIN d.states BY <1>2, <1>3, ValidatedStates
<1> QED BY <1>3, <1>4, ReturnsNext DEF Aimed

LEMMA AimedNowhere == ASSUME NEW v, NEW via PROVE Aimed(Returns(v, ""), via) /\ Aimed(Fault(v), via)
<1>1. Returns(v, "").next = "" BY ReturnsNext
<1>2. Fault(v).next = "" BY DEF Fault
<1> QED BY <1>1, <1>2 DEF Aimed

\* The types of the states goroutines can be in.
LEMMA StateTypeOf ==
    ASSUME Running, NEW t \in Threads, thr[t].phase \notin {"off", "done"},
           thr[t].name \in DOMAIN StatesOf(t)
    PROVE  /\ StateOf(t).type \in StateTypes
           /\ t # 0 => StateOf(t).type # "Parallel"
           /\ t = 0 => StateOf(0) = def.states[thr[0].name] /\ thr[0].name \in DOMAIN def.states
<1>1. Accepted BY DEF Running, Accepted
<1>2. PICK d \in Definitions : d = def /\ Validate(d) BY <1>1 DEF Running, IInv, Checked
<1>3. CASE t = 0
  <2>1. StatesOf(0) = d.states /\ StateOf(0) = d.states[thr[0].name] BY <1>2 DEF StatesOf, StateOf
  <2>2. PICK n \in DOMAIN d.states : n = thr[0].name BY <1>3, <2>1
  <2> QED BY <1>2, <1>3, <2>1, <2>2, ValidatedStates
<1>4. CASE t \in Branches
  <2>0. t # 0 BY <1>4, ThreadIndices
  <2>1. thr[0].phase = "join" /\ t \in DOMAIN def.states[thr[0].name].branches
    BY <1>4 DEF Running, IInv, Forked
  <2>2. thr[0].name \in DOMAIN def.states BY <2>1 DEF Running, IInv, Placed
  <2>3. PICK n \in DOMAIN d.states : n = thr[0].name BY <1>2, <2>2
  <2>4. /\ StatesOf(t) = d.states[n].branches[t].states
        /\ StateOf(t) = d.states[n].branches[t].states[thr[t].name]
    BY <1>2, <2>0, <2>3 DEF StatesOf, StateOf
  <2>5. PICK k \in DOMAIN d.states[n].branches[t].states : k = thr[t].name BY <2>4
  <2>6. t \in DOMAIN d.states[n].branches BY <1>2, <2>1, <2>3
  <2>7. d.states[n].branches[t].states[k].type \in StateTypes \ {"Parallel"}
    BY <2>3, <2>5, <2>6, DefinitionFacts
  <2> QED BY <2>0, <2>4, <2>5, <2>7
<1> QED BY <1>3, <1>4, ThreadIndices

LEMMA ExecuteStateEffect ==
    ASSUME IInv, NEW t \in Threads, ExecuteState(t)
    PROVE  Running /\ Effect
<1>1. Running /\ thr[t].phase = "enter" /\ thr[t].name \in DOMAIN StatesOf(t)
  BY DEF ExecuteState, Running
<1>2. /\ StateOf(t).type \in StateTypes /\ (t # 0 => StateOf(t).type # "Parallel")
      /\ t = 0 => StateOf(0) = def.states[thr[0].name] /\ thr[0].name \in DOMAIN def.states
  BY <1>1, StateTypeOf
<1>3. PICK s : s = StateOf(t) OBVIOUS
<1>4. PICK in : in = IF s.type = "Fail" THEN thr[t].doc ELSE ApplyInputPath(thr[t].doc, s.inPath)
  OBVIOUS
<1>5. IF Failed(in) THEN StateReturns(t, Returns(in, ""), "")
      ELSE CASE s.type = "Pass" -> StateReturns(t, PassExecute(s, in), "next")
        [] s.type = "Succeed" -> StateReturns(t, SucceedExecute(s, in), "next")
        [] s.type = "Fail" -> StateReturns(t, FailExecute(in), "next")
        [] s.type = "Choice" -> StateReturns(t, ChoiceExecute(s, in), "choice")
        [] s.type = "Wait" ->
               IF Failed(calculateWaitDuration(s, in))
               THEN StateReturns(t, Returns(calculateWaitDuration(s, in), ""), "")
               ELSE /\ thr' = [thr EXCEPT ![t].phase = "wait", ![t].in = in]
                    /\ UNCHANGED <<status, cause, visits, branchFailed>>
        [] s.type = "Task" ->
               IF Failed(prepareInput(s, in))
               THEN StateReturns(t, Returns(prepareInput(s, in), ""), "")
               ELSE /\ thr' = [thr EXCEPT ![t].phase = "task", ![t].in = in,
                                          ![t].taskInput = prepareInput(s, in), ![t].attempt = 0]
                    /\ UNCHANGED <<status, cause, visits, branchFailed>>
        [] s.type = "Parallel" ->
               /\ thr' = [i \in Threads |->
                             IF i = 0 THEN [thr[0] EXCEPT !.phase = "join", !.in = in]
                             ELSE IF i \in DOMAIN s.branches
                                  THEN At(s.branches[i].startAt, "start", in)
                                  ELSE Off]
               /\ UNCHANGED <<status, cause, visits, branchFailed>>
  BY <1>3, <1>4 DEF ExecuteState
<1>6. s.type \in StateTypes /\ (t # 0 => s.type # "Parallel") BY <1>2, <1>3
<1>7. t = 0 => s = def.states[thr[0].name] /\ thr[0].name \in DOMAIN def.states BY <1>2, <1>3
<1>8. \A v : t = 0 /\ s.type \notin {"Fail", "Succeed", "Choice"} => Aimed(Returns(v, s.next), "next")
  BY <1>1, <1>7, AimedNext
<1>9. DOMAIN thr = Threads /\ \A u \in Threads : DOMAIN thr[u] = ThreadFields
  BY DEF IInv, Shape
<1>10. CASE Failed(in) BY <1>1, <1>5, <1>10, Returned, AimedNowhere
<1>11. ASSUME ~Failed(in) PROVE Effect
  <2>1. CASE s.type = "Pass"
    <3>1. PICK r : r = PassExecute(s, in) OBVIOUS
    <3>2. t = 0 => Aimed(r, "next") BY <1>8, <2>1, <3>1 DEF PassExecute
    <3>3. StateReturns(t, r, "next") BY <1>5, <1>11, <2>1, <3>1
    <3> QED BY <1>1, <3>2, <3>3, Returned
  <2>2. CASE s.type = "Succeed"
    <3>1. PICK r : r = SucceedExecute(s, in) OBVIOUS
    <3>2. Aimed(r, "next") BY <3>1, AimedNowhere DEF SucceedExecute
    <3>3. StateReturns(t, r, "next") BY <1>5, <1>11, <2>2, <3>1
    <3> QED BY <1>1, <3>2, <3>3, Returned
  <2>3. CASE s.type = "Fail"
    <3>1. PICK r : r = FailExecute(in) OBVIOUS
    <3>2. Aimed(r, "next") BY <3>1, AimedNowhere DEF FailExecute
    <3>3. StateReturns(t, r, "next") BY <1>5, <1>11, <2>3, <3>1
    <3> QED BY <1>1, <3>2, <3>3, Returned
  <2>4. CASE s.type = "Choice"
    <3>1. StateReturns(t, ChoiceExecute(s, in), "choice") BY <1>5, <1>11, <2>4
    <3>2. Aimed(ChoiceExecute(s, in), "choice") BY DEF Aimed
    <3> QED BY <1>1, <3>1, <3>2, Returned
  <2>5. CASE s.type = "Wait"
    <3>1. CASE Failed(calculateWaitDuration(s, in))
      <4>1. StateReturns(t, Returns(calculateWaitDuration(s, in), ""), "") BY <1>5, <1>11, <2>5, <3>1
      <4> QED BY <1>1, <4>1, Returned, AimedNowhere
    <3>2. CASE ~Failed(calculateWaitDuration(s, in))
      <4>1. /\ thr' = [thr EXCEPT ![t].phase = "wait", ![t].in = in]
            /\ status' = status /\ branchFailed' = branchFailed
        BY <1>5, <1>11, <2>5, <3>2
      <4>2. Rephased(t, "wait") BY <1>9, <4>1 DEF Rephased, ThreadFields
      <4> QED BY <1>1, <1>7, <2>5, <4>2, PhaseEffect
    <3> QED BY <3>1, <3>2
  <2>6. CASE s.type = "Task"
    <3>1. CASE Failed(prepareInput(s, in))
      <4>1. StateReturns(t, Returns(prepareInput(s, in), ""), "") BY <1>5, <1>11, <2>6, <3>1
      <4> QED BY <1>1, <4>1, Returned, AimedNowhere
    <3>2. CASE ~Failed(prepareInput(s, in))
      <4>1. /\ thr' = [thr EXCEPT ![t].phase = "task", ![t].in = in,
                                  ![t].taskInput = prepareInput(s, in), ![t].attempt = 0]
            /\ status' = status /\ branchFailed' = branchFailed
        BY <1>5, <1>11, <2>6, <3>2
      <4>2. Rephased(t, "task") BY <1>9, <4>1 DEF Rephased, ThreadFields
      <4> QED BY <1>1, <1>7, <2>6, <4>2, PhaseEffect
    <3> QED BY <3>1, <3>2
  <2>7. CASE s.type = "Parallel"
    <3>1. /\ thr' = [i \in Threads |->
                        IF i = 0 THEN [thr[0] EXCEPT !.phase = "join", !.in = in]
                        ELSE IF i \in DOMAIN s.branches
                             THEN At(s.branches[i].startAt, "start", in)
                             ELSE Off]
          /\ status' = status /\ branchFailed' = branchFailed
      BY <1>5, <1>11, <2>7
    <3>2. t = 0 BY <1>6, <2>7
    <3>3. /\ thr'[0] = [thr[0] EXCEPT !.phase = "join", !.in = in] /\ DOMAIN thr' = Threads
          /\ \A i \in Branches : thr'[i] = IF i \in DOMAIN s.branches
                                           THEN At(s.branches[i].startAt, "start", in) ELSE Off
      BY <3>1, ThreadIndices
    <3>4. /\ DOMAIN thr'[0] = ThreadFields /\ thr'[0].phase = "join" /\ thr'[0].name = thr[0].name
      BY <1>9, <3>3, ThreadIndices DEF ThreadFields
    <3>5. ASSUME NEW i \in Branches
          PROVE  DOMAIN thr'[i] = ThreadFields /\ (i \notin DOMAIN s.branches => thr'[i].phase = "off")
      <4>1. PICK a : a = At(s.branches[i].startAt, "start", in) OBVIOUS
      <4>2. DOMAIN a = ThreadFields BY <4>1 DEF At, Off, ThreadFields
      <4>3. thr'[i] = IF i \in DOMAIN s.branches THEN a ELSE Off BY <3>3, <4>1
      <4> QED BY <4>2, <4>3, OffFields
    <3>6. Shape' BY <3>3, <3>4, <3>5, ThreadIndices DEF Shape
    <3>7. Started BY <1>1, <1>7, <2>7, <3>1, <3>2, <3>4, <3>5, <3>6 DEF Started
    <3> QED BY <3>7 DEF Effect
  <2> QED BY <1>6, <2>1, <2>2, <2>3, <2>4, <2>5, <2>6, <2>7 DEF StateTypes
<1> QED BY <1>1, <1>10, <1>11

\* What the phase of a goroutine says of the state it is in.
LEMMA PhaseType ==
    ASSUME Running, thr[0].phase \in {"task", "backoff", "wait", "join"}
    PROVE  /\ thr[0].name \in DOMAIN def.states /\ StateOf(0) = def.states[thr[0].name]
           /\ thr[0].phase \in {"task", "backoff"} => StateOf(0).type = "Task"
           /\ thr[0].phase = "wait" => StateOf(0).type = "Wait"
           /\ thr[0].phase = "join" => StateOf(0).type = "Parallel"
BY DEF Running, IInv, Placed, StateOf, StatesOf

LEMMA HandlerReturnsEffect ==
    ASSUME IInv, NEW t \in Threads, HandlerReturns(t)
    PROVE  Running /\ Effect
<1>1. Running /\ thr[t].phase = "task" BY DEF HandlerReturns, Running
<1>2. PICK s : s = StateOf(t) OBVIOUS
<1>3. PICK v : CASE Is(v, "panic") -> IF s.timed THEN Crash ELSE StateReturns(t, Fault("panic"), "")
                 [] Is(v, "err") -> AttemptFails(t, v.err)
                 [] OTHER -> StateReturns(t, Returns(prepareOutput(s, thr[t].in, v), s.next), "next")
  BY <1>2 DEF HandlerReturns
<1>4. CASE Crash BY <1>1, <1>4, EndEffect DEF Crash, Over
<1>5. CASE StateReturns(t, Fault("panic"), "") BY <1>1, <1>5, Returned, AimedNowhere
<1>6. CASE AttemptFails(t, v.err) BY <1>1, <1>6, AttemptEffect
<1>7. CASE StateReturns(t, Returns(prepareOutput(s, thr[t].in, v), s.next), "next")
  <2>1. PICK w : w = prepareOutput(s, thr[t].in, v) OBVIOUS
  <2>2. t = 0 => Aimed(Returns(w, s.next), "next") BY <1>1, <1>2, PhaseType, AimedNext
  <2>3. StateReturns(t, Returns(w, s.next), "next") BY <1>7, <2>1
  <2> QED BY <1>1, <2>2, <2>3, Returned
<1>8. \/ Crash \/ StateReturns(t, Fault("panic"), "") \/ AttemptFails(t, v.err)
      \/ StateReturns(t, Returns(prepareOutput(s, thr[t].in, v), s.next), "next")
  <2>1. CASE Is(v, "panic")
    <3>1. ~Is(v, "err") BY <2>1 DEF Is
    <3> QED BY <1>3, <2>1, <3>1
  <2>2. CASE Is(v, "err")
    <3>1. ~Is(v, "panic") BY <2>2 DEF Is
    <3> QED BY <1>3, <2>2, <3>1
  <2>3. CASE ~Is(v, "panic") /\ ~Is(v, "err") BY <1>3, <2>3
  <2> QED BY <2>1, <2>2, <2>3
<1> QED BY <1>1, <1>4, <1>5, <1>6, <1>7, <1>8

LEMMA TimeoutFiresEffect ==
    ASSUME IInv, NEW t \in Threads, TimeoutFires(t)
    PROVE  Running /\ Effect
<1>1. Running /\ thr[t].phase = "task" BY DEF TimeoutFires, Running
<1>2. PICK e : AttemptFails(t, e) BY DEF TimeoutFires
<1> QED BY <1>1, <1>2, AttemptEffect

LEMMA WaitForRetryEffect ==
    ASSUME IInv, NEW t \in Threads, waitForRetry(t)
    PROVE  Running /\ Effect
<1>1. Running /\ thr[t].phase = "backoff" BY DEF waitForRetry, Running
<1>2. CASE StateReturns(t, handleTaskFailure(StateOf(t), thr[t].in, "canceled"), "catch")
  BY <1>1, <1>2, Returned DEF Aimed
<1>3. CASE /\ thr' = [thr EXCEPT ![t].phase = "task", ![t].attempt = thr[t].attempt + 1]
           /\ status' = status /\ branchFailed' = branchFailed
  <2>1. PICK n : n = thr[t].attempt + 1 OBVIOUS
  <2>2. DOMAIN thr = Threads /\ DOMAIN thr[t] = ThreadFields BY DEF IInv, Shape
  <2>3. Rephased(t, "task") BY <1>3, <2>1, <2>2 DEF Rephased, ThreadFields
  <2> QED BY <1>1, <2>3, PhaseType, PhaseEffect
<1> QED BY <1>2, <1>3 DEF waitForRetry

LEMMA PerformWaitEffect ==
    ASSUME IInv, NEW t \in Threads, performWait(t)
    PROVE  Running /\ Effect
<1>1. Running /\ thr[t].phase = "wait" BY DEF performWait, Running
<1>2. PICK s : s = StateOf(t) OBVIOUS
<1>3. CASE StateReturns(t, Fault("canceled"), "") BY <1>1, <1>3, Returned, AimedNowhere
<1>4. CASE StateReturns(t, Returns(prepareOutput(s, thr[t].in, thr[t].in), s.next), "next")
  <2>1. PICK w : w = prepareOutput(s, thr[t].in, thr[t].in) OBVIOUS
  <2>2. t = 0 => Aimed(Returns(w, s.next), "next") BY <1>1, <1>2, PhaseType, AimedNext
  <2>3. StateReturns(t, Returns(w, s.next), "next") BY <1>4, <2>1
  <2> QED BY <1>1, <2>2, <2>3, Returned
<1> QED BY <1>1, <1>2, <1>3, <1>4 DEF performWait

\* A set of branches that is not empty has a first one.
LEMMA FirstBranch ==
    ASSUME NEW B \in SUBSET Branches, B # {}
    PROVE  \E i \in B : \A j \in B : i <= j
<1> DEFINE R == OpToRel(<, Nat)
<1>1. B \subseteq Nat BY InterpreterAssumption DEF Branches
<1>2. PICK i0 \in B : TRUE OBVIOUS
<1>3. \A a, b \in Nat : a < b => <<a, b>> \in R BY DEF OpToRel
<1>4. IsWellFoundedOn(R, Nat) BY NatLessThanWellFounded
<1> HIDE DEF R
<1>5. PICK i \in B : \A j \in B : ~(<<j, i>> \in R) BY <1>1, <1>2, <1>4, WFMin
<1>6. ASSUME NEW j \in B PROVE i <= j
  <2>1. i \in Nat /\ j \in Nat BY <1>1
  <2>2. ~(j < i) BY <1>3, <1>5, <2>1
  <2> QED BY <2>1, <2>2
<1> QED BY <1>6

\* The error of the first branch that failed is the outcome.
LEMMA ParallelFails ==
    ASSUME NEW s, NEW in, NEW outs, NEW errs, DOMAIN errs \subseteq Branches,
           NEW t \in DOMAIN errs, errs[t] # ""
    PROVE  ParallelResult(s, in, outs, errs).err # ""
<1> DEFINE bad == {i \in DOMAIN errs : errs[i] # ""}
           first == CHOOSE i \in bad : \A j \in bad : i =< j
<1>1. bad \in SUBSET Branches /\ bad # {} OBVIOUS
<1>2. ParallelResult(s, in, outs, errs) = Fault(errs[first]) BY <1>1 DEF ParallelResult
<1> HIDE DEF bad
<1>3. \E i \in bad : \A j \in bad : i =< j BY <1>1, FirstBranch
<1>4. first \in bad BY <1>3
<1> HIDE DEF first
<1>5. errs[first] # "" BY <1>4 DEF bad
<1>6. Fault(errs[first]).err = errs[first] BY DEF Fault
<1> QED BY <1>2, <1>5, <1>6

LEMMA ParallelNext ==
    ASSUME NEW s, NEW in, NEW outs, NEW errs
    PROVE  ParallelResult(s, in, outs, errs).next \in {"", s.next}
<1>1. \A e : Fault(e).next = "" BY DEF Fault
<1>2. \A v : Returns(v, s.next).next \in {"", s.next} BY ReturnsNext
<1> QED BY <1>1, <1>2 DEF ParallelResult

LEMMA JoinBranchesEffect ==
    ASSUME IInv, JoinBranches
    PROVE  Running /\ Effect
<1>1. Running /\ thr[0].phase = "join" BY DEF JoinBranches, Running
<1>2. PICK s : s = StateOf(0) OBVIOUS
<1>3. PICK outs, errs, in : /\ outs = [t \in BranchesOf(s) |-> thr[t].out]
                            /\ errs = [t \in BranchesOf(s) |-> thr[t].err] /\ in = thr[0].in
  OBVIOUS
<1>4. PICK r : r = ParallelResult(s, in, outs, errs) OBVIOUS
<1>5. StateReturns(0, r, "next") /\ \A t \in BranchesOf(s) : thr[t].phase = "done"
  BY <1>2, <1>3, <1>4 DEF JoinBranches
<1>6. s = def.states[thr[0].name] /\ thr[0].name \in DOMAIN def.states /\ s.type = "Parallel"
  BY <1>1, <1>2, PhaseType
<1>7. \A t \in Branches : thr[t].phase # "off" => t \in BranchesOf(s)
  BY <1>1, <1>6 DEF Running, IInv, Forked, BranchesOf
<1>8. \A t \in Branches : thr[t].phase \in {"off", "done"} BY <1>5, <1>7
<1>9. Accepted BY <1>1 DEF Running, Accepted
<1>10. PICK d \in Definitions : d = def /\ Validate(d) BY <1>9 DEF IInv, Checked
<1>11. DOMAIN errs \subseteq Branches /\ DOMAIN errs = BranchesOf(s)
  <2>1. PICK n \in DOMAIN d.states : n = thr[0].name BY <1>6, <1>10
  <2>2. DOMAIN d.states[n].branches \subseteq Branches BY <2>1, DefinitionFacts
  <2> QED BY <1>3, <1>6, <1>10, <2>1, <2>2 DEF BranchesOf
<1>12. branchFailed => r.err # ""
  <2> SUFFICES ASSUME branchFailed PROVE r.err # "" OBVIOUS
  <2>1. PICK t \in Branches : thr[t].phase = "done" /\ thr[t].err # ""
    BY <1>1 DEF Running, IInv, Remembered
  <2>2. t \in BranchesOf(s) BY <1>7, <2>1
  <2>3. t \in DOMAIN errs /\ errs[t] # "" BY <1>3, <1>11, <2>1, <2>2
  <2> QED BY <1>4, <1>11, <2>3, ParallelFails
<1>13. r.next = "" \/ r.next \in DOMAIN def.states
  <2>1. r.next \in {"", s.next} BY <1>4, ParallelNext
  <2>2. PICK n \in DOMAIN d.states : n = thr[0].name BY <1>6, <1>10
  <2>3. s.next # "" => s.next \in DOMAIN def.states BY <1>6, <1>10, <2>2, ValidatedStates
  <2> QED BY <2>1, <2>3
<1> QED BY <1>1, <1>5, <1>8, <1>12, <1>13, LoopGoesOn DEF Effect

-----------------------------------------------------------------------------
(* The invariant holds.                                                     *)

LEMMA InitInv == ASSUME Init PROVE IInv
<1>1. /\ status = "NEW" /\ thr = [t \in Threads |-> Off] /\ abandoned = 0 /\ branchFailed = FALSE
  BY DEF Init
<1>2. Checked BY <1>1 DEF Checked, Accepted
<1>3. Shape /\ Idle BY <1>1, OffFields DEF Shape, Idle
<1>4. Placed /\ Forked /\ Remembered BY <1>1 DEF Placed, Forked, Remembered
<1> QED BY <1>2, <1>3, <1>4 DEF IInv

\* New leaves a definition that Validate refuses without an execution.
LEMMA NewInv == ASSUME IInv, New PROVE IInv'
<1>1. PICK d \in Definitions : def' = d /\ status' = IF Validate(d) THEN "READY" ELSE "REJECTED"
  BY DEF New
<1>2. status = "NEW" /\ thr' = thr /\ abandoned' = abandoned /\ branchFailed' = branchFailed
  BY DEF New
<1>3. abandoned = 0 /\ ~branchFailed BY <1>2 DEF IInv, Checked, Accepted, Remembered
<1>4. Checked'
  <2>1. CASE Validate(d) BY <1>1, <1>2, <1>3, <2>1 DEF Checked, Accepted
  <2>2. CASE ~Validate(d) BY <1>1, <1>2, <1>3, <2>2 DEF Checked, Accepted
  <2> QED BY <2>1, <2>2
<1>5. status' # "RUNNING" BY <1>1
<1>6. Shape' BY <1>2 DEF IInv, Shape
<1>7. Idle' BY <1>2 DEF IInv, Idle
<1>8. Placed' /\ Forked' /\ Remembered' BY <1>2, <1>3, <1>5 DEF Placed, Forked, Remembered
<1> QED BY <1>4, <1>6, <1>7, <1>8 DEF IInv

\* The execution starts in StartAt, which Validate looked up, with no branch running.
LEMMA ExecuteInv == ASSUME IInv, NEW input, Execute(input) PROVE IInv'
<1>1. /\ status = "READY" /\ status' = "RUNNING" /\ def' = def /\ branchFailed' = branchFailed
      /\ thr' = [thr EXCEPT ![0] = At(def.startAt, "start", input)]
  BY DEF Execute
<1>2. Accepted /\ Accepted' BY <1>1 DEF Accepted
<1>3. PICK d \in Definitions : d = def /\ Validate(d) BY <1>2 DEF IInv, Checked
<1>4. def.startAt \in DOMAIN def.states BY <1>3 DEF Validate
<1>5. DOMAIN thr = Threads /\ (\A t \in Threads : thr[t] = Off) /\ ~branchFailed
  BY <1>1 DEF IInv, Shape, Idle, Remembered
<1>6. PICK a : a = At(def.startAt, "start", input) OBVIOUS
<1>7. DOMAIN a = ThreadFields /\ a.phase = "enter" /\ a.name = def.startAt
  BY <1>6 DEF At, Off, ThreadFields
<1>8. thr'[0] = a /\ DOMAIN thr' = Threads /\ \A t \in Branches : thr'[t] = Off
  BY <1>1, <1>5, <1>6, ThreadIndices
<1>9. Checked' BY <1>1, <1>2 DEF IInv, Checked
<1>10. Shape' BY <1>7, <1>8, OffFields, ThreadIndices DEF Shape
<1>11. Idle' BY <1>1 DEF Idle
<1>12. Placed' BY <1>1, <1>4, <1>7, <1>8 DEF Placed
<1>13. Forked' BY <1>8, OffFields DEF Forked
<1>14. Remembered' BY <1>1, <1>5 DEF Remembered
<1> QED BY <1>9, <1>10, <1>11, <1>12, <1>13, <1>14 DEF IInv

\* A step that leaves the goroutines and the definition alone.
LEMMA QuietInv ==
    ASSUME IInv, UNCHANGED <<def, status, thr, branchFailed>>, abandoned' = abandoned \/ Accepted
    PROVE  IInv'
<1>1. Checked' BY DEF IInv, Checked, Accepted
<1>2. Shape' BY DEF IInv, Shape
<1>3. Idle' BY DEF IInv, Idle
<1>4. Placed' BY DEF IInv, Placed
<1>5. Forked' BY DEF IInv, Forked
<1>6. Remembered' BY DEF IInv, Remembered
<1> QED BY <1>1, <1>2, <1>3, <1>4, <1>5, <1>6 DEF IInv

\* The panic of an abandoned handler ends an execution, running or over.
LEMMA AbandonedReturnsInv == ASSUME IInv, AbandonedReturns PROVE IInv'
<1>1. abandoned > 0 /\ def' = def BY DEF AbandonedReturns
<1>2. Accepted BY <1>1 DEF IInv, Checked
<1>3. CASE UNCHANGED <<status, cause, thr, visits, branchFailed>> BY <1>1, <1>2, <1>3, QuietInv
<1>4. CASE Crash
  <2>1. Ended BY <1>4 DEF Crash, End, Ended, Over
  <2> QED BY <1>1, <1>2, <2>1, InvEnded
<1> QED BY <1>3, <1>4 DEF AbandonedReturns

LEMMA EffectInv == ASSUME Running, Effect PROVE IInv'
<1>1. IInv /\ Accepted /\ def' = def BY DEF Running, Accepted
<1>2. CASE Ended BY <1>1, <1>2, InvEnded
<1>3. CASE Moved BY <1>3, InvMoved
<1>4. CASE Stayed BY <1>4, InvStayed
<1>5. CASE Started BY <1>5, InvStarted
<1>6. CASE \E t \in Branches : Branched(t) BY <1>6, InvBranched
<1> QED BY <1>2, <1>3, <1>4, <1>5, <1>6 DEF Effect

LEMMA NextInv == ASSUME IInv, [Next]_vars PROVE IInv'
<1>1. CASE New BY <1>1, NewInv
<1>2. ASSUME NEW input \in Inputs, Execute(input) PROVE IInv' BY <1>2, ExecuteInv
<1>3. ASSUME NEW t \in Threads, Stop(t) PROVE IInv' BY <1>3, StopEffect, EffectInv
<1>4. ASSUME NEW t \in Threads, NotFound(t) PROVE IInv' BY <1>4, NotFoundEffect, EffectInv
<1>5. ASSUME NEW t \in Threads, ExecuteState(t) PROVE IInv' BY <1>5, ExecuteStateEffect, EffectInv
<1>6. ASSUME NEW t \in Threads, TimeoutFires(t) PROVE IInv' BY <1>6, TimeoutFiresEffect, EffectInv
<1>7. ASSUME NEW t \in Threads, waitForRetry(t) PROVE IInv' BY <1>7, WaitForRetryEffect, EffectInv
<1>8. ASSUME NEW t \in Threads, performWait(t) PROVE IInv' BY <1>8, PerformWaitEffect, EffectInv
<1>9. ASSUME NEW t \in Threads, HandlerReturns(t) PROVE IInv'
  BY <1>9, HandlerReturnsEffect, EffectInv
<1>10. CASE JoinBranches BY <1>10, JoinBranchesEffect, EffectInv
<1>11. CASE AbandonedReturns BY <1>11, AbandonedReturnsInv
<1>12. CASE Cancel
  <2>1. UNCHANGED <<def, status, thr, branchFailed>> /\ abandoned' = abandoned BY <1>12 DEF Cancel
  <2> QED BY <2>1, QuietInv
<1>13. CASE UNCHANGED vars
  <2>1. UNCHANGED <<def, status, thr, branchFailed>> /\ abandoned' = abandoned BY <1>13 DEF vars
  <2> QED BY <2>1, QuietInv
<1> QED
  BY <1>1, <1>2, <1>3, <1>4, <1>5, <1>6, <1>7, <1>8, <1>9, <1>10, <1>11, <1>12, <1>13
  DEF Next, Interpret

\* The inductive invariant holds in every reachable state: a definition that runs was
\* validated (Checked), the goroutines fit the state they are in (Placed, Forked), and
\* the error of a branch is not lost before JoinBranches reads it (Remembered).
THEOREM Invariance == Spec => []IInv
<1>1. Init => IInv BY InitInv
<1>2. IInv /\ [Next]_vars => IInv' BY NextInv
<1> QED BY <1>1, <1>2, PTL DEF Spec

-----------------------------------------------------------------------------
(* The properties.                                                          *)

\* The searches of the validator are sound for every definition: what New accepts has
\* no set of states an execution cannot leave without an end state in it, and
\* StartAt leads to every state.
THEOREM AcceptedCanEndHolds == Spec => []AcceptedCanEnd
<1>1. IInv => AcceptedCanEnd BY CheckedCanEnd DEF IInv
<1> QED BY <1>1, Invariance, PTL

\* For any number of branches, whatever order they end in: no goroutine of executeBranch
\* outlives the Parallel state that started it, and an execution with a failed branch
\* does not succeed.
THEOREM ParallelSoundHolds == Spec => []ParallelSound
<1>1. ASSUME IInv PROVE ParallelSound
  <2>1. ASSUME NEW t \in Branches, thr[t].phase \notin {"off", "done"} PROVE thr[0].phase = "join"
    <3>1. CASE status = "RUNNING" BY <1>1, <2>1, <3>1 DEF IInv, Forked
    <3>2. CASE status # "RUNNING"
      <4>1. thr[t] = Off BY <1>1, <3>2, ThreadIndices DEF IInv, Idle
      <4> QED BY <2>1, <4>1, OffFields
    <3> QED BY <3>1, <3>2
  <2>2. status = "SUCCEEDED" => ~branchFailed BY <1>1 DEF IInv, Remembered
  <2> QED BY <2>1, <2>2 DEF ParallelSound
<1> QED BY <1>1, Invariance, PTL

\* For every accepted definition, the loop fails with "state not found" only after a
\* transition whose target Validate does not look up, a Choice rule, a Default or a
\* Catch policy.
THEOREM NotFoundIsUncheckedHolds == Spec => NotFoundIsUnchecked
<1>1. ASSUME IInv, NotFound(0) PROVE thr[0].via \in {"choice", "catch"}
  <2>1. status = "RUNNING" /\ thr[0].phase = "enter" /\ thr[0].name \notin DOMAIN def.states
    BY <1>1 DEF NotFound, StatesOf
  <2> QED BY <1>1, <2>1 DEF IInv, Placed
<1>2. IInv /\ [Next]_vars => [NotFound(0) => thr[0].via \in {"choice", "catch"}]_vars BY <1>1
<1> QED BY <1>2, Invariance, PTL DEF Spec, NotFoundIsUnchecked
=============================================================================
