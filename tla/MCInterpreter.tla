--------------------------- MODULE MCInterpreter ---------------------------
(***************************************************************************)
(* The definitions, documents and task results of the model-checked        *)
(* instance. "A" is StartAt, "X" and "Z" are no states; some definitions   *)
(* are meant to be rejected.                                               *)
(***************************************************************************)
EXTENDS Interpreter, Nested

Path(k) == <<Key(k)>>
Doc(a) == Map([k \in {"a"} |-> a])

MCInputs == {Doc(Num(1)), Doc(Str("abc")), Doc(Map([k \in {"x"} |-> Num(1)])), Num(2)}

MCTaskResults == {Doc(Map([k \in {"y"} |-> Num(2)])), Null}

Op(op, cmp, arg) == [op |-> op, cmp |-> cmp, arg |-> arg]
Rule == [hasVar |-> FALSE, var |-> <<>>, ops |-> <<>>, and |-> <<>>, or |-> <<>>,
         not |-> <<>>, next |-> ""]
On(path, op) == [Rule EXCEPT !.hasVar = TRUE, !.var = path, !.ops = <<op>>]
Numeric == On(Path("a"), Op("Numeric", "GreaterThan", Num(1)))
IsNumeric == On(Path("a"), Op("IsNumeric", "", Bool(TRUE)))

Rules == {Numeric,
          [Rule EXCEPT !.and = <<IsNumeric, Numeric>>],
          [Rule EXCEPT !.not = <<[Rule EXCEPT !.and = <<IsNumeric, Numeric>>]>>],
          [Rule EXCEPT !.or = <<On(Path("b"), Op("IsPresent", "", Bool(TRUE))),
                                On(Path("a"), Op("String", "LessThanEquals", Str("abc")))>>],
          [Rule EXCEPT !.not = <<[Rule EXCEPT !.or = <<Rule>>]>>],   \* empty, two levels down
          [Rule EXCEPT !.and = <<Rule>>],                            \* empty, one level down
          On(Path("a"), Op("Boolean", "", Bool(TRUE))),
          On(Path("a"), Op("Timestamp", "LessThan", Str("2030-01-01T00:00:00Z")))}

Policy(errors, max) == [errors |-> errors, max |-> max]
Catcher(errors, next) == [errors |-> errors, resPath |-> Path("error"), next |-> next]

Tasks ==
    {[State EXCEPT !.type = "Task", !.next = n, !.end = (n = ""), !.timed = t,
                   !.retry = r, !.catch = c] :
        n \in {"", "B"}, t \in BOOLEAN,
        r \in {<<>>, <<Policy({"e1"}, 2), Policy({"deadline"}, 1)>>},
        c \in {<<>>, <<Catcher({"e1"}, "C"), Catcher({"States.ALL"}, "X")>>}}
    \cup {[State EXCEPT !.type = "Task", !.next = "B", !.params = [p |-> [path |-> Path(k)]],
                        !.resPath = Path("a")] : k \in {"a", "p"}}
    \cup {[State EXCEPT !.type = "Task", !.next = n, !.catch = <<Catcher({"States.ALL"}, "C")>>] :
            n \in {"", "X"}}

ChoiceStates ==
    {[State EXCEPT !.type = "Choice", !.choices = <<[r EXCEPT !.next = "B"]>>, !.default = d] :
        r \in Rules, d \in {"", "C", "X"}}
    \cup {[State EXCEPT !.type = "Choice", !.choices = <<[Numeric EXCEPT !.next = "B"]>>,
                        !.default = d, !.inPath = p[1], !.resPath = p[2], !.outPath = p[3]] :
            d \in {"", "C"},
            p \in {<<Path("a"), Path("r"), Path("b")>>, <<<<Malformed>>, <<>>, <<>>>>,
                   <<<<>>, <<Key("r"), Malformed>>, Path("a")>>, <<<<>>, <<>>, <<Malformed>>>>}}

Branch(states) == [startAt |-> "P", states |-> states]
TaskBranch == Branch([n \in {"P"} |-> [State EXCEPT !.type = "Task", !.end = TRUE, !.timed = TRUE]])
PassBranch(next) == Branch([n \in {"P"} |-> [State EXCEPT !.next = next, !.end = (next = ""),
                                                          !.result = Num(1)]])
Sleep(seconds) == <<[method |-> "Seconds", path |-> <<>>, arg |-> Num(seconds)]>>
WaitBranch(seconds) ==
    Branch([n \in {"P"} |-> [State EXCEPT !.type = "Wait", !.end = TRUE, !.waits = Sleep(seconds)]])
ChoiceBranch == Branch([n \in {"P"} |-> [State EXCEPT !.type = "Choice", !.default = "P"]])

Parallels ==
    {[State EXCEPT !.type = "Parallel", !.next = "B", !.branches = b, !.selector = s] :
        b \in {<<TaskBranch, PassBranch("")>>, <<PassBranch("Z"), WaitBranch(1)>>,
               <<ChoiceBranch, WaitBranch(-1)>>},
        s \in {<<>>, [p |-> [path |-> Path("a")]]}}

Waits ==
    {[State EXCEPT !.type = "Wait", !.next = "B", !.waits = <<[method |-> m, path |-> Path("a"), arg |-> Null]>>] :
        m \in {"SecondsPath", "TimestampPath"}}
    \cup {[State EXCEPT !.type = "Wait", !.next = "B", !.waits = Sleep(-1)]}   \* rejected

Seconds == {[State EXCEPT !.next = n, !.end = (n = ""), !.result = Doc(Map([k \in {"y"} |-> Num(2)])),
                          !.resPath = p] : n \in {"A", "C", "X", ""}, p \in {<<>>, Path("r")}}

Thirds == {[State EXCEPT !.type = "Succeed", !.outPath = Path("a")],
           [State EXCEPT !.type = "Fail"],
           [State EXCEPT !.next = "C"],
           [State EXCEPT !.next = "B", !.inPath = Path("a")]}

MCDefinitions ==
    LET First == Tasks \cup ChoiceStates \cup Parallels \cup Waits
    IN  {[startAt |-> "A", timeout |-> a.type \in {"Wait", "Parallel"},
          states |-> [n \in {"A", "B", "C"} |-> IF n = "A" THEN a ELSE IF n = "B" THEN b ELSE c]] :
            a \in First, b \in Seconds, c \in Thirds}
        \cup {[startAt |-> "A", timeout |-> FALSE,
               states |-> [n \in {"A", "B"} |-> IF n = "A" THEN a ELSE b]] :
            a \in First, b \in Seconds}
----------------------------------------------------------------------------
(* What Choice rules may fail of.                                           *)

\* A comparison cannot fail: it is a type check or formats any value, or an earlier
\* rule of the same And checks the type of its variable.
RECURSIVE Guarded(_)
Guarded(r) ==
    CASE r.and # <<>> ->
           \A j \in DOMAIN r.and :
              \/ Guarded(r.and[j])
              \/ \E i \in 1..(j - 1) :
                    /\ r.and[i].var = r.and[j].var
                    /\ r.and[i].ops # <<>> /\ r.and[j].ops # <<>>
                    /\ Head(r.and[i].ops).op = "IsNumeric" /\ Head(r.and[j].ops).op = "Numeric"
      [] r.and = <<>> /\ r.or # <<>> -> \A j \in DOMAIN r.or : Guarded(r.or[j])
      [] r.and = <<>> /\ r.or = <<>> /\ r.not # <<>> -> Guarded(Head(r.not))
      [] OTHER -> r.ops # <<>> => Head(r.ops).op \in DOMAIN TypeCheck \cup {"String"}

\* A rule that nests a rule that nests a rule.
Deep(r) ==
    \E rules \in {r.and, r.or, r.not} : \E i \in DOMAIN rules :
        rules[i].and # <<>> \/ rules[i].or # <<>> \/ rules[i].not # <<>>

\* A Choice state of an accepted definition fails for one of four reasons: no rule
\* matches and there is no Default; a comparison nobody guards meets a value it cannot
\* convert; a rule without an operator hides two levels down, where Validate does not look;
\* its InputPath leads to nothing, or one of its three paths is no path. A ResultPath or
\* OutputPath that the document does not have is no reason.
AcceptedRulesDecide ==
    [][status = "RUNNING" /\ status' = "FAILED" /\ thr[0].phase = "enter"
       /\ thr[0].name \in DOMAIN def.states /\ StateOf(0).type = "Choice" =>
           LET s == StateOf(0)
               rules == s.choices
           IN  CASE cause' = "no match" -> s.default = ""
                 [] cause' = "conversion" -> \E i \in DOMAIN rules : ~Guarded(rules[i])
                 [] cause' = "no operator" -> \E i \in DOMAIN rules : Deep(rules[i])
                 [] cause' = "path" -> Malformed \in Range(s.inPath \o s.resPath \o s.outPath)
                 [] OTHER -> Is(getValue(thr[0].doc, s.inPath), "err")]_vars
=============================================================================
