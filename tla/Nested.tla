------------------------------- MODULE Nested -------------------------------
(***************************************************************************)
(* The two operations that follow the nesting of data to any depth: the    *)
(* merge of two maps (jsonpath.go) and the evaluation of a choice rule     *)
(* (choice.go). Modules JSONPath and Interpreter take them as constants.   *)
(***************************************************************************)
EXTENDS ChoiceRules

RECURSIVE mergeMaps(_, _)
\* Mutant: a nested map is replaced, not merged.
mergeMapsShallow(a, b) ==
    [k \in NonNull(a) \cup NonNull(b) |-> IF k \in NonNull(b) THEN b[k] ELSE a[k]]

mergeMaps(a, b) ==
    [k \in NonNull(a) \cup NonNull(b) |->
        IF k \notin NonNull(b) THEN a[k]
        ELSE IF k \in NonNull(a) /\ Is(a[k], "map") /\ Is(b[k], "map")
             THEN Map(mergeMaps(a[k].map, b[k].map))
             ELSE b[k]]
----------------------------------------------------------------------------
RECURSIVE evaluateChoice(_, _)

\* The first answer that is not the neutral one, and the neutral one if there is
\* none: And looks for a rule that is not TRUE, Or for one that is not FALSE.
FirstNot(neutral, rules, v) ==
    LET other == {i \in DOMAIN rules : evaluateChoice(rules[i], v) # Bool(neutral)}
    IN  IF other = {} THEN Bool(neutral) ELSE evaluateChoice(rules[Min(other)], v)

evaluateOr(rules, v) == FirstNot(FALSE, rules, v)

\* Mutant: every rule is evaluated, and an error of any of them is returned.
evaluateAndAll(rules, v) ==
    LET errs == {i \in DOMAIN rules : Failed(evaluateChoice(rules[i], v))}
    IN  IF errs # {} THEN evaluateChoice(rules[Min(errs)], v) ELSE FirstNot(TRUE, rules, v)

evaluateAnd(rules, v) == FirstNot(TRUE, rules, v)

evaluateChoice(r, input) ==
    LET v == IF r.hasVar THEN getVariableValue(r.var, input) ELSE input
        typed == \E i \in DOMAIN r.ops : r.ops[i].op \in DOMAIN TypeCheck
    IN  IF Is(v, "panic") THEN v
        ELSE IF r.hasVar /\ v = Null /\ ~typed THEN Bool(FALSE)
        ELSE IF r.and # <<>> THEN evaluateAnd(r.and, v)
        ELSE IF r.or # <<>> THEN evaluateOr(r.or, v)
        ELSE IF r.not # <<>>
             THEN LET n == evaluateChoice(Head(r.not), v)
                  IN  IF Failed(n) THEN n ELSE Bool(~n.bool)
        ELSE evaluateComparison(r, v)
=============================================================================
