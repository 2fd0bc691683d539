---------------------------- MODULE ChoiceRules ----------------------------
(***************************************************************************)
(* The rules of a Choice state (internal/states/choice.go): what Validate  *)
(* accepts and what a comparison answers. evaluateChoice, which follows    *)
(* the nesting of rules, is in module Nested.                              *)
(*                                                                         *)
(* A rule is [hasVar, var, ops, and, or, not, next]: whether Variable is   *)
(* set and its path; the comparison and type-check operators given, in the *)
(* order evaluateComparison looks for them; the nested rules (not has at   *)
(* most one); the Next state. An operator is [op, cmp, arg]. The answer is *)
(* Bool(TRUE), Bool(FALSE) or an error.                                    *)
(***************************************************************************)
EXTENDS JSONPath

\* The texts a document may hold, least first, and what the parsers make of them.
Texts == <<"1", "2", "2030-01-01T00:00:00Z", "<nil>", "abc", "false", "map[]", "true">>
Rank(t) == CHOOSE i \in DOMAIN Texts : Texts[i] = t
ParseFloat == [t \in {"1", "2"} |-> IF t = "1" THEN 1 ELSE 2]
ParseBool == [t \in {"true", "false"} |-> t = "true"]
ParseTime == [t \in {"2030-01-01T00:00:00Z"} |-> 2]

\* fmt.Sprintf("%v"): numbers and booleans read like their literals.
Sprintf(v) ==
    CASE Is(v, "str") -> v.str
      [] Is(v, "num") -> IF v.num = 1 THEN "1" ELSE "2"
      [] Is(v, "bool") -> IF v.bool THEN "true" ELSE "false"
      [] v = Null -> "<nil>"
      [] OTHER -> "map[]"

Compare(cmp, a, b) ==
    CASE cmp = "Equals" -> a = b
      [] cmp = "LessThan" -> a < b
      [] cmp = "GreaterThan" -> a > b
      [] cmp = "LessThanEquals" -> a =< b
      [] cmp = "GreaterThanEquals" -> a >= b
----------------------------------------------------------------------------
TypeCheck == [IsPresent |-> {"num", "str", "bool", "arr", "map"}, IsNull |-> {"null"},
              IsBoolean |-> {"bool"}, IsNumeric |-> {"num"}, IsString |-> {"str"},
              IsTimestamp |-> {}]     \* no document holds a time.Time

compareString(o, v) ==
    Bool(Compare(o.cmp, Rank(Sprintf(v)), Rank(o.arg.str)))

compareNumeric(o, v) ==
    CASE Is(v, "num") -> Bool(Compare(o.cmp, v.num, o.arg.num))
      [] Is(v, "str") /\ v.str \in DOMAIN ParseFloat ->
             Bool(Compare(o.cmp, ParseFloat[v.str], o.arg.num))
      [] OTHER -> Err("conversion")

compareBoolean(o, v) ==
    CASE Is(v, "bool") -> Bool(v.bool = o.arg.bool)
      [] Is(v, "str") /\ v.str \in DOMAIN ParseBool -> Bool(ParseBool[v.str] = o.arg.bool)
      [] OTHER -> Err("conversion")

compareTimestamp(o, v) ==
    CASE Is(v, "num") -> Bool(Compare(o.cmp, v.num, ParseTime[o.arg.str]))
      [] Is(v, "str") /\ v.str \in DOMAIN ParseTime ->
             Bool(Compare(o.cmp, ParseTime[v.str], ParseTime[o.arg.str]))
      [] OTHER -> Err("conversion")

evaluateComparison(r, v) ==
    IF r.ops = <<>> THEN Err("no operator")
    ELSE LET o == Head(r.ops)
         IN  CASE o.op \in DOMAIN TypeCheck ->
                      Bool((\E type \in TypeCheck[o.op] : Is(v, type)) = o.arg.bool)
               [] o.op = "String" -> compareString(o, v)
               [] o.op = "Numeric" -> compareNumeric(o, v)
               [] o.op = "Boolean" -> compareBoolean(o, v)
               [] o.op = "Timestamp" -> compareTimestamp(o, v)
----------------------------------------------------------------------------
\* Any error on the way to the variable means that it is absent.
getVariableValue(path, input) ==
    LET v == ApplyInputPath(input, path) IN IF Is(v, "err") THEN Null ELSE v
----------------------------------------------------------------------------
validateOperatorRequirements(r) ==
    /\ r.ops # <<>> => r.hasVar
    /\ r.ops # <<>> \/ r.and # <<>> \/ r.or # <<>> \/ r.not # <<>>

\* One level only: what a nested rule nests is not validated.
validateNestedChoices(r) ==
    \A rules \in {r.and, r.or, r.not} :
        \A i \in DOMAIN rules : validateOperatorRequirements(rules[i])

validateChoice(r) ==
    /\ validateOperatorRequirements(r)
    /\ r.next # ""
    /\ validateNestedChoices(r)
=============================================================================
