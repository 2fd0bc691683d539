------------------------------ MODULE JSONPath ------------------------------
(***************************************************************************)
(* Documents and the path processor of internal/states/jsonpath.go.        *)
(*                                                                         *)
(* A JSON value is a record with one field that names its type. A path is  *)
(* the sequence of parts of its text: <<>> is an absent path, "" or "$";   *)
(* the first three operators treat these alike. A text that is no path has *)
(* the part Malformed. An operation that fails returns [err |-> reason],   *)
(* one that panics returns [panic |-> reason].                             *)
(***************************************************************************)
EXTENDS Integers, SequencesExt

CONSTANT MergeMaps(_, _)    \* mergeMaps of module Nested

Null == [null |-> TRUE]
Num(n) == [num |-> n]
Str(s) == [str |-> s]
Bool(b) == [bool |-> b]
Arr(s) == [arr |-> s]
Map(f) == [map |-> f]
Err(why) == [err |-> why]
Panic(why) == [panic |-> why]

Key(k) == [key |-> k]
Index(i) == [index |-> i]

\* An index that is no number; also all there is of a text that does not start with "$".
Malformed == [malformed |-> TRUE]

Is(v, type) == DOMAIN v = {type}
Failed(v) == Is(v, "err") \/ Is(v, "panic")
----------------------------------------------------------------------------
handleArrayIndex(v, i) ==
    IF Is(v, "arr")
    THEN IF i < Len(v.arr) THEN v.arr[i + 1] ELSE Err("bounds")
    ELSE Err("not an array")

extractFieldValue(m, k) ==
    IF k \in DOMAIN m THEN m[k] ELSE Err("no field")

\* The key "$" of the map that expandValue is called with stands for the input; a
\* type assertion on its value panics when that is not a map.
handleObjectField(v, k) ==
    IF ~Is(v, "map") THEN Err("not a map")
    ELSE IF "$" \in DOMAIN v.map
         THEN IF Is(v.map["$"], "map") THEN extractFieldValue(v.map["$"].map, k)
                                       ELSE Panic("assertion")
         ELSE extractFieldValue(v.map, k)

getValue(v, path) ==
    LET step(cur, part) ==
          IF Failed(cur) THEN cur
          ELSE IF part = Malformed THEN Err("path")
          ELSE IF Is(part, "index") THEN handleArrayIndex(cur, part.index)
          ELSE handleObjectField(cur, part.key)
    IN  FoldLeft(step, v, path)

\* The value inside fresh maps and arrays, one for each part of the path.
wrapValue(path, v) ==
    LET wrap(part, inner) ==
          IF Is(part, "index")
          THEN Arr([i \in 1..(part.index + 1) |-> IF i = part.index + 1 THEN inner ELSE Null])
          ELSE Map([k \in {part.key} |-> inner])
    IN  IF \E i \in DOMAIN path : path[i] = Malformed THEN Err("path")
        ELSE FoldRight(wrap, path, v)
----------------------------------------------------------------------------
NonNull(m) == {k \in DOMAIN m : m[k] # Null}

\* Whatever is not a map has no place for the other fields: it replaces the data.
setValue(data, path, v) ==
    LET result == wrapValue(path, v)
    IN  IF Is(data, "map") /\ Is(result, "map")
        THEN Map(MergeMaps(data.map, result.map))
        ELSE result
----------------------------------------------------------------------------
ApplyInputPath(input, path) == getValue(input, path)

ApplyResultPath(input, result, path) ==
    IF path = <<>> THEN result ELSE setValue(input, path, result)

\* A path the output does not have wraps the output instead of failing; a panic
\* is no error and goes through.
ApplyOutputPath(output, path) ==
    LET v == getValue(output, path)
    IN  IF Is(v, "err") THEN wrapValue(path, output) ELSE v

\* A string "$..." in a template is [path |-> parts]; every other leaf stands for
\* itself. The first part that fails is the outcome.
expandLeaf(leaf, input) ==
    IF Is(leaf, "path") THEN getValue(input, leaf.path) ELSE leaf

expandValue(template, input) ==
    LET leaves == [k \in DOMAIN template |-> expandLeaf(template[k], input)]
        bad == {k \in DOMAIN template : Failed(leaves[k])}
    IN  IF bad = {} THEN Map(leaves) ELSE leaves[CHOOSE k \in bad : TRUE]

\* The path "$." has no parts and is not "$": the result is merged into the input.
MergeInputs(input, result) ==
    CASE input = Null -> result
      [] result = Null -> input
      [] OTHER -> setValue(input, <<>>, result)
=============================================================================
