CONSTANTS
    e1 = e1
    e2 = e2
    p1 = p1
    p2 = p2
    none = none
    Ids = {e1, e2}
    Procs = {p1, p2}
    NoId = none
    MaxCalls = 8
SPECIFICATION Spec
INVARIANT StateOutputIsLatest
CHECK_DEADLOCK FALSE
