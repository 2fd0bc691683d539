SPECIFICATION FairSpec
CONSTANTS
    Callers = {c1, c2}
    NumItems = 2
    ConcurrentBatches = 1
INVARIANTS TypeOK ReturnIsTrue SequentialCallsUnique StopsAtFirstError
PROPERTIES BatchReturns
CHECK_DEADLOCK FALSE
