SPECIFICATION FairSpec
CONSTANTS
    Execs = {e1}
    Procs = {p1, p2}
    Starter = p1
    NumStates = 2
    Strategies = {"RETRY", "FAIL", "PAUSE"}
    MaxAttempts = 3
    MaxFaults = 2
INVARIANTS TypeOK SucceededIsComplete InputIsComplete
PROPERTIES OrphanResolved
CHECK_DEADLOCK FALSE
