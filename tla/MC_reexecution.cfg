SPECIFICATION Spec
CONSTANTS
    Execs = {e1}
    Procs = {p1, p2}
    Starter = p1
    NumStates = 2
    Strategies = {"RETRY", "FAIL", "PAUSE"}
    MaxAttempts = 3
    MaxFaults = 2
INVARIANT NoReexecution
CHECK_DEADLOCK FALSE
