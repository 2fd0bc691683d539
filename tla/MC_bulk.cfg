SPECIFICATION FairSpec
CONSTANTS
    Callers = {c1, c2}
    NumInputs = 3
    MicroBatchSize = 2
    WindowN = 2
    Whole = 2
    WindowM = 2
    MaxRetry = 1
    MaxFaults = 1
INVARIANTS TypeOK AtMostOnce OneWinner DropsAreFaults VerdictMatchesCounters
PROPERTIES GroupJoins
CHECK_DEADLOCK FALSE
