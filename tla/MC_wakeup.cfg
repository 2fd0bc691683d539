SPECIFICATION FairSpec
CONSTANTS
    TotalCount = 1
    MicroBatchSize = 1
    MaxRetry = 0
    MaxFaults = 0
PROPERTIES PausedIsResumed
CHECK_DEADLOCK FALSE
