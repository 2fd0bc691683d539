SPECIFICATION Spec
CONSTANTS
    TotalCount = 3
    MicroBatchSize = 2
    MaxRetry = 0
    MaxFaults = 1
PROPERTIES ImplementsForkJoin
CHECK_DEADLOCK FALSE
