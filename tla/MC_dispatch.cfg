SPECIFICATION FairSpec
CONSTANTS
    TotalCount = 3
    MicroBatchSize = 2
    MaxRetry = 1
    MaxFaults = 1
INVARIANTS OneWinner EnqueueOnce JoinSound CleanupAfterDispatch IInv
PROPERTIES WinnerElected
CHECK_DEADLOCK FALSE
