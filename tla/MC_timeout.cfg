SPECIFICATION FairSpec
CONSTANTS
    Messages = {m1, m2}
    Modes = {"direct", "registered", "loaded"}
    StartStates = {"Task", "Wait"}
    MaxRetry = 1
    MaxCrashes = 1
INVARIANTS TypeOK TimeoutOnce CancelIsFinal
PROPERTY WaitResolves
CHECK_DEADLOCK FALSE
