SPECIFICATION Spec
CONSTANTS
    Messages = {m1}
    Modes = {"registered"}
    StartStates = {"Wait"}
    MaxRetry = 1
    MaxCrashes = 0
INVARIANT ResumedMeansContinued
CHECK_DEADLOCK FALSE
