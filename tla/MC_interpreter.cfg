SPECIFICATION FairSpec
CONSTANTS
    Definitions <- MCDefinitions
    Inputs <- MCInputs
    TaskResults <- MCTaskResults
    TaskErrors = {"e1", "e2"}
    MaxBranches = 2
    MaxVisits = 4
    MergeMaps <- mergeMaps
    EvaluateChoice <- evaluateChoice
INVARIANTS AcceptedCanEnd ParallelSound
PROPERTIES NotFoundIsUnchecked AcceptedRulesDecide InputSurvives TimedTaskEnds
CHECK_DEADLOCK FALSE
