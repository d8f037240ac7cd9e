SPECIFICATION Spec
CONSTANTS
    Jobs = {"a", "b", "old"}
    Key <- MCKey
    Target <- MCTarget
    Legacy = {"old"}
    MinBucket = 2
    LaunchSizes = {2}
    Counts = {1, 2, 3}
    MaxSolves = 2
    GateRejects = TRUE
    MaxErrors = 1
CHECK_DEADLOCK FALSE
INVARIANTS
    TypeOK
    PrefetchIsForThisBatch
    IdleIsQuiet
    EveryBatchReportedOnce
    ReportsItsOwnResults
    LastBatchIsExact
PROPERTY
    SolveReturns
