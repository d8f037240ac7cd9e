SPECIFICATION Spec
CONSTANTS
    Jobs = {"a"}
    Key <- MCKey
    Target <- MCTarget
    Legacy = {}
    MinBucket = 1
    LaunchSizes = {1}
    Counts = {5}
    MaxSolves = 1
    GateRejects = FALSE
    MaxErrors = 0
CHECK_DEADLOCK FALSE
INVARIANT ReusesItsGateData
