CONSTANTS
    NumEndpoints = 1
    AutoUpdate = TRUE
SPECIFICATION FairSpec
PROPERTIES
    UpdateReachesRestart
CHECK_DEADLOCK FALSE
