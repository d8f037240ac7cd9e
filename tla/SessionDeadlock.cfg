CONSTANTS
    NumEndpoints = 1
    AutoUpdate = FALSE
SPECIFICATION FairSpec
CHECK_DEADLOCK FALSE
PROPERTIES
    LostPoolIsRedialled
