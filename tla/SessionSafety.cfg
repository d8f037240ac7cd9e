CONSTANTS
    NumEndpoints = 3
    AutoUpdate = TRUE
SPECIFICATION FairSpec
CHECK_DEADLOCK FALSE
INVARIANTS
    TypeOK
    NoWorkerOutlivesSession
    SocketClosedBetweenSessions
    FailureRequestsNextPool
PROPERTIES
    ImplementsReconnecting
    ImplementsProgress
    OnlyTheLockKeepsPoolLost
    PoolWithoutWorkIsLeft
    EveryPoolIsTried
