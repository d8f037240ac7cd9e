CONSTANTS
    NonceSpace = 7
    Chunk = 2
    SliceCap = 3
    NoParent = 0
    Parents = {0, 1}
    Offers <- MCOffers
    MaxJobs = 3
    MaxNonce = 4
    MaxSessions = 2
    Winners <- MCWinners
SPECIFICATION FairSpec
INVARIANTS
    TypeOK
    SubmittedIsVerified
    SharesStayInTheirSession
    CoverageHasNoHoles
PROPERTIES
    NoNonceHashedTwice
    LatestJobIsTakenUp
