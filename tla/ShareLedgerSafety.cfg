CONSTANTS
    Powers = {1, 3, 9}
    MaxId = 9
    MaxPending = 3
    MaxSessions = 2
SPECIFICATION Spec
INVARIANTS
    TypeOK
    VerdictsAreThePools
    EveryIdIsAccountedFor
    EveryVerdictIsCounted
