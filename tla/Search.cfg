SPECIFICATION MCSpec
CONSTANTS
    Modulus = 31
    Samples <- MCSamples
    Lanes = 2
    Warps = 4
    UnrolledRank = 8
    UnrolledBlock = 4
    Bytes = 3
    Bits = 2
    Mantissa = 2
    Trials <- MCTrials
    Rigs <- MCRigs
    Ranges <- MCRanges
    Winners <- MCWinners
    MinBatch = 2
    CapOf <- MCCapOf
    LargeBatch = 3
    ReserveBytes = 2
    GateBytes = 1
    PoolBytes = 3
    LegacyBytes = 4
    MinPassed = 1
    IntWidth = 8
    CpuThreads = 4
CHECK_DEADLOCK FALSE
INVARIANTS
    ProductStillFits
    DotIsExact
    CpuWordsAreExact
    BatchedWordsAreExact
    LegacyWordsAreCongruent
    GateScalesTheTarget
    BothAcceptTheSame
    RangeIsSearchedOnce
    AutoBatchIsLargestThatFits
    EveryGpuIsFed
