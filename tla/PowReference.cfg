SPECIFICATION PowSpec
CONSTANTS
    Modulus = 31
    Lanes = 2
    Warps = 4
    UnrolledRank = 8
    UnrolledBlock = 4
    Bytes = 3
    Bits = 2
    Mantissa = 2
    Trials <- TestTrials
CHECK_DEADLOCK FALSE
INVARIANT GpuMatchesReference
