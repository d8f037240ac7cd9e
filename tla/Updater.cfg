CONSTANTS
    Miners = {m1, m2}
    MaxVersion = 3
    MaxStarts = 3
SYMMETRY Symmetric
SPECIFICATION Spec
CHECK_DEADLOCK FALSE
INVARIANTS
    TypeOK
    ExecutableStaysWhole
    UpdateIsInPlace
