SPECIFICATION PoolSpec
CHECK_DEADLOCK FALSE
CONSTANTS
    Literals <- NonzeroLiterals
    MaxEntries = 6
    MaxRequests = 6
INVARIANTS
    UsesReadTheirValue
    WideUsesAreAligned
