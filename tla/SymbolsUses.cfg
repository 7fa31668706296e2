CONSTANTS
    Sources <- AllSources
    Numbers = {1, 2}
    MaxChain = 2
    MaxHops = 3
    Base = 16
SPECIFICATION Spec
INVARIANTS
    LocalsByPosition
    MissingLocalsReported
    UsesAreComputed
    NumbersStay
    SizeChainsEnd
    AliasSizes
CHECK_DEADLOCK FALSE
