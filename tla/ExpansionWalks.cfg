SPECIFICATION FairSpec
CONSTANTS
    Programs <- WalkPrograms
    MaxMacroDepth = 3
    MaxIncludeDepth = 1
INVARIANTS
    CondsFollowNesting
    BlocksFollowNesting
    NestingBounded
PROPERTIES
    ExitmLeavesOneExpansion
    NothingAfterEnd
    WalkEnds
