SPECIFICATION FairSpec
CONSTANTS
    Programs <- NasmPrograms
    MaxDepth = 3
    MaxRep = 3
    MaxIncludeDepth = 1
INVARIANTS
    LinesFollowNesting
    ExitsHaveTargets
PROPERTIES
    ExitsLeaveTheirOwn
    WalkReturns
