SPECIFICATION Spec
CONSTANTS
    Programs <- BlankPrograms
    MaxMacroDepth = 3
    MaxIncludeDepth = 1
INVARIANTS
    CondsFollowNesting
