SPECIFICATION Spec
CONSTANTS
    Programs <- Scopes
    MaxDepth = 3
    MaxRep = 3
    MaxIncludeDepth = 1
INVARIANTS
    ExpansionsOwnTheirLabels
