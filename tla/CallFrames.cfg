SPECIFICATION Spec
CHECK_DEADLOCK FALSE
CONSTANTS
    Sources <- AllSources
INVARIANTS
    FramesReadBack
    FramesShareWhatTheyAgreeOn
    FramesAreApart
