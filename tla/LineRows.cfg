SPECIFICATION Spec
CHECK_DEADLOCK FALSE
CONSTANTS
    Sections = {"text", "cold", "data"}
    Text = "text"
    CodeSections = {"text", "cold"}
    Sources <- AllSources
INVARIANTS
    RowsFollowSource
    RowsAreOrdered
    TableReadsBack
    ViewsReadBack
