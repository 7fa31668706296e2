SPECIFICATION Spec
CHECK_DEADLOCK FALSE
CONSTANTS
    Sources <- AllSources
    SectionNames = {"text", "data"}
    MaxStatements = 5
INVARIANTS
    OneBackendPerFragment
    LiteralsAreWritten
    MappingCovers
    DataIsMarkedFromStart
PROPERTIES
    LabelsHoldTheirPlace
