SPECIFICATION PublishedSpec
CONSTANTS
    Programs <- GrowingPrograms
    MaxPasses = 10
    MaxPassesShrinking = 200
    FlipLimit = 10
PROPERTIES
    KeepsItsPromise
