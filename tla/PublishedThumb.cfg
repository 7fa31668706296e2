SPECIFICATION PublishedSpec
CONSTANTS
    Programs <- ThumbPrograms
    MaxPasses = 32
    MaxPassesShrinking = 200
    FlipLimit = 10
PROPERTIES
    KeepsItsPromise
