SPECIFICATION FairSpec
CONSTANTS
    Programs <- SettlingPrograms
    MaxPasses = 10
    MaxPassesShrinking = 20
    FlipLimit = 2
INVARIANTS
    TypeOK
    SettledIsFixed
    NoErrorMissed
    SectionsDisjoint
    PassesNeedGrowth
    SmallestWithoutPadding
    SettledIsSmallestFit
PROPERTIES
    ShrinksAreAllowed
    CodeSettles
