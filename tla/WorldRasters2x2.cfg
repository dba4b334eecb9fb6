SPECIFICATION FairSpec
CONSTANTS
    WorldsPerRow = 2
    LocalRasterSize = 4
    Overlap = 1
    NumRasters = 2
    MaxValue = 4
    OwnMaximum <- MCMaximum
    OwnValue <- MCValue
    NumSteps = 1
    Collected <- MCCollected
INVARIANTS
    MessagesFit
    CopiesAreExact
    StartsClean
PROPERTY
    AllFinish
