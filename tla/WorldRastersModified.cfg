SPECIFICATION Spec
CONSTANTS
    WorldsPerRow = 2
    LocalRasterSize = 4
    Overlap = 1
    NumRasters = 1
    MaxValue = 4
    OwnMaximum <- MCMaximum
    OwnValue <- MCValue
    NumSteps = 1
    Collected <- MCCollected
INVARIANT
    ModifiedDataArrives
