SPECIFICATION FairSpec
CONSTANTS
    WorldsPerRow = 2
    LocalRasterSize = 4
    Overlap = 1
    Agents = {a1}
    InitialCells <- MCStart
    NumSteps = 2
    Touches = FALSE
    Deaths = FALSE
PROPERTIES
    KeepsOrder
    AllFinish
