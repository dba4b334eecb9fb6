SPECIFICATION Spec
CONSTANTS
    WorldsPerRow = 2
    LocalRasterSize = 4
    Overlap = 1
    Agents = {a1, a2}
    InitialCells <- MCCorner
    NumSteps = 1
    Touches = TRUE
    Deaths = TRUE
SYMMETRY Symmetry
INVARIANTS
    TypeOK
    OneHolder
    OneAgentPerCell
    ViewIsExact
    OneTurnPerStep
    GhostsAtEnd
    NoException
    NoSecondCopy
PROPERTY
    IsGlobalSimulation
