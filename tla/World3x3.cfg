SPECIFICATION ScheduledSpec
CONSTANTS
    WorldsPerRow = 3
    LocalRasterSize = 4
    Overlap = 1
    Agents = {a1, a2}
    InitialCells <- MCMiddle
    NumSteps = 1
    Touches = FALSE
    Deaths = FALSE
SYMMETRY Symmetry
INVARIANT
    OneAgentPerCell
