SPECIFICATION Spec
CONSTANTS
    walker = walker
    farmer = farmer
    Types = {walker, farmer}
    IntAttributes = {"x"}
    StringAttributes = {"id"}
    IdAttribute = "id"
    Value = {0, 1, 2, 3, 4}
    Fill = 0
    NumSteps = 2
    ChunkSize = 2
    Populations <- MCPopulations
INVARIANTS
    Aligned
    NobodyMissing
PROPERTY
    IsHistory
