SPECIFICATION Spec
CONSTANTS
    WorldsPerRow = 2
    LocalRasterSize = 4
    Overlap = 1
INVARIANTS
    ZonesAgree
    SectionsSeparated
    ZoneComplete
    ZonesDisjoint
    CellHasOneHome
