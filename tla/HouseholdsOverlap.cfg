SPECIFICATION Spec
CONSTANTS
    Boundaries <- MCBoundaries
    Overlap <- MCOverlap
    SectionOf <- MCSectionOf
    Dunes <- MCDunes
    SocialRange = 1
    MobilityRange = 0
    AdulthoodAge = 1
    DaysPerYear = 1
    NumSteps = 3
    Families <- MCFamilies
    NumHouseholds = 2
    MaxChanges = 0
INVARIANT NewHomesInOwnCells
