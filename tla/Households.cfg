SPECIFICATION Spec
CONSTANTS
    Boundaries <- MCBoundaries
    Overlap <- MCOverlap
    SectionOf <- MCSectionOf
    Dunes <- MCDunes
    SocialRange = 1
    MobilityRange = 1
    AdulthoodAge = 1
    DaysPerYear = 2
    NumSteps = 3
    Families <- MCFamilies
    NumHouseholds = 2
    MaxChanges = 3
INVARIANTS
    NobodyTwice
    ParentsAreAdults
    NoSiblings
PROPERTY
    NobodyVanishes
