SPECIFICATION FairSpec
CONSTANTS
    WorldsPerRow = 2
    LocalRasterSize = 4
    Overlap = 1
    NumRounds = 8
INVARIANTS
    Lockstep
    MailIsBounded
    NothingUnread
PROPERTY
    AllFinish
