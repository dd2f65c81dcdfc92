SPECIFICATION FairSpec
CONSTANTS
    HardLimit = 2
    HighWater = 1
    Sizes = {1, 2}
    AckSize = 1
    MaxTasks = 2
    MaxFrames = 2
INVARIANTS
    TypeOK
    DebtIsExact
    OutputIsArmed
PROPERTIES
    EofCloses
