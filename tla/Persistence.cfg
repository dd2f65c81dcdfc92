SPECIFICATION FairSpec
CONSTANTS
    MaxGeneration = 4
    MaxData = 3
INVARIANTS
    AlwaysLoadable
    StopIsDurable
    CommittedIsDurable
PROPERTIES
    FileIsAtomic
    StopEnds
    SlotIsServed
