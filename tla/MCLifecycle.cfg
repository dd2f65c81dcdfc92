SPECIFICATION FairSpec
CONSTANTS
    Base = "base"
    Workers <- TwoWorkers
    Loops = {"base", "io1", "io2"}
    NoLoop = NoLoop
    Busy = {"io2"}
    MaxQueue = 1
INVARIANTS
    NoLostWakeup
    NothingDangles
    SavedAtEnd
PROPERTIES
    SignalEndsProcess
