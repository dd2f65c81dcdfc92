SPECIFICATION TcpFairSpec
CONSTANTS
    Conns = {c1, c2}
    Fds = {f1, f2, f3}
    NoFd = NoFd
    AckWriteMayFail = TRUE
    MaxFrames = 2
    MaxCloses = 1
INVARIANTS
    ClosedOnce
    DescriptorsAreOwned
PROPERTIES
    ClosesComplete
