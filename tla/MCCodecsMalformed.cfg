SPECIFICATION Spec
CONSTANTS
    Base = 4
    W16 = 1
    W32 = 2
    MaxNameSize = 2
    MaxTokenSize = 2
    MaxChatSize = 2
    ErrorTypes = {1, 2}
    ErrorCodes = {1, 2}
    Kind <- SmallKinds
    MaxFrame = 5
    InitialSize = 4
    Chunks = {1, 3, 4}
    MaxStream = 7
    Magic <- SmallMagic
    Version = 1
    FnvBasis = 37
    FnvPrime = 19
    TokenSize = 1
    HexBytes = {1, 2}
    MaxFile = 101
    ExclusiveOr <- BitwiseXor
    MaxPayload = 6
    Replies <- SmallReplies
    Checkpoints <- SmallCheckpoints
INVARIANTS
    MalformedCloses
CHECK_DEADLOCK FALSE
