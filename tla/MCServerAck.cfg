SPECIFICATION Spec
CONSTANTS
    Conns = {c1, c2}
    Fds = {f1, f2}
    NoFd = NoFd
    AckWriteMayFail = TRUE
    MaxFrames = 1
    MaxCloses = 1
    InitialHp = 1
    AttackDamage = 1
    MaxPosition = 1
    MaxPlayers = 2
    NoConn = NoConn
    MaxPlayerId = 2
    RoomIds = {1}
    NoRoom = 2
    Capacities <- TwoSeats
    Tokens = {t1, t2}
    ReconnectTimeout = 1
    Moves <- NoMoves
    Targets = {}
    MaxTick = 1
    MaxRestarts = 0
SYMMETRY Symmetry
INVARIANTS
    OnlineIsConnected
