SPECIFICATION Spec
CONSTANTS
    InitialHp = 1
    AttackDamage = 1
    MaxPosition = 1
    MaxPlayers = 2
    Conns = {c1, c2}
    NoConn = NoConn
    MaxPlayerId = 2
    RoomIds = {1}
    NoRoom = 2
    Capacities <- TwoSeats
    Tokens = {t1, t2}
    ReconnectTimeout = 1
    Moves <- OneMove
    Targets = {}
    MaxTick = 1
    MaxRestarts = 1
SYMMETRY Symmetry
INVARIANTS
    OneCommandPerTick
    CheckpointsAreRestorable
