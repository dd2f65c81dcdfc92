SPECIFICATION FairSpec
CONSTANTS
    InitialHp = 1
    AttackDamage = 1
    MaxPosition = 1
    MaxPlayers = 1
    Conns = {c1, c2}
    NoConn = NoConn
    MaxPlayerId = 2
    RoomIds = {1, 2}
    NoRoom = 3
    Capacities <- TwoRooms
    Tokens = {t1, t2}
    ReconnectTimeout = 1
    Moves <- NoMoves
    Targets = {1}
    MaxTick = 1
    MaxRestarts = 0
PROPERTIES
    OfflineIsSettled
