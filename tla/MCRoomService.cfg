SPECIFICATION Spec
CONSTANTS
    InitialHp = 1
    AttackDamage = 1
    MaxPosition = 1
    MaxPlayers = 2
    Conns = {c1, c2, c3}
    NoConn = NoConn
    MaxPlayerId = 3
    RoomIds = {1}
    NoRoom = 2
    Capacities <- TwoOrThreeSeats
    Tokens = {t1, t2}
    ReconnectTimeout = 2
    Moves <- NoMoves
    Targets = {}
    MaxTick = 1
    MaxRestarts = 0
SYMMETRY Symmetry
INVARIANTS
    TypeOK
    SeatsHaveSessions
    BindingsAreOnline
    GamesMatchMembers
    RostersAreAccurate
PROPERTIES
    SeatKeptInWindow
    OwnCloseOnly
