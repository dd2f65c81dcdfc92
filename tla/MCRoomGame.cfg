SPECIFICATION Spec
CONSTANTS
    InitialHp = 2
    AttackDamage = 1
    MaxPosition = 2
    MaxPlayers = 2
    Conns = {c1}
    NoConn = NoConn
    MaxPlayerId = 3
    Capacities = {2, 3}
    MaxTick = 3
    Moves <- AllSteps
INVARIANTS
    TypeOK
    DepartedHaveNoEffect
    IdsAreNotReused
    CheckpointIsRestorable
PROPERTIES
    TickIsLocal
    DeadStayDead
