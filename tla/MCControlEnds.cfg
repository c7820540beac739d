SPECIFICATION MCSpec
CONSTANTS
    r1 = r1
    c1 = c1
    c2 = c2
    c3 = c3
    w1 = w1
    RunIDs = {r1}
    ClientIDs = {}
    NoID = NoID
    Controls = {c1, c2, c3}
    Logins <- MCLogins
    WorkConns = {w1}
    PoolCapacity = 1
    None = None
    MayShutDown = TRUE
INVARIANTS
    PoolSound
PROPERTIES
    LoginEnds
    ShutdownDrains
CHECK_DEADLOCK FALSE
