SPECIFICATION MCSpec
CONSTANTS
    r1 = r1
    r2 = r2
    i1 = i1
    i2 = i2
    RunIDs = {r1, r2, i2}
    ClientIDs = {i1, i2}
    NoID = NoID
    Controls = {c1, c2, c3}
    Logins <- ClaimedClientIDs
    WorkConns = {}
    PoolCapacity = 1
    None = None
    MayShutDown = TRUE
SYMMETRY ControlSymmetry
INVARIANTS
    TypeOK
    HandoffExclusive
    NoGhostOnline
    CurrentIsOnline
    RegistryIndexed
    UniqueClientID
CHECK_DEADLOCK FALSE
