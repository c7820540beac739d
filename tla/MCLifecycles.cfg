SPECIFICATION PartsSpec
CONSTANTS
    None = None
    Nobody = Nobody
    Keeper = Keeper
    NoChannel = NoChannel
    p1 = p1
    p2 = p2
    k1 = k1
    k2 = k2
    u1 = u1
    u2 = u2
    c1 = c1
    c2 = c2
    w1 = w1
    h1 = h1
    a1 = a1
    a2 = a2
PROPERTIES
    LifecyclesEnd
    UDPQueueKept
    SUDPQueueKept
CHECK_DEADLOCK FALSE
