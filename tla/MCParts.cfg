SPECIFICATION PartsSpec
CONSTANTS
    None = None
    Nobody = Nobody
    Keeper = Keeper
    Torn = Torn
    NoChannel = NoChannel
    p1 = p1
    k1 = k1
    k2 = k2
    plain = plain
    off = off
    vnet = vnet
    u1 = u1
    h1 = h1
    c1 = c1
    c2 = c2
    x1 = x1
    x2 = x2
    w1 = w1
SYMMETRY Interchangeable
INVARIANTS
    PartsTypeOK
    RecordsTrue
    ConfigKept
    ConnectionsReleased
    DatagramPathsReleased
    NoPanicNoStorm
    DashboardExact
    RequestsRouted
    PeersUnderstand
CHECK_DEADLOCK FALSE
