\* Two controls register and close proxies of two names over two ports.
SPECIFICATION Spec
CONSTANTS
    n1 = n1
    n2 = n2
    r1 = r1
    r2 = r2
    c1 = c1
    c2 = c2
    NoName = NoName
    Nobody = Nobody
    NoProxy = NoProxy
    Group = Group
    Leaked = Leaked
    Names <- MCNames
    AllowPorts <- MCAllowPorts
    Routes <- MCRoutes
    Requests <- MCRequests
    Controls <- MCControls
    MaxPortsPerClient = 1
SYMMETRY ControlSymmetry
CONSTRAINT GroupsByThemselves
INVARIANTS
    TypeOK
    RegisteredOwns
    NothingAbandoned
    QuotaExact
    PortsAccounted
