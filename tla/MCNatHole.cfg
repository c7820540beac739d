SPECIFICATION MCSpec
CONSTANTS
    Visitors = {v1, v2}
    MaxGenerations = 1
    VisitorPeers <- MCVisitorPeers
    ClientPeers <- MCClientPeers
    PriorAttempts <- MCPriorAttempts
    Nobody = Nobody
SYMMETRY MCSymmetry
INVARIANTS
    TypeOK
    RolesFit
    WindowsMeet
    Rotates
    ScoresHonest
CHECK_DEADLOCK FALSE
