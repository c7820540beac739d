SPECIFICATION MCSpec
CONSTANTS
    Visitors = {v1}
    MaxGenerations = 1
    VisitorPeers <- MCIrregularPeer
    ClientPeers <- MCRegularPeer
    PriorAttempts <- MCManyAttempts
    Nobody = Nobody
INVARIANT ScoresBounded
CHECK_DEADLOCK FALSE
