SPECIFICATION Spec
CONSTANTS
    Visitors = {v1}
    MaxGenerations = 1
    VisitorPeers <- MCEasyPeer
    ClientPeers <- MCPublicPeer
    PriorAttempts <- MCFewAttempts
    Nobody = Nobody
INVARIANT PublicReceives
CHECK_DEADLOCK FALSE
