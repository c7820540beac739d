SPECIFICATION FairSpec
CONSTANTS
    MaxPackets = 1
    MaxTransports = 2
    SendCap = 1
    ReadCap = 1
    RandomPorts = 1
    MaxStrays = 2
INVARIANTS
    ClosedReleases
PROPERTIES
    CloseEnds
CHECK_DEADLOCK FALSE
