SPECIFICATION Spec
CONSTANTS
    MaxPackets = 2
    MaxTransports = 3
    SendCap = 1
    ReadCap = 1
    RandomPorts = 0
    MaxStrays = 0
INVARIANTS
    TypeOK
    AcceptedInOrder
    NothingLost
    LiveIsCurrent
    PhaseTellsProbe
PROPERTIES
    InboundCurrent
CHECK_DEADLOCK FALSE
