SPECIFICATION VNetSpec
CONSTANTS
    Plugins = {1}
    Pipes = {c1}
    WorkConns = {}
    SrcIPs = {s1, s2}
    MaxErrors = 30
    None = None
INVARIANT BackoffCapped
CHECK_DEADLOCK FALSE
