CONSTANTS
    n1 = n1
    r1 = r1
    Unknown = Unknown
    Nodes = {n1}
    Relays = {r1}
    Versions = {1}
    MaxConns = 1
    MaxUnsettled = 1
    MaxMessages = 1
    MaxFaults = 0
SPECIFICATION Spec
CHECK_DEADLOCK FALSE
INVARIANTS FramesComplete
