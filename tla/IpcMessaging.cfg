CONSTANTS
    n1 = n1
    n2 = n2
    r1 = r1
    Unknown = Unknown
    Nodes = {n1, n2}
    Relays = {r1}
    Versions = {1, 2}
    MaxConns = 2
    MaxUnsettled = 1
    MaxMessages = 1
    MaxFaults = 1
SPECIFICATION FairSpec
CHECK_DEADLOCK FALSE
INVARIANTS AtMostOnceAtTargets LinkFitsPeer
PROPERTIES  DeadLinkForgotten 
