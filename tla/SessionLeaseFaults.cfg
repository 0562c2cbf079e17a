SPECIFICATION FairSpec
CONSTANTS
    Games = {g1}
    Players = {p1}
    Stamps = {1}
    NoOwner = NoOwner
    MaxUpdates = 1
    StorageFaults = TRUE
    HotFaults = FALSE
    Absent = Absent
    Handlers = {h1}
    GateSessions = {1}
    Commands = {"release", "detach"}
    LeaseFaults = TRUE
    NoCall = NoCall
INVARIANTS InServiceHasData
PROPERTIES LossNoticed
