SPECIFICATION Spec
CONSTANTS
    Games = {g1, g2}
    Players = {p1}
    Stamps = {1}
    NoOwner = NoOwner
    MaxUpdates = 2
    StorageFaults = TRUE
    HotFaults = FALSE
    Absent = Absent
    Handlers = {h1}
    GateSessions = {1}
    Commands = {"release", "expire"}
    LeaseFaults = FALSE
    NoCall = NoCall
INVARIANTS OneLoaded InServiceIsServed CleanIsStored
PROPERTIES NoLostUpdate OwnershipKept
