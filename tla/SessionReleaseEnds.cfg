SPECIFICATION FairSpec
CONSTANTS
    Games = {g1}
    Players = {p1}
    Stamps = {1}
    NoOwner = NoOwner
    MaxUpdates = 1
    StorageFaults = TRUE
    HotFaults = TRUE
    Absent = Absent
    Handlers = {h1}
    GateSessions = {1}
    Commands = {"detach", "release", "expire", "flush", "update", "reconcile", "flushDue", "bindLocal", "bindRemote"}
    LeaseFaults = FALSE
    NoCall = NoCall
PROPERTIES ReleaseEnds
