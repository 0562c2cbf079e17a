SPECIFICATION TimedFairSpec
CONSTANTS
    Games = {g1, g2}
    Players = {p1, p2}
    Stamps = {1}
    NoOwner = NoOwner
    LeaseTtl = 4
    RenewInterval = 2
    MaxDelay = 1
INVARIANTS OneHolder BackedUntilPass
PROPERTIES OrphanExpires 
