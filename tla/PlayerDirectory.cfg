SPECIFICATION DirectorySpec
CONSTANTS
    Games = {g1, g2}
    Players = {}
    Accounts = {a1, a2}
    Base = 2
    MaxCounter = 4
    MaxFaults = 2
    NoId = NoId
    NoOp = NoOp
INVARIANTS DirectoryTypeOK OneIdPerAccount NoSharedId
PROPERTIES EntryKept
SYMMETRY Symmetry
