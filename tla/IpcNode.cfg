SPECIFICATION FairSpec
CONSTANTS
    Endpoints = {e1}
    Refreshes = TRUE
    Stalls = FALSE
    MaxLeases = 3
    MaxFaults = 1
    MaxChanges = 2
    None = None
INVARIANTS EventsMatchView NoGhostMember
PROPERTIES RegistrationRecovers RelaySeen
CHECK_DEADLOCK FALSE
