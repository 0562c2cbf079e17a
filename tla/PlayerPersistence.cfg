SPECIFICATION Spec
CONSTANTS
    Players = {p1}
    LandingMin = 1
    LandingTime = 2
    Commands = {"flushDue", "recover", "flush"}
    ScanGap = 1
    MaxTime = 6
    MaxFailures = 3
    NoRetry = NoRetry
    Idle = Idle
    NoPlayer = NoPlayer
INVARIANTS AttemptedInTime
 
CHECK_DEADLOCK FALSE
