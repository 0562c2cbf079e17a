SPECIFICATION FairSpec
CONSTANTS
    Gates = {g1, g2}
    Accounts = {a1, a2}
    Game = game
    None = None
    MaxConns = 2
    MaxClients = 2
    MaxReqs = 2
    MaxEvents = 1
 
PROPERTIES  AttachmentKept 
CHECK_DEADLOCK FALSE
