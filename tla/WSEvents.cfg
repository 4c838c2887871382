SPECIFICATION Spec
CONSTANTS
    Requests <- MCRequests
    None = None
    MaxDials = 2
    MaxReconnectAttempts = 0
    Pings = FALSE
    Queries = {q1}
    Users = {u1}
    Calls = {}
    Stops = FALSE
    OutCap = 0
    MaxEvents = 1
    MaxRefusals = 1
INVARIANTS
    MapStableUnderRLock
    OwedAreRedone

    
CHECK_DEADLOCK FALSE
