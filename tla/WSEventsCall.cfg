SPECIFICATION Spec
CONSTANTS
    Requests <- MCRequests
    None = None
    MaxDials = 1
    MaxReconnectAttempts = 0
    Pings = FALSE
    Queries = {q1}
    Users = {}
    Calls = {c1}
    Stops = FALSE
    OutCap = 1
    MaxEvents = 0
    MaxRefusals = 0
INVARIANTS
    AnsweredCallSucceeds
CHECK_DEADLOCK FALSE
