SPECIFICATION Spec
CONSTANTS
    Requests <- MCRequests
    None = None
    MaxDials = 2
    MaxReconnectAttempts = 0
    Pings = FALSE
    Queries = {q1}
    Users = {u1}
    Calls = {}
    Stops = FALSE
    OutCap = 1
    MaxEvents = 0
    MaxRefusals = 0
INVARIANTS
    SubscriptionsAreRedone
CHECK_DEADLOCK FALSE
