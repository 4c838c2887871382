SPECIFICATION FairSpec
CONSTANTS
    Callers = {c1, c2}
    Times = {1, 2}
    EpochBytes <- MCEpochBytes
    Seeds = {65535}
    Domains = {0}
    Addresses <- MCAddresses
    Randoms <- MCRandoms
    UID <- MCUID
    GID <- MCGID
    MaxCalls = 3
    None = None
INVARIANTS
    NoRepeat
    ReadsBack
PROPERTIES
    CallsReturn
CHECK_DEADLOCK FALSE
