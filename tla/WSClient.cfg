SPECIFICATION FairSpec
CONSTANTS
    Requests = {r1, r2}
    None = None
    MaxDials = 3
    MaxReconnectAttempts = 1
    Pings = TRUE
INVARIANTS
    OneReaderOneWriter
    RequeueNeverBlocks
    ReconnectRequestsAreTaken
    QuitChannelClosedOnce
    ClosedAfterFirstReader
PROPERTIES
    PipeSpec
    ConnReplacedWhenQuiet
    SendReturns
    AcceptedIsWritten
    UnexpectedCloseReconnects
CHECK_DEADLOCK FALSE
