SPECIFICATION FairSpec
CONSTANT
    MaxFrames = 3
INVARIANTS
    OnCloseOnlyAfterQuit
PROPERTIES
    QuitEndsAll
    ErrorReported
\* The goroutines return and the subscription is over.
CHECK_DEADLOCK FALSE
