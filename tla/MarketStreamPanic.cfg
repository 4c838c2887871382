SPECIFICATION Spec
CONSTANT
    MaxFrames = 2
INVARIANT
    NoSendAfterClose
CHECK_DEADLOCK FALSE
