CONSTANTS
    Threads = {p1}
    MaxQueue = 0
    MaxReads = 2
SPECIFICATION Spec
INVARIANT
    OneReceiveInProgress
CHECK_DEADLOCK FALSE
