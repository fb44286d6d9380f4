CONSTANTS
    Threads = {p1, p2}
    MaxQueue = 1
    MaxReads = 2
SPECIFICATION Spec
INVARIANTS
    ConnectedListenersReceive
PROPERTIES
    ClosedReadersAreRemoved
CHECK_DEADLOCK FALSE
