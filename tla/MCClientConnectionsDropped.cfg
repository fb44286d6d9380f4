CONSTANTS
    Clients = {c1}
    Threads = {p1}
SPECIFICATION Spec
PROPERTIES
    DroppedClientsAreRemoved
CHECK_DEADLOCK FALSE
