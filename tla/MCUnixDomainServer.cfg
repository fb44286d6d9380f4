CONSTANTS
    Clients = {c1, c2}
SPECIFICATION Spec
INVARIANTS
    CallbacksFindImpl
    ToldBeforeData
PROPERTIES
    LostClientsAreRemoved
    HeartbeatsReachClients
CHECK_DEADLOCK FALSE
