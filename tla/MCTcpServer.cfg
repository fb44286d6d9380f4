CONSTANTS
    Workers = {w1, w2}
    MaxConnections = 3
SPECIFICATION Spec
INVARIANTS
    AcceptChain
    OpenPeersAreRead
    ToldClientsAreListed
PROPERTIES
    LostClientsAreClosed
CHECK_DEADLOCK FALSE
