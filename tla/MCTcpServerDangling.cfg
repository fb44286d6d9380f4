CONSTANTS
    Workers = {w1}
    MaxConnections = 3
SPECIFICATION Spec
INVARIANT
    ReadCallbackFindsConnection
CHECK_DEADLOCK FALSE
