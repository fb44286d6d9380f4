CONSTANTS
    Callers = {c1, c2}
    Workers = {w1, w2}
    NoThread = NoThread
    Payloads <- MCPayloads
    MaxMessages = 3
SPECIFICATION Spec
INVARIANTS
    AtMostOneWrite
    QueueMatchesWrites
    NoLostLaunch
PROPERTIES
    HealthySocketKept
    ImplementsChannel
    MessagesDelivered
    FailureClosesSocket
CHECK_DEADLOCK FALSE
