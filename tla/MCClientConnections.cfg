CONSTANTS
    Clients = {c1, c2}
    Threads = {p1, p2}
SPECIFICATION Spec
INVARIANTS
    UnheldAreClosed
    ClosingIsNoticed
PROPERTIES
    ImplementsLifecycle
    LossIsReported
    RefusedAreForgotten
CHECK_DEADLOCK FALSE
