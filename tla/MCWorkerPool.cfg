CONSTANTS
    Service = Service
    Pool = {w1, w2}
    Callers = {c1, c2}
    MaxTasks = 5
SPECIFICATION Spec
INVARIANTS
    FreeCountExact
    StoppedIsQuiet
PROPERTIES
    PostedWorkRuns
    StopReturns
CHECK_DEADLOCK FALSE
