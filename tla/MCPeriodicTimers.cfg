CONSTANTS
    Timers = {t1}
    Others = {t2}
    Users = {u1, u2}
    Threads = {p1, p2}
    MaxSets = 3
SPECIFICATION Spec
INVARIANTS
    OneChainPerCall
    SetTimersHaveAChain
PROPERTIES
    EndedChainsStayEnded
    KeepsTicking
CHECK_DEADLOCK FALSE
