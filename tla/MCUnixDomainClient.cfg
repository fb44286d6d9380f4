SPECIFICATION ProgramSpec
INVARIANTS
    CallbacksFindManager
    NormalEndIsTheLast
    NoWakeUpIsLost
PROPERTIES
    SignalStopsProgram
    ErrorsEndTheClient
CHECK_DEADLOCK FALSE
