CONSTANTS
    Starters = {s1}
    Workers = {w1, w2}
    ChunkSize = 2
    StreamLength = 4
    MaxStarts = 2
SPECIFICATION Spec
INVARIANTS
    ReadingGoesOn
    ContextExcludesRead
    ReadFitsSlot
    BufferHoldsStream
PROPERTIES
    StreamIsRead
CHECK_DEADLOCK FALSE
