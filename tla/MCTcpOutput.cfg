SPECIFICATION Spec
CONSTANTS
    Users = {u1}
    Lengths = {2}
    HighWaterMark = 3
    MaxSends = 3
INVARIANTS
    StreamInOrder
    BufferWatched
    AbortsExplained
PROPERTIES
    OutputDrains
CHECK_DEADLOCK FALSE
