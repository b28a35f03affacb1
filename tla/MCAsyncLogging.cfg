SPECIFICATION Spec
CONSTANTS
    RollSize = 3
    FlushInterval = 2
    CheckEveryN = 2
    Second = 2
    Day = 3
    BufferLines = 2
    MaxBuffers = 3
    NoBuffer = NoBuffer
    MaxLines = 8
    MaxNow = 4
INVARIANTS
    TypeOK
    LinesAccounted
    LogFilesRolled
PROPERTIES
    DayNoticed
    LinesGetWritten
CHECK_DEADLOCK FALSE
