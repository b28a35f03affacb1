SPECIFICATION Spec
CONSTANTS
    Conns = {c1}
    NumThreads = 1
    MaxUserCalls = 1
PROPERTIES
    ShutdownShutsWriteEnd
CHECK_DEADLOCK FALSE
