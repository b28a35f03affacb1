SPECIFICATION Spec
CONSTANTS
    Conns = {c1}
    NumThreads = 1
    MaxUserCalls = 3
INVARIANTS
    AbortsExplained
PROPERTIES
    DeadConnectionsLeave
CHECK_DEADLOCK FALSE
