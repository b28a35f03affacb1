SPECIFICATION Spec
CONSTANTS
    Conns = {c1, c2}
    NumThreads = 1
    MaxUserCalls = 1
SYMMETRY ConnSymmetry
INVARIANTS
    AbortsExplained
    LifetimesSafe
    OneDownCallback
CHECK_DEADLOCK FALSE
