SPECIFICATION ServerSpec
CONSTANTS
    MaxThreads = 2
    Clients = {c1, c2}
    MaxFiles = 3
INVARIANTS
    ServerTypeOK
    AbortsExplained
PROPERTIES
    StartsServesAndEnds
CHECK_DEADLOCK FALSE
