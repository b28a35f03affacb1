SPECIFICATION Spec
CONSTANTS
    InitRetryDelay = 1
    MaxRetryDelay = 30
    MaxCalls = 6
    MaxTimers = 3
INVARIANTS
    FaultsExplained
    OneAttempt
PROPERTIES
    KeepsTrying
CHECK_DEADLOCK FALSE
