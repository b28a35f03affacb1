SPECIFICATION TimerSpec
CONSTANTS
    MaxTimers = 2
    Intervals = {1}
    MaxClock = 3
    MaxSlip = 2
    MaxCancels = 2
INVARIANTS
    OwnedOnce
    TimerfdArmed
    StaleReadsExplained
PROPERTIES
    RunsWhenDue
    CancelsItsOwn
    ScheduledTimersFire
CHECK_DEADLOCK FALSE
