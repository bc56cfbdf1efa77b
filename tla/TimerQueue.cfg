SPECIFICATION TimersSpec
CONSTANTS
    Timers = {1, 2, 3}
    Delays = {1, 2}
INVARIANT SetIsKept
PROPERTY EveryTimerRuns
CHECK_DEADLOCK FALSE
