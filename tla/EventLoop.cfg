SPECIFICATION Spec
CONSTANTS
    Tasks = {a, b}
    Recurring = {r}
    Threads = {t1, t2}
INVARIANTS
    TypeOK
    NoFreshTaskSleeps
    OvertakesOnlyCarried
PROPERTIES
    ImplementsTaskQueue
    QuitStopsLoop
    LullsServeEveryTask
CHECK_DEADLOCK FALSE
