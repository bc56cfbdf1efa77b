SPECIFICATION Spec
CONSTANTS
    Tasks = {a, b}
    Recurring = {}
    Threads = {t1}
PROPERTY EveryPostedTaskRuns
CHECK_DEADLOCK FALSE
