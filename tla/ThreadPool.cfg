SPECIFICATION Spec
CONSTANTS
    Workers = {w1, w2}
    Clients = {c1}
    Tasks = {a, b, c}
    None = None
INVARIANTS
    TasksAreKept
    NoTaskIsSleptOn
PROPERTIES
    EveryTaskRuns
CHECK_DEADLOCK FALSE
