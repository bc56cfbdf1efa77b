SPECIFICATION Spec
CONSTANTS
    Fds = {3, 4}
    Others = {o}
    None = None
    MaxAttempts = 3
    MaxStarts = 2
INVARIANTS
    TypeOK
    NoSocketLeaks
    RetriesDoNotMultiply
PROPERTIES
    HandedOverIsHeard
    AttemptIsResolved
CHECK_DEADLOCK FALSE
