CONSTANTS
    Cells      <- MCCells
    Requests   <- MCRequests
    Defaults   <- MCDefaults
    GetPaths   <- MCGetPaths
    PostPaths  = {}
    MaxWaiting = 2
    Guarded    = {3}
    Start      <- MCStart
    Values     = {0, 1}
    Byte       = 2
    Threads    = 2
    MaxPages   = 5
    MaxLevel   = 3
    MaxChanges = 1
SPECIFICATION Spec
INVARIANTS AnswersInOrder SearchesAreRight
PROPERTY RequestsAreAnswered
CHECK_DEADLOCK FALSE
