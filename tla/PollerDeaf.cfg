SPECIFICATION Spec
CONSTANTS
    Conns = {c1, c2}
    Fds = {4, 5}
    Wake = Wake
    Timer = Timer
    Listen = Listen
    None = None
    Listening = {TRUE}
    MaxReady = 4
    Kicks = {FALSE}
INVARIANT RegisteredIsWatched
CHECK_DEADLOCK FALSE
