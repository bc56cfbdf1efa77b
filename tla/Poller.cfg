SPECIFICATION Spec
CONSTANTS
    Conns = {c1, c2}
    Fds = {4, 5}
    Wake = Wake
    Timer = Timer
    Listen = Listen
    None = None
    Listening = {TRUE, FALSE}
    MaxReady = 4
    Kicks = {FALSE}
SYMMETRY Symmetry
INVARIANTS
    TypeOK
    WatchedWhileFewReady
    OneChannelWhileUndisturbed
    PollServesAll
CHECK_DEADLOCK FALSE
