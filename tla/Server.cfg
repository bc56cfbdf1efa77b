SPECIFICATION Spec
CONSTANTS
    Conns = {c1, c2}
    MaxSize = 3
    MaxReads = 1
    None = None
INVARIANTS
    TypeOK
    EachItsOwnLoop
    ToldInOrder
PROPERTY HangUpIsHandled
CHECK_DEADLOCK FALSE
