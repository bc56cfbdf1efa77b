SPECIFICATION Spec
CONSTANTS
    Base = 2
    PreAppend = 1
    InitialSize = 5
    ExtraRoom = 2
    Messages <- Mixed
    MaxMessages = 2
    SocketRoom = 4
INVARIANTS
    TypeOK
    StreamIntact
    DeliveredAsSent
    WritingWhilePending
PROPERTY PacedArrives
CHECK_DEADLOCK FALSE
