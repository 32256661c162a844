SPECIFICATION MCSpec
CONSTANTS
    Threads = {t1, t2}
    Messages = {m1, m2}
    USER_MESSAGE_QUEUE_CAPACITY = 3
    USER_PAINT_REDELIVERY = 1
    MaxWindows = 1
    NoOwner = NoOwner
    NoMessage = NoMessage
INVARIANTS
    WorkSignalled
PROPERTIES
    ImplementsFifo
    SleeperGoesOn
CHECK_DEADLOCK FALSE
