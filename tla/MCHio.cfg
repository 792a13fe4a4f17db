SPECIFICATION FairSpec
CONSTANTS
    Threads = {t1, t2}
    MsgLen = 2
    MaxMsgs = 2
    MaxConns = 2
    MaxPosted = 1
INVARIANTS
    StreamInOrder
    CloseIsLossless
    QueueIsWatched
    ClosedOnce
PROPERTIES
    PostedCloseIsOwn
    CloseEnds
CHECK_DEADLOCK FALSE
