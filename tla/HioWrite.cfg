SPECIFICATION Spec
CONSTANTS
    Threads = {t1, t2}
    MsgLen = 2
    MaxMsgs = 2
    MaxConns = 2
    MaxPosted = 1
PROPERTY
    WriteIsOwn
CHECK_DEADLOCK FALSE
