SPECIFICATION FairSpec
CONSTANTS
    Tasks = {r1, r2}
    Fds = {f1, f2}
    RetryCnt = 3
    NULL = NULL
INVARIANTS
    TaskInOnePlace
    PoolIsIdle
    TimerHasTask
PROPERTY
    TimedIsAnswered
CHECK_DEADLOCK FALSE
