SPECIFICATION FairSpec
CONSTANTS
    Tasks = {a, b}
    Clients = {c}
    pool_size = 2
    MaxStarts = 2
INVARIANTS
    TaskThere
    NoWakeupLost
    IdleCount
    WaitMeansDone
PROPERTY
    TaskIsTaken
CHECK_DEADLOCK FALSE
