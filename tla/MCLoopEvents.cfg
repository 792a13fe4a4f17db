SPECIFICATION FairSpec
CONSTANTS
    Posters = {t1, t2}
    Loop = loop
    None = None
    ReadMax = 2
    MaxPosts = 4
INVARIANTS
    WakeupPerEvent
    FrontExists
    RunOnce
    RunInOrder
PROPERTY
    EveryPostRuns
CHECK_DEADLOCK FALSE
