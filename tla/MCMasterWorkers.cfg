SPECIFICATION FairSpec
CONSTANTS
    N = 2
    MaxDeaths = 4
    MaxReloads = 1
INVARIANTS
    WorkersKnown
    ExitLeavesNone
    StopLeavesNone
    RespawnsBounded
PROPERTIES
    ZombiesReaped
    ReloadReachesAll
CHECK_DEADLOCK FALSE
