SPECIFICATION FairServerSpec
CONSTANTS
    Workers = {w1, w2, w3}
INVARIANT
    StopIsPending
PROPERTY
    StopReturns
CHECK_DEADLOCK FALSE
