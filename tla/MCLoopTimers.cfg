SPECIFICATION Spec
CONSTANTS
    Timers = {t1, t2}
    Idles = {i1, i2}
    Repeats = {1, 2, INFINITE}
    INFINITE = INFINITE
    None = None
SYMMETRY Symmetric
INVARIANTS
    CountersExact
    EntriesMatch
    WalkIsSafe
PROPERTY
    DeletedNotCalled
