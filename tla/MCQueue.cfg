SPECIFICATION Spec
CONSTANTS
    Values = {a, b}
    Zero = zero
    InitSizes = {0, 2, 3}
    QUEUE_INIT_SIZE = 2
    MaxSize = 5
INVARIANTS
    InBounds
PROPERTY
    Refines
