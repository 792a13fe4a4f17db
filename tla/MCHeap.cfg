SPECIFICATION HeapSpec
CONSTANTS
    Nodes = {n1, n2, n3, n4, n5, n6, n7}
    Keys = {1, 2, 3}
    NULL = NULL
SYMMETRY Symmetric
INVARIANTS
    CompleteTree
    RootIsFirst
