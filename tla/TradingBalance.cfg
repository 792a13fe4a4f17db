SPECIFICATION Spec
CONSTANTS
    Workers = {w1}
    Codes <- MCCodes
    Quote <- MCQuote
    Permitted <- MCPermitted
    Balance = 43000000
    InitQty <- MCInitQty
    Null = Null
    Requests <- MCRequests
    FloatErr <- MCFloatErr
    MaxQty = 1999
    MaxPrice = 80000
    IntMax = 2999
    MaxOrders = 2
    MaxFills = 3
INVARIANT
    SpentWithinBalance
