SPECIFICATION Spec
CONSTANTS
    t1 = t1
    t2 = t2
    d1 = d1
    d2 = d2
    d3 = d3
    None = None
    Transfer = {t1}
    Dispatch = {d1, d2}
    Quantity <- MCQuantity
    InitialStock = 2
    MaxAdjusted = 1
    Readers = 2
INVARIANT LeavesReserved
CHECK_DEADLOCK FALSE
