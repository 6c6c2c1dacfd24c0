SPECIFICATION Spec
CONSTANTS
    None = None
    Dispatch = {d1, d2}
    Note = {n1, n2}
    Invoiced = 2
    InitialStock = 2
    MaxMissing = 1
    MaxBegun = 2
SYMMETRY Symmetry
INVARIANTS TypeOK VoidStaysClean GoodsLeaveCovered CreditWithinSale ReservedIsAvailable VoidRestoresStock
PROPERTY ImplementsAllotment
CHECK_DEADLOCK FALSE
