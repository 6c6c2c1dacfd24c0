SPECIFICATION Spec
CONSTANTS
    None = None
    Quote = {q1, q2}
    Doc = {d1, d2}
    Payer = {p1}
    MaxTotal = 2
    Floor = 1
    InitialStock = 1
    MaxByHand = 1
SYMMETRY Symmetry
INVARIANTS QuoteIsItsDocument SentNumberStands PaymentsCountOnce PromisesStand SoldIsGone
CHECK_DEADLOCK FALSE
