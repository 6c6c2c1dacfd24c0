SPECIFICATION Spec
CONSTANTS
    None = None
    Dispatch = {d1}
    Note = {n1, n2}
    Invoiced = 2
    InitialStock = 2
    MaxMissing = 1
    MaxBegun = 2
SYMMETRY Symmetry

PROPERTY AcceptedNoteStands
CHECK_DEADLOCK FALSE
