SPECIFICATION Spec
CONSTANTS
    j1 = j1  j2 = j2
    w1 = w1  w2 = w2
    a1 = a1  a2 = a2  a3 = a3
    None = None
    Job = {j1, j2}
    Worker = {w1, w2}
    Attempt = {a1, a2, a3}
SYMMETRY Symmetry
INVARIANTS OnePostUnanswered ChainStaysUsable
PROPERTY ReadBeforeRepeat
CHECK_DEADLOCK FALSE
