CONSTANTS
    A = A
    B = B
    C = C
    Procs = {p1, p2}
    Types = {A, B, C}
    None = None
    Body <- CyclicBody
    Panics = {}
SPECIFICATION FairSpec
PROPERTIES EveryAccessReturns
CHECK_DEADLOCK FALSE
