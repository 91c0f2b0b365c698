CONSTANTS
    a = a
    b = b
    c = c
    d = d
    Server = {a, b, c, d}
    Node0 = a
    NoServer = NoServer
    Foundings <- MCFoundings
    Campaigners = {a, b}
    MaxLog = 2
    MaxEvents = 2
SYMMETRY MCSymmetry
SPECIFICATION Spec
INVARIANTS
    ChangesAreSafe
CHECK_DEADLOCK FALSE
