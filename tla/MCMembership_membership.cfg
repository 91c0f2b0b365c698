CONSTANTS
    a = a
    b = b
    c = c
    d = d
    Server = {a, b, c, d}
    Node0 = a
    NoServer = NoServer
    Foundings <- MCFoundings
    Campaigners = {a, b}
    MaxLog = 2
    MaxEvents = 2
CONSTRAINT MCFollowed
SYMMETRY MCSymmetry
SPECIFICATION Spec
INVARIANTS
    
    ChangesAreSafeUnlessEarly
    CountedIsHeld
PROPERTIES
    OutsidersOnlyFinish
CHECK_DEADLOCK FALSE
