CONSTANTS
    p = p
    q = q
    N = 3
    Blank = Blank
    MaxHistory = 3
    Events <- SmallEvents
SPECIFICATION Spec
INVARIANT KeepsNewest
