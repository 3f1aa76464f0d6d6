CONSTANTS
    k1 = k1
    f1 = f1
    Threads = {t1, t2}
    Keys = {k1}
    Paths = {f1}
    PathOf <- OneKey
    Contents = {x, y}
    Absent = Absent
    Garbled = Garbled
    NotFound = NotFound
    Failed = Failed
    NoAnswer = NoAnswer
    FineClock = FALSE
    MaxClock = 0
SPECIFICATION SpecH
INVARIANTS ClearForcesReread
SYMMETRY Symmetry
