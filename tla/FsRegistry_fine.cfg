CONSTANTS
    k1 = k1
    k2 = k2
    f1 = f1
    Threads = {t1, t2}
    Keys = {k1, k2}
    Paths = {f1}
    PathOf <- AliasedKeys
    Contents = {x, y}
    Absent = Absent
    Garbled = Garbled
    NotFound = NotFound
    Failed = Failed
    NoAnswer = NoAnswer
    FineClock = TRUE
    MaxClock = 2
SPECIFICATION Spec
INVARIANTS TypeOK CacheCoherent AnswerWasRight IInv
PROPERTIES ImplementsSource
SYMMETRY Symmetry
