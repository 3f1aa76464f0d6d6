CONSTANTS
    Threads = {t1, t2, t3}
    States = {s1, s2}
    None = None
    Err = Err
    Panic = Panic
    NoThread = NoThread
SPECIFICATION Spec
INVARIANTS TypeOK GuardsExclusive ErrorsMeanPoison
PROPERTIES PoisonIsFinal ImplementsRegister
SYMMETRY Symmetry
