CONSTANTS
    Tools = {t1, t2, t3}
    States = {s1, s2}
    MaxLen = 4
SYMMETRY Symmetry
SPECIFICATION Spec
INVARIANTS TypeOK PlanAgreesWithCheck FirstSeen
CHECK_DEADLOCK FALSE
