CONSTANTS
    t1 = t1
    t2 = t2
    t3 = t3
    t4 = t4
    Task = {t1, t2, t3, t4}
    PageSize = 2
    MaxTime = 4
SYMMETRY Symmetry
SPECIFICATION Spec
INVARIANTS
    TypeOK
    WalkFindsAll
    PageMeetsTotal
CHECK_DEADLOCK FALSE
