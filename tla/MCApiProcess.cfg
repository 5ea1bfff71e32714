CONSTANTS
    r1 = r1
    r2 = r2
    Ready = Ready
    Request = {r1, r2}
    Capacity = 1
    Flaky = {"postgres", "redis"}
SPECIFICATION Spec
INVARIANTS
    TypeOK
    ClientsOutliveRequests
    VerdictIsHonest
PROPERTIES
    NothingHangs
CHECK_DEADLOCK FALSE
