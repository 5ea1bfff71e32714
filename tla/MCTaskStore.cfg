CONSTANTS
    t1 = t1
    c1 = c1
    c2 = c2
    g1 = g1
    known = known
    fresh = fresh
    None = None
    Request <- MCRequest
    Target <- MCTarget
    EarlyCommit <- MCRequest
    OwnCommit = {}
    Faulty = {t1, c1}
    Create = {t1}
    Cancel = {c1, c2}
    Get = {g1}
    OwnerId = {known, fresh}
    Users = {known}
SPECIFICATION Spec
INVARIANTS
    TypeOK
    NoContentMeansCancelled
PROPERTIES
    CreatedIsFound
    StampMovesByStaleReader
    BoardSpec
    FaultFreeIsAnswered
CHECK_DEADLOCK FALSE
