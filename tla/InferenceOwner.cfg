CONSTANTS
    r1 = r1
    r2 = r2
    known = known
    fresh = fresh
    Request = {r1, r2}
    EarlyCommit = {r1}
    OwnCommit = {}
    Faulty = {}
    OwnerId = {known, fresh}
    Users = {known}
SPECIFICATION Safe
INVARIANTS
    SubmissionIsAccepted
CHECK_DEADLOCK FALSE
