CONSTANTS
    r1 = r1
    r2 = r2
    known = known
    fresh = fresh
    Request = {r1, r2}
    EarlyCommit = {r1}
    OwnCommit = {}
    Faulty = {r1}
    OwnerId = {known, fresh}
    Users = {known}
SPECIFICATION Spec
INVARIANTS
    TypeOK
    JobWasLogged
    StoresAgree
    AcceptedIsFound
    
CHECK_DEADLOCK FALSE
