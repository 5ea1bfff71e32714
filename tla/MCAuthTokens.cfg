CONSTANTS
    u1 = u1
    user = user
    admin = admin
    Gone = Gone
    NoAnswer = NoAnswer
    User = {u1}
    Role = {user, admin}
    AccessLife = 1
    RefreshLife = 5
    MaxSkew = 1
    MaxTime = 6
    MaxPairs = 2
SPECIFICATION Spec
INVARIANTS
    TypeOK
    VerdictIsTimely
PROPERTIES
    LapsedStaysOut
CHECK_DEADLOCK FALSE
