CONSTANTS
    u1 = u1
    a1 = a1
    a2 = a2
    mail = mail
    plain = plain
    padded = padded
    None = None
    Request <- MCRequest
    EarlyCommit <- MCRequest
    OwnCommit = {a1, a2}
    Faulty = {u1, a1}
    CreateUser = {u1}
    Register = {a1, a2}
    Email <- MCEmail
    Password <- MCPassword
    Active <- MCActive
    Text = {plain, padded}
    Strip <- MCStrip
SPECIFICATION Spec
INVARIANTS
    TypeOK
    OneAccountPerEmail
    LoginIsRegistered
PROPERTIES
    BookSpec
    FaultFreeIsAnswered
CHECK_DEADLOCK FALSE
