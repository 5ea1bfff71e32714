CONSTANTS
    r1 = r1
    r2 = r2
    Request <- MCRequest
    EarlyCommit <- MCEarlyCommit
    OwnCommit <- MCOwnCommit
    Faulty <- MCFaulty
SPECIFICATION SessionSpec
INVARIANTS
    SessionTypeOK
    ReplyIsTruthful
    EndsResolved
PROPERTIES
    OutcomeSpec
    EveryRequestEnds
    LocksAreReleased
CHECK_DEADLOCK FALSE
