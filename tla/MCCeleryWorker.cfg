CONSTANTS
    infer = infer
    check = check
    inference = inference
    default = default
    w1 = w1
    w2 = w2
    Idle = Idle
    Task = {infer, check}
    RetryTask = {infer}
    Queue = {inference, default}
    Route <- MCRoute
    Worker = {w1, w2}
    MaxRetries = 3
    MaxLosses = 1
    Poison = {check}
SPECIFICATION Spec
INVARIANTS
    TypeOK
    NoTaskLost
    FailureIsEarned
    CopiesAreCounted
PROPERTIES
    ResultStays
    EveryTaskEnds
CHECK_DEADLOCK FALSE
