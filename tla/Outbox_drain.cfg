SPECIFICATION Spec
CONSTANTS
    Messages = {1, 2, 3}
    Unreadable = {3}
    Workers = {w1, w2}
    Limit = 2
    MaxAttempts = 2
    None = None
INVARIANTS
    TypeOK
    SentOnce
    AttemptsUpToWorkers
PROPERTIES
    EndsUnlessBlocked
CHECK_DEADLOCK FALSE
