SPECIFICATION Spec
CONSTANTS
    Publisher = {c1, c2}
    Pruner = {r1}
    Key = {k1}
    NoKey = NoKey
    Payload = {x, y}
    NoPayload = NoPayload
    Endpoint = {e1, e2}
    KeepLast = 0
    MaxAge = 1
    Sequential = TRUE
    Prompt = TRUE
    CrashPoints <- BeforeWrites
    MaxMessages = 2
    MaxReplays = 1
    MaxTime = 2
SYMMETRY Symmetry
CHECK_DEADLOCK FALSE
INVARIANTS
    IdempotentOnce
    AcceptedIsDelivered
    RetentionReaches
PROPERTIES
    NothingNeededIsPruned
