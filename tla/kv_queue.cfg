SPECIFICATION KvSpec
CONSTANTS
    d1 = d1
    e1 = e1
    Delivery = {d1}
    Endpoint = {e1}
    EndpointOf <- OneEndpoint
    Dispatcher = {p1, p2}
    Caller = {c1}
    ScheduleLength = 2
    Delays = {1}
    ConfiguredLease = 1
    AttemptTimeout = 1
    Headroom = 1
    BatchSize = 1
    Concurrency = 1
    Prompt = TRUE
    CrashPoints <- BeforeRemoval
    HasCompareAndSwap = TRUE
    MaxTime = 3
    MaxRequeues = 1
SYMMETRY Symmetry
CHECK_DEADLOCK FALSE
INVARIANTS
    KvDueCoverage
    KvOneOwner
PROPERTIES
    ImplementsLifecycle
