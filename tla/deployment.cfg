SPECIFICATION Spec
CONSTANTS
    Process = {panel, other}
    panel = panel
    other = other
    Delivery = {d1, d2}
    Caller = {c1, c2}
    HostOf <- MCHostOf
    Setups <- MCSetups
    BatchSize = 2
    Concurrency = 1
    MaxFailures = 1
    MaxRetries = 1
CHECK_DEADLOCK FALSE
INVARIANTS
    NoOverlap
    OwnPass
    StoppedIsQuiet
PROPERTIES
    DueIsAttempted
