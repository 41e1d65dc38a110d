SPECIFICATION Spec
CONSTANTS
    Worker = {w1, w2}
    Caller = {c1}
    HasCompareAndSwap = TRUE
    MaxTries = 2
    FailingFor = 1
    Grace = 1
    MaxTime = 2
    MaxCalls = 2
SYMMETRY Symmetry
CHECK_DEADLOCK FALSE
INVARIANTS
    EndpointTypeOK
    GraceKept
PROPERTIES
    ControlChangesSurvive
    GivesUpOnlyUnderContention
    EnableRestartsStreak
