SPECIFICATION Spec
CONSTANTS
    Grace = 2
    Tolerance = 2
    MaxSkew = 1
    CopyAge = 1
    MaxTime = 4
    MaxRotations = 2
    MaxAttempts = 1
    MaxSamples = 1
CHECK_DEADLOCK FALSE
INVARIANTS
    SeamlessRotation
    AcceptedIsGenuine
