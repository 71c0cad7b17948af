SPECIFICATION Spec
CONSTANTS
    Writers = {w1, w2}
    Keys = {k1, k2}
    MaxWrites = 2
    MaxFailures = 1
    MaxCompactions = 1
    MaxCrashes = 0
    CompactWhileRecovering = FALSE
CHECK_DEADLOCK FALSE
INVARIANT
    DiskAgreesWithMemory
