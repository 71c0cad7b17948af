SPECIFICATION FairSpec
CONSTANTS
    Writers = {w1, w2}
    Keys = {k1, k2}
    MaxWrites = 3
    MaxFailures = 2
    MaxCompactions = 1
    MaxCrashes = 1
    CompactWhileRecovering = FALSE
CHECK_DEADLOCK FALSE
INVARIANTS
    TypeOK
    
    StoreForgetsRejected
    RejectedFramesAreCutOff
    MemoryFollowsDisk
    PointersResolve
PROPERTIES
    CallsReturn
    
