SPECIFICATION SafetySpec
CONSTANTS
    MaxRecords = 2
    MaxRewrites = 2
    MaxFlushes = 1
    MaxGenerations = 2
    MaxHandles = 1
    MaxFailures = 1
    MaxCrashes = 1
CHECK_DEADLOCK FALSE
INVARIANTS
    OneWriter
    FileInOrder
    
    AcknowledgedIsDurable
