SPECIFICATION SafetySpec
CONSTANTS
    MaxRecords = 1
    MaxRewrites = 1
    MaxFlushes = 1
    MaxGenerations = 1
    MaxHandles = 0
    MaxFailures = 0
    MaxCrashes = 0
CHECK_DEADLOCK FALSE
INVARIANTS
    FlushWaitsForBuffer
