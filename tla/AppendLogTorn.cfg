SPECIFICATION SafetySpec
CONSTANTS
    MaxRecords = 2
    MaxRewrites = 0
    MaxFlushes = 0
    MaxGenerations = 1
    MaxHandles = 0
    MaxFailures = 0
    MaxCrashes = 1
CHECK_DEADLOCK FALSE
INVARIANTS
    CrashesAreTolerated
