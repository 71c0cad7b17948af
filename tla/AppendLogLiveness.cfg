SPECIFICATION Spec
CONSTANTS
    MaxRecords = 2
    MaxRewrites = 1
    MaxFlushes = 1
    MaxGenerations = 2
    MaxHandles = 1
    MaxFailures = 1
    MaxCrashes = 0
CHECK_DEADLOCK FALSE
PROPERTIES
    BufferDrains
    FlushesSettle
