SPECIFICATION Spec
CONSTANTS
    src = src
    SRC = SRC
    out = out
    EmptyName = EmptyName
    Names <- MCNames
    Fold <- MCFold
    MaxDepth = 2
    N = 6
    Conflicts <- MCConflicts
CHECK_DEADLOCK FALSE
INVARIANTS
    ToolsNeverOverlap
    NoNeedlessWait
    ConflictIsSharedWrite
PROPERTIES
    ImplementsCallOrder
    AbortEndsBatch
