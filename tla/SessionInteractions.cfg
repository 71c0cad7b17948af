SPECIFICATION SafetySpec
CONSTANTS
    NoTurn = NoTurn
    None = None
    MaxPrompts = 1
    MaxTurns = 1
    MaxCompactions = 0
    MaxCrashes = 0
    MaxSubTurns = 1
    Calls = {c1}
CHECK_DEADLOCK FALSE
INVARIANTS
    CancelsOnlyEndedTurns
