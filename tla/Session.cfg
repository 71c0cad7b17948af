SPECIFICATION Spec
CONSTANTS
    NoTurn = NoTurn
    None = None
    MaxPrompts = 3
    MaxTurns = 3
    MaxCompactions = 1
    MaxCrashes = 1
    MaxSubTurns = 1
    Calls = {c1}
CHECK_DEADLOCK FALSE
INVARIANTS
    
    NoPromptWaitsForNothing
    PromptsInOrder
    TurnIdsIncrease
    NoRequestIsForgotten
    EndedTurnHasNoPending
PROPERTIES
    
    PromptsSettle
    AbortedTurnsEnd
