SPECIFICATION SafetySpec
CONSTANTS
    prompt = prompt
    goal = goal
    steer = steer
    nudge = nudge
    reminder = reminder
    w1 = w1
    NoRequest = NoRequest
    Requests = {prompt, goal, steer}
    Mergeable <- MCMergeable
    TurnScoped <- MCTurnScoped
    Admission <- MCAdmission
    Seeded <- MCSeeded
    MaxSteps = 2
    MaxTurns = 3
    MaxLeases = 0
    Waiters = {}
CHECK_DEADLOCK FALSE
INVARIANTS
    TypeOK
    NoOrphanedStep
    MaterializedOnce
PROPERTIES
    SettledForGood
    NoStepAfterCancel
    ImplementsTurnQueue
