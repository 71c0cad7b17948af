SPECIFICATION SafetySpec
CONSTANTS
    prompt = prompt
    goal = goal
    steer = steer
    nudge = nudge
    reminder = reminder
    w1 = w1
    NoRequest = NoRequest
    Requests = {prompt, steer}
    Mergeable <- MCMergeable
    TurnScoped <- MCTurnScoped
    Admission <- MCAdmission
    Seeded <- MCSeeded
    MaxSteps = 1
    MaxTurns = 2
    MaxLeases = 0
    Waiters = {}
CHECK_DEADLOCK FALSE
PROPERTIES
    SteersCarryOver
