SPECIFICATION Spec
CONSTANTS
    prompt = prompt
    goal = goal
    steer = steer
    nudge = nudge
    reminder = reminder
    w1 = w1
    NoRequest = NoRequest
    Requests = {prompt, nudge, reminder}
    Mergeable <- MCMergeable
    TurnScoped <- MCTurnScoped
    Admission <- MCAdmission
    Seeded <- MCSeeded
    MaxSteps = 2
    MaxTurns = 2
    MaxLeases = 2
    Waiters = {w1}
CHECK_DEADLOCK FALSE
INVARIANTS
    NoOrphanedAssignment
    QuiescentLoopIsIdle
    IdleLoopHasNoWork
PROPERTIES
    
    
    WaitersAreReleased
