SPECIFICATION Spec
CONSTANTS
    r1 = r1
    r2 = r2
    Recorders = {}
    MaxTurns = 1
    MaxCalls = 2
    MaxInputs = 0
    MaxAttempts = 2
    MaxCrashes = 1
    MaxFaults = 1
INVARIANTS
    ReplayIntegrity
    ContextMatchesLog
PROPERTIES
    TurnEnds
CHECK_DEADLOCK FALSE
