SPECIFICATION Spec
CONSTANTS
    r1 = r1
    r2 = r2
    Recorders = {r1}
    MaxTurns = 1
    MaxCalls = 1
    MaxInputs = 0
    MaxAttempts = 1
    MaxCrashes = 0
    MaxFaults = 0
INVARIANTS
    ReplayIntegrity
CHECK_DEADLOCK FALSE
