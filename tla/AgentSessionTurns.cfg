SPECIFICATION Spec
CONSTANTS
    r1 = r1
    r2 = r2
    Recorders = {r1}
    MaxTurns = 1
    MaxCalls = 2
    MaxInputs = 1
    MaxAttempts = 1
    MaxCrashes = 0
    MaxFaults = 1
INVARIANTS
    AtMostOneToolAfterAbort
    QueuedInputConserved
PROPERTIES
    TurnEndsTerminal
CHECK_DEADLOCK FALSE
