SPECIFICATION FairSpec
CONSTANTS
    i1 = i1
    i2 = i2
    r1 = r1
    r2 = r2
    a1 = a1
    c1 = c1
    c2 = c2
    None = None
    Items = {i1, i2}
    Requeues = {r1, r2}
    Asks = {a1}
    Responses = {c1, c2}
    ItemOf <- MCItemOf
    AskOf <- MCAskOf
    MaxCrashes = 2
    MaxFaults = 1
INVARIANTS
    RunsOnce
    NeverImplicit
    QueuedIsHeld
    FirstAnswerWins
PROPERTIES
    AsksEnd
CHECK_DEADLOCK FALSE
