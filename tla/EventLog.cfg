SPECIFICATION Spec
CONSTANTS
    e1 = e1
    e2 = e2
    e3 = e3
    w1 = w1
    w2 = w2
    NoEvent = NoEvent
    Events = {e1, e2, e3}
    Writers = {w1}
    MaxReads = 1
    MaxFaults = 2
    MaxBadRollbacks = 1
    MaxCrashes = 2
INVARIANTS
    StoredSurvives
PROPERTIES
    ImplementsDurableLog
    AppendsSettle
CHECK_DEADLOCK FALSE
