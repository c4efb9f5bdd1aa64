SPECIFICATION Spec
CONSTANTS
    k1 = k1
    h1 = h1
    h2 = h2
    c1 = c1
    c2 = c2
    c3 = c3
    c4 = c4
    Keys = {k1}
    Hashes = {h1, h2}
    Calls = {c1, c2, c3, c4}
    CallKey <- MCCallKey
    CallHash <- MCCallHash
    NoHash = NoHash
    MaxCrashes = 2
    MaxFaults = 2
INVARIANTS
    AtMostOnce
    SingleFlight
    StableOutcome
    JournalReadable
PROPERTIES
    ImplementsIdempotentCommands
    EveryCallSettles
CHECK_DEADLOCK FALSE
