SPECIFICATION ClientFairSpec
CONSTANTS
    p1 = p1
    p2 = p2
    s1 = s1
    NoHash = NoHash
    Prompts = {p1}
    Steers = {s1}
    MaxCloses = 2
    MaxFailures = 1
    MayClose = TRUE
INVARIANTS
    TakenOnce
PROPERTIES
    AnswersHold
    SettledOrStranded
CHECK_DEADLOCK FALSE
