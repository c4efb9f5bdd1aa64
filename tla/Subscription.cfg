SPECIFICATION FairSpec
CONSTANTS
    FirstEvents = 2
    MaxEvents = 4
    PageSize = 1
    TailLimit = 1
    CursorLimit = 3
    MaxFaults = 2
    None = None
    MayClose = TRUE
INVARIANTS
    NoHoles
    QuietIsCurrent
    ResumeIsSafe
    LossReported
PROPERTIES
    CatchesUp
CHECK_DEADLOCK FALSE
