SPECIFICATION Spec
CONSTANTS
    m1 = m1
    m2 = m2
    d1 = d1
    None = None
    Procs = {m1, m2, d1}
    Daemons = {d1}
    MaxDeaths = 2
    MaxErrors = 1
INVARIANTS
    Exclusion
    ManifestMeansComplete
    WorkSurvives
CHECK_DEADLOCK FALSE
