SPECIFICATION BlobSpec
CONSTANTS
    s1 = s1
    u1 = u1
    u2 = u2
    Absent = Absent
    Sessions = {s1}
    Uploads = {u1, u2}
    SessionOf <- MCSessionOf
    Content <- MCContent
    MaxActive = 1
    MaxWaiting <- MCMaxWaiting
    MaxFaults = 2
    MaxCrashes = 1
SYMMETRY MCSymmetry
INVARIANTS
    ReferencedIsStored
    UploadLimit
    NoLitter
CHECK_DEADLOCK FALSE
