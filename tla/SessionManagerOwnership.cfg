SPECIFICATION Spec
CONSTANTS
    s1 = s1
    q1 = q1
    q2 = q2
    d1 = d1
    d2 = d2
    x1 = x1
    r1 = r1
    None = None
    Sends = {s1}
    Items = {q1}
    Deliveries = {d1}
    Shells = {x1}
    Rebuilds = {r1}
    Blobs = {q1}
    MaxInputs = 1
    MaxInterrupts = 1
    MaxFaults = 0
    MayDispose = TRUE
    MayStop = FALSE
INVARIANTS
    OneOwner
    ReservationHolds
CHECK_DEADLOCK FALSE
