SPECIFICATION Spec
CONSTANTS
    s1 = s1
    q1 = q1
    q2 = q2
    d1 = d1
    d2 = d2
    x1 = x1
    r1 = r1
    None = None
    Sends = {s1}
    Items = {q1, q2}
    Deliveries = {d1}
    Shells = {}
    Rebuilds = {}
    Blobs = {q1}
    MaxInputs = 0
    MaxInterrupts = 0
    MaxFaults = 1
    MayDispose = FALSE
    MayStop = TRUE
INVARIANTS
    DisposedIsQuiet
PROPERTIES
    QueueDrains
    DeliveryReleased
    DisposeEnds
CHECK_DEADLOCK FALSE
