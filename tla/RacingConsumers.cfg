SPECIFICATION Spec
CONSTANTS
    c1 = c1
    c2 = c2
    p1 = p1
    p2 = p2
    a = a
    b = b
    None = None
    Consumers = {c1, c2}
    Partitions = {p1, p2}
    ExternalIds = {a, b}
    Log <- ResentLog
    Alerting = {a}
    MaxRetries = 3
    Budget <- Quiet
INVARIANT FaultlessOnce
CHECK_DEADLOCK FALSE
