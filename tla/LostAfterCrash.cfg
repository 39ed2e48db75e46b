SPECIFICATION Spec
CONSTANTS
    c1 = c1
    c2 = c2
    p1 = p1
    p2 = p2
    a = a
    b = b
    None = None
    Consumers = {c1}
    Partitions = {p1}
    ExternalIds = {a, b}
    Log <- OneLog
    Alerting = {a}
    MaxRetries = 3
    Budget <- OneCrash
INVARIANT NothingLost
CHECK_DEADLOCK FALSE
