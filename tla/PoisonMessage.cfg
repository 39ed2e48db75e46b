SPECIFICATION FairSpec
CONSTANTS
    c1 = c1
    c2 = c2
    p1 = p1
    p2 = p2
    a = a
    b = b
    None = None
    Consumers = {c1}
    Partitions = {p1}
    ExternalIds = {a, b}
    Log <- PoisonLog
    Alerting = {a}
    MaxRetries = 3
    Budget <- Quiet
PROPERTY Drained
CHECK_DEADLOCK FALSE
