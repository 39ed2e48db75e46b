SPECIFICATION FairSpec
CONSTANTS
    e1 = e1
    e2 = e2
    e3 = e3
    x = x
    y = y
    None = None
    Calls = {e1, e2, e3}
    ExternalIds = {x, y}
    Scores = {39, 40, 100}
    Thresholds = {40, 90}
    DefaultThreshold = 90
    MaxCalls = 3
    MaxFaults = 1
    PoolSize = 2
INVARIANT TypeOK
INVARIANT ReferencesUnique
INVARIANT EscalationCurrent
INVARIANT AlertsOfStored
PROPERTY ImplementsRecord
PROPERTY PoolOnlyBusy
PROPERTY EveryCallEnds
