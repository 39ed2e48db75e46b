SPECIFICATION FairSpec
CONSTANTS
    http = http
    grpc = grpc
    a1 = a1
    a2 = a2
    a3 = a3
    None = None
    Operator = Operator
    First = {http}
    Dependents = {grpc}
    Alerts = {a1, a2, a3}
    Targets = {0, 5, 6}
    MaxPadded = 2
    MaxDowngrades = 2
    MaxFaults = 1
INVARIANT TypeOK
INVARIANT SchemaOfVersion
INVARIANT AlertsNumbered
INVARIANT ServesAtHead
PROPERTY UpgradeKeepsAlerts
PROPERTY EveryStartEnds
CHECK_DEADLOCK FALSE
