SPECIFICATION Spec
CONSTANTS
    r1 = r1
    e1 = e1
    e2 = e2
    w1 = w1
    low = low
    high = high
    None = None
    Codes = {r1}
    Conditions = {"any", "customer"}
    Fires <- HighFires
    NewRules <- ThreeRules
    Values = {low, high}
    NewEntries = {high, "garbled", "odd"}
    Default = low
    Calls = {e1, e2}
    Consumers = {w1}
    MaxTime = 2
    MaxChanges = 2
    MaxFaults = 1
SYMMETRY BothCalls
INVARIANT TypeOK
INVARIANT JudgedByOneCatalog
INVARIANT FeaturesJustified
INVARIANT FailuresExcused
