SPECIFICATION FairSpec
CONSTANTS
    r1 = r1
    r2 = r2
    s1 = s1
    s2 = s2
    k1 = k1
    k2 = k2
    None = None
    Codes = {r1}
    Defaults <- OneDefault
    Sessions = {s1, s2}
    Seeders = {k1}
    Times = {1, 2}
    NewRules <- Plain
    Patches <- Few
    MaxFaults = 2
INVARIANT TypeOK
INVARIANT SeededComplete
PROPERTY ImplementsCatalog
PROPERTY EnabledKnowingly
PROPERTY WindowsBrokenByHalves
PROPERTY EveryoneGetsThrough
