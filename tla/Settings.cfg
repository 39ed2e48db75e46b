SPECIFICATION FairSpec
CONSTANTS
    s1 = s1
    s2 = s2
    None = None
    LastKey = 2
    Values <- TwoEach
    Defaults <- Ninety
    Sessions = {s1, s2}
    MaxFaults = 1
INVARIANT TypeOK
INVARIANT AnswerExplained
PROPERTY ImplementsSettings
PROPERTY EveryRequestEnds
