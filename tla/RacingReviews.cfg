SPECIFICATION FairSpec
CONSTANTS
    alert1 = alert1
    s1 = s1
    s2 = s2
    s3 = s3
    ann = ann
    bob = bob
    None = None
    System = System
    Alerts = {alert1}
    Sessions = {s1, s2}
    Users = {ann, bob}
    MaxFaults = 0
PROPERTY TerminalFinal
