SPECIFICATION Spec
CONSTANTS
    p1 = p1
    p2 = p2
    s1 = s1
    s2 = s2
    Proc = {p1, p2}
    Session = {s1, s2}
    none = none
    MaxRetries = 1
    MaxFaults = 2
    MaxPolls = 2
    Instance <- MCInstance
INVARIANTS
    TypeOK
    HandedOutReady
    UnitCacheKeyed
    FileIdNamesObject
    ForegroundHonest
    DoneMeansDone
CHECK_DEADLOCK FALSE
PROPERTIES
    CallsImplementRemoteCall
    CommandEnds
