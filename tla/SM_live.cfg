SPECIFICATION FairSpec
CONSTANTS
    c1 = c1
    o1 = o1
    o2 = o2
    o3 = o3
    boot = boot
    hk = hk
    none = none
    Caller = {c1}
    Object = {o1, o2, o3}
    Kinds = {"send", "wait"}
    MaxWatchers = 3
    MaxAccepted = 1
    MaxOps = 2
PROPERTIES
    ResultWakes
    CloseReturns
CHECK_DEADLOCK FALSE
