SPECIFICATION FairSpec
CONSTANTS
    c1 = c1
    c2 = c2
    o1 = o1
    o2 = o2
    o3 = o3
    o4 = o4
    boot = boot
    hk = hk
    none = none
    Caller = {c1, c2}
    Object = {o1, o2, o3, o4}
    Kinds = {"stop", "wait", "watch"}
    MaxWatchers = 2
    MaxAccepted = 0
    MaxOps = 3
PROPERTIES
    ResultAlwaysWakes
CHECK_DEADLOCK FALSE
