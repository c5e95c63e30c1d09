SPECIFICATION Spec
CONSTANTS
    c1 = c1
    c2 = c2
    o1 = o1
    o2 = o2
    o3 = o3
    o4 = o4
    boot = boot
    hk = hk
    none = none
    Caller = {c1, c2}
    Object = {o1, o2, o3, o4}
    Kinds = {"create", "watch", "send", "stop"}
    MaxWatchers = 2
    MaxAccepted = 1
    MaxOps = 2
SYMMETRY CallSymmetry
INVARIANTS
    TypeOK
    LockExclusive
    OneWatcher
    RootOutlivesWork
PROPERTIES
    HousekeepingRespectsSends
    OnlyEndedRemoved
CHECK_DEADLOCK FALSE
