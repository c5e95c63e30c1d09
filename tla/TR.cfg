SPECIFICATION FairSpec
CONSTANTS
    k1 = k1
    k2 = k2
    g1 = g1
    g2 = g2
    c1 = c1
    none = none
    Key = {k1, k2}
    Grant = {g1, g2}
    Caller = {c1}
    MaxTenants = 2
    InitLimit = 1
    MaxRestores = 1
    MaxJobs = 2
INVARIANTS
    AbandonedCounts
    GrantsMatch
    ClosedOnce
PROPERTIES
    CallReturns
    CloseReturns
