SPECIFICATION FairSpec
CONSTANTS
    b1 = b1
    r1 = r1
    r2 = r2
    r3 = r3
    p1 = p1
    Binding = {b1}
    Request = {r1, r2, r3}
    Principal = {p1}
    none = none
    SSE = TRUE
    MaxSessions = 1
    MaxSessionsPerPrincipal = 1
    MaxInflightRequests = 2
    MaxInflightPerSession = 2
INVARIANTS
    SingleInitialization
PROPERTIES
    RevokedIsCollected
    ShutdownDrains
