SPECIFICATION Spec
CONSTANTS
    b1 = b1
    b2 = b2
    r1 = r1
    r2 = r2
    r3 = r3
    p1 = p1
    p2 = p2
    Binding = {b1, b2}
    Request = {r1, r2, r3}
    Principal = {p1, p2}
    none = none
    SSE = FALSE
    MaxSessions = 2
    MaxSessionsPerPrincipal = 1
    MaxInflightRequests = 2
    MaxInflightPerSession = 1
SYMMETRY SlotSymmetry
INVARIANTS
    CapacityExact
    NoAbandonedSession
