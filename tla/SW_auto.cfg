SPECIFICATION Spec
CONSTANTS
    c1 = c1
    c2 = c2
    MaxEvents = 3
    Callers = {c1, c2}
    AutoConfirm = TRUE
    RemoteEmits = {"chat_start", "ask_plan", "ask_human", "completed", "error"}
    MaxErrors = 1
    MaxCalls = 2
    MaxDrops = 1
    MaxReplay = 3
    MaxCrashes = 1
SYMMETRY CallerSymmetry
INVARIANTS
    DeliveryRecorded
    AtMostOneReply
    PendingConsistent
PROPERTIES
    NoResendInDoubt
    FollowUpKeepsItsTurn
CHECK_DEADLOCK FALSE
