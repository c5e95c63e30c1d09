SPECIFICATION Spec
CONSTANTS
    c1 = c1
    MaxEvents = 2
    Callers = {c1}
    AutoConfirm = TRUE
    RemoteEmits = {"chat_start", "ask_plan"}
    MaxErrors = 1
    MaxCalls = 0
    MaxDrops = 0
    MaxReplay = 2
    MaxCrashes = 1
INVARIANTS
    HiddenAskIsBeingAnswered
CHECK_DEADLOCK FALSE
