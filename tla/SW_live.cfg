SPECIFICATION FairSpec
CONSTANTS
    c1 = c1
    MaxEvents = 4
    Callers = {c1}
    AutoConfirm = TRUE
    RemoteEmits = {"chat_start", "content_start", "content_finish", "fallback", "ask_plan", "ask_report_render", "completed"}
    MaxErrors = 2
    MaxCalls = 1
    MaxDrops = 1
    MaxReplay = 4
    MaxCrashes = 0
INVARIANTS
    ReportAfterAnalysis
    CheckpointCovers
PROPERTIES
    AskReachesUser
    TurnEndReachesSession
CHECK_DEADLOCK FALSE
