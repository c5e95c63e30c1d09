SPECIFICATION Spec
CONSTANTS
    c1 = c1
    MaxEvents = 5
    Callers = {c1}
    AutoConfirm = FALSE
    RemoteEmits = {"chat_start", "content_start", "ask_report_render", "completed"}
    MaxErrors = 1
    MaxCalls = 2
    MaxDrops = 3
    MaxReplay = 0
    MaxCrashes = 0
INVARIANTS
    ReportSentDrained
CHECK_DEADLOCK FALSE
