SPECIFICATION Spec
CONSTANTS
    w1 = w1
    w2 = w2
    none = none
    Worker = {w1, w2}
    Jobs = {"db", "query", "watch"}
    Emits = {"chat_finish", "ask_plan", "task_failed", "SSE_FAILURE"}
    Unnumbered = {"task_failed"}
    MaxRetries = 1
    MaxEvents = 3
    MaxDrops = 1
    MaxFollowUps = 1
    MaxKills = 1
SYMMETRY RunSymmetry
INVARIANTS
    TypeOK
    ExactlyOnce
    OneRunUnlessRaced
    ReportStands
    AskStopsRun
CHECK_DEADLOCK FALSE
CONSTRAINT NotRaced
