---------------------------- MODULE SkillClient ----------------------------
(***************************************************************************)
(* The client library of the skill (data_agent/client.py): how an          *)
(* operation becomes requests to the service.  The operation is wrapped by *)
(* retry_on_error, finds out the DMSUnit of its region and, if it needs    *)
(* one, the personal workspace, sends its request and looks at the answer. *)
(*                                                                         *)
(* An operation is a record of what the wrapper and the service make of    *)
(* it; its parameters and the fields of its answer are left out, apart     *)
(* from the session it is about and the region it is made for.  The        *)
(* requests of two processes interleave, and so do the threads in which    *)
(* the tasks of AsyncDataAgentClient run the methods of one client.        *)
(*                                                                         *)
(* A unit is named by the region it was found out for, so the region as a  *)
(* fallback is not told apart from an answer of GetActiveRouteUnit.        *)
(***************************************************************************)
EXTENDS Integers, FiniteSets

CONSTANTS
    Proc,           \* processes, or tasks that share one client
    Session,        \* names of sessions the service can hold
    none,
    MaxRetries,     \* max_retries (3)
    MaxFaults       \* bound: answers that are lost or errors

Region == {"home", "other"}     \* config.region, and another one

Auth == {"api_key", "credential_file", "default_credential_chain"}

ASSUME ClientAssumption ==
    /\ none \notin Session \cup Region
    /\ MaxRetries \in Nat /\ MaxFaults \in Nat

VARIABLES
    auth,           \* _auth_type
    override,       \* config.dms_unit is set
    unit,           \* _dms_unit and _dms_unit_region of the client
    unitCache,      \* _dms_unit_cache, by region
    wsCache,        \* _workspace_cache: the units with an entry
    call,           \* the last operation of each process
    status,         \* of the sessions, in the words of the service
    told,           \* history: what each process was told last, of which session
    prog,           \* the program each process runs with the client
    faults          \* faults so far

clientVars == <<auth, override, unit, unitCache, wsCache>>

-----------------------------------------------------------------------------
(* The operations.                                                         *)

\* retries: an ApiError may leave the function.  checked: success is confirmed
\* before it returns.  tag: what happens without the default credential chain.
Read(n) == [name |-> n, acts |-> FALSE, token |-> FALSE, retries |-> TRUE, checked |-> FALSE,
            unit |-> FALSE, workspace |-> FALSE, tag |-> "none"]
UnitRead(n) == [Read(n) EXCEPT !.unit = TRUE]
Write(n)    == [UnitRead(n) EXCEPT !.acts = TRUE, !.token = TRUE]

\* Its ApiErrors become SessionCreationErrors inside the wrapper.
CreateSession   == [Write("create_session") EXCEPT !.retries = FALSE, !.checked = TRUE]
DescribeSession == UnitRead("describe_session")
SendMessage     == [Write("send_message") EXCEPT !.token = FALSE]
CancelMessage   == [SendMessage EXCEPT !.name = "cancel_message"]
GetChatContent  == Read("get_chat_content")

GetFileUploadSignature == UnitRead("get_file_upload_signature")
FileUploadCallback     == Write("file_upload_callback")
ListFiles              == Read("list_files")
DeleteFile             == [Write("delete_file") EXCEPT !.unit = FALSE]
AddDataCenterTable     == Write("add_data_center_table")

ListFileDatabases == Read("list_file_databases")
ListDatabases     == [Read("list_databases") EXCEPT !.workspace = TRUE, !.tag = "nested"]
ListFileTables    == Read("list_file_tables")
ListTables        == [Read("list_tables") EXCEPT !.workspace = TRUE, !.tag = "refused"]
ListSessions      == [Read("list_sessions") EXCEPT !.workspace = TRUE]
ListWorkspaces    == UnitRead("list_workspaces")

ListCustomAgents    == UnitRead("list_custom_agents")
DescribeCustomAgent == UnitRead("describe_custom_agent")
CreateCustomAgent   == [Write("create_custom_agent") EXCEPT !.checked = TRUE]
ModifyCustomAgent   == Write("modify_custom_agent")
OperateCustomAgent  == Write("operate_custom_agent")

\* BUG: retry it like the others.
DeleteDataAgentRetried == [Read("delete_data_agent") EXCEPT !.acts = TRUE, !.checked = TRUE]

\* Not wrapped: it has no token that would make a second one harmless.
DeleteDataAgent == [Read("delete_data_agent") EXCEPT !.acts = TRUE, !.retries = FALSE, !.checked = TRUE]

\* cmd_ls calls _resolve_workspace_id itself, and sends nothing else.
ResolveWorkspace == [Read("resolve_workspace") EXCEPT !.workspace = TRUE, !.retries = FALSE]

\* The caller names the workspace.
InWorkspace(op) == [op EXCEPT !.workspace = FALSE]

Operation ==
    {ResolveWorkspace, InWorkspace(ResolveWorkspace), InWorkspace(ListSessions),
     InWorkspace(ListDatabases), InWorkspace(ListTables),
     CreateSession, DescribeSession, SendMessage, CancelMessage, GetChatContent,
     GetFileUploadSignature, FileUploadCallback, ListFiles, DeleteFile, AddDataCenterTable,
     ListFileDatabases, ListDatabases, ListFileTables, ListTables, ListSessions, ListWorkspaces,
     ListCustomAgents, DescribeCustomAgent, CreateCustomAgent, ModifyCustomAgent,
     OperateCustomAgent, DeleteDataAgent}

-----------------------------------------------------------------------------
(* The sessions of the service.                                            *)

\* "starting": its agent runs, but DescribeDataAgentSession does not say so yet;
\* "init": it is idle and its agent has been reclaimed.
ServiceStatus == {"absent", "creating", "starting", "running", "idle", "init", "wait_input",
                  "stopped", "failed"}

normalize_session_status(raw) ==
    CASE raw = "running"           -> "RUNNING"
      [] raw \in {"idle", "init"}  -> "IDLE"
      [] raw = "wait_input"        -> "WAIT_INPUT"
      [] raw = "stopped"           -> "STOPPED"
      [] raw = "failed"            -> "FAILED"
      [] OTHER                     -> "CREATING"

SessionStatus == {"CREATING", "RUNNING", "IDLE", "WAIT_INPUT", "STOPPED", "FAILED"}

is_running(st) == st \in {"RUNNING", "IDLE", "WAIT_INPUT"}

\* A session in which a message can be taken.
Usable(s) == status[s] \in {"creating", "starting", "running", "idle", "init", "wait_input"}

Become(s, from, to) ==
    /\ status[s] \in from
    /\ \E t \in to : status' = [status EXCEPT ![s] = t]

\* What happens to a session while nobody calls, and by other hands.
Evolve(s) ==
    /\ \/ Become(s, {"creating"}, {"starting", "failed"})
       \/ Become(s, {"starting"}, {"running"})
       \/ Become(s, {"running"}, {"idle", "wait_input", "failed", "stopped"})
       \/ Become(s, {"idle"}, {"init"})
       \/ Become(s, {"idle", "init", "wait_input"}, {"stopped"})
    /\ UNCHANGED <<clientVars, call, told, faults>>

-----------------------------------------------------------------------------
(* The beginning of an operation.                                          *)

Stage == {"none", "begun", "unit", "routing", "storing", "workspace", "sent", "answered", "returned", "raised"}

CallType ==
    [op      : Operation \cup {Read("none")},
     arg     : Session \cup {none},         \* the session it is about
     region  : Region,
     unit    : Region \cup {"config", none},
     stage   : Stage,
     init    : BOOLEAN,                     \* the request is InitDataAgentPersonalWorkspace
     attempt : 0..MaxRetries,
     inner   : 0..MaxRetries,               \* attempts of the wrapped list_file_databases
     answer  : {"none", "ok", "body", "busy", "rejected", "lost"},
     got     : ServiceStatus \cup Session \cup {none},
     late    : BOOLEAN,                     \* the lost request may still arrive
     acts    : Nat,                         \* history: how often it has acted
     taken   : SUBSET Nat]                  \* the service: tokens it has acted on

NoCall == [op |-> Read("none"), arg |-> none, region |-> "home", unit |-> none, stage |-> "none",
           init |-> FALSE, attempt |-> 0, inner |-> 0, answer |-> "none", got |-> none,
           late |-> FALSE, acts |-> 0, taken |-> {}]

\* Whether the operation goes by the tags of the default credential chain.
ByTag(op) == op.tag # "none" /\ auth = "default_credential_chain"

\* Where the function begins, each time it is tried.
FirstStage(op) ==
    CASE op.tag = "refused" /\ ~ByTag(op)                       -> "raised"
      [] op.unit \/ (op.workspace /\ (op.tag = "none" \/ ByTag(op))) -> "unit"
      [] op.name = "resolve_workspace" /\ ~op.workspace         -> "returned"
      [] OTHER                                                  -> "sent"

NewCall(op, arg, region) ==
    [NoCall EXCEPT !.op = op, !.arg = arg, !.region = region, !.stage = "begun"]

Begin(p) ==
    /\ call[p].stage = "begun"
    /\ call' = [call EXCEPT ![p].stage = FirstStage(call[p].op)]
    /\ UNCHANGED <<clientVars, status, told, faults>>

Active(p)   == call[p].stage \notin {"none", "returned", "raised"}
Returned(p) == call[p].stage = "returned"
Raised(p)   == call[p].stage = "raised"
Over(p)     == Returned(p) \/ Raised(p)

-----------------------------------------------------------------------------
(* _resolve_dms_unit and _resolve_workspace_id.                            *)

\* The unit is known: to the request that needs it, or to the workspace's key.
WithUnit(p, u) ==
    call' = [call EXCEPT ![p].unit = u,
                         ![p].stage = IF call[p].op.workspace THEN "workspace" ELSE "sent"]

UnitConfigured(p) ==
    /\ call[p].stage = "unit" /\ override
    /\ unit' = [value |-> "config", region |-> call[p].region]
    /\ WithUnit(p, "config")
    /\ UNCHANGED <<auth, override, unitCache, wsCache, status, told, faults>>

UnitOfClient(p) == unit.value # none /\ unit.region = call[p].region

UnitKnown(p) ==
    /\ call[p].stage = "unit" /\ ~override /\ UnitOfClient(p)
    /\ WithUnit(p, unit.value)
    /\ UNCHANGED <<clientVars, status, told, faults>>

UnitCached(p) ==
    LET u == unitCache[call[p].region]
    IN  /\ call[p].stage = "unit" /\ ~override /\ ~UnitOfClient(p) /\ u # none
        /\ unit' = [unit EXCEPT !.value = u]
        /\ WithUnit(p, u)
        /\ UNCHANGED <<auth, override, unitCache, wsCache, status, told, faults>>

\* GetActiveRouteUnit: never asked with an API key; a failure is not told apart.
Route(p) ==
    /\ call[p].stage = "unit" /\ ~override /\ ~UnitOfClient(p)
    /\ unitCache[call[p].region] = none
    /\ call' = [call EXCEPT ![p].stage = "routing"]
    /\ UNCHANGED <<clientVars, status, told, faults>>

\* The result is stored attribute by attribute: other threads see the steps.
SetUnit(p) ==
    /\ call[p].stage = "routing"
    /\ unit' = [unit EXCEPT !.value = call[p].region]
    /\ call' = [call EXCEPT ![p].stage = "storing"]
    /\ UNCHANGED <<auth, override, unitCache, wsCache, status, told, faults>>

\* BUG: store the attribute of the client, which another thread may have changed.
StoreUnitShared(p) ==
    LET r == call[p].region
    IN  /\ call[p].stage = "storing"
        /\ unit' = [unit EXCEPT !.region = r]
        /\ unitCache' = [unitCache EXCEPT ![r] = unit.value]
        /\ WithUnit(p, r)
        /\ UNCHANGED <<auth, override, wsCache, status, told, faults>>

StoreUnit(p) ==
    LET r == call[p].region
    IN  /\ call[p].stage = "storing"
        /\ unit' = [unit EXCEPT !.region = r]
        /\ unitCache' = [unitCache EXCEPT ![r] = r]
        /\ WithUnit(p, r)
        /\ UNCHANGED <<auth, override, wsCache, status, told, faults>>

\* Where an operation goes on once it has its workspace.
AfterWorkspace(op) == IF op.name = "resolve_workspace" THEN "returned" ELSE "sent"

\* The personal workspace is cached by the unit it was asked for with.
Workspace(p) ==
    LET known == call[p].unit \in wsCache
    IN  /\ call[p].stage = "workspace"
        /\ call' = [call EXCEPT ![p].init = ~known,
                                ![p].stage = IF known THEN AfterWorkspace(call[p].op) ELSE "sent"]
        /\ UNCHANGED <<clientVars, status, told, faults>>

Resolve(p) ==
    \/ UnitConfigured(p) \/ UnitKnown(p) \/ UnitCached(p)
    \/ Route(p) \/ SetUnit(p) \/ StoreUnit(p) \/ Workspace(p)

-----------------------------------------------------------------------------
(* A request, its answer, and what the wrapper makes of it.                *)

\* BUG: a new token for each attempt.
TokenPerAttempt(p) == IF call[p].op.token THEN call[p].attempt + 1 ELSE 0

\* The token of all attempts of an operation, 0 if it has none.
Token(p) == IF call[p].op.token THEN 1 ELSE 0

\* The service does again what it has no token of.
Fresh(p) == Token(p) = 0 \/ Token(p) \notin call[p].taken

\* What the operation does to the sessions, s being the one it concerns: a
\* message without a session creates one.
Effect(p, s) ==
    LET c == call[p]
    IN  CASE c.op = CreateSession -> s # none /\ Become(s, {"absent"}, {"creating", "starting"})
          [] c.op = SendMessage /\ c.arg = none -> s # none /\ Become(s, {"absent"}, {"running"})
          [] c.op = SendMessage /\ c.arg # none -> s = c.arg /\ status' = [status EXCEPT ![s] = "running"]
          [] c.op = CancelMessage -> s = c.arg /\ status' = [status EXCEPT ![s] = "stopped"]
          [] OTHER -> s = c.arg /\ UNCHANGED status

\* A message is refused where none can be taken, a session where no more fit.
Refuses(p) ==
    LET c == call[p]
    IN  \/ c.op \in {SendMessage, CancelMessage} /\ c.arg # none /\ ~Usable(c.arg)
        \/ c.op \in {SendMessage, CreateSession} /\ c.arg = none /\ \A s \in Session : status[s] # "absent"

\* What an answer says of the session: an agent that runs is as good as a session
\* that does, although DescribeDataAgentSession may still say CREATING.
Tells(op, s) ==
    CASE op = DescribeSession -> {<<s, normalize_session_status(status[s])>>}
      [] op = CreateSession   -> {<<s, IF status'[s] = "starting" THEN "RUNNING" ELSE "CREATING">>}
      [] OTHER                -> {}

\* The call with its answer.  "body": the answer is an HTTP 200 with an error in its
\* body; "busy": Throttling, or a ServiceUnavailable that does not say whether the
\* request was carried out; "lost": no answer, and the request may be late.
Answered(p, answer, does, s) ==
    LET c == call[p]
    IN  [c EXCEPT !.stage = "answered", !.answer = answer, !.late = (does = "later"),
                  !.acts = IF does = "now" /\ Fresh(p) THEN @ + 1 ELSE @,
                  !.taken = IF does = "now" THEN @ \cup {Token(p)} ELSE @,
                  !.got = IF answer # "ok" THEN none
                          ELSE IF c.op = DescribeSession THEN status[c.arg] ELSE s]

\* Service and network.
Serve(p) ==
    LET c == call[p] IN
    /\ c.stage = "sent"
    /\ \E answer \in {"ok", "body", "busy", "rejected", "lost"},
          does \in {"never", "now", "later"}, s \in Session \cup {none} :
        /\ answer # "ok" => faults < MaxFaults \/ (answer = "body" /\ Refuses(p))
        /\ faults' = IF answer = "ok" \/ Refuses(p) THEN faults ELSE faults + 1
        /\ does # "never" => c.op.acts /\ ~c.init /\ ~Refuses(p)
        /\ does = "never" => answer # "ok" \/ ~c.op.acts \/ c.init
        /\ does = "now" => answer \in {"ok", "busy", "lost"}
        /\ does = "later" => answer = "lost"
        /\ IF does = "now" /\ Fresh(p) THEN Effect(p, s) ELSE s = c.arg /\ UNCHANGED status
        /\ call' = [call EXCEPT ![p] = Answered(p, answer, does, s)]
        /\ told' = [told EXCEPT ![p] = IF answer = "ok" /\ Tells(c.op, s) # {} THEN Tells(c.op, s) ELSE @]
        /\ UNCHANGED clientVars

\* The request whose answer was lost arrives after all.
Arrive(p) ==
    /\ call[p].late
    /\ call' = [call EXCEPT ![p].late = FALSE,
                            ![p].acts = IF Fresh(p) /\ ~Refuses(p) THEN @ + 1 ELSE @,
                            ![p].taken = @ \cup {Token(p)}]
    /\ IF Fresh(p) /\ ~Refuses(p) THEN \E s \in Session \cup {none} : Effect(p, s) ELSE UNCHANGED status
    /\ UNCHANGED <<clientVars, told, faults>>

\* list_databases passes to list_file_databases, which has a wrapper of its own.
Nested(c) == c.op.tag = "nested" /\ ~ByTag(c.op)

\* BUG: one attempt too many.
RetriableOnceMore(c) ==
    /\ c.answer = "busy" /\ auth # "api_key" /\ c.op.retries
    /\ c.attempt <= MaxRetries \/ (Nested(c) /\ c.inner < MaxRetries)

\* With an API key every error has the code HTTPRequestError.
Retriable(c) ==
    /\ c.answer = "busy" /\ auth # "api_key" /\ c.op.retries
    /\ c.attempt < MaxRetries \/ (Nested(c) /\ c.inner < MaxRetries)

TryAgain(c) ==
    IF Nested(c) /\ c.inner < MaxRetries
    THEN [c EXCEPT !.inner = @ + 1, !.stage = "sent"]
    ELSE [c EXCEPT !.inner = 0, !.attempt = @ + 1, !.init = FALSE, !.stage = "begun"]

\* BUG: take any answer for a success.
FailsUnchecked(c) == c.answer \in {"busy", "rejected", "lost"}

\* An error in a body goes unseen unless the function looks for what it needs.
Fails(c) ==
    \/ c.answer \in {"busy", "rejected", "lost"}
    \/ c.answer = "body" /\ (c.op.checked \/ c.init)

Receive(p) ==
    LET c == call[p]
        ready == c.init /\ ~Fails(c)
    IN  /\ c.stage = "answered"
        /\ call' = [call EXCEPT ![p] =
             CASE Retriable(c) -> TryAgain(c)
               [] ~Retriable(c) /\ Fails(c) -> [c EXCEPT !.stage = "raised"]
               [] ready -> [c EXCEPT !.init = FALSE, !.stage = AfterWorkspace(c.op)]
               [] OTHER -> [c EXCEPT !.stage = "returned"]]
        /\ wsCache' = IF ready THEN wsCache \cup {c.unit} ELSE wsCache
        /\ UNCHANGED <<auth, override, unit, unitCache, status, told, faults>>

\* The steps of an operation under way.
Work(p) == Begin(p) \/ Resolve(p) \/ Serve(p) \/ Receive(p)
=============================================================================
