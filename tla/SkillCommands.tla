--------------------------- MODULE SkillCommands ---------------------------
(***************************************************************************)
(* The commands of the skill's command line that run in the foreground,    *)
(* and the tasks of an asynchronous program, over the client library.  A   *)
(* command is alone in its process; tasks share a client and a session     *)
(* manager, and run at the same time.                                      *)
(*                                                                         *)
(* Of a stream only what it ends with is kept: whether it saw an ask, a    *)
(* failure, or the loss of its connection (SkillStream has the stream).    *)
(* done and failed are the exit codes 0 and not 0.                         *)
(***************************************************************************)
EXTENDS SkillFiles, Sequences

CONSTANT Instance       \* the configurations and programs that are run

-----------------------------------------------------------------------------
(* The commands that send one request after the other.                     *)

must(op)  == [op |-> op, strict |-> TRUE]       \* an exception ends the command
tried(op) == [op |-> op, strict |-> FALSE]      \* an exception is printed, or ignored

AgentList     == <<must(ListCustomAgents)>>
AgentDescribe == <<must(DescribeCustomAgent)>>
AgentCreate   == <<must(CreateCustomAgent), must(OperateCustomAgent)>>
AgentUpdate   == <<must(ModifyCustomAgent), must(OperateCustomAgent)>>
AgentPublish  == <<must(OperateCustomAgent)>>
Import        == <<must(AddDataCenterTable)>>
Release       == <<must(DeleteDataAgent)>>
Ls            == <<must(ResolveWorkspace), must(ListDatabases)>>
LsTables      == <<must(ResolveWorkspace), must(ListTables), tried(ListDatabases)>>
Workspaces    == <<must(ListWorkspaces)>>
Status        == <<must(DescribeSession)>>
Reports       == <<tried(ListFiles), tried(ListFiles), tried(ListFiles)>>

\* What no command reads, but the library can.
Library == <<must(ListSessions), must(GetChatContent), must(ListFileDatabases), must(ListFileTables)>>

Script == [agent_list |-> AgentList, agent_describe |-> AgentDescribe, agent_create |-> AgentCreate,
           agent_update |-> AgentUpdate, agent_publish |-> AgentPublish, import |-> Import,
           release |-> Release, ls |-> Ls, ls_tables |-> LsTables, workspace |-> Workspaces,
           status |-> Status, reports |-> Reports, attach |-> Reports, library |-> Library]

\* Nothing is sent without an argument they need, or without --yes.
Guarded == {"agent_describe", "agent_create", "agent_update", "agent_publish", "import", "release"}

Kind == DOMAIN Script \cup {"session", "reuse_async", "refresh", "forget", "upload", "delete",
                            "cancel", "send", "send_legacy", "db", "file", "query"}

\* Where a program can stand.
Place ==
    Final \cup {"ask", "check", "validate", "create", "poll", "refresh", "refreshed", "forget", "handed"}
          \cup {"upload", "signature", "oss", "callback", "delete", "listing", "deleting"}
          \cup {"script", "cancel", "described", "cancelled"}
          \cup {"send", "agent", "precreate", "message", "poll_tail", "polled"}
          \cup {"stream", "followup", "followed", "generated", "completed"}
          \cup {"attach", "attached", "query", "queried", "watch", "confirm", "confirmed", "look", "looked"}

ProgType ==
    [kind   : Kind \cup {"none"},
     pc     : Place,
     asked  : Session \cup {none},          \* the session of the command line
     region : Region,
     ws     : BOOLEAN,                      \* a workspace is named
     wait   : BOOLEAN,                      \* wait_for_running, or --poll
     ses    : Session \cup {none},          \* the session at hand
     id     : {none, "given", "registered", "directory"},  \* the file
     step   : 0..4,                         \* of the script
     fate   : {"done", "failed"},           \* what the script ends with
     count  : 0..MaxPolls, idle : 0..1, last : SessionStatus \cup {none},
     turn   : 1..3, left : 0..2,            \* messages streamed, and still to send
     seen   : SUBSET ((1..3) \X {"ask", "failed"}),   \* history: what whole streams showed
     sent   : Nat,                          \* history: how often the message acted
     result : {"none", "completed", "waiting_input", "failed"}]  \* result.json

NewProg(kind, pc) ==
    [kind |-> kind, pc |-> pc, asked |-> none, region |-> "home", ws |-> FALSE, wait |-> FALSE,
     ses |-> none, id |-> none, step |-> 0, fate |-> "done", count |-> 0, idle |-> 0, last |-> none,
     turn |-> 1, left |-> 0, seen |-> {}, sent |-> 0, result |-> "none"]

OffProg == NewProg("none", "off")

\* What a program of this kind may begin with.
Beginning(kind) ==
    LET for(pc) == NewProg(kind, pc)
        any == {none} \cup Session
    IN  CASE kind \in {"session", "reuse_async"} ->
                {[for("ask") EXCEPT !.asked = s, !.wait = w] : s \in any, w \in BOOLEAN}
          [] kind \in {"refresh", "forget", "cancel", "query"} -> {[for(kind) EXCEPT !.asked = s] : s \in Session}
          [] kind = "attach" -> {[for(kind) EXCEPT !.asked = s, !.wait = w] : s \in Session, w \in BOOLEAN}
          [] kind \in {"send", "send_legacy"} ->
                {[for("send") EXCEPT !.asked = s, !.wait = w] : s \in any, w \in BOOLEAN}
          [] kind = "db" -> {[for("send") EXCEPT !.left = n] : n \in 0..1}
          [] kind = "file" -> {[for("upload") EXCEPT !.left = n] : n \in {0, 2}}
                         \cup {[for("send") EXCEPT !.id = "given", !.left = n] : n \in {0, 2}}
          [] kind \in {"upload", "delete"} -> {for(kind)}
          [] kind = "import" -> {[for("script") EXCEPT !.region = r] : r \in Region}
          [] kind = "status" -> {[for("script") EXCEPT !.asked = s] : s \in Session}
          [] kind \in {"ls", "ls_tables", "library"} -> {[for("script") EXCEPT !.ws = w] : w \in BOOLEAN}
          [] OTHER -> {for("script")}

\* p runs a program of one of the kinds, alone.
Alone(p, kinds) == {[q \in Proc |-> IF q = p THEN b ELSE OffProg] : b \in UNION {Beginning(k) : k \in kinds}}

\* status: what the session is that the program was started for; faults: how many
\* of MaxFaults this instance does not have.
InstanceType == [auth : Auth, override : BOOLEAN, status : ServiceStatus, faults : 0..MaxFaults,
                 prog : [Proc -> (UNION {Beginning(k) : k \in Kind}) \cup {OffProg}]]

ASSUME CommandAssumption == Instance \subseteq InstanceType /\ none \notin {"registered", "directory"}

vars == <<clientVars, call, status, told, prog, faults, active, stored>>

Init ==
    /\ \E i \in Instance :
        /\ auth = i.auth /\ override = i.override /\ prog = i.prog /\ faults = i.faults
        /\ status = [s \in Session |-> IF \E p \in Proc : prog[p].asked = s THEN i.status ELSE "absent"]
    /\ unit = [value |-> none, region |-> none] /\ wsCache = {}
    /\ unitCache = [r \in Region |-> none]
    /\ call = [p \in Proc |-> NoCall] /\ told = [p \in Proc |-> {}]
    /\ active = {} /\ stored = {}

-----------------------------------------------------------------------------

Outside == UNCHANGED <<active, stored>>
Quiet   == ProgramOnly /\ Outside

RunScript(p) ==
    LET kind == prog[p].kind
        script == Script[kind]
        InWs(op) == IF prog[p].ws THEN InWorkspace(op) ELSE op
    IN  /\ At(p, "script") /\ kind \in DOMAIN Script /\ Quiet
        /\ \E k \in 0..Len(script) :
            /\ prog[p].step = k
            /\ \/ k = 0 /\ kind \in Guarded /\ Goto(p, "failed")
               \/ k > 0 /\ Raised(p) /\ script[k].strict /\ Goto(p, "failed")
               \/ kind = "ls_tables" /\ k = 2 /\ Returned(p) /\ Goto(p, "done")  \* there are no tables
               \/ /\ k > 0 /\ Raised(p) => ~script[k].strict
                  /\ \/ k = Len(script) /\ Goto(p, prog[p].fate)
                     \/ /\ k < Len(script)
                        /\ prog' = [prog EXCEPT ![p].step = k + 1]
                        /\ call' = [call EXCEPT ![p] =
                              NewCall(InWs(script[k + 1].op), prog[p].asked, prog[p].region)]

\* A session that is not there, or is still being created, may have no agent.
AgentKnown(p)   == Returned(p) /\ call[p].answer = "ok" /\ call[p].got # "absent"
AgentMissing(p) == ~AgentKnown(p) \/ call[p].got = "creating"

\* BUG: an answer is a success.
AcceptedAny(p) == Returned(p)

\* The answer says that the message was taken.
Accepted(p) == Returned(p) /\ call[p].answer = "ok"

Cancel(p) ==
    /\ Quiet
    /\ \/ At(p, "cancel") /\ Call(p, "described", DescribeSession, prog[p].asked)
       \/ At(p, "described") /\ AgentKnown(p) /\ Call(p, "cancelled", CancelMessage, prog[p].asked)
       \/ At(p, "described") /\ AgentMissing(p) /\ Goto(p, "failed")
       \/ At(p, "cancelled") /\ Goto(p, IF Accepted(p) THEN "done" ELSE "failed")

-----------------------------------------------------------------------------
(* send: the first message, also of db and file.                           *)

\* Custom agents need a session of their own with an API key, or from send_legacy.
Send(p) ==
    LET legacy == prog[p].kind = "send_legacy"
    IN  /\ At(p, "send") /\ Quiet
        /\ \/ prog[p].asked # none /\ Call(p, "agent", DescribeSession, prog[p].asked)
           \/ prog[p].asked # none /\ Call(p, "message", SendMessage, prog[p].asked)
           \/ prog[p].asked = none /\ (legacy \/ auth = "api_key")
              /\ Call(p, "precreate", CreateSession, none)
           \/ prog[p].asked = none /\ ~legacy /\ Call(p, "message", SendMessage, none)

Prepared(p) ==
    /\ Quiet
    /\ \/ At(p, "agent") /\ AgentKnown(p) /\ Call(p, "message", SendMessage, prog[p].asked)
       \/ At(p, "agent") /\ AgentMissing(p) /\ Goto(p, "failed")
       \/ At(p, "precreate") /\ Returned(p) /\ Call(p, "message", SendMessage, call[p].got)
       \/ At(p, "precreate") /\ Raised(p) /\ Goto(p, "failed")

\* What was told before the message was taken does not count after it.
Messaged(p) ==
    LET s == IF call[p].arg # none THEN call[p].arg ELSE call[p].got
        next == CASE prog[p].kind \in {"db", "file"} -> "stream" [] prog[p].wait -> "poll_tail" [] OTHER -> "done"
    IN  /\ At(p, "message") /\ UNCHANGED <<clientVars, status, faults>> /\ Outside
        /\ \/ Accepted(p) /\ UNCHANGED call /\ told' = [told EXCEPT ![p] = {}]
              /\ prog' = [prog EXCEPT ![p].ses = s, ![p].sent = call[p].acts, ![p].pc = next]
           \/ ~Accepted(p) /\ Goto(p, "failed") /\ UNCHANGED told

\* _poll_session_completion returns, or asks again.
ExitCode(st, idle) == CASE st \in {"FAILED", "STOPPED"} -> "failed"
                        [] idle > 1 -> "done"
                        [] OTHER -> "polled"

\* A description that fails repeats the last one.
Poll(p) ==
    LET st == IF Raised(p) THEN prog[p].last ELSE Described(p)
        idle == IF st = "IDLE" THEN prog[p].idle + 1 ELSE 0
        code == ExitCode(st, idle)
    IN  /\ Quiet
        /\ \/ At(p, "poll_tail") /\ Call(p, "polled", DescribeSession, prog[p].ses)
           \/ At(p, "polled") /\ code # "polled" /\ Goto(p, code)
           \/ At(p, "polled") /\ code = "polled" /\ Goto(p, "failed")
           \/ At(p, "polled") /\ code = "polled" /\ TimeLeft(p)
              /\ prog' = [prog EXCEPT ![p].last = st, ![p].idle = idle,
                                      ![p].count = IF @ < MaxPolls THEN @ + 1 ELSE @]
              /\ call' = [call EXCEPT ![p] = NewCall(DescribeSession, prog[p].ses, "home")]

-----------------------------------------------------------------------------
(* Streams, and the follow-ups of db and file.                             *)

TurnOver(s) == status[s] \in {"idle", "init", "wait_input", "stopped", "failed"}

Outcome == [ask : BOOLEAN, failed : BOOLEAN, lost : BOOLEAN]

\* Attached processes take an ask for answered, unless it is for a report.
Ended(p, out) ==
    LET waits == status[prog[p].ses] = "wait_input"
    IN  /\ TurnOver(prog[p].ses) /\ ~out.lost
        /\ out.ask = waits \/ (prog[p].kind = "attach" /\ ~out.ask)
        /\ UNCHANGED faults

\* The connection ends, or breaks too often; or nothing arrives for too long.
Broken(p, out) ==
    /\ ~out.ask
    /\ \/ faults < MaxFaults /\ faults' = faults + 1
       \/ ~TurnOver(prog[p].ses) /\ out.lost /\ UNCHANGED faults

\* BUG: do not look at the ask of the first response.
DbResultAskForgotten(turn, out) == IF out.failed THEN "failed" ELSE IF turn > 1 /\ out.ask THEN "completed" ELSE "none"

\* cmd_db: the ask of a follow-up ends the batch, but is not reported.
DbResult(turn, out) ==
    CASE out.failed             -> "failed"
      [] out.ask /\ ~out.failed -> IF turn = 1 THEN "waiting_input" ELSE "completed"
      [] OTHER                  -> "none"

\* cmd_file
FileResult(out) ==
    CASE out.ask                -> "waiting_input"
      [] out.failed /\ ~out.ask -> "failed"
      [] OTHER                  -> "none"

\* What a stream makes of the program that reads it.
After(p, out) ==
    LET kind == prog[p].kind
        turn == prog[p].turn
        r == IF kind = "db" THEN DbResult(turn, out) ELSE FileResult(out)
        more == IF prog[p].left > 0 THEN "followup" ELSE IF kind = "file" THEN "generated" ELSE "completed"
        looks == IF kind = "attach" THEN {"confirm", "look"} ELSE {"done"}
        seen == prog[p].seen \cup {<<turn, e>> : e \in {x \in {"ask", "failed"} : out[x] /\ ~out.lost}}
        To(pc, res) == prog' = [prog EXCEPT ![p].seen = seen, ![p].pc = pc, ![p].result = res]
    IN  CASE kind \in {"db", "file"} /\ out.lost ->
                To(IF kind = "db" \/ turn = 1 THEN "failed" ELSE more, "none")
          [] kind \in {"db", "file"} /\ ~out.lost /\ r # "none" -> To(IF r = "failed" THEN "failed" ELSE "done", r)
          [] kind \in {"db", "file"} /\ ~out.lost /\ r = "none" -> To(more, "none")
          [] kind = "query" -> To(IF out.lost THEN "failed" ELSE "done", "none")
          [] kind = "attach" ->
                IF out.failed /\ ~out.lost THEN To("failed", "none")
                ELSE \E pc \in {"done"} \cup (IF out.lost \/ out.ask THEN {} ELSE looks) : To(pc, "none")

Stream(p) ==
    /\ At(p, "stream")
    /\ \E out \in Outcome : (Ended(p, out) \/ Broken(p, out)) /\ After(p, out)
    /\ UNCHANGED <<clientVars, call, status, told>> /\ Outside

FollowUp(p) ==
    LET s == prog[p].ses IN
    /\ Quiet
    /\ \/ /\ At(p, "followup")
          /\ prog' = [prog EXCEPT ![p].pc = "followed", ![p].turn = @ + 1, ![p].left = @ - 1]
          /\ call' = [call EXCEPT ![p] = NewCall(SendMessage, s, "home")]
       \/ At(p, "followed") /\ Returned(p) /\ Goto(p, "stream")      \* whatever the answer says
       \/ At(p, "followed") /\ Raised(p) /\ prog[p].kind = "db" /\ Goto(p, "failed")
       \/ At(p, "followed") /\ Raised(p) /\ prog[p].kind = "file"
          /\ Goto(p, IF prog[p].left > 0 THEN "followup" ELSE "generated")

\* The files the session has generated are listed if asked for; then the result
\* is written.
Complete(p) ==
    /\ Quiet
    /\ \/ At(p, "generated") /\ Call(p, "completed", ListFiles, none)
       \/ At(p, "generated") /\ Goto(p, "completed")
       \/ At(p, "completed") /\ UNCHANGED call
          /\ prog' = [prog EXCEPT ![p].pc = "done", ![p].result = "completed"]

-----------------------------------------------------------------------------
(* attach without a worker, and MessageHandler.                            *)

\* The manager is asked if there is a query and the session is being created.
Attach(p) ==
    LET s == prog[p].asked
        query == prog[p].wait
        creating == Described(p) = "CREATING"
    IN  /\ Quiet
        /\ \/ At(p, "attach") /\ Call(p, "attached", DescribeSession, s)
           \/ At(p, "attached") /\ AgentKnown(p) /\ query /\ creating /\ Goto(p, "ask")
           \/ At(p, "attached") /\ AgentKnown(p) /\ query /\ ~creating /\ Goto(p, "query")
           \/ At(p, "attached") /\ AgentMissing(p) /\ Goto(p, "failed")
           \/ At(p, "handed") /\ prog[p].kind = "attach" /\ Goto(p, "query")

\* Without a query the session is only watched.
AttachWatch(p) ==
    /\ At(p, "attached") /\ AgentKnown(p) /\ ~prog[p].wait /\ Quiet
    /\ prog' = [prog EXCEPT ![p].pc = "watch", ![p].ses = prog[p].asked] /\ UNCHANGED call

\* After a confirmation the session is watched if it goes on.
Confirmed(p) ==
    LET st == Described(p) IN
    /\ Quiet
    /\ \/ At(p, "confirm") /\ Call(p, "confirmed", DescribeSession, prog[p].ses)
       \/ At(p, "confirmed") /\ Goto(p, IF Returned(p) /\ st \in {"RUNNING", "WAIT_INPUT"} THEN "watch" ELSE "done")
       \/ At(p, "look") /\ Call(p, "looked", DescribeSession, prog[p].ses)
       \/ At(p, "looked") /\ Goto(p, "done")

\* _db_attach: a broken stream is printed; else the reports are fetched, and a
\* failure is the exit code of attach if it followed a query.
Watch(p) ==
    /\ At(p, "watch")
    /\ \E out \in Outcome :
        /\ Ended(p, out) \/ Broken(p, out)
        /\ prog' = [prog EXCEPT ![p].pc = IF out.lost THEN "done" ELSE "script",
                                ![p].fate = IF out.failed /\ prog[p].wait THEN "failed" ELSE "done"]
    /\ UNCHANGED <<clientVars, call, status, told>> /\ Outside

\* The message of a query: an error in its body goes unseen, an exception ends a
\* query of the library, and attach prints it.
Query(p) ==
    LET s == IF prog[p].ses = none THEN prog[p].asked ELSE prog[p].ses IN
    /\ Quiet
    /\ \/ At(p, "query") /\ prog' = [prog EXCEPT ![p].pc = "queried", ![p].ses = s]
          /\ call' = [call EXCEPT ![p] = NewCall(SendMessage, s, "home")]
       \/ At(p, "queried") /\ Returned(p) /\ Goto(p, "stream")
       \/ At(p, "queried") /\ Raised(p) /\ Goto(p, IF prog[p].kind = "attach" THEN "done" ELSE "failed")

CommandStep(p) ==
    \/ RunScript(p) \/ Cancel(p) \/ Send(p) \/ Prepared(p) \/ Messaged(p) \/ Poll(p)
    \/ FollowUp(p) \/ Complete(p)
    \/ Attach(p) \/ AttachWatch(p) \/ Confirmed(p) \/ Query(p)

\* The end of the stream a program reads, which the service decides: stream_chat_content
\* has a time-out for a read and none for the whole.
Reading(p) == Stream(p) \/ Watch(p)

-----------------------------------------------------------------------------

\* What the program does itself, and what becomes of its calls.
Step(p)    == (SessionStep(p) /\ UNCHANGED stored) \/ FileStep(p) \/ CommandStep(p)
Calling(p) == Work(p) /\ UNCHANGED prog /\ Outside
Late(p)    == Arrive(p) /\ UNCHANGED prog /\ Outside
Change(s)  == Evolve(s) /\ UNCHANGED prog /\ Outside

Next ==
    \/ \E p \in Proc : Step(p) \/ Reading(p) \/ Calling(p) \/ Late(p)
    \/ \E s \in Session : Change(s)

\* A program goes on, and a request is answered or given up; nothing is assumed of
\* the sessions, of what was lost, nor of the streams, which may deliver without end.
Fairness == \A p \in Proc : WF_vars(Step(p)) /\ WF_vars(Calling(p))

Spec == Init /\ [][Next]_vars /\ Fairness

-----------------------------------------------------------------------------

TypeOK ==
    /\ auth \in Auth /\ override \in BOOLEAN
    /\ unit \in [value : Region \cup {"config", none}, region : Region \cup {none}]
    /\ unitCache \in [Region -> Region \cup {none}] /\ wsCache \subseteq Region \cup {"config"}
    /\ \A p \in Proc : call[p] \in CallType /\ prog[p] \in ProgType
    /\ status \in [Session -> ServiceStatus] /\ active \subseteq Session /\ stored \subseteq Proc
    /\ told \in [Proc -> SUBSET (Session \X SessionStatus)] /\ faults \in 0..MaxFaults

\* Only a message may act more than once: it has no token, and is retried.
Once(op) == op.acts /\ op.name \notin {"send_message", "cancel_message"}

PhaseOf(stage) == CASE stage = "none" -> "idle" [] stage = "returned" -> "succeeded"
                    [] stage = "raised" -> "failed" [] OTHER -> "active"

Remote == INSTANCE RemoteCall WITH
    Caller <- Proc, MaxActs <- MaxRetries + 1,
    phase <- [p \in Proc |-> PhaseOf(call[p].stage)],
    once <- [p \in Proc |-> Once(call[p].op)],
    sure <- [p \in Proc |-> call[p].op.checked],
    acts <- [p \in Proc |-> call[p].acts]

\* The client library keeps the promise of RemoteCall for every operation: the
\* retries of retry_on_error, with one ClientToken for all attempts, let none but a
\* message act twice, delete_data_agent is not retried at all, and what a function
\* confirms has happened (client.py).
CallsImplementRemoteCall == Remote!Spec

\* A manager that waits hands out a session of which it was told last, and by its own
\* request, that it is ready, whatever it or another task remembers; the synchronous one
\* never another session than it was asked for (create_or_reuse).
HandedOutReady ==
    \A p \in Proc : prog[p].pc = "handed" =>
        /\ prog[p].kind # "reuse_async" /\ prog[p].asked # none => prog[p].ses = prog[p].asked
        /\ prog[p].wait => \E st \in SessionStatus : is_running(st) /\ <<prog[p].ses, st>> \in told[p]

\* Whatever the threads of one client do to its attributes meanwhile, the cache of
\* the process has for a region its own unit, and nothing while one is configured
\* (_resolve_dms_unit).
UnitCacheKeyed ==
    \A r \in Region : unitCache[r] \in {none, r} /\ (override => unitCache[r] = none)

\* Registration is asked for only when the object store has the file. An ID handed out
\* names a stored object: the service has registered it if the ID is the service's, also
\* when the answer of an attempt was lost; if the registration failed, the ID is the
\* directory of the upload (upload_file).
FileIdNamesObject ==
    \A p \in Proc :
        /\ prog[p].id \in {"registered", "directory"} \/ call[p].op = FileUploadCallback => p \in stored
        /\ prog[p].kind = "upload" /\ prog[p].id = "registered" => call[p].acts > 0

\* db and file send no message on top of an ask or a failure, and report "completed"
\* only if no response failed and the first one, with file any, did not ask, as far
\* as their streams were not broken (_db_batch, cmd_db, cmd_file).  Of an attempt that
\* retry_on_error repeats nothing is claimed: the commands do not decide on it.
ForegroundHonest ==
    \A p \in Proc :
        LET g == prog[p] IN
        /\ g.pc \in {"followup", "followed"} => g.seen = {}
        /\ g.result = "completed" =>
              \A e \in g.seen : e[2] = "ask" /\ e[1] > 1 /\ g.kind = "db"

\* Exit code 0 of send, cancel and runtime-release means that the service has acted,
\* and with --poll that the last it heard of the session since is that it is idle (cmd_send, cmd_cancel).
DoneMeansDone ==
    \A p \in Proc :
        LET g == prog[p] IN g.pc = "done" =>
        /\ g.kind \in {"send", "send_legacy"} =>
              g.sent > 0 /\ (g.wait => <<g.ses, "IDLE">> \in told[p])
        /\ g.kind \in {"cancel", "release"} => call[p].acts > 0

\* Whatever the sessions do, a program comes to its end, or it reads for ever a stream
\* that the service does not end: the waits look at the time (wait_until_running,
\* _poll_session_completion) and the attempts are counted (retry_on_error); only the
\* loop of stream_chat_content has no deadline.
CommandEnds == \A p \in Proc : <>[](prog[p].pc \in Final \cup {"handed", "stream", "watch"})
=============================================================================
