------------------------ MODULE SkillCommandsProofs ------------------------
(***************************************************************************)
(* Proofs about the client library under the skill's programs: whatever    *)
(* programs run, for any sessions, processes, retries and faults, its      *)
(* calls implement RemoteCall, and its cache of units is true; and about   *)
(* the programs themselves (PInv): what they remember of sessions, files   *)
(* and answers, and so what they report, agrees with the service.          *)
(***************************************************************************)
EXTENDS SkillCommands, TLAPS

-----------------------------------------------------------------------------
(* The inductive invariant.                                                *)

\* What the operations have in common: one that must not act twice has a token or is
\* not retried; none that acts finds out a workspace or calls another that is wrapped.
WellFormed(op) ==
    /\ DOMAIN op = {"name", "acts", "token", "retries", "checked", "unit", "workspace", "tag"}
    /\ op.acts \in BOOLEAN /\ op.token \in BOOLEAN /\ op.retries \in BOOLEAN /\ op.checked \in BOOLEAN
    /\ op.workspace \in BOOLEAN
    /\ Once(op) => op.token \/ ~op.retries
    /\ op.acts => ~op.workspace /\ op.tag = "none" /\ op.name # "resolve_workspace"
    /\ op.checked => op.acts

\* Nothing has been sent in this attempt.
Unsent(c) == c.stage \in {"none", "begun", "unit", "routing", "storing", "workspace", "sent"}

\* A call whose operation acts: each attempt acts once at most, and with a token only
\* the first that reaches the service does.
ActsInv(c) ==
    /\ c.acts <= IF Unsent(c) \/ c.late THEN c.attempt ELSE c.attempt + 1
    /\ c.op.token /\ c.acts > 0 => 1 \in c.taken
    /\ c.op.token => c.acts <= 1
    /\ c.op.token /\ 1 \in c.taken /\ c.answer # "lost" => c.acts > 0
    /\ ~c.op.retries => c.attempt = 0
    /\ c.op.checked /\ c.stage = "answered" /\ c.answer = "ok" => c.acts > 0

CallInv(c) ==
    /\ WellFormed(c.op) /\ c.stage \in Stage /\ DOMAIN c = DOMAIN NoCall
    /\ c.stage = "answered" => c.answer \in {"ok", "body", "busy", "rejected", "lost"}
    /\ Unsent(c) => c.answer # "lost"
    /\ c.acts \in Nat /\ c.attempt \in 0..MaxRetries /\ c.late \in BOOLEAN
    /\ c.init \in BOOLEAN /\ (c.init \/ c.stage = "workspace" => c.op.workspace)
    /\ c.late => c.op.acts /\ c.answer = "lost" /\ c.stage \in {"answered", "raised"}
    /\ ~c.op.acts => c.acts = 0
    /\ c.op.acts => ActsInv(c)

\* A unit is only asked for, and stored, if none is configured.
UnitInv ==
    /\ override => \A p \in Proc : call[p].stage \notin {"routing", "storing"}
    /\ UnitCacheKeyed

IInv ==
    /\ call = [p \in Proc |-> call[p]] /\ unitCache = [r \in Region |-> unitCache[r]]
    /\ \A p \in Proc : CallInv(call[p])
    /\ UnitInv

-----------------------------------------------------------------------------
(* The operations.                                                         *)

LEMMA ReadsWellFormed ==
    ASSUME NEW n
    PROVE  /\ WellFormed(Read(n))
           /\ WellFormed([Read(n) EXCEPT !.unit = TRUE])
           /\ WellFormed([Read(n) EXCEPT !.workspace = TRUE])
BY DEF WellFormed, Once, Read

LEMMA OperationsWellFormed ==
    ASSUME NEW op \in Operation
    PROVE  WellFormed(op)
<1>1. /\ WellFormed(CreateSession) /\ WellFormed(SendMessage) /\ WellFormed(CancelMessage)
      /\ WellFormed(DeleteFile) /\ WellFormed(CreateCustomAgent) /\ WellFormed(DeleteDataAgent)
  BY DEF WellFormed, Once, CreateSession, SendMessage, CancelMessage, DeleteFile, CreateCustomAgent,
         DeleteDataAgent, Write, UnitRead, Read
<1>2. /\ WellFormed(FileUploadCallback) /\ WellFormed(AddDataCenterTable)
      /\ WellFormed(ModifyCustomAgent) /\ WellFormed(OperateCustomAgent)
  BY DEF WellFormed, Once, FileUploadCallback, AddDataCenterTable, ModifyCustomAgent, OperateCustomAgent,
         Write, UnitRead, Read
<1>3. /\ WellFormed(ListDatabases) /\ WellFormed(ListTables) /\ WellFormed(ResolveWorkspace)
      /\ WellFormed(InWorkspace(ListDatabases)) /\ WellFormed(InWorkspace(ListTables))
      /\ WellFormed(InWorkspace(ResolveWorkspace)) /\ WellFormed(InWorkspace(ListSessions))
  BY DEF WellFormed, Once, ListDatabases, ListTables, ResolveWorkspace, InWorkspace, ListSessions, Read
<1>4. /\ WellFormed(DescribeSession) /\ WellFormed(GetFileUploadSignature) /\ WellFormed(ListWorkspaces)
      /\ WellFormed(ListCustomAgents) /\ WellFormed(DescribeCustomAgent) /\ WellFormed(ListSessions)
      /\ WellFormed(GetChatContent) /\ WellFormed(ListFiles) /\ WellFormed(ListFileDatabases)
      /\ WellFormed(ListFileTables)
  BY DEF WellFormed, Once, DescribeSession, GetFileUploadSignature, ListWorkspaces, ListCustomAgents,
         DescribeCustomAgent, ListSessions, GetChatContent, ListFiles, ListFileDatabases, ListFileTables,
         UnitRead, Read
<1>. QED
  BY <1>1, <1>2, <1>3, <1>4 DEF Operation

LEMMA InWorkspaceWellFormed ==
    ASSUME NEW op, WellFormed(op)
    PROVE  WellFormed(InWorkspace(op))
BY DEF WellFormed, Once, InWorkspace

LEMMA ScriptsWellFormed ==
    ASSUME NEW k \in DOMAIN Script, NEW i \in 1..Len(Script[k])
    PROVE  WellFormed(Script[k][i].op)
<1>1. Script[k][i].op \in Operation
  <2>1. CASE k \in {"agent_list", "agent_describe", "agent_create", "agent_update", "agent_publish"}
    BY SMTT(60), <2>1 DEF Script, AgentList, AgentDescribe, AgentCreate, AgentUpdate, AgentPublish, must, Operation
  <2>2. CASE k \in {"import", "release", "workspace", "status"}
    BY <2>2 DEF Script, Import, Release, Workspaces, Status, must, Operation
  <2>3. CASE k \in {"ls", "ls_tables"}
    BY <2>3 DEF Script, Ls, LsTables, must, tried, Operation
  <2>4. CASE k \in {"reports", "attach", "library"}
    <3>1. \/ Script[k] = <<tried(ListFiles), tried(ListFiles), tried(ListFiles)>>
          \/ Script[k] = <<must(ListSessions), must(GetChatContent), must(ListFileDatabases),
                           must(ListFileTables)>>
      BY <2>4 DEF Script, Reports, Library
    <3>. QED
      BY <3>1 DEF must, tried, Operation
  <2>5. k \in {"agent_list", "agent_describe", "agent_create", "agent_update", "agent_publish", "import",
               "release", "ls", "ls_tables", "workspace", "status", "reports", "attach", "library"}
    BY DEF Script
  <2>. QED
    BY <2>1, <2>2, <2>3, <2>4, <2>5
<1>. QED
  BY <1>1, OperationsWellFormed

-----------------------------------------------------------------------------
(* What a program does to its call: nothing, or it begins another.         *)

Begins(p) ==
    /\ Over(p) \/ call[p].stage = "none"
    /\ \E op, arg, region : WellFormed(op) /\ call' = [call EXCEPT ![p] = NewCall(op, arg, region)]

ProgramInv(p) == UNCHANGED <<override, unitCache>> /\ (UNCHANGED call \/ Begins(p))

LEMMA CallBegins ==
    ASSUME NEW p, NEW pc, NEW pc0, NEW op, NEW arg, At(p, pc0), Call(p, pc, op, arg), WellFormed(op)
    PROVE  Begins(p)
BY DEF At, Call, Begins

LEMMA SessionProgram ==
    ASSUME NEW p \in Proc, SessionStep(p)
    PROVE  ProgramInv(p)
<1>1. UNCHANGED <<override, unitCache>>
  BY DEF SessionStep, ProgramOnly, clientVars
<1>2. WellFormed(DescribeSession) /\ WellFormed(CreateSession)
  BY OperationsWellFormed DEF Operation
<1>3. CASE Ask(p) \/ Checked(p) \/ Validated(p) \/ ValidatedAsync(p)
  BY <1>1, <1>2, <1>3, CallBegins
  DEF Ask, Checked, Validated, ValidatedAsync, Fail, Keep, Goto, ProgramInv
<1>4. CASE NewSession(p) \/ Refresh(p) \/ Forget(p)
  BY <1>1, <1>2, <1>4, CallBegins DEF NewSession, Refresh, Forget, Fail, Keep, Goto, ProgramInv
<1>5. CASE Waited(p)
  BY <1>1, <1>2, <1>5 DEF Waited, Fail, Keep, Goto, ProgramInv, At, Begins
<1>. QED
  BY <1>3, <1>4, <1>5 DEF SessionStep

LEMMA FileProgram ==
    ASSUME NEW p \in Proc, FileStep(p)
    PROVE  ProgramInv(p)
<1>1. UNCHANGED <<override, unitCache>>
  BY DEF FileStep, ProgramOnly, clientVars
<1>2. /\ WellFormed(GetFileUploadSignature) /\ WellFormed(FileUploadCallback)
      /\ WellFormed(ListFiles) /\ WellFormed(DeleteFile)
  BY OperationsWellFormed DEF Operation
<1>3. CASE Upload(p) \/ Signed(p) \/ PostObject(p) \/ Uploaded(p)
  BY <1>1, <1>2, <1>3, CallBegins DEF Upload, Signed, PostObject, Uploaded, Goto, ProgramInv
<1>4. CASE Delete(p)
  BY <1>1, <1>2, <1>4, CallBegins DEF Delete, Goto, ProgramInv
<1>. QED
  BY <1>3, <1>4 DEF FileStep

LEMMA ScriptProgram ==
    ASSUME NEW p \in Proc, RunScript(p)
    PROVE  ProgramInv(p)
<1>1. UNCHANGED <<override, unitCache>>
  BY DEF RunScript, Quiet, ProgramOnly, clientVars
<1>. DEFINE kind == prog[p].kind
            InWs(op) == IF prog[p].ws THEN InWorkspace(op) ELSE op
<1>2. UNCHANGED call \/ \E k \in 0..Len(Script[kind]) :
          /\ kind \in DOMAIN Script /\ k < Len(Script[kind])
          /\ call' = [call EXCEPT ![p] = NewCall(InWs(Script[kind][k + 1].op), prog[p].asked, prog[p].region)]
  BY DEF RunScript, Goto
<1>3. ASSUME NEW k \in 0..Len(Script[kind]), kind \in DOMAIN Script, k < Len(Script[kind])
      PROVE  WellFormed(InWs(Script[kind][k + 1].op))
  <2>1. k + 1 \in 1..Len(Script[kind])
    BY <1>3
  <2>. QED
    BY <2>1, <1>3, ScriptsWellFormed, InWorkspaceWellFormed
<1>4. At(p, "script")
  BY DEF RunScript
<1>. QED
  BY <1>1, <1>2, <1>3, <1>4 DEF ProgramInv, Begins, At

LEMMA CommandProgram ==
    ASSUME NEW p \in Proc, CommandStep(p) \/ Reading(p)
    PROVE  ProgramInv(p)
<1>1. UNCHANGED <<override, unitCache>>
  BY DEF CommandStep, Reading, RunScript, Cancel, Send, Prepared, Messaged, Poll, Stream, FollowUp, Complete,
         Attach, AttachWatch, Confirmed, Watch, Query, Quiet, ProgramOnly, clientVars
<1>2. /\ WellFormed(DescribeSession) /\ WellFormed(CancelMessage) /\ WellFormed(SendMessage)
      /\ WellFormed(CreateSession) /\ WellFormed(ListFiles)
  BY OperationsWellFormed DEF Operation
<1>3. CASE RunScript(p)
  BY <1>3, ScriptProgram
<1>4. CASE Cancel(p) \/ Send(p) \/ Prepared(p) \/ Messaged(p)
  BY <1>1, <1>2, <1>4, CallBegins DEF Cancel, Send, Prepared, Messaged, Goto, ProgramInv
<1>5. CASE Poll(p)
  BY <1>1, <1>2, <1>5, CallBegins DEF Poll, Goto, ProgramInv, At, Begins
<1>6. CASE Stream(p) \/ Watch(p) \/ AttachWatch(p)
  BY <1>1, <1>6 DEF Stream, Watch, AttachWatch, ProgramInv
<1>7. CASE FollowUp(p)
  BY <1>1, <1>2, <1>7 DEF FollowUp, Goto, ProgramInv, At, Begins
<1>8. CASE Complete(p) \/ Attach(p) \/ Confirmed(p)
  BY <1>1, <1>2, <1>8, CallBegins DEF Complete, Attach, Confirmed, Goto, ProgramInv
<1>9. CASE Query(p)
  BY <1>1, <1>2, <1>9 DEF Query, Goto, ProgramInv, At, Begins
<1>. QED
  BY <1>3, <1>4, <1>5, <1>6, <1>7, <1>8, <1>9 DEF CommandStep, Reading

-----------------------------------------------------------------------------
(* What a step makes of one call, in terms of RemoteCall.                  *)

Bound(op) == IF Once(op) THEN 1 ELSE MaxRetries + 1

RemoteStep(c, d) ==
    \/ /\ PhaseOf(c.stage) # "active" /\ PhaseOf(d.stage) = "active" /\ d.acts = 0
    \/ /\ d.op = c.op /\ d.acts = c.acts
       /\ \/ PhaseOf(d.stage) = PhaseOf(c.stage)
          \/ PhaseOf(c.stage) = "active" /\ PhaseOf(d.stage) = "failed"
          \/ PhaseOf(c.stage) = "active" /\ PhaseOf(d.stage) = "succeeded" /\ (c.op.checked => c.acts > 0)
    \/ /\ d.op = c.op /\ PhaseOf(d.stage) = PhaseOf(c.stage) /\ PhaseOf(c.stage) \in {"active", "failed"}
       /\ c.acts < Bound(c.op) /\ d.acts = c.acts + 1

CallStep(p) ==
    /\ call' = [call EXCEPT ![p] = call'[p]]
    /\ CallInv(call'[p]) /\ RemoteStep(call[p], call'[p])
    /\ override => call'[p].stage \notin {"routing", "storing"}

LEMMA BeginsStep ==
    ASSUME NEW p \in Proc, IInv, Begins(p)
    PROVE  CallStep(p)
<1>1. PICK op, arg, region : WellFormed(op) /\ call' = [call EXCEPT ![p] = NewCall(op, arg, region)]
  BY DEF Begins
<1>2. call'[p] = NewCall(op, arg, region) /\ call' = [call EXCEPT ![p] = call'[p]]
  BY <1>1 DEF IInv
<1>. DEFINE d == NewCall(op, arg, region)
<1>3. /\ d.op = op /\ d.stage = "begun" /\ d.acts = 0 /\ d.attempt = 0 /\ d.taken = {} /\ d.late = FALSE
      /\ d.init = FALSE /\ d.answer = "none" /\ DOMAIN d = DOMAIN NoCall
  BY DEF NewCall, NoCall
<1>4. CallInv(d)
  <2>. HIDE DEF d
  <2>1. d.acts \in Nat /\ d.attempt \in 0..MaxRetries
    BY <1>3, ClientAssumption
  <2>2. ActsInv(d)
    BY <1>3 DEF ActsInv, Unsent
  <2>. QED
    BY <1>1, <1>3, <2>1, <2>2 DEF CallInv, Unsent, Stage
<1>5. RemoteStep(call[p], d)
  BY <1>3 DEF Begins, Over, Returned, Raised, RemoteStep, PhaseOf
<1>. QED
  BY <1>2, <1>3, <1>4, <1>5 DEF CallStep

\* The stages before a request is sent.
LEMMA UnsentStep ==
    ASSUME NEW c, CallInv(c), NEW d, DOMAIN d = DOMAIN NoCall,
           Unsent(c), PhaseOf(c.stage) = "active", d.stage \in Stage \ {"none", "answered"},
           d.op = c.op, d.attempt = c.attempt, d.answer = c.answer, d.late = c.late, d.acts = c.acts,
           d.taken = c.taken, d.init \in BOOLEAN, d.init \/ d.stage = "workspace" => c.op.workspace,
           d.stage = "returned" => ~c.op.acts
    PROVE  CallInv(d) /\ RemoteStep(c, d)
<1>1. c.late = FALSE
  BY DEF CallInv, Unsent
<1>2. CallInv(d)
  BY <1>1 DEF CallInv, ActsInv, Unsent, Stage
<1>3. RemoteStep(c, d)
  BY DEF RemoteStep, CallInv, WellFormed, PhaseOf, Stage
<1>. QED
  BY <1>2, <1>3

LEMMA BeginStep ==
    ASSUME NEW p \in Proc, IInv, Begin(p)
    PROVE  CallStep(p)
<1>. DEFINE c == call[p]
            d == [c EXCEPT !.stage = FirstStage(c.op)]
<1>1. CallInv(c) /\ c.stage = "begun" /\ call' = [call EXCEPT ![p] = d] /\ call'[p] = d
  BY DEF IInv, Begin
<1>2. /\ FirstStage(c.op) \in {"raised", "unit", "returned", "sent"}
      /\ FirstStage(c.op) = "returned" => c.op.name = "resolve_workspace"
  BY DEF FirstStage
<1>3. /\ DOMAIN d = DOMAIN NoCall /\ d.stage = FirstStage(c.op) /\ d.op = c.op /\ d.attempt = c.attempt
      /\ d.answer = c.answer /\ d.late = c.late /\ d.acts = c.acts /\ d.taken = c.taken /\ d.init = c.init
  BY <1>1 DEF CallInv, NoCall
<1>4. FirstStage(c.op) = "returned" => ~c.op.acts
  BY <1>1, <1>2 DEF CallInv, WellFormed
<1>5. CallInv(d) /\ RemoteStep(c, d)
  <2>. HIDE DEF d
  <2>. QED
    BY <1>1, <1>2, <1>3, <1>4, UnsentStep DEF CallInv, Unsent, Stage, PhaseOf
<1>. QED
  BY <1>1, <1>2, <1>3, <1>5 DEF CallStep

LEMMA ResolveStep ==
    ASSUME NEW p \in Proc, IInv, Resolve(p)
    PROVE  CallStep(p)
<1>. DEFINE c == call[p]
            d == call'[p]
            Same == /\ d.op = c.op /\ d.attempt = c.attempt /\ d.answer = c.answer /\ d.late = c.late
                    /\ d.acts = c.acts /\ d.taken = c.taken
            Goes == /\ call' = [call EXCEPT ![p] = d] /\ DOMAIN d = DOMAIN NoCall
                    /\ c.stage \in {"unit", "routing", "storing", "workspace"}
                    /\ d.stage \in {"routing", "storing", "workspace", "sent", "returned"}
                    /\ d.stage = "returned" => ~c.op.acts
                    /\ d.init \in BOOLEAN /\ (d.init \/ d.stage = "workspace" => c.op.workspace)
<1>1. CallInv(c) /\ call = [q \in Proc |-> call[q]]
  BY DEF IInv
<1>2. /\ DOMAIN c = DOMAIN NoCall /\ c.init \in BOOLEAN
      /\ c.init \/ c.stage = "workspace" => c.op.workspace
      /\ c.op.acts => ~c.op.workspace /\ c.op.name # "resolve_workspace"
  BY <1>1 DEF CallInv, WellFormed
<1>3. Same /\ Goes
  <2>1. CASE UnitConfigured(p)
    BY <1>1, <1>2, <2>1 DEF UnitConfigured, WithUnit, NoCall
  <2>2. CASE UnitKnown(p)
    BY <1>1, <1>2, <2>2 DEF UnitKnown, WithUnit, NoCall
  <2>3. CASE UnitCached(p)
    BY <1>1, <1>2, <2>3 DEF UnitCached, WithUnit, NoCall
  <2>4. CASE Route(p) \/ SetUnit(p)
    BY <1>1, <1>2, <2>4 DEF Route, SetUnit, NoCall
  <2>5. CASE StoreUnit(p)
    BY <1>1, <1>2, <2>5 DEF StoreUnit, WithUnit, NoCall
  <2>6. CASE Workspace(p)
    BY <1>1, <1>2, <2>6 DEF Workspace, AfterWorkspace, NoCall
  <2>. QED
    BY <2>1, <2>2, <2>3, <2>4, <2>5, <2>6 DEF Resolve
<1>4. CallInv(d) /\ RemoteStep(c, d)
  BY <1>1, <1>3, UnsentStep DEF Unsent, Stage, PhaseOf
<1>5. override => d.stage \notin {"routing", "storing"}
  <2>1. CASE Route(p) \/ SetUnit(p)
    BY <2>1 DEF Route, SetUnit, IInv, UnitInv
  <2>2. CASE UnitConfigured(p) \/ UnitKnown(p) \/ UnitCached(p) \/ StoreUnit(p)
    <3>1. PICK u : WithUnit(p, u)
      BY <2>2 DEF UnitConfigured, UnitKnown, UnitCached, StoreUnit
    <3>. QED
      BY <1>1, <1>2, <3>1 DEF WithUnit, NoCall
  <2>3. CASE Workspace(p)
    BY <1>1, <1>2, <2>3 DEF Workspace, AfterWorkspace, NoCall
  <2>. QED
    BY <2>1, <2>2, <2>3 DEF Resolve
<1>. QED
  BY <1>3, <1>4, <1>5 DEF CallStep

LEMMA ServeStep ==
    ASSUME NEW p \in Proc, IInv, Serve(p)
    PROVE  CallStep(p)
<1>. DEFINE c == call[p]
            d == call'[p]
<1>1. CallInv(c) /\ call = [q \in Proc |-> call[q]]
  BY DEF IInv
<1>2. PICK answer \in {"ok", "body", "busy", "rejected", "lost"}, does \in {"never", "now", "later"},
           s \in Session \cup {none} :
        /\ answer # "ok" => faults < MaxFaults \/ (answer = "body" /\ Refuses(p))
        /\ faults' = IF answer = "ok" \/ Refuses(p) THEN faults ELSE faults + 1
        /\ does # "never" => c.op.acts /\ ~c.init /\ ~Refuses(p)
        /\ does = "never" => answer # "ok" \/ ~c.op.acts \/ c.init
        /\ does = "now" => answer \in {"ok", "busy", "lost"}
        /\ does = "later" => answer = "lost"
        /\ IF does = "now" /\ Fresh(p) THEN Effect(p, s) ELSE s = c.arg /\ UNCHANGED status
        /\ call' = [call EXCEPT ![p] = Answered(p, answer, does, s)]
        /\ told' = [told EXCEPT ![p] = IF answer = "ok" /\ Tells(c.op, s) # {} THEN Tells(c.op, s) ELSE @]
        /\ UNCHANGED clientVars
  BY DEF Serve
<1>3. /\ call' = [call EXCEPT ![p] = d] /\ DOMAIN d = DOMAIN c
      /\ d.stage = "answered" /\ d.answer = answer /\ d.late = (does = "later")
      /\ d.acts = IF does = "now" /\ Fresh(p) THEN c.acts + 1 ELSE c.acts
      /\ d.taken = IF does = "now" THEN c.taken \cup {Token(p)} ELSE c.taken
      /\ d.op = c.op /\ d.attempt = c.attempt /\ d.init = c.init
  <2>1. call' = [call EXCEPT ![p] = d] /\ d = Answered(p, answer, does, s)
    BY <1>1, <1>2
  <2>2. DOMAIN c = DOMAIN NoCall
    BY <1>1 DEF CallInv
  <2>. HIDE DEF c, d
  <2>. QED
    BY <2>1, <2>2 DEF Answered, NoCall, c
<1>4. c.stage = "sent"
  BY DEF Serve
<1>5. c.late = FALSE /\ c.answer # "lost" /\ c.acts \in Nat /\ c.attempt \in 0..MaxRetries
  BY <1>1, <1>4 DEF CallInv, Unsent
<1>6. c.op.acts => c.acts <= c.attempt
  BY <1>1, <1>4 DEF CallInv, ActsInv, Unsent
<1>7. c.op.token => Token(p) = 1 /\ (Fresh(p) <=> 1 \notin c.taken)
  BY DEF Fresh, Token
<1>8. does = "now" /\ Fresh(p) => c.acts < Bound(c.op)
  BY <1>1, <1>2, <1>5, <1>6, <1>7, ClientAssumption DEF CallInv, ActsInv, WellFormed, Bound
<1>9. ASSUME c.op.acts PROVE ActsInv(d)
  <2>. HIDE DEF d
  <2>1. d.acts <= c.attempt + 1 /\ (does # "now" => d.acts <= c.attempt)
    BY <1>3, <1>5, <1>6, <1>9
  <2>2. ActsInv(c)
    BY <1>1, <1>9 DEF CallInv
  <2>3. c.op.token => /\ d.acts > 0 => 1 \in d.taken
                      /\ d.acts <= 1
                      /\ 1 \in d.taken => d.acts > 0
    BY <1>3, <1>5, <1>7, <2>2 DEF ActsInv
  <2>4. c.op.checked /\ d.answer = "ok" => d.acts > 0
    <3>1. ~c.init /\ c.op.token \in BOOLEAN
      BY <1>1, <1>9 DEF CallInv, WellFormed
    <3>2. ~c.op.token => Fresh(p)
      BY DEF Fresh, Token
    <3>3. ~Fresh(p) => c.acts > 0
      BY <1>5, <1>7, <2>2, <3>1, <3>2 DEF ActsInv
    <3>. QED
      BY <1>2, <1>3, <1>5, <1>9, <3>1, <3>3
  <2>. QED
    BY <1>3, <1>9, <2>1, <2>2, <2>3, <2>4 DEF ActsInv, Unsent
<1>10. CallInv(d)
  <2>1. d.acts \in Nat /\ (~c.op.acts => d.acts = 0)
    BY <1>1, <1>2, <1>3, <1>5 DEF CallInv
  <2>. HIDE DEF d
  <2>. QED
    BY <1>1, <1>2, <1>3, <1>5, <1>9, <2>1 DEF CallInv, Unsent, Stage
<1>11. RemoteStep(c, d)
  BY <1>2, <1>3, <1>4, <1>8 DEF RemoteStep, PhaseOf
<1>. QED
  BY <1>3, <1>10, <1>11 DEF CallStep

LEMMA ArriveStep ==
    ASSUME NEW p \in Proc, IInv, Arrive(p)
    PROVE  CallStep(p)
<1>. DEFINE c == call[p]
            d == call'[p]
            does == Fresh(p) /\ ~Refuses(p)
<1>1. CallInv(c) /\ call = [q \in Proc |-> call[q]]
  BY DEF IInv
<1>2. /\ call' = [call EXCEPT ![p] = d] /\ DOMAIN d = DOMAIN c
      /\ d.acts = IF does THEN c.acts + 1 ELSE c.acts
      /\ d.taken = c.taken \cup {Token(p)}
      /\ d.late = FALSE
      /\ d.op = c.op /\ d.stage = c.stage /\ d.answer = c.answer /\ d.attempt = c.attempt /\ d.init = c.init
  <2>. HIDE DEF does
  <2>1. call' = [call EXCEPT ![p] = [c EXCEPT !.late = FALSE, !.acts = IF does THEN @ + 1 ELSE @,
                                              !.taken = @ \cup {Token(p)}]]
    BY DEF Arrive, does
  <2>. QED
    BY <1>1, <2>1 DEF CallInv, NoCall
<1>3. /\ c.late = TRUE /\ c.op.acts /\ c.answer = "lost" /\ c.stage \in {"answered", "raised"}
      /\ c.acts \in Nat /\ c.attempt \in 0..MaxRetries
  BY <1>1 DEF Arrive, CallInv
<1>4. c.acts <= c.attempt
  BY <1>1, <1>3 DEF CallInv, ActsInv
<1>5. does => c.acts < Bound(c.op)
  BY <1>1, <1>3, <1>4, ClientAssumption DEF CallInv, ActsInv, WellFormed, Fresh, Token, Bound
<1>6. ActsInv(d)
  <2>1. d.acts <= c.attempt + 1
    BY <1>2, <1>3, <1>4
  <2>2. c.op.token => (d.acts > 0 => 1 \in d.taken) /\ d.acts <= 1
    BY <1>1, <1>2, <1>3 DEF CallInv, ActsInv, Fresh, Token
  <2>. QED
    BY <1>1, <1>2, <1>3, <2>1, <2>2 DEF CallInv, ActsInv, Unsent
<1>7. CallInv(d)
  <2>1. d.acts \in Nat
    BY <1>2, <1>3
  <2>. HIDE DEF d, does
  <2>. QED
    BY <1>1, <1>2, <1>3, <1>6, <2>1 DEF CallInv, Unsent
<1>8. RemoteStep(c, d)
  BY <1>2, <1>3, <1>5 DEF RemoteStep, PhaseOf
<1>. QED
  BY <1>2, <1>3, <1>7, <1>8 DEF CallStep

LEMMA ReceiveStep ==
    ASSUME NEW p \in Proc, IInv, Receive(p)
    PROVE  CallStep(p)
<1>. DEFINE c == call[p]
            d == call'[p]
<1>1. CallInv(c) /\ call = [q \in Proc |-> call[q]] /\ c.stage = "answered"
  BY DEF IInv, Receive
<1>2. CASE Retriable(c)
  <2>1. call' = [call EXCEPT ![p] = TryAgain(c)] /\ c.answer = "busy" /\ c.op.retries
    BY <1>2 DEF Receive, Retriable, Fails
  <2>2. /\ call' = [call EXCEPT ![p] = d] /\ DOMAIN d = DOMAIN c /\ d.stage \in {"begun", "sent"}
        /\ d.op = c.op /\ d.acts = c.acts /\ d.taken = c.taken /\ d.answer = "busy" /\ d.late = c.late
        /\ d.init \in {FALSE, c.init}
        /\ d.stage = "begun" => d.attempt = c.attempt + 1 /\ c.attempt < MaxRetries
        /\ d.stage = "sent" => d.attempt = c.attempt /\ c.op.tag = "nested"
    BY <1>1, <1>2, <2>1 DEF TryAgain, Retriable, Nested, CallInv, NoCall
  <2>3. d.attempt \in 0..MaxRetries
    BY <1>1, <2>2, ClientAssumption DEF CallInv
  <2>4. ASSUME c.op.acts PROVE ActsInv(d)
    BY <1>1, <2>1, <2>2, <2>4 DEF CallInv, ActsInv, Unsent, WellFormed
  <2>5. CallInv(d)
    BY <1>1, <2>1, <2>2, <2>3, <2>4 DEF CallInv, Unsent, Stage
  <2>6. RemoteStep(c, d)
    BY <1>1, <2>2 DEF RemoteStep, PhaseOf
  <2>. QED
    BY <2>2, <2>5, <2>6 DEF CallStep
<1>3. CASE ~Retriable(c)
  <2>1. /\ call' = [call EXCEPT ![p] = d] /\ DOMAIN d = DOMAIN c
        /\ d.op = c.op /\ d.acts = c.acts /\ d.taken = c.taken /\ d.answer = c.answer /\ d.late = c.late
        /\ d.attempt = c.attempt /\ d.init \in {FALSE, c.init}
        /\ \/ Fails(c) /\ d.stage = "raised"
           \/ ~Fails(c) /\ c.init /\ d.stage \in {"returned", "sent"}
           \/ ~Fails(c) /\ d.stage = "returned"
    BY <1>1, <1>3 DEF Receive, AfterWorkspace, CallInv, NoCall
  <2>2. ~Fails(c) => c.late = FALSE /\ c.answer # "lost"
    BY <1>1 DEF Fails, CallInv
  <2>3. ~Fails(c) /\ c.op.checked => c.acts > 0
    BY <1>1 DEF Fails, CallInv, WellFormed, ActsInv
  <2>4. c.init => ~c.op.acts
    BY <1>1 DEF CallInv, WellFormed
  <2>5. ASSUME c.op.acts PROVE ActsInv(d)
    BY <1>1, <2>1, <2>2, <2>4, <2>5 DEF CallInv, ActsInv, Unsent
  <2>6. CallInv(d)
    BY <1>1, <2>1, <2>2, <2>5 DEF CallInv, Unsent, Stage
  <2>7. RemoteStep(c, d)
    BY <1>1, <2>1, <2>3 DEF RemoteStep, PhaseOf
  <2>. QED
    BY <2>1, <2>6, <2>7 DEF CallStep
<1>. QED
  BY <1>2, <1>3

-----------------------------------------------------------------------------
(* The steps of the whole.                                                 *)

\* Of the steps of an operation only StoreUnit writes the cache.
LEMMA CacheStep ==
    ASSUME NEW p \in Proc, IInv, Work(p)
    PROVE  /\ UNCHANGED override /\ unitCache' = [r \in Region |-> unitCache'[r]]
           /\ UnitCacheKeyed'
<1>1. unitCache = [r \in Region |-> unitCache[r]] /\ UnitCacheKeyed
  BY DEF IInv, UnitInv
<1>2. CASE StoreUnit(p)
  <2>1. call[p].stage = "storing" /\ ~override
    BY <1>2 DEF StoreUnit, IInv, UnitInv
  <2>. QED
    BY <1>1, <1>2, <2>1 DEF StoreUnit, UnitCacheKeyed
<1>3. CASE ~StoreUnit(p)
  <2>1. UNCHANGED <<override, unitCache>>
    BY <1>3 DEF Work, Begin, Resolve, UnitConfigured, UnitKnown, UnitCached, Route, SetUnit, Workspace,
                Serve, Receive, clientVars
  <2>. QED
    BY <1>1, <2>1 DEF UnitCacheKeyed
<1>. QED
  BY <1>2, <1>3

LEMMA Steps ==
    ASSUME IInv, [Next]_vars
    PROVE  /\ UNCHANGED call \/ \E p \in Proc : CallStep(p)
           /\ UNCHANGED override /\ unitCache' = [r \in Region |-> unitCache'[r]]
           /\ UnitCacheKeyed'
<1>1. ASSUME UNCHANGED <<override, unitCache>>
      PROVE  UNCHANGED override /\ unitCache' = [r \in Region |-> unitCache'[r]] /\ UnitCacheKeyed'
  BY <1>1 DEF IInv, UnitInv, UnitCacheKeyed
<1>2. ASSUME NEW p \in Proc, Step(p) \/ Reading(p)
      PROVE  ProgramInv(p)
  BY <1>2, SessionProgram, FileProgram, CommandProgram DEF Step
<1>3. CASE \E p \in Proc : Step(p) \/ Reading(p)
  BY <1>1, <1>2, <1>3, BeginsStep DEF ProgramInv
<1>4. CASE \E p \in Proc : Calling(p)
  BY <1>4, CacheStep, BeginStep, ResolveStep, ServeStep, ReceiveStep DEF Calling, Work
<1>5. CASE \E p \in Proc : Late(p)
  BY <1>1, <1>5, ArriveStep DEF Late, Arrive, clientVars
<1>6. CASE \E s \in Session : Change(s)
  BY <1>1, <1>6 DEF Change, Evolve, clientVars
<1>7. CASE UNCHANGED vars
  BY <1>1, <1>7 DEF vars, clientVars
<1>. QED
  BY <1>3, <1>4, <1>5, <1>6, <1>7 DEF Next

LEMMA InitIInv == Init => IInv
<1>. SUFFICES ASSUME Init PROVE IInv
  OBVIOUS
<1>1. call = [p \in Proc |-> NoCall] /\ unitCache = [r \in Region |-> none]
  BY DEF Init
<1>2. CallInv(NoCall)
  <2>1. WellFormed(NoCall.op)
    BY ReadsWellFormed DEF NoCall
  <2>2. NoCall.op.acts = FALSE
    BY DEF NoCall, Read
  <2>. QED
    BY <2>1, <2>2, ClientAssumption DEF CallInv, NoCall, Stage, Unsent
<1>3. UnitInv
  BY <1>1 DEF UnitInv, UnitCacheKeyed, NoCall
<1>. QED
  BY <1>1, <1>2, <1>3 DEF IInv

LEMMA NextIInv == IInv /\ [Next]_vars => IInv'
<1>. SUFFICES ASSUME IInv, [Next]_vars PROVE IInv'
  OBVIOUS
<1>1. UNCHANGED override /\ unitCache' = [r \in Region |-> unitCache'[r]] /\ UnitCacheKeyed'
  BY Steps
<1>2. CASE UNCHANGED call
  BY <1>1, <1>2 DEF IInv, UnitInv
<1>3. ASSUME NEW p \in Proc, CallStep(p)
      PROVE  IInv'
  <2>1. call' = [q \in Proc |-> call'[q]] /\ \A q \in Proc : q # p => call'[q] = call[q]
    BY <1>3 DEF CallStep, IInv
  <2>2. \A q \in Proc : CallInv(call'[q])
    BY <1>3, <2>1 DEF CallStep, IInv
  <2>3. UnitInv'
    BY <1>1, <1>3, <2>1 DEF CallStep, IInv, UnitInv
  <2>. QED
    BY <1>1, <2>1, <2>2, <2>3 DEF IInv
<1>. QED
  BY <1>2, <1>3, Steps

-----------------------------------------------------------------------------
(* The refinement.                                                         *)

LEMMA InitRemote == Init => Remote!Init
<1>1. /\ PhaseOf(NoCall.stage) = "idle" /\ Once(NoCall.op) = FALSE
      /\ NoCall.op.checked = FALSE /\ NoCall.acts = 0
  BY DEF NoCall, Read, PhaseOf, Once
<1>2. ASSUME Init PROVE \A p \in Proc : call[p] = NoCall
  BY <1>2 DEF Init
<1>. QED
  BY <1>1, <1>2 DEF Remote!Init

LEMMA CallStepRemote ==
    ASSUME NEW p \in Proc, IInv, CallStep(p)
    PROVE  Remote!Next \/ UNCHANGED Remote!vars
<1>. DEFINE c == call[p]
            d == call'[p]
            phase == [q \in Proc |-> PhaseOf(call[q].stage)]
            once == [q \in Proc |-> Once(call[q].op)]
            sure == [q \in Proc |-> call[q].op.checked]
            acts == [q \in Proc |-> call[q].acts]
<1>1. /\ phase' = [phase EXCEPT ![p] = PhaseOf(d.stage)]
      /\ once' = [once EXCEPT ![p] = Once(d.op)]
      /\ sure' = [sure EXCEPT ![p] = d.op.checked]
      /\ acts' = [acts EXCEPT ![p] = d.acts]
  BY DEF CallStep, IInv
<1>2. Once(d.op) \in BOOLEAN /\ d.op.checked \in BOOLEAN
  BY DEF CallStep, CallInv, WellFormed, Once
<1>3. phase[p] = PhaseOf(c.stage) /\ once[p] = Once(c.op) /\ sure[p] = c.op.checked /\ acts[p] = c.acts
  OBVIOUS
<1>4. d.op = c.op => UNCHANGED <<once, sure>>
  BY <1>1, <1>3
<1>5. CASE PhaseOf(c.stage) # "active" /\ PhaseOf(d.stage) = "active" /\ d.acts = 0
  <2>1. Remote!Begin(p)
    BY <1>1, <1>2, <1>3, <1>5 DEF Remote!Begin
  <2>. QED
    BY <2>1 DEF Remote!Next
<1>6. CASE d.op = c.op /\ d.acts = c.acts /\ PhaseOf(d.stage) = PhaseOf(c.stage)
  BY <1>1, <1>3, <1>4, <1>6 DEF Remote!vars
<1>7. CASE /\ d.op = c.op /\ d.acts = c.acts
           /\ PhaseOf(c.stage) = "active" /\ PhaseOf(d.stage) = "failed"
  <2>1. Remote!Fail(p)
    BY <1>1, <1>3, <1>4, <1>7 DEF Remote!Fail
  <2>. QED
    BY <2>1 DEF Remote!Next
<1>8. CASE /\ d.op = c.op /\ d.acts = c.acts
           /\ PhaseOf(c.stage) = "active" /\ PhaseOf(d.stage) = "succeeded" /\ (c.op.checked => c.acts > 0)
  <2>1. Remote!Succeed(p)
    BY <1>1, <1>3, <1>4, <1>8 DEF Remote!Succeed
  <2>. QED
    BY <2>1 DEF Remote!Next
<1>9. CASE /\ d.op = c.op /\ PhaseOf(d.stage) = PhaseOf(c.stage) /\ PhaseOf(c.stage) \in {"active", "failed"}
           /\ c.acts < Bound(c.op) /\ d.acts = c.acts + 1
  <2>1. Remote!Act(p)
    BY <1>1, <1>3, <1>4, <1>9 DEF Remote!Act, Bound
  <2>. QED
    BY <2>1 DEF Remote!Next
<1>. QED
  BY <1>5, <1>6, <1>7, <1>8, <1>9 DEF CallStep, RemoteStep

LEMMA NextRemote == IInv /\ [Next]_vars => Remote!Next \/ UNCHANGED Remote!vars
<1>. SUFFICES ASSUME IInv, [Next]_vars PROVE Remote!Next \/ UNCHANGED Remote!vars
  OBVIOUS
<1>1. CASE UNCHANGED call
  BY <1>1 DEF Remote!vars
<1>. QED
  BY <1>1, Steps, CallStepRemote

-----------------------------------------------------------------------------

\* What the wrapper, the tokens and the resolution of the unit keep true of every call
\* and of the cache, whatever programs run.
THEOREM CallInvariance == Spec => []IInv
<1>. QED
  BY InitIInv, NextIInv, PTL DEF Spec

\* Every step of the client library, its retries, lost answers and late requests
\* included, is one RemoteCall allows or changes nothing it knows: for any sessions,
\* processes, programs, MaxRetries and MaxFaults.
THEOREM CallsImplement == Spec => CallsImplementRemoteCall
  BY InitRemote, NextRemote, CallInvariance, PTL DEF Spec, CallsImplementRemoteCall, Remote!Spec

\* The cache of the process has a region's own unit or nothing, and nothing while a unit
\* is configured, whatever the threads of one client store meanwhile.
THEOREM UnitsAreKeyed == Spec => []UnitCacheKeyed
<1>. IInv => UnitCacheKeyed
  BY DEF IInv, UnitInv
<1>. QED
  BY CallInvariance, PTL

-----------------------------------------------------------------------------
(* The programs: where one stands, what it has in hand and what it was     *)
(* answered, as predicates of its record g, of its call c, of what it was  *)
(* told t, and of whether the object store has its upload.                 *)

\* Where a program of a kind can stand.
Places(g) ==
    /\ g.kind \in {"refresh", "forget", "cancel", "query", "attach", "status"} => g.asked \in Session
    /\ g.ws => g.kind \in {"ls", "ls_tables", "library"}
    /\ g.kind \in {"send", "send_legacy"} =>
         g.pc \in {"send", "agent", "precreate", "message", "poll_tail", "polled", "done", "failed"}
    /\ g.kind = "cancel" => g.pc \in {"cancel", "described", "cancelled", "done", "failed"}
    /\ g.kind = "release" => g.pc \in {"script", "done", "failed"}
    /\ g.pc \in {"followup", "followed", "generated", "completed"} => g.kind \in {"db", "file"}
    /\ g.pc \in {"query", "queried"} => g.kind \in {"attach", "query"}
    /\ g.pc \in {"attach", "attached", "watch", "confirm", "confirmed", "look", "looked"} => g.kind = "attach"
    /\ g.pc = "cancel" => g.kind = "cancel"
    /\ g.pc = "stream" => g.kind \in {"db", "file", "query", "attach"}
    /\ g.pc \in {"send", "agent", "precreate", "message"} => g.kind \in {"send", "send_legacy", "db", "file"}
    /\ g.pc \in {"ask", "check", "validate", "create", "poll", "handed"} =>
         g.kind \in {"session", "reuse_async", "attach"}
    /\ g.pc = "create" => g.asked = none \/ g.kind = "reuse_async"

\* What a program has in hand where it stands.
InHand(g) ==
    /\ g.turn + g.left <= 3 /\ (g.pc = "followup" => g.left > 0)
    /\ g.kind \in {"db", "file"} /\ g.pc \notin Final => g.seen = {}
    /\ g.result = "completed" => \A e \in g.seen : e[2] = "ask" /\ e[1] > 1 /\ g.kind = "db"
    /\ g.pc \in {"poll_tail", "polled", "stream", "followup", "followed", "watch", "confirm", "confirmed",
                 "look", "looked", "handed", "queried"} => g.ses \in Session
    /\ g.pc \in {"poll_tail", "polled"} => g.sent > 0
    /\ g.pc \notin {"polled"} \cup Final => g.last = none

\* The operation it waits for there.
Waits(g, c) ==
    /\ g.pc \in {"check", "validate", "refreshed", "attached"} => c.op = DescribeSession /\ c.arg = g.asked
    /\ g.pc = "poll" => /\ c.op = DescribeSession
                        /\ g.kind # "reuse_async" /\ g.asked # none => c.arg = g.asked
    /\ g.pc = "polled" => c.op = DescribeSession /\ c.arg = g.ses
    /\ g.pc \in {"create", "precreate"} => c.op = CreateSession
    /\ g.pc = "message" => c.op = SendMessage
    /\ g.pc = "cancelled" => c.op = CancelMessage
    /\ g.pc = "callback" => c.op = FileUploadCallback
    /\ g.kind = "release" /\ g.step = 1 => c.op.checked /\ c.stage # "none"
    /\ g.pc \in {"handed", "done", "failed"} => c.stage \in {"none", "returned", "raised"}

\* What the answer of a call says, and what it has found out.
Answers(c, t) ==
    /\ c.op = DescribeSession => c.arg \in Session
    /\ c.op = DescribeSession /\ c.answer = "ok" =>
         /\ c.stage \in {"answered", "returned"} /\ c.got \in ServiceStatus
         /\ t = {<<c.arg, normalize_session_status(c.got)>>}
    /\ c.op = CreateSession /\ c.answer = "ok" => c.got \in Session
    /\ c.op = SendMessage /\ c.answer = "ok" /\ c.arg = none => c.got \in Session
    /\ c.op \in {SendMessage, CancelMessage, FileUploadCallback} /\ c.answer = "ok" => c.acts > 0
    /\ c.op.checked /\ c.stage = "returned" => c.answer = "ok" /\ c.acts > 0
    /\ c.init \/ c.stage = "workspace" => c.unit \in Region \cup {"config"}

\* What exit code 0 says.
Finished(g, c, t) ==
    /\ g.kind \in {"send", "send_legacy"} => g.sent > 0 /\ (g.wait => <<g.ses, "IDLE">> \in t)
    /\ g.kind \in {"cancel", "release"} => c.acts > 0

\* What it ends with.
Ends(g, c, t) ==
    /\ g.pc = "handed" =>
         /\ g.kind # "reuse_async" /\ g.asked # none => g.ses = g.asked
         /\ g.wait => \E st \in SessionStatus : is_running(st) /\ <<g.ses, st>> \in t
    /\ g.pc = "polled" /\ g.last = "IDLE" /\ c.answer # "ok" => <<g.ses, "IDLE">> \in t
    /\ g.pc = "done" => Finished(g, c, t)

\* A file that is registered, or about to be, is stored, and cmd_upload ends with what
\* the registration answered.
HasFile(g, c, has) ==
    /\ g.id \in {"registered", "directory"} \/ c.op = FileUploadCallback \/ g.pc = "callback" => has
    /\ g.kind = "upload" /\ g.id = "registered" => g.pc \in Final /\ c.acts > 0

Fits(g, c, t, has) ==
    /\ g \in ProgType /\ c \in CallType /\ t \subseteq Session \X SessionStatus
    /\ Places(g) /\ InHand(g) /\ Waits(g, c) /\ Answers(c, t) /\ Ends(g, c, t) /\ HasFile(g, c, has)

PInv ==
    /\ prog = [p \in Proc |-> prog[p]]
    /\ \A p \in Proc : Fits(prog[p], call[p], told[p], p \in stored)
    /\ TypeOK

-----------------------------------------------------------------------------
(* What the proofs need to know of operations, programs and calls.         *)

\* The operations that the programs tell apart.
LEMMA OperationsDiffer ==
    /\ DescribeSession.name = "describe_session" /\ CreateSession.name = "create_session"
    /\ SendMessage.name = "send_message" /\ CancelMessage.name = "cancel_message"
    /\ FileUploadCallback.name = "file_upload_callback"
    /\ GetFileUploadSignature.name = "get_file_upload_signature" /\ DeleteFile.name = "delete_file"
    /\ ListFiles.name = "list_files"
    /\ DeleteDataAgent.name = "delete_data_agent" /\ DeleteDataAgent.checked
    /\ CreateSession.checked /\ ~SendMessage.checked /\ ~DescribeSession.checked /\ ~CancelMessage.checked
    /\ CreateSession.acts /\ SendMessage.acts /\ CancelMessage.acts /\ ~DescribeSession.acts
    /\ ~SendMessage.token /\ ~CancelMessage.token /\ ~CreateSession.retries
    /\ FileUploadCallback.acts /\ FileUploadCallback.token
    /\ DescribeSession.tag = "none" /\ DescribeSession.unit
    /\ ~DescribeSession.workspace /\ ~CreateSession.workspace /\ ~SendMessage.workspace
BY DEF DescribeSession, CreateSession, SendMessage, CancelMessage, FileUploadCallback, DeleteDataAgent,
       GetFileUploadSignature, DeleteFile, ListFiles, Write, UnitRead, Read

\* All but where a program stands is as before.
Rest(g, h) ==
    /\ h.kind = g.kind /\ h.asked = g.asked /\ h.region = g.region /\ h.ws = g.ws /\ h.wait = g.wait
    /\ h.ses = g.ses /\ h.id = g.id /\ h.step = g.step /\ h.fate = g.fate /\ h.count = g.count
    /\ h.idle = g.idle /\ h.last = g.last /\ h.turn = g.turn /\ h.left = g.left /\ h.seen = g.seen
    /\ h.sent = g.sent /\ h.result = g.result

LEMMA PcChanges ==
    ASSUME NEW p \in Proc, PInv, NEW pc \in Place, prog' = [prog EXCEPT ![p].pc = pc]
    PROVE  /\ prog' = [prog EXCEPT ![p] = prog'[p]] /\ prog'[p] \in ProgType
           /\ prog'[p].pc = pc /\ Rest(prog[p], prog'[p])
<1>1. prog[p] \in ProgType /\ prog = [q \in Proc |-> prog[q]]
  BY DEF PInv, Fits
<1>2. prog'[p] = [prog[p] EXCEPT !.pc = pc] /\ prog' = [prog EXCEPT ![p] = prog'[p]]
  BY <1>1
<1>. DEFINE g == prog[p]
            h == [g EXCEPT !.pc = pc]
<1>3. h \in ProgType /\ h.pc = pc /\ Rest(g, h)
  <2>1. g \in ProgType
    BY <1>1
  <2>. HIDE DEF g
  <2>. QED
    BY <2>1 DEF ProgType, Rest
<1>. QED
  BY <1>2, <1>3

IsNew(c, op, arg) ==
    /\ c.op = op /\ c.arg = arg /\ c.stage = "begun" /\ c.answer = "none" /\ c.acts = 0 /\ c.init = FALSE

LEMMA NewCalls ==
    ASSUME NEW p \in Proc, IInv, NEW op \in Operation, NEW arg \in Session \cup {none}, NEW region \in Region,
           call' = [call EXCEPT ![p] = NewCall(op, arg, region)],
           op = DescribeSession => arg \in Session
    PROVE  /\ call' = [call EXCEPT ![p] = call'[p]] /\ call'[p] \in CallType
           /\ IsNew(call'[p], op, arg) /\ \A t : Answers(call'[p], t)
<1>1. call' = [call EXCEPT ![p] = call'[p]] /\ call'[p] = NewCall(op, arg, region)
  BY DEF IInv
<1>. DEFINE c == NewCall(op, arg, region)
<1>2. c \in CallType
  <2>1. NoCall \in CallType
    <3>1. 0 \in 0..MaxRetries /\ 0 \in Nat /\ {} \in SUBSET Nat /\ "none" \in Stage /\ "home" \in Region
      BY ClientAssumption DEF Stage, Region
    <3>. QED
      BY <3>1 DEF NoCall, CallType
  <2>2. "begun" \in Stage
    BY DEF Stage
  <2>. QED
    BY <2>1, <2>2 DEF NewCall, CallType
<1>3. IsNew(c, op, arg)
  BY DEF IsNew, NewCall, NoCall
<1>4. \A t : Answers(c, t)
  <2>. HIDE DEF c
  <2>. QED
    BY <1>3 DEF IsNew, Answers
<1>. QED
  BY <1>1, <1>2, <1>3, <1>4

-----------------------------------------------------------------------------
(* The steps of a program.                                                 *)

\* A step concerns p alone, and what it makes of p fits again.
Local(p) ==
    /\ prog' = [prog EXCEPT ![p] = prog'[p]] /\ call' = [call EXCEPT ![p] = call'[p]]
    /\ told' = [told EXCEPT ![p] = told'[p]] /\ stored' \in {stored, stored \cup {p}}
    /\ Fits(prog'[p], call'[p], told'[p], p \in stored')

Holds(g, c, t, has) == Places(g) /\ InHand(g) /\ Waits(g, c) /\ Ends(g, c, t) /\ HasFile(g, c, has)

\* What is known of p when it makes a step of its own.
Rests(c) == c.stage \in {"none", "returned", "raised"}

Before(p) ==
    /\ prog[p] \in ProgType /\ call[p] \in CallType /\ told[p] \subseteq Session \X SessionStatus
    /\ Holds(prog[p], call[p], told[p], p \in stored) /\ Answers(call[p], told[p]) /\ CallInv(call[p])
    /\ Rests(call[p])

LEMMA BeforeStep ==
    ASSUME NEW p \in Proc, PInv, IInv, Over(p) \/ call[p].stage = "none"
    PROVE  Before(p)
BY DEF PInv, IInv, Fits, Holds, Before, Rests, Over, Returned, Raised

LEMMA GotoLocal ==
    ASSUME NEW p \in Proc, PInv, IInv, prog' = [prog EXCEPT ![p] = prog'[p]], prog'[p] \in ProgType,
           UNCHANGED <<call, told>>, stored' \in {stored, stored \cup {p}},
           Holds(prog'[p], call[p], told[p], p \in stored')
    PROVE  Local(p)
<1>1. call' = [call EXCEPT ![p] = call'[p]] /\ told' = [told EXCEPT ![p] = told'[p]]
  BY DEF PInv, IInv, TypeOK
<1>. QED
  BY <1>1 DEF Local, PInv, Fits, Holds

LEMMA CallLocal ==
    ASSUME NEW p \in Proc, PInv, IInv, prog' = [prog EXCEPT ![p] = prog'[p]], prog'[p] \in ProgType,
           NEW op \in Operation, NEW arg \in Session \cup {none}, NEW region \in Region,
           call' = [call EXCEPT ![p] = NewCall(op, arg, region)], op = DescribeSession => arg \in Session,
           UNCHANGED told, stored' \in {stored, stored \cup {p}},
           IsNew(call'[p], op, arg) => Holds(prog'[p], call'[p], told[p], p \in stored')
    PROVE  Local(p)
<1>1. told' = [told EXCEPT ![p] = told'[p]]
  BY DEF PInv, TypeOK
<1>2. /\ call' = [call EXCEPT ![p] = call'[p]] /\ call'[p] \in CallType
      /\ IsNew(call'[p], op, arg) /\ Answers(call'[p], told[p])
  BY NewCalls
<1>. QED
  BY <1>1, <1>2 DEF Local, PInv, Fits, Holds

\* A program that ends.
LEMMA EndLocal ==
    ASSUME NEW p \in Proc, PInv, IInv, NEW pc \in {"done", "failed"}, Goto(p, pc),
           Over(p) \/ call[p].stage = "none", UNCHANGED told, stored' \in {stored, stored \cup {p}},
           pc = "done" => Finished(prog[p], call[p], told[p])
    PROVE  Local(p)
<1>. DEFINE g == prog[p]
            h == prog'[p]
<1>1. Before(p)
  BY BeforeStep
<1>2. prog' = [prog EXCEPT ![p] = h] /\ h \in ProgType /\ h.pc = pc /\ Rest(g, h) /\ UNCHANGED call
  <2>1. pc \in Place
    BY DEF Place, Final
  <2>. QED
    BY <2>1, PcChanges DEF Goto
<1>3. Ends(h, call[p], told[p])
  BY <1>2 DEF Ends, Finished, Rest
<1>4. Holds(h, call[p], told[p], p \in stored')
  BY <1>1, <1>2, <1>3 DEF Before, Holds, Places, InHand, Waits, Rests, HasFile, Rest, Final
<1>. QED
  BY <1>2, <1>4, GotoLocal

\* The program can go to pc, without an operation or with one.
CanGo(p, pc, has) == \A h : h.pc = pc /\ Rest(prog[p], h) => Holds(h, call[p], told[p], has)

CanCall(p, pc, op, arg, has) ==
    \A h, c : h.pc = pc /\ Rest(prog[p], h) /\ IsNew(c, op, arg) => Holds(h, c, told[p], has)

LEMMA GoLocal ==
    ASSUME NEW p \in Proc, PInv, IInv, NEW pc \in Place, Goto(p, pc), UNCHANGED told,
           stored' \in {stored, stored \cup {p}}, CanGo(p, pc, p \in stored')
    PROVE  Local(p)
<1>1. /\ prog' = [prog EXCEPT ![p] = prog'[p]] /\ prog'[p] \in ProgType
      /\ prog'[p].pc = pc /\ Rest(prog[p], prog'[p]) /\ UNCHANGED call
  BY PcChanges DEF Goto
<1>2. Holds(prog'[p], call[p], told[p], p \in stored')
  BY <1>1 DEF CanGo
<1>. QED
  BY <1>1, <1>2, GotoLocal

LEMMA AnotherLocal ==
    ASSUME NEW p \in Proc, PInv, IInv, NEW pc \in Place, NEW op \in Operation, NEW arg \in Session \cup {none},
           Call(p, pc, op, arg), op = DescribeSession => arg \in Session, UNCHANGED told,
           stored' \in {stored, stored \cup {p}}, CanCall(p, pc, op, arg, p \in stored')
    PROVE  Local(p)
<1>1. /\ prog' = [prog EXCEPT ![p] = prog'[p]] /\ prog'[p] \in ProgType
      /\ prog'[p].pc = pc /\ Rest(prog[p], prog'[p])
      /\ call' = [call EXCEPT ![p] = NewCall(op, arg, "home")]
  BY PcChanges DEF Call
<1>2. IsNew(call'[p], op, arg) => Holds(prog'[p], call'[p], told[p], p \in stored')
  BY <1>1 DEF CanCall
<1>3. "home" \in Region
  BY DEF Region
<1>. QED
  BY <1>1, <1>2, <1>3, CallLocal

LEMMA ProgramOperations ==
    /\ DescribeSession \in Operation /\ CreateSession \in Operation /\ SendMessage \in Operation
    /\ CancelMessage \in Operation /\ GetFileUploadSignature \in Operation
    /\ FileUploadCallback \in Operation /\ ListFiles \in Operation /\ DeleteFile \in Operation
BY DEF Operation

LEMMA AskLocal ==
    ASSUME NEW p \in Proc, PInv, IInv, Ask(p), UNCHANGED <<told, stored>>
    PROVE  Local(p)
<1>. USE DEF Holds, Places, InHand, Waits, Ends, HasFile, Rest, IsNew, Final
<1>. DEFINE s == prog[p].asked
<1>1. Before(p) /\ s \in Session \cup {none} /\ prog[p].pc = "ask"
  BY BeforeStep DEF Ask, At, Before, ProgType
<1>2. CASE s # none /\ Call(p, "check", DescribeSession, s)
  <2>1. CanCall(p, "check", DescribeSession, s, p \in stored)
    BY <1>1, <1>2, OperationsDiffer DEF Before, CanCall
  <2>. QED
    BY <1>1, <1>2, <2>1, AnotherLocal, ProgramOperations DEF Place
<1>3. CASE s # none /\ Call(p, "validate", DescribeSession, s)
  <2>1. CanCall(p, "validate", DescribeSession, s, p \in stored)
    BY <1>1, <1>3, OperationsDiffer DEF Before, CanCall
  <2>. QED
    BY <1>1, <1>3, <2>1, AnotherLocal, ProgramOperations DEF Place
<1>4. CASE s = none /\ Call(p, "create", CreateSession, none)
  <2>1. CanCall(p, "create", CreateSession, none, p \in stored)
    BY <1>1, <1>4, OperationsDiffer DEF Before, CanCall
  <2>. QED
    BY <1>1, <1>4, <2>1, AnotherLocal, ProgramOperations, OperationsDiffer DEF Place
<1>. QED
  BY <1>2, <1>3, <1>4 DEF Ask

LEMMA TakesSession ==
    ASSUME NEW g \in ProgType, NEW pc \in Place, NEW s \in Session \cup {none}
    PROVE  [g EXCEPT !.pc = pc, !.ses = s] \in ProgType
BY DEF ProgType

\* The session is handed out.
HandedOut(p, s) == prog' = [prog EXCEPT ![p].pc = "handed", ![p].ses = s] /\ UNCHANGED call

LEMMA HandLocal ==
    ASSUME NEW p \in Proc, PInv, IInv, Before(p), NEW s \in Session, HandedOut(p, s), UNCHANGED <<told, stored>>,
           prog[p].kind \in {"session", "reuse_async", "attach"}, prog[p].last = none,
           prog[p].kind # "reuse_async" /\ prog[p].asked # none => s = prog[p].asked,
           prog[p].wait => \E st \in SessionStatus : is_running(st) /\ <<s, st>> \in told[p]
    PROVE  Local(p)
<1>. DEFINE h == [prog[p] EXCEPT !.pc = "handed", !.ses = s]
<1>1. prog' = [prog EXCEPT ![p] = prog'[p]] /\ prog'[p] = h
  BY DEF PInv, HandedOut
<1>2. h \in ProgType
  BY TakesSession DEF Before, Place
<1>3. Holds(h, call[p], told[p], p \in stored)
  BY DEF Before, Holds, Places, InHand, Waits, Ends, HasFile, Rests, ProgType
<1>. QED
  BY <1>1, <1>2, <1>3, GotoLocal DEF HandedOut

\* Only a description that was given can say that a session is running.
LEMMA DescribedRunning ==
    ASSUME NEW p, call[p].op = DescribeSession, Answers(call[p], told[p]), is_running(Described(p))
    PROVE  /\ call[p].arg \in Session
           /\ \E st \in SessionStatus : is_running(st) /\ <<call[p].arg, st>> \in told[p]
<1>1. call[p].answer = "ok" /\ Described(p) = normalize_session_status(call[p].got)
  BY DEF Described, is_running
<1>2. Described(p) \in SessionStatus
  BY <1>1 DEF normalize_session_status, SessionStatus
<1>3. <<call[p].arg, Described(p)>> \in told[p] /\ call[p].arg \in Session
  BY <1>1 DEF Answers
<1>. QED
  BY <1>2, <1>3

LEMMA CheckedLocal ==
    ASSUME NEW p \in Proc, PInv, IInv, Checked(p), UNCHANGED <<told, stored>>
    PROVE  Local(p)
<1>. DEFINE s == prog[p].asked
<1>1. /\ Before(p) /\ prog[p].pc = "check" /\ prog[p].last = none
      /\ call[p].op = DescribeSession /\ call[p].arg = s /\ Answers(call[p], told[p])
      /\ prog[p].kind \in {"session", "reuse_async", "attach"}
  BY BeforeStep DEF Checked, At, Before, Holds, Waits, InHand, Places, Final
<1>2. s \in Session
  BY <1>1 DEF Answers
<1>3. CASE IsSessionActive(p)
  <2>1. \E st \in SessionStatus : is_running(st) /\ <<s, st>> \in told[p]
    BY <1>1, <1>3, DescribedRunning DEF IsSessionActive
  <2>2. HandedOut(p, s)
    BY <1>3 DEF Checked, HandedOut
  <2>. QED
    BY <1>1, <1>2, <2>1, <2>2, HandLocal
<1>4. CASE ~IsSessionActive(p)
  <2>1. CanCall(p, "validate", DescribeSession, s, p \in stored)
    BY <1>1, <1>2, OperationsDiffer
    DEF Before, CanCall, Holds, Places, InHand, Waits, Ends, HasFile, Rest, IsNew, Final
  <2>. QED
    BY <1>2, <1>4, <2>1, AnotherLocal, ProgramOperations DEF Checked, Place
<1>. QED
  BY <1>3, <1>4

LEMMA ValidatedLocal ==
    ASSUME NEW p \in Proc, PInv, IInv, Validated(p), UNCHANGED <<told, stored>>
    PROVE  Local(p)
<1>. DEFINE s == prog[p].asked
<1>1. /\ Before(p) /\ prog[p].pc = "validate" /\ prog[p].last = none
      /\ call[p].op = DescribeSession /\ call[p].arg = s /\ Answers(call[p], told[p])
      /\ prog[p].kind \in {"session", "reuse_async", "attach"} /\ prog[p].wait \in BOOLEAN
  BY BeforeStep DEF Validated, At, Before, Holds, Waits, InHand, Places, Final, ProgType
<1>2. s \in Session
  BY <1>1 DEF Answers
<1>3. CASE Call(p, "poll", DescribeSession, s)
  <2>1. CanCall(p, "poll", DescribeSession, s, p \in stored)
    BY <1>1, <1>2, OperationsDiffer
    DEF Before, CanCall, Holds, Places, InHand, Waits, Ends, HasFile, Rest, IsNew, Final
  <2>. QED
    BY <1>2, <1>3, <2>1, AnotherLocal, ProgramOperations DEF Place
<1>4. CASE Returned(p) /\ (is_running(Described(p)) \/ ~prog[p].wait) /\ Keep(p, s)
  <2>1. prog[p].wait => \E st \in SessionStatus : is_running(st) /\ <<s, st>> \in told[p]
    BY <1>1, <1>4, DescribedRunning
  <2>2. HandedOut(p, s)
    BY <1>4 DEF Keep, HandedOut
  <2>. QED
    BY <1>1, <1>2, <2>1, <2>2, HandLocal
<1>5. CASE Fail(p)
  BY <1>5, EndLocal DEF Fail, Validated, At
<1>. QED
  BY <1>3, <1>4, <1>5 DEF Validated

LEMMA ValidatedAsyncLocal ==
    ASSUME NEW p \in Proc, PInv, IInv, ValidatedAsync(p), UNCHANGED <<told, stored>>
    PROVE  Local(p)
<1>. DEFINE s == prog[p].asked
<1>1. /\ Before(p) /\ prog[p].pc = "validate" /\ prog[p].last = none /\ prog[p].kind = "reuse_async"
      /\ call[p].op = DescribeSession /\ call[p].arg = s /\ Answers(call[p], told[p])
  BY BeforeStep DEF ValidatedAsync, At, Before, Holds, Waits, InHand, Final
<1>2. s \in Session
  BY <1>1 DEF Answers
<1>3. CASE is_running(Described(p)) /\ Keep(p, s)
  <2>1. \E st \in SessionStatus : is_running(st) /\ <<s, st>> \in told[p]
    BY <1>1, <1>3, DescribedRunning
  <2>2. HandedOut(p, s)
    BY <1>3 DEF Keep, HandedOut
  <2>. QED
    BY <1>1, <1>2, <2>1, <2>2, HandLocal
<1>4. CASE Call(p, "create", CreateSession, none)
  <2>1. CanCall(p, "create", CreateSession, none, p \in stored)
    BY <1>1, OperationsDiffer
    DEF Before, CanCall, Holds, Places, InHand, Waits, Ends, HasFile, Rest, IsNew, Final
  <2>. QED
    BY <1>4, <2>1, AnotherLocal, ProgramOperations, OperationsDiffer DEF Place
<1>. QED
  BY <1>3, <1>4 DEF ValidatedAsync

LEMMA NewSessionLocal ==
    ASSUME NEW p \in Proc, PInv, IInv, NewSession(p), UNCHANGED <<told, stored>>
    PROVE  Local(p)
<1>. DEFINE s == call[p].got
<1>1. /\ Before(p) /\ prog[p].pc = "create" /\ prog[p].last = none
      /\ call[p].op = CreateSession /\ Answers(call[p], told[p])
      /\ prog[p].kind \in {"session", "reuse_async", "attach"}
      /\ prog[p].asked = none \/ prog[p].kind = "reuse_async"
  BY BeforeStep DEF NewSession, At, Before, Holds, Waits, InHand, Places, Final
<1>2. Returned(p) => s \in Session
  BY <1>1, OperationsDiffer DEF Answers, Returned
<1>3. CASE Raised(p) /\ Fail(p)
  BY <1>3, EndLocal DEF Fail, NewSession, At
<1>4. CASE Returned(p) /\ ~(prog[p].wait /\ ~is_running(Created(p))) /\ Keep(p, s)
  <2>1. ASSUME prog[p].wait
        PROVE  \E st \in SessionStatus : is_running(st) /\ <<s, st>> \in told[p]
    BY <1>4, <2>1 DEF Created, is_running, SessionStatus
  <2>2. HandedOut(p, s)
    BY <1>4 DEF Keep, HandedOut
  <2>. QED
    BY <1>1, <1>2, <1>4, <2>1, <2>2, HandLocal
<1>5. CASE Returned(p) /\ Call(p, "poll", DescribeSession, s)
  <2>1. CanCall(p, "poll", DescribeSession, s, p \in stored)
    BY <1>1, OperationsDiffer
    DEF Before, CanCall, Holds, Places, InHand, Waits, Ends, HasFile, Rest, IsNew, Final
  <2>. QED
    BY <1>2, <1>5, <2>1, AnotherLocal, ProgramOperations DEF Place
<1>. QED
  BY <1>3, <1>4, <1>5 DEF NewSession

LEMMA CountsPolls ==
    ASSUME NEW g \in ProgType
    PROVE  [g EXCEPT !.count = IF @ < MaxPolls THEN @ + 1 ELSE @] \in ProgType
BY SessionsAssumption DEF ProgType

LEMMA WaitedLocal ==
    ASSUME NEW p \in Proc, PInv, IInv, Waited(p), UNCHANGED <<told, stored>>
    PROVE  Local(p)
<1>. DEFINE g == prog[p]
            s == call[p].arg
<1>1. /\ Before(p) /\ g.pc = "poll" /\ g.last = none
      /\ call[p].op = DescribeSession /\ Answers(call[p], told[p])
      /\ g.kind \in {"session", "reuse_async", "attach"}
      /\ g.kind # "reuse_async" /\ g.asked # none => s = g.asked
  BY BeforeStep DEF Waited, At, Before, Holds, Waits, InHand, Places, Final
<1>2. s \in Session
  BY <1>1 DEF Answers
<1>3. CASE is_running(Described(p)) /\ Keep(p, s)
  <2>1. \E st \in SessionStatus : is_running(st) /\ <<s, st>> \in told[p]
    BY <1>1, <1>3, DescribedRunning
  <2>2. HandedOut(p, s)
    BY <1>3 DEF Keep, HandedOut
  <2>. QED
    BY <1>1, <1>2, <2>1, <2>2, HandLocal
<1>4. CASE Fail(p)
  BY <1>4, EndLocal DEF Fail, Waited, At
<1>5. CASE /\ prog' = [prog EXCEPT ![p].count = IF @ < MaxPolls THEN @ + 1 ELSE @]
           /\ call' = [call EXCEPT ![p] = NewCall(DescribeSession, s, "home")]
  <2>. DEFINE h == [g EXCEPT !.count = IF @ < MaxPolls THEN @ + 1 ELSE @]
  <2>1. prog' = [prog EXCEPT ![p] = prog'[p]] /\ prog'[p] = h
    BY <1>5 DEF PInv
  <2>2. h \in ProgType
    BY <1>1, CountsPolls DEF Before
  <2>3. IsNew(call'[p], DescribeSession, s) => Holds(h, call'[p], told[p], p \in stored)
    <3>1. /\ h.kind = g.kind /\ h.asked = g.asked /\ h.ws = g.ws /\ h.pc = g.pc /\ h.id = g.id
          /\ h.step = g.step /\ h.turn = g.turn /\ h.left = g.left /\ h.seen = g.seen /\ h.last = g.last
          /\ h.result = g.result
      BY <1>1 DEF Before, ProgType
    <3>. HIDE DEF h
    <3>. QED
      BY <1>1, <3>1, OperationsDiffer
      DEF Before, Holds, Places, InHand, Waits, Ends, HasFile, IsNew, Final
  <2>4. "home" \in Region
    BY DEF Region
  <2>. QED
    BY <1>2, <1>5, <2>1, <2>2, <2>3, <2>4, CallLocal, ProgramOperations
<1>. QED
  BY <1>3, <1>4, <1>5 DEF Waited

LEMMA RefreshLocal ==
    ASSUME NEW p \in Proc, PInv, IInv, Refresh(p), UNCHANGED <<told, stored>>
    PROVE  Local(p)
<1>1. Before(p) /\ prog[p].pc \in {"refresh", "refreshed"}
  BY BeforeStep DEF Refresh, At
<1>2. CASE prog[p].pc = "refresh" /\ prog[p].asked \in active /\ Call(p, "refreshed", DescribeSession, prog[p].asked)
  <2>1. prog[p].asked \in Session
    BY <1>2 DEF PInv, TypeOK
  <2>2. CanCall(p, "refreshed", DescribeSession, prog[p].asked, p \in stored)
    BY <1>1, <1>2, OperationsDiffer
    DEF Before, CanCall, Holds, Places, InHand, Waits, Ends, HasFile, Rest, IsNew, Final
  <2>. QED
    BY <1>2, <2>1, <2>2, AnotherLocal, ProgramOperations DEF Place
<1>3. CASE Fail(p)
  BY <1>3, EndLocal DEF Fail, Refresh, At
<1>4. CASE Goto(p, "done")
  <2>1. Finished(prog[p], call[p], told[p])
    BY <1>1 DEF Before, Holds, Places, Finished
  <2>. QED
    BY <1>4, <2>1, EndLocal DEF Refresh, At
<1>. QED
  BY <1>1, <1>2, <1>3, <1>4 DEF Refresh, At

LEMMA ForgetLocal ==
    ASSUME NEW p \in Proc, PInv, IInv, Forget(p), UNCHANGED <<told, stored>>
    PROVE  Local(p)
<1>1. Before(p) /\ prog[p].pc = "forget"
  BY BeforeStep DEF Forget, At
<1>2. Finished(prog[p], call[p], told[p])
  BY <1>1 DEF Before, Holds, Places, Finished
<1>. QED
  BY <1>2, EndLocal DEF Forget, At

LEMMA SessionLocal ==
    ASSUME NEW p \in Proc, PInv, IInv, SessionStep(p), UNCHANGED stored
    PROVE  Local(p)
<1>1. UNCHANGED told
  BY DEF SessionStep, ProgramOnly
<1>. QED
  BY <1>1, AskLocal, CheckedLocal, ValidatedLocal, ValidatedAsyncLocal, NewSessionLocal, WaitedLocal,
     RefreshLocal, ForgetLocal DEF SessionStep

\* The files.
LEMMA UploadLocal ==
    ASSUME NEW p \in Proc, PInv, IInv, Upload(p) \/ Signed(p), UNCHANGED told
    PROVE  Local(p)
<1>1. Before(p) /\ prog[p].pc \in {"upload", "signature"} /\ UNCHANGED stored
  BY BeforeStep DEF Upload, Signed, At
<1>2. CASE Call(p, "signature", GetFileUploadSignature, none)
  <2>1. CanCall(p, "signature", GetFileUploadSignature, none, p \in stored)
    BY <1>1, OperationsDiffer
    DEF Before, CanCall, Holds, Places, InHand, Waits, Ends, HasFile, Rest, IsNew, Final
  <2>. QED
    BY <1>1, <1>2, <2>1, AnotherLocal, ProgramOperations, OperationsDiffer DEF Place
<1>3. CASE Goto(p, "failed")
  BY <1>1, <1>3, EndLocal DEF Upload, Signed, At
<1>4. CASE Goto(p, "oss")
  <2>1. CanGo(p, "oss", p \in stored)
    BY <1>1 DEF Before, CanGo, Holds, Places, InHand, Waits, Ends, HasFile, Rest, Final
  <2>. QED
    BY <1>1, <1>4, <2>1, GoLocal DEF Place
<1>. QED
  BY <1>2, <1>3, <1>4 DEF Upload, Signed

LEMMA PostObjectLocal ==
    ASSUME NEW p \in Proc, PInv, IInv, PostObject(p), UNCHANGED told
    PROVE  Local(p)
<1>1. Before(p) /\ prog[p].pc = "oss"
  BY BeforeStep DEF PostObject, At
<1>2. CASE Call(p, "callback", FileUploadCallback, none) /\ stored' = stored \cup {p}
  <2>1. CanCall(p, "callback", FileUploadCallback, none, TRUE)
    BY <1>1, OperationsDiffer
    DEF Before, CanCall, Holds, Places, InHand, Waits, Ends, HasFile, Rest, IsNew, Final
  <2>2. CanCall(p, "callback", FileUploadCallback, none, p \in stored')
    BY <1>2, <2>1 DEF CanCall, Holds, HasFile
  <2>. QED
    BY <1>2, <2>2, AnotherLocal, ProgramOperations, OperationsDiffer DEF Place
<1>3. CASE Goto(p, "failed") /\ stored' \in {stored, stored \cup {p}}
  BY <1>3, EndLocal DEF PostObject, At
<1>. QED
  BY <1>2, <1>3 DEF PostObject

LEMMA UploadedLocal ==
    ASSUME NEW p \in Proc, PInv, IInv, Uploaded(p), UNCHANGED told
    PROVE  Local(p)
<1>. DEFINE g == prog[p]
            id == IF RegisteredId(p) THEN "registered" ELSE "directory"
            pc == IF g.kind = "file" THEN "send" ELSE "done"
            h == [g EXCEPT !.id = id, !.pc = pc]
<1>1. Before(p) /\ g.pc = "callback" /\ g \in ProgType /\ prog = [q \in Proc |-> prog[q]]
  BY BeforeStep DEF Uploaded, At, Before, PInv
<1>2. prog' = [prog EXCEPT ![p] = prog'[p]] /\ prog'[p] = h /\ UNCHANGED <<call, stored>>
  BY <1>1 DEF Uploaded
<1>3. h \in ProgType
  <2>1. id \in {"registered", "directory"} /\ pc \in Place
    BY DEF Place, Final
  <2>. HIDE DEF g, id, pc
  <2>. QED
    BY ZenonT(60), <1>1, <2>1 DEF ProgType
<1>4. /\ h.kind = g.kind /\ h.asked = g.asked /\ h.ws = g.ws /\ h.pc = pc /\ h.step = g.step
      /\ h.turn = g.turn /\ h.left = g.left /\ h.seen = g.seen /\ h.last = g.last /\ h.result = g.result
      /\ h.wait = g.wait /\ h.sent = g.sent /\ h.ses = g.ses /\ h.id = id
  BY <1>1 DEF ProgType
<1>5. id = "registered" => call[p].acts > 0
  BY <1>1 DEF Before, Holds, Waits, Answers, RegisteredId
<1>6. Holds(h, call[p], told[p], p \in stored)
  <2>. HIDE DEF h, id
  <2>. QED
    BY <1>1, <1>4, <1>5
    DEF Before, Holds, Places, InHand, Waits, Rests, Ends, Finished, HasFile, Final
<1>. QED
  BY <1>2, <1>3, <1>6, GotoLocal

LEMMA DeleteLocal ==
    ASSUME NEW p \in Proc, PInv, IInv, Delete(p), UNCHANGED told
    PROVE  Local(p)
<1>1. Before(p) /\ prog[p].pc \in {"delete", "listing", "deleting"} /\ UNCHANGED stored
  BY BeforeStep DEF Delete, At
<1>2. CASE Call(p, "listing", ListFiles, none)
  <2>1. CanCall(p, "listing", ListFiles, none, p \in stored)
    BY <1>1, OperationsDiffer
    DEF Before, CanCall, Holds, Places, InHand, Waits, Ends, HasFile, Rest, IsNew, Final
  <2>. QED
    BY <1>1, <1>2, <2>1, AnotherLocal, ProgramOperations, OperationsDiffer DEF Place
<1>3. CASE Call(p, "deleting", DeleteFile, none)
  <2>1. CanCall(p, "deleting", DeleteFile, none, p \in stored)
    BY <1>1, OperationsDiffer
    DEF Before, CanCall, Holds, Places, InHand, Waits, Ends, HasFile, Rest, IsNew, Final
  <2>. QED
    BY <1>1, <1>3, <2>1, AnotherLocal, ProgramOperations, OperationsDiffer DEF Place
<1>4. CASE Goto(p, "failed") \/ Goto(p, "done")
  <2>1. Finished(prog[p], call[p], told[p])
    BY <1>1 DEF Before, Holds, Places, Finished
  <2>. QED
    BY <1>1, <1>4, <2>1, EndLocal DEF Delete, At
<1>. QED
  BY <1>2, <1>3, <1>4 DEF Delete

LEMMA FileLocal ==
    ASSUME NEW p \in Proc, PInv, IInv, FileStep(p)
    PROVE  Local(p)
<1>1. UNCHANGED told
  BY DEF FileStep, ProgramOnly
<1>. QED
  BY <1>1, UploadLocal, PostObjectLocal, UploadedLocal, DeleteLocal DEF FileStep

\* The scripts.
LEMMA RewrittenField ==
    ASSUME NEW f, NEW S, f = [x \in S |-> f[x]]
    PROVE  [f EXCEPT !.workspace = f.workspace] = f
OBVIOUS

LEMMA NamedWorkspace ==
    /\ \A op \in {ResolveWorkspace, ListDatabases, ListTables, ListSessions} :
          InWorkspace(op) \in Operation /\ InWorkspace(op).name = op.name
    /\ \A op \in {GetChatContent, ListFileDatabases, ListFileTables} :
          InWorkspace(op) \in Operation /\ InWorkspace(op).name = op.name
<1>1. /\ InWorkspace(ResolveWorkspace).name = ResolveWorkspace.name
      /\ InWorkspace(ListDatabases).name = ListDatabases.name
      /\ InWorkspace(ListTables).name = ListTables.name
      /\ InWorkspace(ListSessions).name = ListSessions.name
  BY DEF InWorkspace, ResolveWorkspace, ListDatabases, ListTables, ListSessions, Read
<1>2. /\ InWorkspace(GetChatContent) = GetChatContent
      /\ InWorkspace(ListFileDatabases) = ListFileDatabases
      /\ InWorkspace(ListFileTables) = ListFileTables
  <2>1. ASSUME NEW n PROVE InWorkspace(Read(n)) = Read(n)
    <3>1. Read(n) = [x \in DOMAIN Read(n) |-> Read(n)[x]] /\ Read(n).workspace = FALSE
      BY DEF Read
    <3>. QED
      BY <3>1, RewrittenField DEF InWorkspace
  <2>. QED
    BY <2>1 DEF GetChatContent, ListFileDatabases, ListFileTables
<1>. QED
  BY <1>1, <1>2 DEF Operation

LEMMA ScriptOperations ==
    ASSUME NEW kind \in DOMAIN Script, NEW i \in 1..Len(Script[kind]), NEW ws \in BOOLEAN,
           ws => kind \in {"ls", "ls_tables", "library"}
    PROVE  LET op == Script[kind][i].op
               asks == IF ws THEN InWorkspace(op) ELSE op
           IN  /\ asks \in Operation /\ asks.name # "file_upload_callback"
               /\ asks.name = "describe_session" => kind = "status"
               /\ kind = "release" => asks = DeleteDataAgent
               /\ i <= 4
<1>. DEFINE op == Script[kind][i].op
<1>1. CASE kind \in {"agent_list", "agent_describe", "agent_create", "agent_update", "agent_publish"}
  <2>1. op \in {ListCustomAgents, DescribeCustomAgent, CreateCustomAgent, ModifyCustomAgent, OperateCustomAgent}
        /\ i <= 2
    <3>1. CASE kind \in {"agent_list", "agent_describe", "agent_publish"}
      BY <3>1 DEF Script, AgentList, AgentDescribe, AgentPublish, must
    <3>2. CASE kind \in {"agent_create", "agent_update"}
      <4>1. PICK agent \in {CreateCustomAgent, ModifyCustomAgent} :
                Script[kind] = <<must(agent), must(OperateCustomAgent)>>
        BY <3>2 DEF Script, AgentCreate, AgentUpdate
      <4>2. op \in {agent, OperateCustomAgent} /\ i <= 2
        BY <4>1 DEF must
      <4>. QED
        BY <4>2
    <3>. QED
      BY <1>1, <3>1, <3>2
  <2>2. op.name \in {"list_custom_agents", "describe_custom_agent", "create_custom_agent",
                     "modify_custom_agent", "operate_custom_agent"}
    BY <2>1 DEF ListCustomAgents, DescribeCustomAgent, CreateCustomAgent, ModifyCustomAgent,
                OperateCustomAgent, Write, UnitRead, Read
  <2>. QED
    BY <1>1, <2>1, <2>2 DEF Operation
<1>2. CASE kind \in {"import", "release", "workspace", "status"}
  <2>1. /\ i <= 1
        /\ \/ kind = "import" /\ op = AddDataCenterTable
           \/ kind = "release" /\ op = DeleteDataAgent
           \/ kind = "workspace" /\ op = ListWorkspaces
           \/ kind = "status" /\ op = DescribeSession
    BY <1>2 DEF Script, Import, Release, Workspaces, Status, must
  <2>2. /\ AddDataCenterTable.name = "add_data_center_table" /\ ListWorkspaces.name = "list_workspaces"
        /\ DeleteDataAgent.name = "delete_data_agent" /\ DescribeSession.name = "describe_session"
    BY DEF AddDataCenterTable, ListWorkspaces, DeleteDataAgent, DescribeSession, Write, UnitRead, Read
  <2>. QED
    BY <1>2, <2>1, <2>2 DEF Operation
<1>3. CASE kind \in {"reports", "attach"}
  <2>1. op = ListFiles /\ i <= 3
    <3>1. Script[kind] = <<tried(ListFiles), tried(ListFiles), tried(ListFiles)>>
      BY <1>3 DEF Script, Reports
    <3>. QED
      BY <3>1 DEF tried
  <2>. QED
    BY <1>3, <2>1, OperationsDiffer DEF Operation
<1>4. CASE kind \in {"ls", "ls_tables", "library"}
  <2>1. /\ op \in {ResolveWorkspace, ListDatabases, ListTables, ListSessions, GetChatContent,
                   ListFileDatabases, ListFileTables}
        /\ i <= 4
    <3>1. CASE kind = "library"
      <4>1. Script[kind] = <<must(ListSessions), must(GetChatContent), must(ListFileDatabases), must(ListFileTables)>>
        BY <3>1 DEF Script, Library
      <4>. QED
        BY <4>1 DEF must
    <3>2. CASE kind = "ls"
      <4>1. Script[kind] = <<must(ResolveWorkspace), must(ListDatabases)>>
        BY <3>2 DEF Script, Ls
      <4>. QED
        BY <4>1 DEF must
    <3>3. CASE kind = "ls_tables"
      <4>1. Script[kind] = <<must(ResolveWorkspace), must(ListTables), tried(ListDatabases)>>
        BY <3>3 DEF Script, LsTables
      <4>. QED
        BY <4>1 DEF must, tried
    <3>. QED
      BY <1>4, <3>1, <3>2, <3>3
  <2>2. op.name \in {"resolve_workspace", "list_databases", "list_tables", "list_sessions",
                     "get_chat_content", "list_file_databases", "list_file_tables"}
    <3>1. /\ ResolveWorkspace.name = "resolve_workspace" /\ ListDatabases.name = "list_databases"
          /\ ListTables.name = "list_tables" /\ ListSessions.name = "list_sessions"
      BY DEF ResolveWorkspace, ListDatabases, ListTables, ListSessions, Read
    <3>2. /\ GetChatContent.name = "get_chat_content"
          /\ ListFileDatabases.name = "list_file_databases" /\ ListFileTables.name = "list_file_tables"
      BY DEF GetChatContent, ListFileDatabases, ListFileTables, Read
    <3>. QED
      BY <2>1, <3>1, <3>2
  <2>3. op \in Operation /\ InWorkspace(op) \in Operation /\ InWorkspace(op).name = op.name
    BY <2>1, NamedWorkspace DEF Operation
  <2>. QED
    BY <1>4, <2>1, <2>2, <2>3
<1>5. kind \in {"agent_list", "agent_describe", "agent_create", "agent_update", "agent_publish", "import",
                "release", "ls", "ls_tables", "workspace", "status", "reports", "attach", "library"}
  BY DEF Script
<1>. QED
  BY <1>1, <1>2, <1>3, <1>4, <1>5

LEMMA ScriptsSend ==
    ASSUME NEW kind \in DOMAIN Script
    PROVE  Len(Script[kind]) > 0
<1>1. CASE kind \in {"agent_list", "agent_describe", "agent_publish", "import", "release", "workspace", "status"}
  <2>1. PICK s : Script[kind] = <<s>>
    BY <1>1 DEF Script, AgentList, AgentDescribe, AgentPublish, Import, Release, Workspaces, Status
  <2>. QED
    BY <2>1
<1>2. CASE kind \in {"agent_create", "agent_update", "ls"}
  <2>1. PICK s, t : Script[kind] = <<s, t>>
    BY <1>2 DEF Script, AgentCreate, AgentUpdate, Ls
  <2>. QED
    BY <2>1
<1>3. CASE kind \in {"ls_tables", "reports", "attach"}
  <2>1. PICK s, t, u : Script[kind] = <<s, t, u>>
    BY <1>3 DEF Script, LsTables, Reports
  <2>. QED
    BY <2>1
<1>4. CASE kind = "library"
  <2>1. PICK s, t, u, v : Script[kind] = <<s, t, u, v>>
    BY <1>4 DEF Script, Library
  <2>. QED
    BY <2>1
<1>5. kind \in {"agent_list", "agent_describe", "agent_create", "agent_update", "agent_publish", "import",
                "release", "ls", "ls_tables", "workspace", "status", "reports", "attach", "library"}
  BY DEF Script
<1>. QED
  BY <1>1, <1>2, <1>3, <1>4, <1>5

LEMMA TakesStep ==
    ASSUME NEW g \in ProgType, NEW n \in 0..4
    PROVE  [g EXCEPT !.step = n] \in ProgType
BY DEF ProgType

LEMMA RunScriptLocal ==
    ASSUME NEW p \in Proc, PInv, IInv, RunScript(p)
    PROVE  Local(p)
<1>. DEFINE g == prog[p]
            kind == g.kind
            script == Script[kind]
            InWs(op) == IF g.ws THEN InWorkspace(op) ELSE op
<1>1. /\ Before(p) /\ g.pc = "script" /\ kind \in DOMAIN Script /\ g \in ProgType
      /\ UNCHANGED <<told, stored>> /\ (Over(p) \/ call[p].stage = "none")
      /\ prog = [q \in Proc |-> prog[q]]
  BY BeforeStep DEF RunScript, At, Before, Quiet, ProgramOnly, Outside, PInv
<1>2. kind \notin {"send", "send_legacy", "cancel"}
  BY <1>1 DEF Before, Holds, Places
<1>3. CASE Goto(p, "failed")
  BY <1>1, <1>3, EndLocal
<1>4. CASE kind = "ls_tables" /\ Goto(p, "done")
  BY <1>1, <1>4, EndLocal DEF Finished
<1>5. CASE /\ g.step = Len(script) /\ g.step > 0 /\ (Raised(p) => ~script[g.step].strict) /\ Goto(p, g.fate)
  <2>1. ASSUME kind = "release" PROVE call[p].acts > 0
    <3>1. g.step = 1 /\ script[1].strict
      BY <1>5, <2>1 DEF Script, Release, must
    <3>2. Returned(p)
      BY <1>1, <1>5, <2>1, <3>1 DEF Before, Holds, Waits, Over
    <3>. QED
      BY <1>1, <2>1, <3>1, <3>2 DEF Before, Holds, Waits, Answers, Returned
  <2>2. Finished(g, call[p], told[p])
    BY <1>2, <2>1 DEF Finished
  <2>3. g.fate \in {"done", "failed"}
    BY <1>1 DEF ProgType
  <2>. QED
    BY <1>1, <1>5, <2>2, <2>3, EndLocal
<1>6. ASSUME NEW k \in 0..Len(script), g.step = k, k < Len(script),
             prog' = [prog EXCEPT ![p].step = k + 1],
             call' = [call EXCEPT ![p] = NewCall(InWs(script[k + 1].op), g.asked, g.region)]
      PROVE  Local(p)
  <2>. DEFINE h == [g EXCEPT !.step = k + 1]
              op == InWs(script[k + 1].op)
  <2>1. k + 1 \in 1..Len(script) /\ g.ws \in BOOLEAN /\ (g.ws => kind \in {"ls", "ls_tables", "library"})
    BY <1>1, <1>6 DEF ProgType, Before, Holds, Places
  <2>2. /\ op \in Operation /\ op.name # "file_upload_callback"
        /\ op.name = "describe_session" => kind = "status"
        /\ kind = "release" => op = DeleteDataAgent
        /\ k + 1 <= 4
    <3>. HIDE DEF kind
    <3>. QED
      BY <1>1, <2>1, ScriptOperations
  <2>3. prog' = [prog EXCEPT ![p] = prog'[p]] /\ prog'[p] = h /\ h \in ProgType
    <3>1. k + 1 \in 0..4
      BY <2>1, <2>2
    <3>. QED
      BY <1>1, <1>6, <3>1, TakesStep
  <2>4. op = DescribeSession => g.asked \in Session
    BY <1>1, <2>2, OperationsDiffer DEF Before, Holds, Places
  <2>5. IsNew(call'[p], op, g.asked) => Holds(h, call'[p], told[p], p \in stored)
    <3>1. /\ h.kind = g.kind /\ h.asked = g.asked /\ h.ws = g.ws /\ h.pc = g.pc /\ h.id = g.id
          /\ h.turn = g.turn /\ h.left = g.left /\ h.seen = g.seen /\ h.last = g.last
          /\ h.result = g.result
      BY <1>1 DEF ProgType
    <3>. HIDE DEF h, op
    <3>. QED
      BY <1>1, <2>2, <3>1, OperationsDiffer
      DEF Before, Holds, Places, InHand, Waits, Ends, HasFile, IsNew, Final
  <2>6. g.asked \in Session \cup {none} /\ g.region \in Region
    BY <1>1 DEF ProgType
  <2>. HIDE DEF op, h
  <2>. QED
    BY <1>1, <1>6, <2>2, <2>3, <2>4, <2>5, <2>6, CallLocal DEF op
<1>7. PICK k \in 0..Len(script) :
        /\ g.step = k
        /\ \/ Goto(p, "failed")
           \/ kind = "ls_tables" /\ Goto(p, "done")
           \/ /\ k > 0 /\ Raised(p) => ~script[k].strict
              /\ \/ k = Len(script) /\ Goto(p, g.fate)
                 \/ /\ k < Len(script)
                    /\ prog' = [prog EXCEPT ![p].step = k + 1]
                    /\ call' = [call EXCEPT ![p] = NewCall(InWs(script[k + 1].op), g.asked, g.region)]
  BY DEF RunScript
<1>8. Len(script) > 0
  BY <1>1, ScriptsSend
<1>. QED
  BY <1>3, <1>4, <1>5, <1>6, <1>7, <1>8

\* Cancelling, and the first message.
LEMMA CancelLocal ==
    ASSUME NEW p \in Proc, PInv, IInv, Cancel(p)
    PROVE  Local(p)
<1>. DEFINE s == prog[p].asked
<1>1. /\ Before(p) /\ prog[p].pc \in {"cancel", "described", "cancelled"}
      /\ UNCHANGED <<told, stored>> /\ (Over(p) \/ call[p].stage = "none")
  BY BeforeStep DEF Cancel, At, Quiet, ProgramOnly, Outside
<1>2. s \in Session \cup {none} /\ (prog[p].pc = "cancel" => s \in Session)
  BY <1>1 DEF Before, Holds, Places, ProgType
<1>3. CASE prog[p].pc = "cancel" /\ Call(p, "described", DescribeSession, s)
  <2>1. CanCall(p, "described", DescribeSession, s, p \in stored)
    BY <1>1, <1>3, OperationsDiffer
    DEF Before, CanCall, Holds, Places, InHand, Waits, Ends, HasFile, Rest, IsNew, Final
  <2>. QED
    BY <1>1, <1>2, <1>3, <2>1, AnotherLocal, ProgramOperations DEF Place
<1>4. CASE prog[p].pc = "described" /\ Call(p, "cancelled", CancelMessage, s)
  <2>1. CanCall(p, "cancelled", CancelMessage, s, p \in stored)
    BY <1>1, <1>4, OperationsDiffer
    DEF Before, CanCall, Holds, Places, InHand, Waits, Ends, HasFile, Rest, IsNew, Final
  <2>. QED
    BY <1>1, <1>2, <1>4, <2>1, AnotherLocal, ProgramOperations, OperationsDiffer DEF Place
<1>5. CASE Goto(p, "failed")
  BY <1>1, <1>5, EndLocal
<1>6. CASE prog[p].pc = "cancelled" /\ Accepted(p) /\ Goto(p, "done")
  <2>1. Finished(prog[p], call[p], told[p])
    BY <1>1, <1>6, OperationsDiffer DEF Before, Holds, Places, Waits, Answers, Accepted, Finished
  <2>. QED
    BY <1>1, <1>6, <2>1, EndLocal
<1>. QED
  BY <1>3, <1>4, <1>5, <1>6 DEF Cancel, At

LEMMA SendLocal ==
    ASSUME NEW p \in Proc, PInv, IInv, Send(p) \/ Prepared(p)
    PROVE  Local(p)
<1>. DEFINE s == prog[p].asked
<1>1. /\ Before(p) /\ prog[p].pc \in {"send", "agent", "precreate"}
      /\ UNCHANGED <<told, stored>> /\ (Over(p) \/ call[p].stage = "none")
  BY BeforeStep DEF Send, Prepared, At, Quiet, ProgramOnly, Outside
<1>2. s \in Session \cup {none}
  BY <1>1 DEF Before, ProgType
<1>3. CASE s # none /\ Call(p, "agent", DescribeSession, s)
  <2>1. CanCall(p, "agent", DescribeSession, s, p \in stored)
    BY <1>1, OperationsDiffer
    DEF Before, CanCall, Holds, Places, InHand, Waits, Ends, HasFile, Rest, IsNew, Final
  <2>. QED
    BY <1>1, <1>2, <1>3, <2>1, AnotherLocal, ProgramOperations DEF Place
<1>4. CASE Call(p, "precreate", CreateSession, none)
  <2>1. CanCall(p, "precreate", CreateSession, none, p \in stored)
    BY <1>1, OperationsDiffer
    DEF Before, CanCall, Holds, Places, InHand, Waits, Ends, HasFile, Rest, IsNew, Final
  <2>. QED
    BY <1>1, <1>4, <2>1, AnotherLocal, ProgramOperations, OperationsDiffer DEF Place
<1>5. ASSUME NEW arg \in Session \cup {none}, Call(p, "message", SendMessage, arg)
      PROVE  Local(p)
  <2>1. CanCall(p, "message", SendMessage, arg, p \in stored)
    BY <1>1, OperationsDiffer
    DEF Before, CanCall, Holds, Places, InHand, Waits, Ends, HasFile, Rest, IsNew, Final
  <2>. QED
    BY <1>1, <1>5, <2>1, AnotherLocal, ProgramOperations, OperationsDiffer DEF Place
<1>6. CASE prog[p].pc = "precreate" /\ Returned(p) /\ Call(p, "message", SendMessage, call[p].got)
  <2>1. call[p].got \in Session
    BY <1>1, <1>6, OperationsDiffer DEF Before, Holds, Waits, Answers, Returned
  <2>. QED
    BY <1>5, <1>6, <2>1
<1>7. CASE Goto(p, "failed")
  BY <1>1, <1>7, EndLocal
<1>. QED
  BY <1>2, <1>3, <1>4, <1>5, <1>6, <1>7 DEF Send, Prepared, At

LEMMA TakesMessage ==
    ASSUME NEW g \in ProgType, NEW pc \in Place, NEW s \in Session \cup {none}, NEW n \in Nat
    PROVE  [g EXCEPT !.ses = s, !.sent = n, !.pc = pc] \in ProgType
BY DEF ProgType

LEMMA MessagedLocal ==
    ASSUME NEW p \in Proc, PInv, IInv, Messaged(p)
    PROVE  Local(p)
<1>. DEFINE g == prog[p]
            c == call[p]
            s == IF c.arg # none THEN c.arg ELSE c.got
            next == CASE g.kind \in {"db", "file"} -> "stream" [] g.wait -> "poll_tail" [] OTHER -> "done"
            h == [g EXCEPT !.ses = s, !.sent = c.acts, !.pc = next]
<1>1. /\ Before(p) /\ g.pc = "message" /\ UNCHANGED stored /\ (Over(p) \/ c.stage = "none")
      /\ prog = [q \in Proc |-> prog[q]]
      /\ told = [q \in Proc |-> told[q]] /\ call = [q \in Proc |-> call[q]]
  BY BeforeStep DEF Messaged, At, Outside, PInv, IInv, TypeOK
<1>2. CASE ~Accepted(p) /\ Goto(p, "failed") /\ UNCHANGED told
  BY <1>1, <1>2, EndLocal
<1>3. CASE /\ Accepted(p) /\ UNCHANGED call /\ told' = [told EXCEPT ![p] = {}]
           /\ prog' = [prog EXCEPT ![p].ses = s, ![p].sent = c.acts, ![p].pc = next]
  <2>1. /\ c.op = SendMessage /\ c.answer = "ok" /\ c.acts > 0 /\ c.stage = "returned"
        /\ c \in CallType /\ Answers(c, told[p])
    BY <1>1, <1>3 DEF Before, Holds, Waits, Answers, Accepted, Returned
  <2>2. s \in Session /\ c.acts \in Nat /\ next \in {"stream", "poll_tail", "done"} /\ next \in Place
    BY <2>1 DEF Answers, CallType, Place, Final
  <2>3. prog' = [prog EXCEPT ![p] = prog'[p]] /\ prog'[p] = h
    <3>. HIDE DEF s, next
    <3>. QED
      BY <1>1, <1>3
  <2>4. h \in ProgType
    <3>. HIDE DEF s, next
    <3>. QED
      BY <1>1, <2>2, TakesMessage DEF Before
  <2>5. /\ h.kind = g.kind /\ h.asked = g.asked /\ h.ws = g.ws /\ h.pc = next /\ h.id = g.id
        /\ h.step = g.step /\ h.turn = g.turn /\ h.left = g.left /\ h.seen = g.seen /\ h.last = g.last
        /\ h.result = g.result /\ h.ses = s /\ h.sent = c.acts /\ h.wait = g.wait
    <3>. HIDE DEF s, next
    <3>. QED
      BY <1>1 DEF Before, ProgType
  <2>6. Answers(c, {})
    BY <2>1, OperationsDiffer DEF Answers
  <2>7. g.kind \in {"send", "send_legacy", "db", "file"}
    BY <1>1 DEF Before, Holds, Places
  <2>8. Holds(h, c, {}, p \in stored)
    <3>1. Places(h)
      <4>. HIDE DEF h, s
      <4>. QED
        BY <1>1, <2>5, <2>7 DEF Before, Holds, Places
    <3>2. InHand(h)
      <4>. HIDE DEF h, s, next
      <4>. QED
        BY <1>1, <2>1, <2>2, <2>5, <2>7 DEF Before, Holds, InHand, Final
    <3>3. Waits(h, c) /\ HasFile(h, c, p \in stored)
      <4>. HIDE DEF h, s, next
      <4>. QED
        BY <1>1, <2>1, <2>2, <2>5, <2>7 DEF Before, Holds, Waits, HasFile
    <3>4. Ends(h, c, {})
      <4>. HIDE DEF h, s
      <4>. QED
        BY <2>1, <2>5, <2>7 DEF Ends, Finished
    <3>. QED
      BY <3>1, <3>2, <3>3, <3>4 DEF Holds
  <2>9. Fits(h, c, {}, p \in stored)
    BY <2>1, <2>4, <2>6, <2>8 DEF Fits, Holds
  <2>. QED
    BY <1>1, <1>3, <2>3, <2>9 DEF Local
<1>. QED
  BY <1>2, <1>3 DEF Messaged

LEMMA TakesPoll ==
    ASSUME NEW g \in ProgType, NEW st \in SessionStatus \cup {none}, NEW idle \in 0..1
    PROVE  [g EXCEPT !.last = st, !.idle = idle, !.count = IF @ < MaxPolls THEN @ + 1 ELSE @] \in ProgType
<1>1. [g EXCEPT !.last = st] \in ProgType
  BY DEF ProgType
<1>2. ASSUME NEW f \in ProgType PROVE [f EXCEPT !.idle = idle] \in ProgType
  BY DEF ProgType
<1>. QED
  BY <1>1, <1>2, CountsPolls

LEMMA PollLocal ==
    ASSUME NEW p \in Proc, PInv, IInv, Poll(p)
    PROVE  Local(p)
<1>. DEFINE g == prog[p]
            c == call[p]
            st == IF Raised(p) THEN g.last ELSE Described(p)
            idle == IF st = "IDLE" THEN g.idle + 1 ELSE 0
            h == [g EXCEPT !.last = st, !.idle = idle, !.count = IF @ < MaxPolls THEN @ + 1 ELSE @]
<1>1. /\ Before(p) /\ g.pc \in {"poll_tail", "polled"} /\ UNCHANGED <<told, stored>>
      /\ (Over(p) \/ c.stage = "none") /\ prog = [q \in Proc |-> prog[q]] /\ g.ses \in Session /\ g.sent > 0
      /\ g \in ProgType /\ Answers(c, told[p])
  BY BeforeStep DEF Poll, At, Quiet, ProgramOnly, Outside, PInv, Before, Holds, InHand
<1>2. CASE g.pc = "poll_tail" /\ Call(p, "polled", DescribeSession, g.ses)
  <2>1. g.last = none /\ none # "IDLE"
    BY <1>1, <1>2, SessionsAssumption DEF Before, Holds, InHand, Final, SessionStatus
  <2>2. CanCall(p, "polled", DescribeSession, g.ses, p \in stored)
    BY <1>1, <1>2, <2>1, OperationsDiffer
    DEF Before, CanCall, Holds, Places, InHand, Waits, Ends, HasFile, Rest, IsNew, Final
  <2>. QED
    BY <1>1, <1>2, <2>2, AnotherLocal, ProgramOperations DEF Place
<1>3. ASSUME g.pc = "polled", st = "IDLE"
      PROVE  <<g.ses, "IDLE">> \in told[p]
  <2>1. c.op = DescribeSession /\ c.arg = g.ses
    BY <1>1, <1>3 DEF Before, Holds, Waits
  <2>2. CASE Raised(p)
    BY <1>1, <1>3, <2>1, <2>2 DEF Before, Holds, Ends, Answers, Raised
  <2>3. CASE ~Raised(p)
    BY <1>1, <1>3, <2>1, <2>3 DEF Described, Answers
  <2>. QED
    BY <2>2, <2>3
<1>4. st \in SessionStatus \cup {none}
  BY <1>1 DEF ProgType, Described, normalize_session_status, SessionStatus
<1>5. CASE Goto(p, "failed")
  BY <1>1, <1>5, EndLocal
<1>6. CASE g.pc = "polled" /\ ExitCode(st, idle) # "polled" /\ Goto(p, ExitCode(st, idle))
  <2>1. ExitCode(st, idle) \in {"done", "failed"}
    BY <1>6 DEF ExitCode
  <2>2. ASSUME ExitCode(st, idle) = "done" PROVE Finished(g, c, told[p])
    <3>1. st = "IDLE"
      BY <1>1, <2>2 DEF ExitCode
    <3>. QED
      BY <1>1, <1>3, <1>6, <3>1 DEF Finished, Before, Holds, Places
  <2>. HIDE DEF st, idle
  <2>. QED
    BY <1>1, <1>6, <2>1, <2>2, EndLocal
<1>7. CASE /\ g.pc = "polled" /\ ExitCode(st, idle) = "polled"
           /\ prog' = [prog EXCEPT ![p].last = st, ![p].idle = idle,
                                   ![p].count = IF @ < MaxPolls THEN @ + 1 ELSE @]
           /\ call' = [call EXCEPT ![p] = NewCall(DescribeSession, g.ses, "home")]
  <2>1. idle \in 0..1
    BY <1>1, <1>7 DEF ExitCode, ProgType
  <2>. HIDE DEF st, idle
  <2>2. prog' = [prog EXCEPT ![p] = prog'[p]] /\ prog'[p] = h
    BY <1>1, <1>7
  <2>3. h \in ProgType
    BY <1>1, <1>4, <2>1, TakesPoll
  <2>4. /\ h.kind = g.kind /\ h.asked = g.asked /\ h.ws = g.ws /\ h.pc = g.pc /\ h.id = g.id
        /\ h.step = g.step /\ h.turn = g.turn /\ h.left = g.left /\ h.seen = g.seen /\ h.last = st
        /\ h.result = g.result /\ h.ses = g.ses /\ h.sent = g.sent
    BY <1>1 DEF ProgType
  <2>5. IsNew(call'[p], DescribeSession, g.ses) => Holds(h, call'[p], told[p], p \in stored)
    <3>. HIDE DEF h
    <3>. QED
      BY <1>1, <1>3, <1>7, <2>4, OperationsDiffer
      DEF Before, Holds, Places, InHand, Waits, Ends, HasFile, IsNew, Final
  <2>6. "home" \in Region
    BY DEF Region
  <2>. HIDE DEF h
  <2>. QED
    BY <1>1, <1>7, <2>2, <2>3, <2>5, <2>6, CallLocal, ProgramOperations
<1>. QED
  BY <1>2, <1>5, <1>6, <1>7 DEF Poll, At

\* Streams.
LEMMA TakesStream ==
    ASSUME NEW g \in ProgType, NEW pc \in Place, NEW seen \in SUBSET ((1..3) \X {"ask", "failed"}),
           NEW res \in {"none", "completed", "waiting_input", "failed"}
    PROVE  [g EXCEPT !.seen = seen, !.pc = pc, !.result = res] \in ProgType
BY ZenonT(60) DEF ProgType

LEMMA StreamedLocal ==
    ASSUME NEW p \in Proc, PInv, IInv, Before(p), prog[p].pc = "stream", UNCHANGED <<call, told, stored>>,
           NEW pc \in Place, NEW seen \in SUBSET ((1..3) \X {"ask", "failed"}),
           NEW res \in {"none", "completed", "waiting_input", "failed"},
           prog' = [prog EXCEPT ![p].seen = seen, ![p].pc = pc, ![p].result = res],
           pc \in {"done", "failed", "followup", "generated", "completed", "confirm", "look"},
           pc \in {"followup", "generated", "completed"} => prog[p].kind \in {"db", "file"} /\ seen = {},
           pc = "followup" => prog[p].left > 0, pc \in {"confirm", "look"} => prog[p].kind = "attach",
           res = "completed" => \A e \in seen : e[2] = "ask" /\ e[1] > 1 /\ prog[p].kind = "db"
    PROVE  Local(p)
<1>. DEFINE g == prog[p]
            h == [g EXCEPT !.seen = seen, !.pc = pc, !.result = res]
<1>1. prog' = [prog EXCEPT ![p] = prog'[p]] /\ prog'[p] = h
  BY DEF PInv
<1>2. h \in ProgType
  BY TakesStream DEF Before
<1>3. /\ h.kind = g.kind /\ h.asked = g.asked /\ h.ws = g.ws /\ h.pc = pc /\ h.id = g.id
      /\ h.step = g.step /\ h.turn = g.turn /\ h.left = g.left /\ h.seen = seen /\ h.last = g.last
      /\ h.result = res /\ h.ses = g.ses /\ h.sent = g.sent /\ h.wait = g.wait
  BY DEF Before, ProgType
<1>4. g.kind \in {"db", "file", "query", "attach"} /\ Rests(call[p]) /\ g.last = none /\ g.ses \in Session
  BY DEF Before, Holds, Places, InHand, Final
<1>. HIDE DEF h
<1>5. Places(h)
  BY <1>3, <1>4 DEF Before, Holds, Places
<1>6. InHand(h)
  BY <1>3, <1>4 DEF Before, Holds, InHand, Final
<1>7. Waits(h, call[p]) /\ Ends(h, call[p], told[p]) /\ HasFile(h, call[p], p \in stored)
  BY <1>3, <1>4 DEF Before, Holds, Waits, Rests, Ends, Finished, HasFile
<1>. QED
  BY <1>1, <1>2, <1>5, <1>6, <1>7, GotoLocal DEF Holds

LEMMA StreamLocal ==
    ASSUME NEW p \in Proc, PInv, IInv, Stream(p)
    PROVE  Local(p)
<1>. DEFINE g == prog[p]
            kind == g.kind
            turn == g.turn
            more == IF g.left > 0 THEN "followup" ELSE IF kind = "file" THEN "generated" ELSE "completed"
            Seen(out) == g.seen \cup {<<turn, e>> : e \in {x \in {"ask", "failed"} : out[x] /\ ~out.lost}}
            Result(out) == IF kind = "db" THEN DbResult(turn, out) ELSE FileResult(out)
            To(out, pc, res) == prog' = [prog EXCEPT ![p].seen = Seen(out), ![p].pc = pc, ![p].result = res]
<1>1. /\ Before(p) /\ g.pc = "stream" /\ UNCHANGED <<call, told, stored>> /\ g \in ProgType
      /\ kind \in {"db", "file", "query", "attach"} /\ turn \in 1..3
      /\ kind \in {"db", "file"} => g.seen = {}
  BY BeforeStep DEF Stream, At, Outside, Before, Holds, Places, InHand, Final, ProgType
<1>2. PICK out \in Outcome : After(p, out)
  BY DEF Stream
<1>3. Seen(out) \in SUBSET ((1..3) \X {"ask", "failed"})
  <2>1. g.seen \in SUBSET ((1..3) \X {"ask", "failed"})
    BY <1>1 DEF ProgType
  <2>. HIDE DEF g, turn
  <2>. QED
    BY <1>1, <2>1
<1>4. out.ask \in BOOLEAN /\ out.failed \in BOOLEAN /\ out.lost \in BOOLEAN
  BY DEF Outcome
<1>5. {"done", "failed", "followup", "generated", "completed", "confirm", "look"} \subseteq Place
  BY DEF Place, Final
<1>6. CASE kind \in {"db", "file"} /\ out.lost
  <2>1. Seen(out) = {}
    BY <1>1, <1>6
  <2>2. To(out, IF kind = "db" \/ turn = 1 THEN "failed" ELSE more, "none")
    BY <1>2, <1>6 DEF After
  <2>. QED
    BY <1>1, <1>3, <1>5, <1>6, <2>1, <2>2, StreamedLocal
<1>7. CASE kind \in {"db", "file"} /\ ~out.lost /\ Result(out) # "none"
  <2>1. To(out, IF Result(out) = "failed" THEN "failed" ELSE "done", Result(out))
    BY <1>2, <1>7 DEF After
  <2>2. Result(out) \in {"none", "completed", "waiting_input", "failed"}
    BY DEF DbResult, FileResult
  <2>3. ASSUME Result(out) = "completed"
        PROVE  \A e \in Seen(out) : e[2] = "ask" /\ e[1] > 1 /\ kind = "db"
    <3>1. kind = "db" /\ out.ask /\ ~out.failed /\ turn # 1
      BY <1>4, <2>3 DEF DbResult, FileResult
    <3>2. turn > 1 /\ g.seen = {}
      BY <1>1, <3>1
    <3>. HIDE DEF g, kind, turn
    <3>3. \A e \in Seen(out) : e = <<turn, "ask">>
      BY <3>1, <3>2
    <3>. QED
      BY <3>1, <3>2, <3>3
  <2>. HIDE DEF kind, turn, Result, Seen
  <2>. QED
    BY <1>1, <1>3, <1>5, <2>1, <2>2, <2>3, StreamedLocal DEF kind
<1>8. CASE kind \in {"db", "file"} /\ ~out.lost /\ Result(out) = "none"
  <2>1. ~out.ask /\ ~out.failed
    BY <1>4, <1>8 DEF DbResult, FileResult
  <2>2. Seen(out) = {}
    BY <1>1, <1>8, <2>1
  <2>3. To(out, more, "none")
    BY <1>2, <1>8 DEF After
  <2>. QED
    BY <1>1, <1>3, <1>5, <1>8, <2>2, <2>3, StreamedLocal
<1>9. CASE kind = "query"
  <2>1. To(out, IF out.lost THEN "failed" ELSE "done", "none")
    BY <1>2, <1>9 DEF After
  <2>. HIDE DEF Seen
  <2>. QED
    BY <1>1, <1>3, <1>5, <2>1, StreamedLocal
<1>10. CASE kind = "attach"
  <2>1. PICK pc \in {"failed", "done", "confirm", "look"} : To(out, pc, "none")
    BY <1>2, <1>10 DEF After
  <2>. HIDE DEF Seen
  <2>. QED
    BY <1>1, <1>3, <1>5, <1>10, <2>1, StreamedLocal
<1>. QED
  BY <1>1, <1>6, <1>7, <1>8, <1>9, <1>10

LEMMA TakesTurn ==
    ASSUME NEW g \in ProgType, g.left > 0, g.turn + g.left <= 3
    PROVE  [g EXCEPT !.pc = "followed", !.turn = @ + 1, !.left = @ - 1] \in ProgType
<1>. DEFINE f == [g EXCEPT !.pc = "followed"]
            e == [f EXCEPT !.turn = @ + 1]
<1>1. f \in ProgType /\ f.turn = g.turn /\ f.left = g.left
  BY DEF ProgType, Place
<1>2. f.turn + 1 \in 1..3 /\ f.left - 1 \in 0..2
  BY <1>1 DEF ProgType
<1>3. e \in ProgType /\ e.left = f.left
  <2>. HIDE DEF f
  <2>. QED
    BY <1>1, <1>2 DEF ProgType
<1>4. [e EXCEPT !.left = @ - 1] \in ProgType
  <2>. HIDE DEF e, f
  <2>. QED
    BY <1>2, <1>3 DEF ProgType
<1>. QED
  BY <1>4

LEMMA FollowUpLocal ==
    ASSUME NEW p \in Proc, PInv, IInv, FollowUp(p)
    PROVE  Local(p)
<1>. DEFINE g == prog[p]
            h == [g EXCEPT !.pc = "followed", !.turn = @ + 1, !.left = @ - 1]
<1>1. /\ Before(p) /\ g.pc \in {"followup", "followed"} /\ UNCHANGED <<told, stored>> /\ g \in ProgType
      /\ (Over(p) \/ call[p].stage = "none") /\ prog = [q \in Proc |-> prog[q]]
      /\ g.kind \in {"db", "file"} /\ g.seen = {} /\ g.ses \in Session /\ g.turn + g.left <= 3
  BY BeforeStep DEF FollowUp, At, Quiet, ProgramOnly, Outside, Before, PInv, Holds, Places, InHand, Final
<1>2. CASE /\ g.pc = "followup"
           /\ prog' = [prog EXCEPT ![p].pc = "followed", ![p].turn = @ + 1, ![p].left = @ - 1]
           /\ call' = [call EXCEPT ![p] = NewCall(SendMessage, g.ses, "home")]
  <2>1. g.left > 0 /\ g.turn \in 1..3 /\ g.left \in 0..2
    BY <1>1, <1>2 DEF Before, Holds, InHand, ProgType
  <2>2. prog' = [prog EXCEPT ![p] = prog'[p]] /\ prog'[p] = h
    BY <1>1, <1>2
  <2>3. h \in ProgType
    BY <1>1, <2>1, TakesTurn
  <2>4. /\ h.kind = g.kind /\ h.asked = g.asked /\ h.ws = g.ws /\ h.pc = "followed" /\ h.id = g.id
        /\ h.step = g.step /\ h.turn = g.turn + 1 /\ h.left = g.left - 1 /\ h.seen = g.seen /\ h.last = g.last
        /\ h.result = g.result /\ h.ses = g.ses /\ h.sent = g.sent
    BY <1>1 DEF ProgType
  <2>5. IsNew(call'[p], SendMessage, g.ses) => Holds(h, call'[p], told[p], p \in stored)
    <3>. HIDE DEF h
    <3>1. h.turn + h.left <= 3
      BY <1>1, <2>1, <2>4
    <3>. QED
      BY <1>1, <1>2, <2>4, <3>1, OperationsDiffer
      DEF Before, Holds, Places, InHand, Waits, Ends, HasFile, IsNew, Final
  <2>6. "home" \in Region
    BY DEF Region
  <2>. HIDE DEF h
  <2>. QED
    BY <1>1, <1>2, <2>2, <2>3, <2>5, <2>6, CallLocal, ProgramOperations, OperationsDiffer
<1>3. CASE Goto(p, "failed")
  BY <1>1, <1>3, EndLocal
<1>4. ASSUME NEW pc \in {"stream", "followup", "generated"}, pc = "followup" => g.left > 0, Goto(p, pc)
      PROVE  Local(p)
  <2>1. CanGo(p, pc, p \in stored)
    BY <1>1, <1>4 DEF Before, CanGo, Holds, Places, InHand, Waits, Ends, HasFile, Rest, Final
  <2>. QED
    BY <1>1, <1>4, <2>1, GoLocal DEF Place
<1>. QED
  BY <1>2, <1>3, <1>4 DEF FollowUp, At

LEMMA CompleteLocal ==
    ASSUME NEW p \in Proc, PInv, IInv, Complete(p)
    PROVE  Local(p)
<1>. DEFINE g == prog[p]
            h == [g EXCEPT !.pc = "done", !.result = "completed"]
<1>1. /\ Before(p) /\ g.pc \in {"generated", "completed"} /\ UNCHANGED <<told, stored>> /\ g \in ProgType
      /\ (Over(p) \/ call[p].stage = "none") /\ prog = [q \in Proc |-> prog[q]]
      /\ g.kind \in {"db", "file"} /\ g.seen = {}
  BY BeforeStep DEF Complete, At, Quiet, ProgramOnly, Outside, Before, PInv, Holds, Places, InHand, Final
<1>2. CASE Call(p, "completed", ListFiles, none)
  <2>1. CanCall(p, "completed", ListFiles, none, p \in stored)
    BY <1>1, OperationsDiffer
    DEF Before, CanCall, Holds, Places, InHand, Waits, Ends, HasFile, Rest, IsNew, Final
  <2>. QED
    BY <1>1, <1>2, <2>1, AnotherLocal, ProgramOperations, OperationsDiffer DEF Place
<1>3. CASE Goto(p, "completed")
  <2>1. CanGo(p, "completed", p \in stored)
    BY <1>1 DEF Before, CanGo, Holds, Places, InHand, Waits, Ends, HasFile, Rest, Final
  <2>. QED
    BY <1>1, <1>3, <2>1, GoLocal DEF Place
<1>4. CASE UNCHANGED call /\ prog' = [prog EXCEPT ![p].pc = "done", ![p].result = "completed"]
  <2>1. prog' = [prog EXCEPT ![p] = prog'[p]] /\ prog'[p] = h
    BY <1>1, <1>4
  <2>2. h \in ProgType
    <3>1. [g EXCEPT !.pc = "done"] \in ProgType
      BY <1>1 DEF ProgType, Place, Final
    <3>2. ASSUME NEW f \in ProgType PROVE [f EXCEPT !.result = "completed"] \in ProgType
      BY DEF ProgType
    <3>. QED
      BY <3>1, <3>2
  <2>3. /\ h.kind = g.kind /\ h.asked = g.asked /\ h.ws = g.ws /\ h.pc = "done" /\ h.id = g.id
        /\ h.step = g.step /\ h.turn = g.turn /\ h.left = g.left /\ h.seen = {} /\ h.last = g.last
    BY <1>1 DEF ProgType
  <2>4. Holds(h, call[p], told[p], p \in stored)
    <3>. HIDE DEF h
    <3>. QED
      BY <1>1, <2>3 DEF Before, Holds, Places, InHand, Waits, Rests, Ends, Finished, HasFile, Final
  <2>. QED
    BY <1>1, <1>4, <2>1, <2>2, <2>4, GotoLocal
<1>. QED
  BY <1>2, <1>3, <1>4 DEF Complete

\* attach.
LEMMA AttachLocal ==
    ASSUME NEW p \in Proc, PInv, IInv, Attach(p)
    PROVE  Local(p)
<1>. DEFINE g == prog[p]
            s == g.asked
<1>1. /\ Before(p) /\ g.pc \in {"attach", "attached", "handed"} /\ UNCHANGED <<told, stored>>
      /\ (Over(p) \/ call[p].stage = "none") /\ g.kind = "attach" /\ s \in Session
      /\ g.last = none
  BY BeforeStep DEF Attach, At, Quiet, ProgramOnly, Outside, Before, Holds, Places, InHand, Final
<1>2. CASE Call(p, "attached", DescribeSession, s)
  <2>1. CanCall(p, "attached", DescribeSession, s, p \in stored)
    BY <1>1, OperationsDiffer
    DEF Before, CanCall, Holds, Places, InHand, Waits, Ends, HasFile, Rest, IsNew, Final
  <2>. QED
    BY <1>1, <1>2, <2>1, AnotherLocal, ProgramOperations DEF Place
<1>3. ASSUME NEW pc \in {"ask", "query"}, Goto(p, pc)
      PROVE  Local(p)
  <2>1. CanGo(p, pc, p \in stored)
    BY <1>1, <1>3 DEF Before, CanGo, Holds, Places, InHand, Waits, Ends, HasFile, Rest, Final
  <2>. QED
    BY <1>1, <1>3, <2>1, GoLocal DEF Place
<1>4. CASE Goto(p, "failed")
  BY <1>1, <1>4, EndLocal
<1>. QED
  BY <1>2, <1>3, <1>4 DEF Attach

LEMMA AttachWatchLocal ==
    ASSUME NEW p \in Proc, PInv, IInv, AttachWatch(p)
    PROVE  Local(p)
<1>. DEFINE g == prog[p]
            h == [g EXCEPT !.pc = "watch", !.ses = g.asked]
<1>1. /\ Before(p) /\ g.pc = "attached" /\ UNCHANGED <<call, told, stored>>
      /\ g.kind = "attach" /\ g.asked \in Session /\ g.last = none /\ g \in ProgType
  BY BeforeStep DEF AttachWatch, At, Quiet, ProgramOnly, Outside, Before, Holds, Places, InHand, Final
<1>2. prog' = [prog EXCEPT ![p] = prog'[p]] /\ prog'[p] = h
  BY DEF PInv, AttachWatch
<1>3. h \in ProgType
  BY <1>1, TakesSession DEF Place
<1>4. /\ h.kind = g.kind /\ h.asked = g.asked /\ h.ws = g.ws /\ h.pc = "watch" /\ h.id = g.id
      /\ h.step = g.step /\ h.turn = g.turn /\ h.left = g.left /\ h.seen = g.seen /\ h.last = g.last
      /\ h.result = g.result /\ h.ses = g.asked
  BY <1>1 DEF ProgType
<1>5. Holds(h, call[p], told[p], p \in stored)
  <2>. HIDE DEF h
  <2>. QED
    BY <1>1, <1>4 DEF Before, Holds, Places, InHand, Waits, Ends, HasFile, Final
<1>. QED
  BY <1>1, <1>2, <1>3, <1>5, GotoLocal

LEMMA ConfirmedLocal ==
    ASSUME NEW p \in Proc, PInv, IInv, Confirmed(p)
    PROVE  Local(p)
<1>. DEFINE g == prog[p]
<1>1. /\ Before(p) /\ g.pc \in {"confirm", "confirmed", "look", "looked"} /\ UNCHANGED <<told, stored>>
      /\ (Over(p) \/ call[p].stage = "none") /\ g.kind = "attach" /\ (g.pc # "looked" => g.ses \in Session)
  BY BeforeStep DEF Confirmed, At, Quiet, ProgramOnly, Outside, Before, Holds, Places, InHand, Final
<1>2. ASSUME NEW pc \in {"confirmed", "looked"}, g.pc # "looked", Call(p, pc, DescribeSession, g.ses)
      PROVE  Local(p)
  <2>1. CanCall(p, pc, DescribeSession, g.ses, p \in stored)
    BY <1>1, <1>2, OperationsDiffer
    DEF Before, CanCall, Holds, Places, InHand, Waits, Ends, HasFile, Rest, IsNew, Final
  <2>. QED
    BY <1>1, <1>2, <2>1, AnotherLocal, ProgramOperations DEF Place
<1>3. CASE g.pc = "confirmed" /\ Goto(p, "watch")
  <2>1. CanGo(p, "watch", p \in stored)
    BY <1>1, <1>3 DEF Before, CanGo, Holds, Places, InHand, Waits, Ends, HasFile, Rest, Final
  <2>. QED
    BY <1>1, <1>3, <2>1, GoLocal DEF Place
<1>4. CASE Goto(p, "done")
  BY <1>1, <1>4, EndLocal DEF Finished
<1>. QED
  BY <1>2, <1>3, <1>4 DEF Confirmed, At

LEMMA WatchLocal ==
    ASSUME NEW p \in Proc, PInv, IInv, Watch(p)
    PROVE  Local(p)
<1>. DEFINE g == prog[p]
<1>1. /\ Before(p) /\ g.pc = "watch" /\ UNCHANGED <<call, told, stored>> /\ g.kind = "attach" /\ g.last = none
      /\ g \in ProgType
  BY BeforeStep DEF Watch, At, Outside, Before, Holds, Places, InHand, Final
<1>2. PICK pc \in {"done", "script"}, fate \in {"done", "failed"} :
        prog' = [prog EXCEPT ![p].pc = pc, ![p].fate = fate]
  BY DEF Watch
<1>. DEFINE h == [g EXCEPT !.pc = pc, !.fate = fate]
<1>3. prog' = [prog EXCEPT ![p] = prog'[p]] /\ prog'[p] = h
  BY <1>2 DEF PInv
<1>4. h \in ProgType
  <2>1. pc \in Place
    BY DEF Place, Final
  <2>. QED
    BY ZenonT(60), <1>1, <2>1 DEF ProgType
<1>5. /\ h.kind = g.kind /\ h.asked = g.asked /\ h.ws = g.ws /\ h.pc = pc /\ h.id = g.id
      /\ h.step = g.step /\ h.turn = g.turn /\ h.left = g.left /\ h.seen = g.seen /\ h.last = g.last
      /\ h.result = g.result /\ h.ses = g.ses
  BY <1>1 DEF ProgType
<1>6. Holds(h, call[p], told[p], p \in stored)
  <2>. HIDE DEF h
  <2>. QED
    BY <1>1, <1>5 DEF Before, Holds, Places, InHand, Waits, Rests, Ends, Finished, HasFile, Final
<1>. QED
  BY <1>1, <1>3, <1>4, <1>6, GotoLocal

LEMMA QueryLocal ==
    ASSUME NEW p \in Proc, PInv, IInv, Query(p)
    PROVE  Local(p)
<1>. DEFINE g == prog[p]
            s == IF g.ses = none THEN g.asked ELSE g.ses
            h == [g EXCEPT !.pc = "queried", !.ses = s]
<1>1. /\ Before(p) /\ g.pc \in {"query", "queried"} /\ UNCHANGED <<told, stored>> /\ g \in ProgType
      /\ (Over(p) \/ call[p].stage = "none") /\ g.kind \in {"attach", "query"} /\ g.last = none
      /\ g.asked \in Session /\ s \in Session /\ prog = [q \in Proc |-> prog[q]]
  BY BeforeStep DEF Query, At, Quiet, ProgramOnly, Outside, Before, Holds, Places, InHand, Final, ProgType, PInv
<1>2. CASE /\ prog' = [prog EXCEPT ![p].pc = "queried", ![p].ses = s]
           /\ call' = [call EXCEPT ![p] = NewCall(SendMessage, s, "home")]
  <2>. HIDE DEF s
  <2>1. prog' = [prog EXCEPT ![p] = prog'[p]] /\ prog'[p] = h
    BY <1>1, <1>2
  <2>2. h \in ProgType
    BY <1>1, TakesSession DEF Place
  <2>3. /\ h.kind = g.kind /\ h.asked = g.asked /\ h.ws = g.ws /\ h.pc = "queried" /\ h.id = g.id
        /\ h.step = g.step /\ h.turn = g.turn /\ h.left = g.left /\ h.seen = g.seen /\ h.last = g.last
        /\ h.result = g.result /\ h.ses = s
    BY <1>1 DEF ProgType
  <2>4. IsNew(call'[p], SendMessage, s) => Holds(h, call'[p], told[p], p \in stored)
    <3>. HIDE DEF h
    <3>. QED
      BY <1>1, <2>3, OperationsDiffer
      DEF Before, Holds, Places, InHand, Waits, Ends, HasFile, IsNew, Final
  <2>5. "home" \in Region
    BY DEF Region
  <2>. HIDE DEF h
  <2>. QED
    BY <1>1, <1>2, <2>1, <2>2, <2>4, <2>5, CallLocal, ProgramOperations, OperationsDiffer
<1>3. CASE g.pc = "queried" /\ Returned(p) /\ Goto(p, "stream")
  <2>1. CanGo(p, "stream", p \in stored)
    BY <1>1, <1>3 DEF Before, CanGo, Holds, Places, InHand, Waits, Ends, HasFile, Rest, Final
  <2>. QED
    BY <1>1, <1>3, <2>1, GoLocal DEF Place
<1>4. CASE Goto(p, "done") \/ Goto(p, "failed")
  BY <1>1, <1>4, EndLocal DEF Finished
<1>. QED
  BY <1>2, <1>3, <1>4 DEF Query, At

LEMMA CommandLocal ==
    ASSUME NEW p \in Proc, PInv, IInv, CommandStep(p) \/ Reading(p)
    PROVE  Local(p)
BY RunScriptLocal, CancelLocal, SendLocal, MessagedLocal, PollLocal, StreamLocal, FollowUpLocal, CompleteLocal,
   AttachLocal, AttachWatchLocal, ConfirmedLocal, WatchLocal, QueryLocal DEF CommandStep, Reading

-----------------------------------------------------------------------------
(* The steps of a call.                                                    *)

\* What a step leaves of a call, whose program stands where it stood.
Continues(c, d, t, u) ==
    /\ d.op = c.op /\ d.arg = c.arg /\ d.stage # "none" /\ (c.acts > 0 => d.acts > 0)
    /\ Rests(c) => d.stage = c.stage /\ u = t
    /\ c.op = DescribeSession /\ d.answer # "ok" => c.answer # "ok" /\ u = t

LEMMA ContinuesLocal ==
    ASSUME NEW p \in Proc, PInv, IInv, UNCHANGED <<prog, stored>>,
           call' = [call EXCEPT ![p] = call'[p]], told' = [told EXCEPT ![p] = told'[p]],
           call'[p] \in CallType, told'[p] \subseteq Session \X SessionStatus,
           Continues(call[p], call'[p], told[p], told'[p]), Answers(call'[p], told'[p])
    PROVE  Local(p)
<1>. DEFINE g == prog[p]
            c == call[p]
            d == call'[p]
            t == told[p]
            u == told'[p]
            has == p \in stored
<1>1. /\ g \in ProgType /\ Places(g) /\ InHand(g) /\ Waits(g, c) /\ Ends(g, c, t) /\ HasFile(g, c, has)
      /\ g = prog'[p] /\ has = (p \in stored') /\ prog' = [prog EXCEPT ![p] = prog'[p]]
  BY DEF PInv, Fits
<1>. HIDE DEF g, c, d, t, u, has
<1>2. Continues(c, d, t, u)
  BY DEF c, d, t, u
<1>3. Waits(g, d)
  BY <1>1, <1>2 DEF Waits, Continues, Rests
<1>4. Ends(g, d, u)
  BY <1>1, <1>2 DEF Waits, Ends, Finished, Continues, Rests
<1>5. HasFile(g, d, has)
  BY <1>1, <1>2 DEF HasFile, Continues
<1>6. Fits(g, d, u, has)
  BY <1>1, <1>3, <1>4, <1>5 DEF Fits, d, u
<1>. QED
  BY <1>1, <1>6 DEF Local, g, d, u, has

LEMMA StageChanges ==
    ASSUME NEW c \in CallType, NEW stage \in Stage
    PROVE  /\ [c EXCEPT !.stage = stage] \in CallType
           /\ \A unit_ \in Region \cup {"config", none} : [c EXCEPT !.unit = unit_, !.stage = stage] \in CallType
           /\ \A init \in BOOLEAN : [c EXCEPT !.init = init, !.stage = stage] \in CallType
<1>1. ASSUME NEW e \in CallType PROVE [e EXCEPT !.stage = stage] \in CallType
  BY DEF CallType
<1>2. ASSUME NEW unit_ \in Region \cup {"config", none} PROVE [c EXCEPT !.unit = unit_] \in CallType
  BY DEF CallType
<1>3. ASSUME NEW init \in BOOLEAN PROVE [c EXCEPT !.init = init] \in CallType
  BY DEF CallType
<1>. QED
  BY <1>1, <1>2, <1>3

\* What is known of a call and of what all share.
Shared ==
    /\ auth \in Auth /\ override \in BOOLEAN
    /\ unit \in [value : Region \cup {"config", none}, region : Region \cup {none}]
    /\ unitCache \in [Region -> Region \cup {none}] /\ wsCache \subseteq Region \cup {"config"}
    /\ status \in [Session -> ServiceStatus] /\ active \subseteq Session /\ faults \in 0..MaxFaults

Known(p) ==
    /\ call[p] \in CallType /\ CallInv(call[p]) /\ Answers(call[p], told[p]) /\ told[p] \subseteq Session \X SessionStatus
    /\ call = [q \in Proc |-> call[q]] /\ told = [q \in Proc |-> told[q]]

LEMMA KnownCall ==
    ASSUME NEW p \in Proc, PInv, IInv
    PROVE  Known(p) /\ Shared
BY DEF PInv, IInv, Fits, TypeOK, Known, Shared

\* The stages before a request is sent, and nothing has been answered yet.
LEMMA UnsentAnswers ==
    ASSUME NEW c, NEW d, NEW t, CallInv(c), Answers(c, t), Unsent(c), d.op = c.op, d.arg = c.arg,
           d.answer = c.answer, d.got = c.got, d.acts = c.acts, d.stage = "returned" => ~c.op.acts,
           d.init \/ d.stage = "workspace" => d.unit \in Region \cup {"config"}
    PROVE  Answers(d, t)
BY DEF Answers, Unsent, CallInv, WellFormed

LEMMA BeginLocal ==
    ASSUME NEW p \in Proc, PInv, IInv, Begin(p), UNCHANGED <<prog, stored>>
    PROVE  Local(p) /\ UNCHANGED status
<1>. DEFINE c == call[p]
            d == [c EXCEPT !.stage = FirstStage(c.op)]
<1>1. Known(p) /\ c.stage = "begun" /\ UNCHANGED <<told, status>>
  BY KnownCall DEF Begin
<1>2. call' = [call EXCEPT ![p] = call'[p]] /\ call'[p] = d
  BY <1>1 DEF Begin, Known
<1>3. /\ FirstStage(c.op) \in {"raised", "unit", "returned", "sent"}
      /\ FirstStage(c.op) = "returned" => c.op.name = "resolve_workspace"
  BY DEF FirstStage
<1>4. FirstStage(c.op) = "returned" => ~c.op.acts
  BY <1>1, <1>3 DEF Known, CallInv, WellFormed
<1>5. d \in CallType
  BY <1>1, <1>3, StageChanges DEF Known, Stage
<1>6. /\ d.op = c.op /\ d.arg = c.arg /\ d.unit = c.unit /\ d.stage = FirstStage(c.op) /\ d.init = c.init
      /\ d.answer = c.answer /\ d.got = c.got /\ d.acts = c.acts
  BY <1>1 DEF Known, CallType
<1>7. Answers(d, told[p])
  <2>. HIDE DEF d
  <2>. QED
    BY <1>1, <1>3, <1>4, <1>6, UnsentAnswers DEF Known, Unsent, Answers
<1>8. Continues(c, d, told[p], told[p])
  <2>. HIDE DEF d
  <2>. QED
    BY <1>1, <1>3, <1>6 DEF Continues, Rests
<1>9. told' = [told EXCEPT ![p] = told'[p]] /\ told'[p] = told[p] /\ told[p] \subseteq Session \X SessionStatus
  BY <1>1 DEF Known
<1>. HIDE DEF d
<1>. QED
  BY <1>1, <1>2, <1>5, <1>7, <1>8, <1>9, ContinuesLocal

LEMMA WithUnitLocal ==
    ASSUME NEW p \in Proc, PInv, IInv, NEW u \in Region \cup {"config"}, WithUnit(p, u),
           call[p].stage \in {"unit", "storing"}, UNCHANGED <<prog, stored, told>>
    PROVE  Local(p)
<1>. DEFINE c == call[p]
            stage == IF c.op.workspace THEN "workspace" ELSE "sent"
            d == [c EXCEPT !.unit = u, !.stage = stage]
<1>1. Known(p)
  BY KnownCall
<1>2. call' = [call EXCEPT ![p] = call'[p]] /\ call'[p] = d
  BY <1>1 DEF WithUnit, Known
<1>3. d \in CallType
  <2>1. stage \in Stage
    BY DEF Stage
  <2>. HIDE DEF stage
  <2>. QED
    BY <1>1, <2>1, StageChanges DEF Known
<1>4. /\ d.op = c.op /\ d.arg = c.arg /\ d.unit = u /\ d.stage = stage
      /\ d.answer = c.answer /\ d.got = c.got /\ d.acts = c.acts
  BY <1>1 DEF Known, CallType
<1>5. Answers(d, told[p])
  <2>. HIDE DEF d
  <2>. QED
    BY <1>1, <1>4, UnsentAnswers DEF Known, Unsent
<1>6. Continues(c, d, told[p], told[p])
  <2>. HIDE DEF d
  <2>. QED
    BY <1>1, <1>4 DEF Continues, Rests
<1>7. told' = [told EXCEPT ![p] = told'[p]] /\ told'[p] = told[p] /\ told[p] \subseteq Session \X SessionStatus
  BY <1>1 DEF Known
<1>. HIDE DEF d
<1>. QED
  BY <1>2, <1>3, <1>5, <1>6, <1>7, ContinuesLocal

LEMMA StageLocal ==
    ASSUME NEW p \in Proc, PInv, IInv, NEW stage \in {"routing", "storing"},
           call' = [call EXCEPT ![p].stage = stage],
           call[p].stage \in {"unit", "routing"}, UNCHANGED <<prog, stored, told>>
    PROVE  Local(p)
<1>. DEFINE c == call[p]
            d == [c EXCEPT !.stage = stage]
<1>1. Known(p)
  BY KnownCall
<1>2. call' = [call EXCEPT ![p] = call'[p]] /\ call'[p] = d
  BY <1>1 DEF Known
<1>3. d \in CallType
  BY <1>1, StageChanges DEF Known, Stage
<1>4. /\ d.op = c.op /\ d.arg = c.arg /\ d.unit = c.unit /\ d.stage = stage /\ d.init = c.init
      /\ d.answer = c.answer /\ d.got = c.got /\ d.acts = c.acts
  BY <1>1 DEF Known, CallType
<1>5. Answers(d, told[p])
  <2>. HIDE DEF d
  <2>. QED
    BY <1>1, <1>4, UnsentAnswers DEF Known, Unsent, Answers
<1>6. Continues(c, d, told[p], told[p])
  <2>. HIDE DEF d
  <2>. QED
    BY <1>1, <1>4 DEF Continues, Rests
<1>7. told' = [told EXCEPT ![p] = told'[p]] /\ told'[p] = told[p] /\ told[p] \subseteq Session \X SessionStatus
  BY <1>1 DEF Known
<1>. HIDE DEF d
<1>. QED
  BY <1>2, <1>3, <1>5, <1>6, <1>7, ContinuesLocal

LEMMA WorkspaceLocal ==
    ASSUME NEW p \in Proc, PInv, IInv, Workspace(p), UNCHANGED <<prog, stored>>
    PROVE  Local(p)
<1>. DEFINE c == call[p]
            known == c.unit \in wsCache
            stage == IF known THEN AfterWorkspace(c.op) ELSE "sent"
            d == [c EXCEPT !.init = ~known, !.stage = stage]
<1>1. Known(p) /\ c.stage = "workspace" /\ UNCHANGED told
  BY KnownCall DEF Workspace
<1>2. call' = [call EXCEPT ![p] = call'[p]] /\ call'[p] = d
  BY <1>1 DEF Workspace, Known
<1>3. stage \in {"returned", "sent"} /\ c.op.workspace /\ ~c.op.acts /\ c.unit \in Region \cup {"config"}
  BY <1>1 DEF AfterWorkspace, Known, CallInv, WellFormed, Answers
<1>4. d \in CallType
  <2>1. (~known) \in BOOLEAN /\ stage \in Stage
    BY <1>3 DEF Stage
  <2>. HIDE DEF stage, known
  <2>. QED
    BY <1>1, <2>1, StageChanges DEF Known
<1>5. /\ d.op = c.op /\ d.arg = c.arg /\ d.unit = c.unit /\ d.stage = stage
      /\ d.answer = c.answer /\ d.got = c.got /\ d.acts = c.acts
  BY <1>1 DEF Known, CallType
<1>6. Answers(d, told[p])
  <2>. HIDE DEF d
  <2>. QED
    BY <1>1, <1>3, <1>5, UnsentAnswers DEF Known, Unsent
<1>7. Continues(c, d, told[p], told[p])
  <2>. HIDE DEF d
  <2>. QED
    BY <1>1, <1>3, <1>5 DEF Continues, Rests
<1>8. told' = [told EXCEPT ![p] = told'[p]] /\ told'[p] = told[p] /\ told[p] \subseteq Session \X SessionStatus
  BY <1>1 DEF Known
<1>. HIDE DEF d
<1>. QED
  BY <1>2, <1>4, <1>6, <1>7, <1>8, ContinuesLocal

LEMMA ResolveLocal ==
    ASSUME NEW p \in Proc, PInv, IInv, Resolve(p), UNCHANGED <<prog, stored>>
    PROVE  Local(p)
<1>1. Shared /\ call[p].region \in Region
  BY KnownCall DEF Known, CallType
<1>2. UNCHANGED told
  BY DEF Resolve, UnitConfigured, UnitKnown, UnitCached, Route, SetUnit, StoreUnit, Workspace
<1>3. CASE UnitConfigured(p)
  BY <1>2, <1>3, WithUnitLocal DEF UnitConfigured
<1>4. CASE UnitKnown(p)
  <2>1. unit.value \in Region \cup {"config"}
    BY <1>1, <1>4 DEF UnitKnown, UnitOfClient, Shared
  <2>. QED
    BY <1>2, <1>4, <2>1, WithUnitLocal DEF UnitKnown
<1>5. CASE UnitCached(p)
  <2>1. unitCache[call[p].region] \in Region
    BY <1>1, <1>5 DEF UnitCached, Shared
  <2>. QED
    BY <1>2, <1>5, <2>1, WithUnitLocal DEF UnitCached
<1>6. CASE StoreUnit(p)
  BY <1>1, <1>2, <1>6, WithUnitLocal DEF StoreUnit
<1>7. CASE Route(p) \/ SetUnit(p)
  BY <1>2, <1>7, StageLocal DEF Route, SetUnit
<1>8. CASE Workspace(p)
  BY <1>8, WorkspaceLocal
<1>. QED
  BY <1>3, <1>4, <1>5, <1>6, <1>7, <1>8 DEF Resolve

\* Answers.
LEMMA EffectType ==
    ASSUME NEW p, NEW s, status \in [Session -> ServiceStatus], Effect(p, s)
    PROVE  status' \in [Session -> ServiceStatus]
<1>1. ASSUME NEW to \in ServiceStatus, status' = [status EXCEPT ![s] = to]
      PROVE  status' \in [Session -> ServiceStatus]
  BY <1>1
<1>2. {"creating", "starting", "running", "stopped"} \subseteq ServiceStatus
  BY DEF ServiceStatus
<1>. QED
  BY <1>1, <1>2 DEF Effect, Become

LEMMA ServeLocal ==
    ASSUME NEW p \in Proc, PInv, IInv, Serve(p), UNCHANGED <<prog, stored>>
    PROVE  Local(p) /\ status' \in [Session -> ServiceStatus] /\ faults' \in 0..MaxFaults
<1>. DEFINE c == call[p]
            t == told[p]
<1>1. Known(p) /\ Shared /\ c.stage = "sent" /\ c \in CallType
  BY KnownCall DEF Serve, Known
<1>2. PICK answer \in {"ok", "body", "busy", "rejected", "lost"}, does \in {"never", "now", "later"},
           s \in Session \cup {none} :
        /\ answer # "ok" => faults < MaxFaults \/ (answer = "body" /\ Refuses(p))
        /\ faults' = IF answer = "ok" \/ Refuses(p) THEN faults ELSE faults + 1
        /\ does # "never" => c.op.acts /\ ~c.init /\ ~Refuses(p)
        /\ does = "never" => answer # "ok" \/ ~c.op.acts \/ c.init
        /\ does = "now" => answer \in {"ok", "busy", "lost"}
        /\ does = "later" => answer = "lost"
        /\ IF does = "now" /\ Fresh(p) THEN Effect(p, s) ELSE s = c.arg /\ UNCHANGED status
        /\ call' = [call EXCEPT ![p] = Answered(p, answer, does, s)]
        /\ told' = [told EXCEPT ![p] = IF answer = "ok" /\ Tells(c.op, s) # {} THEN Tells(c.op, s) ELSE @]
        /\ UNCHANGED clientVars
  BY DEF Serve
<1>. DEFINE d == Answered(p, answer, does, s)
            u == IF answer = "ok" /\ Tells(c.op, s) # {} THEN Tells(c.op, s) ELSE t
<1>3. /\ call' = [call EXCEPT ![p] = call'[p]] /\ call'[p] = d
      /\ told' = [told EXCEPT ![p] = told'[p]] /\ told'[p] = u
  <2>. HIDE DEF d, u
  <2>. QED
    BY <1>1, <1>2 DEF Known, d, u
<1>4. /\ status' \in [Session -> ServiceStatus] /\ faults' \in 0..MaxFaults
  BY <1>1, <1>2, EffectType, ClientAssumption DEF Shared
<1>5. /\ d.op = c.op /\ d.arg = c.arg /\ d.unit = c.unit /\ d.stage = "answered" /\ d.answer = answer
      /\ d.init = c.init /\ d.acts = IF does = "now" /\ Fresh(p) THEN c.acts + 1 ELSE c.acts
      /\ d.got = IF answer # "ok" THEN none ELSE IF c.op = DescribeSession THEN status[c.arg] ELSE s
  BY <1>1 DEF Answered, CallType
<1>6. c.op = DescribeSession => c.arg \in Session /\ c.answer # "ok" /\ (answer = "ok" => s = c.arg)
  BY <1>1, <1>2, OperationsDiffer DEF Known, Answers
<1>7. ASSUME c.op = CreateSession, answer = "ok"
      PROVE  s \in Session
  <2>1. ~c.init /\ c.acts = 0 /\ 1 \notin c.taken
    <3>1. ~c.op.workspace /\ c.op.acts /\ c.op.token /\ ~c.op.retries
      BY <1>7, OperationsDiffer DEF CreateSession, Write, UnitRead, Read
    <3>2. ~c.init /\ c.acts \in Nat /\ ActsInv(c) /\ c.attempt = 0 /\ c.answer # "lost"
      BY <1>1, <3>1 DEF Known, CallInv, ActsInv, Unsent
    <3>3. c.acts <= 0
      BY <1>1, <3>2 DEF ActsInv, Unsent
    <3>. QED
      BY <3>1, <3>2, <3>3 DEF ActsInv
  <2>2. does = "now" /\ Fresh(p)
    BY <1>2, <1>7, <2>1, OperationsDiffer DEF Fresh, Token, CreateSession, Write, UnitRead, Read
  <2>. QED
    BY <1>2, <1>7, <2>2, OperationsDiffer DEF Effect
<1>8. ASSUME c.op \in {SendMessage, CancelMessage, FileUploadCallback}, answer = "ok"
      PROVE  d.acts > 0 /\ (c.op = SendMessage /\ c.arg = none => s \in Session)
  <2>1. ~c.init /\ c.acts \in Nat
    <3>1. ~c.op.workspace
      BY <1>1, <1>8, OperationsDiffer DEF Known, CallInv, WellFormed
    <3>. QED
      BY <1>1, <3>1 DEF Known, CallInv
  <2>2. does = "now" /\ (c.op # FileUploadCallback => Fresh(p))
    BY <1>2, <1>8, <2>1, OperationsDiffer DEF Fresh, Token
  <2>3. c.op = SendMessage /\ c.arg = none => s \in Session
    BY <1>2, <1>8, <2>2, OperationsDiffer DEF Effect
  <2>4. c.op = FileUploadCallback /\ ~Fresh(p) => c.acts > 0
    BY <1>1, OperationsDiffer DEF Known, CallInv, ActsInv, Unsent, Fresh, Token
  <2>. QED
    BY <1>5, <2>1, <2>2, <2>3, <2>4
<1>9. u \subseteq Session \X SessionStatus /\ (c.op = DescribeSession /\ answer = "ok" =>
          status[c.arg] \in ServiceStatus /\ u = {<<c.arg, normalize_session_status(status[c.arg])>>})
  <2>1. CASE c.op = DescribeSession /\ answer = "ok"
    <3>1. u = {<<c.arg, normalize_session_status(status[c.arg])>>}
      <4>1. Tells(c.op, s) = {<<c.arg, normalize_session_status(status[c.arg])>>}
        BY <1>6, <2>1, OperationsDiffer DEF Tells
      <4>. QED
        BY <2>1, <4>1
    <3>2. normalize_session_status(status[c.arg]) \in SessionStatus
      BY DEF normalize_session_status, SessionStatus
    <3>. QED
      BY <1>1, <1>6, <2>1, <3>1, <3>2 DEF Shared
  <2>2. CASE c.op = CreateSession /\ answer = "ok"
    <3>1. s \in Session /\ c.op # DescribeSession
      BY <1>7, <2>2, OperationsDiffer
    <3>2. Tells(c.op, s) = {<<s, IF status'[s] = "starting" THEN "RUNNING" ELSE "CREATING">>}
      BY <2>2, <3>1 DEF Tells
    <3>3. Tells(c.op, s) \subseteq Session \X SessionStatus
      BY <3>1, <3>2 DEF SessionStatus
    <3>. QED
      BY <1>1, <3>1, <3>3 DEF Known
  <2>3. CASE c.op \notin {DescribeSession, CreateSession} \/ answer # "ok"
    BY <1>1, <2>3 DEF Tells, Known
  <2>. QED
    BY <2>1, <2>2, <2>3
<1>. HIDE DEF u
<1>10. d \in CallType
  <2>. DEFINE got == IF answer # "ok" THEN none ELSE IF c.op = DescribeSession THEN status[c.arg] ELSE s
              acts == IF does = "now" /\ Fresh(p) THEN c.acts + 1 ELSE c.acts
              taken == IF does = "now" THEN c.taken \cup {Token(p)} ELSE c.taken
  <2>1. got \in ServiceStatus \cup Session \cup {none}
    <3>1. c.op = DescribeSession /\ answer = "ok" => status[c.arg] \in ServiceStatus
      BY <1>9
    <3>. QED
      BY <3>1
  <2>2. acts \in Nat /\ taken \in SUBSET Nat /\ "answered" \in Stage
    BY <1>1 DEF CallType, Stage, Token
  <2>3. d = [c EXCEPT !.stage = "answered", !.answer = answer, !.late = (does = "later"),
                      !.acts = acts, !.taken = taken, !.got = got]
    BY <1>1 DEF Answered, CallType
  <2>4. ASSUME NEW e \in CallType
        PROVE  [e EXCEPT !.stage = "answered", !.answer = answer, !.late = (does = "later")] \in CallType
    <3>1. [e EXCEPT !.stage = "answered"] \in CallType
      BY <2>2, <2>4, StageChanges
    <3>2. ASSUME NEW f \in CallType PROVE [f EXCEPT !.answer = answer] \in CallType
      BY <3>2 DEF CallType
    <3>3. ASSUME NEW f \in CallType, NEW late \in BOOLEAN PROVE [f EXCEPT !.late = late] \in CallType
      BY <3>3 DEF CallType
    <3>4. (does = "later") \in BOOLEAN
      OBVIOUS
    <3>. QED
      BY <3>1, <3>2, <3>3, <3>4
  <2>5. ASSUME NEW e \in CallType
        PROVE  [e EXCEPT !.acts = acts, !.taken = taken, !.got = got] \in CallType
    <3>. HIDE DEF acts, taken, got
    <3>. QED
      BY <2>1, <2>2, <2>5 DEF CallType
  <2>. HIDE DEF d, acts, taken, got
  <2>. QED
    BY <1>1, <2>3, <2>4, <2>5
<1>11. Answers(d, u)
  <2>. HIDE DEF d
  <2>1. c.op = DescribeSession => d.got = status[c.arg] \/ answer # "ok"
    BY <1>5
  <2>2. c.op # DescribeSession /\ answer = "ok" => d.got = s
    BY <1>5
  <2>3. d.init => d.unit \in Region \cup {"config"}
    BY <1>1, <1>5 DEF Known, Answers
  <2>. QED
    BY <1>5, <1>6, <1>7, <1>8, <1>9, <2>1, <2>2, <2>3, OperationsDiffer DEF Answers
<1>12. Continues(c, d, t, u)
  <2>1. c.acts > 0 => d.acts > 0
    BY <1>1, <1>5 DEF CallType
  <2>2. answer # "ok" => u = t
    BY DEF u
  <2>. HIDE DEF d
  <2>. QED
    BY <1>1, <1>5, <1>6, <2>1, <2>2 DEF Continues, Rests
<1>. HIDE DEF d
<1>. QED
  BY <1>3, <1>4, <1>9, <1>10, <1>11, <1>12, ContinuesLocal

LEMMA ReceiveLocal ==
    ASSUME NEW p \in Proc, PInv, IInv, Receive(p), UNCHANGED <<prog, stored>>
    PROVE  Local(p) /\ wsCache' \subseteq Region \cup {"config"}
<1>. DEFINE c == call[p]
            d == call'[p]
            t == told[p]
<1>1. /\ Known(p) /\ Shared /\ c.stage = "answered" /\ c \in CallType /\ UNCHANGED <<told, status>>
      /\ CallInv(c) /\ Answers(c, t)
  BY KnownCall DEF Receive, Known
<1>2. c.op = DescribeSession => ~c.init
  BY <1>1, OperationsDiffer DEF CallInv, WellFormed
<1>3. /\ told' = [told EXCEPT ![p] = told'[p]] /\ told'[p] = t /\ t \subseteq Session \X SessionStatus
  BY <1>1 DEF Known
<1>4. wsCache' \subseteq Region \cup {"config"}
  BY <1>1 DEF Receive, Shared, Answers
<1>5. CASE Retriable(c)
  <2>1. c.answer = "busy"
    BY <1>5 DEF Retriable
  <2>2. call' = [call EXCEPT ![p] = TryAgain(c)]
    BY <1>5 DEF Receive, Retriable, Fails
  <2>3. call' = [call EXCEPT ![p] = d] /\ d = TryAgain(c)
    BY <1>1, <2>2 DEF Known
  <2>4. c.inner \in 0..MaxRetries /\ c.attempt \in 0..MaxRetries /\ MaxRetries \in Nat
    BY <1>1, ClientAssumption DEF CallType
  <2>5. CASE Nested(c) /\ c.inner < MaxRetries
    <3>. DEFINE n == c.inner + 1
    <3>1. n \in 0..MaxRetries
      BY <2>4, <2>5
    <3>2. d = [c EXCEPT !.inner = n, !.stage = "sent"]
      BY <2>3, <2>5 DEF TryAgain
    <3>. HIDE DEF n
    <3>3. d \in CallType
      <4>1. [c EXCEPT !.inner = n] \in CallType
        BY <1>1, <3>1 DEF CallType
      <4>. QED
        BY <3>2, <4>1, StageChanges DEF Stage
    <3>4. /\ d.op = c.op /\ d.arg = c.arg /\ d.unit = c.unit /\ d.stage = "sent" /\ d.init = c.init
          /\ d.answer = "busy" /\ d.got = c.got /\ d.acts = c.acts
      BY <1>1, <2>1, <3>2 DEF CallType
    <3>5. Answers(d, t) /\ Continues(c, d, t, t)
      <4>. HIDE DEF c, d, t
      <4>. QED
        BY <1>1, <2>1, <3>4, OperationsDiffer DEF Answers, Continues, Rests
    <3>. QED
      BY <1>1, <1>3, <1>4, <2>3, <3>3, <3>5, ContinuesLocal
  <2>6. CASE ~(Nested(c) /\ c.inner < MaxRetries)
    <3>. DEFINE n == c.attempt + 1
    <3>1. n \in 0..MaxRetries
      BY <1>5, <2>4, <2>6 DEF Retriable
    <3>2. d = [c EXCEPT !.inner = 0, !.attempt = n, !.init = FALSE, !.stage = "begun"]
      BY <2>3, <2>6 DEF TryAgain
    <3>. HIDE DEF n
    <3>3. d \in CallType
      <4>1. [c EXCEPT !.inner = 0] \in CallType
        BY <1>1, <2>4 DEF CallType
      <4>2. ASSUME NEW e \in CallType PROVE [e EXCEPT !.attempt = n] \in CallType
        BY <3>1, <4>2 DEF CallType
      <4>3. ASSUME NEW e \in CallType PROVE [e EXCEPT !.init = FALSE, !.stage = "begun"] \in CallType
        BY <4>3, StageChanges DEF Stage
      <4>. QED
        BY <3>2, <4>1, <4>2, <4>3
    <3>4. /\ d.op = c.op /\ d.arg = c.arg /\ d.stage = "begun" /\ d.init = FALSE
          /\ d.answer = "busy" /\ d.got = c.got /\ d.acts = c.acts
      BY <1>1, <2>1, <3>2 DEF CallType
    <3>5. Answers(d, t) /\ Continues(c, d, t, t)
      <4>. HIDE DEF c, d, t
      <4>. QED
        BY <1>1, <2>1, <3>4, OperationsDiffer DEF Answers, Continues, Rests
    <3>. QED
      BY <1>1, <1>3, <1>4, <2>3, <3>3, <3>5, ContinuesLocal
  <2>. QED
    BY <2>5, <2>6
<1>6. CASE ~Retriable(c)
  <2>1. PICK init \in BOOLEAN, stage \in {"raised", "returned", "sent"} :
          /\ call' = [call EXCEPT ![p] = [c EXCEPT !.init = init, !.stage = stage]]
          /\ init => c.init
          /\ Fails(c) => stage = "raised"
          /\ ~Fails(c) => stage # "raised"
          /\ stage = "sent" => c.init
    <3>1. CASE Fails(c)
      <4>1. call' = [call EXCEPT ![p] = [c EXCEPT !.stage = "raised"]]
        BY <1>6, <3>1 DEF Receive
      <4>2. [c EXCEPT !.stage = "raised"] = [c EXCEPT !.init = c.init, !.stage = "raised"]
        BY <1>1 DEF CallType
      <4>. QED
        BY <1>1, <3>1, <4>1, <4>2 DEF CallType
    <3>2. CASE ~Fails(c) /\ c.init
      <4>1. call' = [call EXCEPT ![p] = [c EXCEPT !.init = FALSE, !.stage = AfterWorkspace(c.op)]]
        BY <1>6, <3>2 DEF Receive
      <4>. QED
        BY <3>2, <4>1 DEF AfterWorkspace
    <3>3. CASE ~Fails(c) /\ ~c.init
      <4>1. call' = [call EXCEPT ![p] = [c EXCEPT !.stage = "returned"]]
        BY <1>6, <3>3 DEF Receive
      <4>2. [c EXCEPT !.stage = "returned"] = [c EXCEPT !.init = c.init, !.stage = "returned"]
        BY <1>1 DEF CallType
      <4>. QED
        BY <1>1, <3>3, <4>1, <4>2 DEF CallType
    <3>. QED
      BY <3>1, <3>2, <3>3
  <2>2. call' = [call EXCEPT ![p] = d] /\ d = [c EXCEPT !.init = init, !.stage = stage]
    BY <1>1, <2>1 DEF Known
  <2>3. d \in CallType
    <3>1. stage \in Stage
      BY DEF Stage
    <3>2. \A i \in BOOLEAN : [c EXCEPT !.init = i, !.stage = stage] \in CallType
      BY <1>1, <3>1, StageChanges
    <3>. QED
      BY <2>2, <3>2
  <2>4. /\ d.op = c.op /\ d.arg = c.arg /\ d.unit = c.unit /\ d.stage = stage /\ d.init = init
        /\ d.answer = c.answer /\ d.got = c.got /\ d.acts = c.acts
    BY <1>1, <2>2 DEF CallType
  <2>5. c.op.checked /\ ~Fails(c) => c.answer = "ok" /\ c.acts > 0
    BY <1>1 DEF Fails, CallInv, WellFormed, ActsInv
  <2>6. c.op = DescribeSession /\ c.answer = "ok" => stage = "returned"
    BY <1>2, <2>1 DEF Fails
  <2>7. Answers(d, t) /\ Continues(c, d, t, t)
    <3>. HIDE DEF c, d, t
    <3>. QED
      BY <1>1, <2>1, <2>4, <2>5, <2>6, OperationsDiffer DEF Answers, Continues, Rests
  <2>. QED
    BY <1>1, <1>3, <1>4, <2>2, <2>3, <2>7, ContinuesLocal
<1>. QED
  BY <1>5, <1>6

LEMMA ArriveLocal ==
    ASSUME NEW p \in Proc, PInv, IInv, Arrive(p), UNCHANGED <<prog, stored>>
    PROVE  Local(p) /\ status' \in [Session -> ServiceStatus]
<1>. DEFINE c == call[p]
            t == told[p]
            acts == IF Fresh(p) /\ ~Refuses(p) THEN c.acts + 1 ELSE c.acts
            taken == c.taken \cup {Token(p)}
            d == [c EXCEPT !.late = FALSE, !.acts = acts, !.taken = taken]
<1>1. /\ Known(p) /\ Shared /\ c \in CallType /\ UNCHANGED told
      /\ CallInv(c) /\ Answers(c, t) /\ c.late = TRUE /\ c.stage \in {"answered", "raised"} /\ c.answer = "lost"
  BY KnownCall DEF Arrive, Known, CallInv, CallType
<1>2. call' = [call EXCEPT ![p] = call'[p]] /\ call'[p] = d
  BY <1>1 DEF Arrive, Known
<1>3. acts \in Nat /\ acts >= c.acts /\ taken \in SUBSET Nat
  BY <1>1 DEF CallType, Token
<1>. HIDE DEF acts, taken
<1>4. d \in CallType
  <2>1. [c EXCEPT !.late = FALSE] \in CallType
    BY <1>1 DEF CallType
  <2>2. ASSUME NEW e \in CallType PROVE [e EXCEPT !.acts = acts, !.taken = taken] \in CallType
    BY <1>3, <2>2 DEF CallType
  <2>. QED
    BY <2>1, <2>2
<1>5. /\ d.op = c.op /\ d.arg = c.arg /\ d.unit = c.unit /\ d.stage = c.stage /\ d.init = c.init
      /\ d.answer = c.answer /\ d.got = c.got /\ d.acts = acts
  BY <1>1 DEF CallType
<1>6. acts > 0 \/ c.acts = 0
  BY <1>1, <1>3 DEF CallType
<1>7. Answers(d, t) /\ Continues(c, d, t, t)
  <2>. HIDE DEF c, d, t
  <2>1. c.acts > 0 => d.acts > 0
    BY <1>5, <1>6
  <2>. QED
    BY <1>1, <1>5, <2>1 DEF Answers, Continues, Rests
<1>8. told' = [told EXCEPT ![p] = told'[p]] /\ told'[p] = t /\ t \subseteq Session \X SessionStatus
  BY <1>1 DEF Known
<1>9. status' \in [Session -> ServiceStatus]
  BY <1>1, EffectType DEF Arrive, Shared
<1>. HIDE DEF d
<1>. QED
  BY <1>2, <1>4, <1>7, <1>8, <1>9, ContinuesLocal

-----------------------------------------------------------------------------
(* The steps of the whole, again.                                          *)

LEMMA LocalPInv ==
    ASSUME NEW p \in Proc, PInv, IInv, Local(p), Shared'
    PROVE  PInv'
<1>1. prog' = [q \in Proc |-> prog'[q]] /\ \A q \in Proc : q # p => prog'[q] = prog[q]
  BY DEF PInv, Local
<1>2. \A q \in Proc : q # p => call'[q] = call[q] /\ told'[q] = told[q]
  BY DEF PInv, IInv, TypeOK, Local
<1>3. \A q \in Proc : q # p => (q \in stored') = (q \in stored)
  BY DEF Local
<1>4. ASSUME NEW q \in Proc PROVE Fits(prog'[q], call'[q], told'[q], q \in stored')
  <2>1. CASE q = p
    BY <2>1 DEF Local
  <2>2. CASE q # p
    BY <1>1, <1>2, <1>3, <2>2 DEF PInv
  <2>. QED
    BY <2>1, <2>2
<1>5. told' \in [Proc -> SUBSET (Session \X SessionStatus)] /\ stored' \subseteq Proc
  BY DEF PInv, TypeOK, Local, Fits
<1>6. \A q \in Proc : call'[q] \in CallType /\ prog'[q] \in ProgType
  BY <1>4 DEF Fits
<1>7. TypeOK'
  BY <1>5, <1>6 DEF TypeOK, Shared
<1>. QED
  BY <1>1, <1>4, <1>7 DEF PInv

\* What a program changes of what all share.
LEMMA ProgramShared ==
    ASSUME NEW p \in Proc, PInv, IInv, Local(p), Step(p) \/ Reading(p)
    PROVE  Shared'
<1>1. Shared
  BY KnownCall
<1>2. UNCHANGED <<clientVars, status>>
  BY DEF Step, Reading, SessionStep, FileStep, CommandStep, RunScript, Cancel, Send, Prepared, Messaged, Poll, Stream,
         FollowUp, Complete, Attach, AttachWatch, Confirmed, Watch, Query, Quiet, ProgramOnly
<1>3. faults' \in 0..MaxFaults
  <2>1. CASE Reading(p)
    <3>1. PICK out \in Outcome : Ended(p, out) \/ Broken(p, out)
      BY <2>1 DEF Reading, Stream, Watch
    <3>2. faults' = faults \/ (faults < MaxFaults /\ faults' = faults + 1)
      BY <3>1 DEF Ended, Broken
    <3>. QED
      BY <1>1, <3>2, ClientAssumption DEF Shared
  <2>2. CASE Step(p)
    <3>1. UNCHANGED faults
      BY <2>2 DEF Step, SessionStep, FileStep, CommandStep, RunScript, Cancel, Send, Prepared, Messaged, Poll,
             FollowUp, Complete, Attach, AttachWatch, Confirmed, Query, Quiet, ProgramOnly
    <3>. QED
      BY <1>1, <3>1 DEF Shared
  <2>. QED
    BY <2>1, <2>2
<1>4. active' \subseteq Session
  <2>1. CASE SessionStep(p)
    <3>1. ASSUME NEW s, Keep(p, s)
          PROVE  active' \subseteq Session
      <4>1. prog'[p].pc = "handed" /\ prog'[p].ses = s
        BY <3>1 DEF Keep, PInv, Fits, ProgType
      <4>2. s \in Session
        BY <4>1 DEF Local, Fits, InHand
      <4>. QED
        BY <1>1, <3>1, <4>2 DEF Keep, Shared
    <3>2. CASE Ask(p) \/ Checked(p)
      BY <1>1, <3>2 DEF Ask, Checked, Shared
    <3>3. CASE Validated(p) \/ ValidatedAsync(p) \/ NewSession(p) \/ Waited(p)
      BY <1>1, <3>1, <3>3 DEF Validated, ValidatedAsync, NewSession, Waited, Fail, Shared
    <3>4. CASE Refresh(p)
      <4>1. At(p, "refreshed") => prog[p].asked \in Session
        BY DEF At, PInv, Fits, Waits, Answers
      <4>. QED
        BY <1>1, <3>4, <4>1 DEF Refresh, Fail, Shared
    <3>5. CASE Forget(p)
      BY <1>1, <3>5 DEF Forget, Shared
    <3>. QED
      BY <2>1, <3>2, <3>3, <3>4, <3>5 DEF SessionStep
  <2>2. CASE FileStep(p)
    BY <1>1, <2>2 DEF FileStep, Shared
  <2>3. CASE CommandStep(p) \/ Reading(p)
    <3>1. UNCHANGED active
      BY <2>3 DEF CommandStep, Reading, RunScript, Cancel, Send, Prepared, Messaged, Poll, Stream,
         FollowUp, Complete, Attach, AttachWatch, Confirmed, Watch, Query, Quiet, Outside
    <3>. QED
      BY <1>1, <3>1 DEF Shared
  <2>. QED
    BY <2>1, <2>2, <2>3 DEF Step
<1>. QED
  BY <1>1, <1>2, <1>3, <1>4 DEF Shared, clientVars

LEMMA ResolveShared ==
    ASSUME NEW p \in Proc, PInv, IInv, Resolve(p), UNCHANGED active
    PROVE  Shared'
<1>1. Shared /\ call[p].region \in Region
  BY KnownCall DEF Known, CallType
<1>2. UNCHANGED <<auth, override, wsCache, status, faults>>
  BY DEF Resolve, UnitConfigured, UnitKnown, UnitCached, Route, SetUnit, StoreUnit, Workspace, clientVars
<1>3. unit' \in [value : Region \cup {"config", none}, region : Region \cup {none}]
  <2>1. CASE UnitConfigured(p)
    BY <1>1, <2>1 DEF UnitConfigured
  <2>2. CASE UnitKnown(p) \/ Route(p) \/ Workspace(p)
    BY <1>1, <2>2 DEF UnitKnown, Route, Workspace, clientVars, Shared
  <2>3. CASE UnitCached(p)
    BY <1>1, <2>3 DEF UnitCached, Shared
  <2>4. CASE SetUnit(p) \/ StoreUnit(p)
    BY <1>1, <2>4 DEF SetUnit, StoreUnit, Shared
  <2>. QED
    BY <2>1, <2>2, <2>3, <2>4 DEF Resolve
<1>4. unitCache' \in [Region -> Region \cup {none}]
  <2>1. CASE StoreUnit(p)
    BY <1>1, <2>1 DEF StoreUnit, Shared
  <2>2. CASE ~StoreUnit(p)
    BY <1>1, <2>2 DEF Resolve, UnitConfigured, UnitKnown, UnitCached, Route, SetUnit, Workspace, clientVars, Shared
  <2>. QED
    BY <2>1, <2>2
<1>. QED
  BY <1>1, <1>2, <1>3, <1>4 DEF Shared

LEMMA NextPInv == PInv /\ IInv /\ [Next]_vars => PInv'
<1>. SUFFICES ASSUME PInv, IInv, [Next]_vars PROVE PInv'
  OBVIOUS
<1>1. ASSUME NEW p \in Proc, Step(p) \/ Reading(p)
      PROVE  PInv'
  <2>1. Local(p)
    BY <1>1, SessionLocal, FileLocal, CommandLocal DEF Step
  <2>. QED
    BY <1>1, <2>1, ProgramShared, LocalPInv
<1>2. ASSUME NEW p \in Proc, Calling(p)
      PROVE  PInv'
  <2>1. UNCHANGED <<prog, stored, active>> /\ Shared
    BY <1>2, KnownCall DEF Calling, Outside
  <2>2. CASE Begin(p)
    <3>1. Shared'
      BY <2>1, <2>2 DEF Begin, clientVars, Shared
    <3>. QED
      BY <2>1, <2>2, <3>1, BeginLocal, LocalPInv
  <2>3. CASE Resolve(p)
    BY <2>1, <2>3, ResolveLocal, ResolveShared, LocalPInv
  <2>4. CASE Serve(p)
    <3>1. status' \in [Session -> ServiceStatus] /\ faults' \in 0..MaxFaults /\ Local(p)
      BY <2>1, <2>4, ServeLocal
    <3>2. UNCHANGED clientVars
      BY <2>4 DEF Serve
    <3>3. Shared'
      BY <2>1, <3>1, <3>2 DEF Shared, clientVars
    <3>. QED
      BY <3>1, <3>3, LocalPInv
  <2>5. CASE Receive(p)
    <3>1. wsCache' \subseteq Region \cup {"config"} /\ Local(p)
      BY <2>1, <2>5, ReceiveLocal
    <3>2. UNCHANGED <<auth, override, unit, unitCache, status, faults>>
      BY <2>5 DEF Receive
    <3>3. Shared'
      BY <2>1, <3>1, <3>2 DEF Shared
    <3>. QED
      BY <3>1, <3>3, LocalPInv
  <2>. QED
    BY <1>2, <2>2, <2>3, <2>4, <2>5 DEF Calling, Work
<1>3. ASSUME NEW p \in Proc, Late(p)
      PROVE  PInv'
  <2>1. UNCHANGED <<prog, stored, active, clientVars, faults>> /\ Shared
    BY <1>3, KnownCall DEF Late, Arrive, Outside
  <2>2. status' \in [Session -> ServiceStatus] /\ Local(p)
    BY <1>3, <2>1, ArriveLocal DEF Late
  <2>3. Shared'
    BY <2>1, <2>2 DEF Shared, clientVars
  <2>. QED
    BY <2>2, <2>3, LocalPInv
<1>4. ASSUME NEW s \in Session, Change(s)
      PROVE  PInv'
  <2>1. UNCHANGED <<prog, call, told, stored, active, clientVars, faults>>
    BY <1>4 DEF Change, Evolve, Outside
  <2>2. status' \in [Session -> ServiceStatus]
    BY <1>4 DEF Change, Evolve, Become, PInv, TypeOK, ServiceStatus
  <2>. QED
    BY <2>1, <2>2 DEF PInv, TypeOK, clientVars
<1>5. CASE UNCHANGED vars
  BY <1>5 DEF vars, clientVars, PInv, TypeOK
<1>. QED
  BY <1>1, <1>2, <1>3, <1>4, <1>5 DEF Next

\* What a program begins with.
Begun(g, kind, pc) ==
    /\ g \in ProgType /\ g.kind = kind /\ g.pc = pc /\ g.asked = none /\ ~g.ws
    /\ g.ses = none /\ g.last = none /\ g.turn = 1 /\ g.seen = {} /\ g.result = "none" /\ g.step = 0
    /\ g.id = none

LEMMA NewProgBegins ==
    ASSUME NEW kind \in Kind \cup {"none"}, NEW pc \in Place
    PROVE  Begun(NewProg(kind, pc), kind, pc)
<1>. DEFINE g == NewProg(kind, pc)
<1>1. /\ "home" \in Region /\ 0 \in 0..4 /\ 0 \in 0..MaxPolls /\ 0 \in 0..1 /\ 1 \in 1..3 /\ 0 \in 0..2 /\ 0 \in Nat
      /\ {} \in SUBSET ((1..3) \X {"ask", "failed"})
  BY SessionsAssumption DEF Region
<1>2. g \in ProgType
  BY <1>1 DEF NewProg, ProgType
<1>3. /\ g.kind = kind /\ g.pc = pc /\ g.asked = none /\ g.ws = FALSE /\ g.ses = none /\ g.last = none
      /\ g.turn = 1 /\ g.seen = {} /\ g.result = "none" /\ g.step = 0 /\ g.id = none
  BY DEF NewProg
<1>. QED
  BY <1>2, <1>3 DEF Begun

\* What the command line sets.
Starts(g, kind, pc) ==
    /\ g \in ProgType /\ g.kind = kind /\ g.pc = pc
    /\ g.ses = none /\ g.last = none /\ g.turn = 1 /\ g.seen = {} /\ g.result = "none" /\ g.step = 0
    /\ g.id \in {none, "given"}

LEMMA AskedFor ==
    ASSUME NEW g, NEW kind, NEW pc, Starts(g, kind, pc), NEW s \in Session \cup {none}
    PROVE  Starts([g EXCEPT !.asked = s], kind, pc)
           /\ [g EXCEPT !.asked = s].asked = s /\ [g EXCEPT !.asked = s].ws = g.ws
BY DEF Starts, ProgType

LEMMA WaitIs ==
    ASSUME NEW g, NEW kind, NEW pc, Starts(g, kind, pc), NEW w \in BOOLEAN
    PROVE  Starts([g EXCEPT !.wait = w], kind, pc)
           /\ [g EXCEPT !.wait = w].asked = g.asked /\ [g EXCEPT !.wait = w].ws = g.ws
BY DEF Starts, ProgType

Chosen(f, s, w) == [f EXCEPT !.asked = s, !.wait = w]

LEMMA AskedAndWait ==
    ASSUME NEW g, NEW kind, NEW pc, Starts(g, kind, pc), NEW s \in Session \cup {none}, NEW w \in BOOLEAN
    PROVE  Starts(Chosen(g, s, w), kind, pc) /\ Chosen(g, s, w).asked = s /\ Chosen(g, s, w).ws = g.ws
<1>. DEFINE h == [g EXCEPT !.asked = s]
<1>1. Starts(h, kind, pc) /\ h.asked = s /\ h.ws = g.ws
  BY AskedFor
<1>2. Chosen(g, s, w) = [h EXCEPT !.wait = w]
  BY DEF Chosen
<1>. HIDE DEF h
<1>. QED
  BY <1>1, <1>2, WaitIs

LEMMA LeftIs ==
    ASSUME NEW g, NEW kind, NEW pc, Starts(g, kind, pc), NEW n \in 0..2
    PROVE  Starts([g EXCEPT !.left = n], kind, pc) /\ [g EXCEPT !.left = n].ws = g.ws
BY DEF Starts, ProgType

LEMMA GivenAndLeft ==
    ASSUME NEW g, NEW kind, NEW pc, Starts(g, kind, pc), NEW n \in 0..2
    PROVE  Starts([g EXCEPT !.id = "given", !.left = n], kind, pc)
           /\ [g EXCEPT !.id = "given", !.left = n].ws = g.ws
<1>. DEFINE h == [g EXCEPT !.id = "given"]
<1>1. Starts(h, kind, pc) /\ h.ws = g.ws
  BY DEF Starts, ProgType
<1>2. [g EXCEPT !.id = "given", !.left = n] = [h EXCEPT !.left = n]
  OBVIOUS
<1>. HIDE DEF h
<1>. QED
  BY <1>1, <1>2, LeftIs

LEMMA RegionIs ==
    ASSUME NEW g, NEW kind, NEW pc, Starts(g, kind, pc), NEW r \in Region
    PROVE  Starts([g EXCEPT !.region = r], kind, pc) /\ [g EXCEPT !.region = r].ws = g.ws
BY DEF Starts, ProgType

LEMMA WorkspaceIs ==
    ASSUME NEW g, NEW kind, NEW pc, Starts(g, kind, pc), NEW w \in BOOLEAN
    PROVE  Starts([g EXCEPT !.ws = w], kind, pc)
BY DEF Starts, ProgType

LEMMA NewProgStarts ==
    ASSUME NEW kind \in Kind, NEW pc \in Place
    PROVE  Starts(NewProg(kind, pc), kind, pc) /\ NewProg(kind, pc).asked = none /\ NewProg(kind, pc).ws = FALSE
BY NewProgBegins DEF Begun, Starts, NewProg

\* A session of the command line, or none, and what follows of where the program may stand.
Opens(g, kind) ==
    /\ Starts(g, kind, g.pc) /\ Places(g)
    /\ g.pc \in {"ask", "refresh", "forget", "cancel", "query", "attach", "send", "upload", "delete", "script"}

\* A session may be given, and whether to wait.
Choices(f, from) == {Chosen(f, s, w) : s \in from, w \in BOOLEAN}

LEMMA ChoicesStart ==
    ASSUME NEW f, NEW kind, NEW pc, Starts(f, kind, pc), NEW from \in SUBSET ({none} \cup Session),
           NEW g \in Choices(f, from)
    PROVE  Starts(g, kind, pc) /\ g.ws = f.ws /\ g.asked \in from
<1>1. \E s \in from, w \in BOOLEAN : g = Chosen(f, s, w)
  BY DEF Choices
<1>2. PICK s \in from, w \in BOOLEAN : g = Chosen(f, s, w)
  BY <1>1
<1>3. s \in Session \cup {none}
  OBVIOUS
<1>4. /\ Starts(Chosen(f, s, w), kind, pc) /\ Chosen(f, s, w).asked = s
      /\ Chosen(f, s, w).ws = f.ws
  BY <1>3, AskedAndWait
<1>. QED
  BY <1>2, <1>4

LEMMA BeginningAsk ==
    /\ Beginning("session") = Choices(NewProg("session", "ask"), {none} \cup Session)
    /\ Beginning("reuse_async") = Choices(NewProg("reuse_async", "ask"), {none} \cup Session)
    /\ Beginning("send") = Choices(NewProg("send", "send"), {none} \cup Session)
    /\ Beginning("send_legacy") = Choices(NewProg("send_legacy", "send"), {none} \cup Session)
BY DEF Beginning, Choices, Chosen

LEMMA AskOpens ==
    ASSUME NEW kind \in {"session", "reuse_async"}, NEW g \in Beginning(kind)
    PROVE  Opens(g, kind)
<1>. DEFINE f == NewProg(kind, "ask")
<1>1. g \in Choices(f, {none} \cup Session)
  BY BeginningAsk
<1>2. Starts(f, kind, "ask") /\ f.ws = FALSE
  BY NewProgStarts DEF Kind, Place
<1>. HIDE DEF f
<1>3. Starts(g, kind, "ask") /\ g.ws = FALSE
  BY <1>1, <1>2, ChoicesStart
<1>. QED
  BY <1>3 DEF Opens, Starts, Places

LEMMA SendOpens ==
    ASSUME NEW kind \in {"send", "send_legacy"}, NEW g \in Beginning(kind)
    PROVE  Opens(g, kind)
<1>. DEFINE f == NewProg(kind, "send")
<1>1. g \in Choices(f, {none} \cup Session)
  BY BeginningAsk
<1>2. Starts(f, kind, "send") /\ f.ws = FALSE
  BY NewProgStarts DEF Kind, Place
<1>. HIDE DEF f
<1>3. Starts(g, kind, "send") /\ g.ws = FALSE
  BY <1>1, <1>2, ChoicesStart
<1>. QED
  BY <1>3 DEF Opens, Starts, Places

LEMMA BeginningSession ==
    /\ Beginning("refresh") = {[NewProg("refresh", "refresh") EXCEPT !.asked = s] : s \in Session}
    /\ Beginning("forget") = {[NewProg("forget", "forget") EXCEPT !.asked = s] : s \in Session}
    /\ Beginning("cancel") = {[NewProg("cancel", "cancel") EXCEPT !.asked = s] : s \in Session}
    /\ Beginning("query") = {[NewProg("query", "query") EXCEPT !.asked = s] : s \in Session}
BY DEF Beginning

LEMMA SessionOpens ==
    ASSUME NEW kind \in {"refresh", "forget", "cancel", "query"}, NEW g \in Beginning(kind)
    PROVE  Opens(g, kind)
<1>. DEFINE f == NewProg(kind, kind)
<1>1. PICK s \in Session : g = [f EXCEPT !.asked = s]
  BY BeginningSession
<1>2. Starts(f, kind, kind) /\ f.ws = FALSE
  BY NewProgStarts DEF Kind, Place
<1>. HIDE DEF f
<1>3. Starts(g, kind, kind) /\ g.ws = FALSE /\ g.asked = s
  BY <1>1, <1>2, AskedFor
<1>. QED
  BY <1>3 DEF Opens, Starts, Places

LEMMA BeginningAttach == Beginning("attach") = Choices(NewProg("attach", "attach"), Session)
BY DEF Beginning, Choices, Chosen

LEMMA AttachOpens ==
    ASSUME NEW g \in Beginning("attach")
    PROVE  Opens(g, "attach")
<1>. DEFINE f == NewProg("attach", "attach")
<1>1. g \in Choices(f, Session)
  BY BeginningAttach
<1>2. Starts(f, "attach", "attach") /\ f.ws = FALSE
  BY NewProgStarts DEF Kind, Place, Script
<1>. HIDE DEF f
<1>3. Starts(g, "attach", "attach") /\ g.ws = FALSE /\ g.asked \in Session
  BY <1>1, <1>2, ChoicesStart
<1>. QED
  BY <1>3 DEF Opens, Starts, Places

LEMMA BeginningStream ==
    /\ Beginning("db") = {[NewProg("db", "send") EXCEPT !.left = n] : n \in 0..1}
    /\ Beginning("file") = {[NewProg("file", "upload") EXCEPT !.left = n] : n \in {0, 2}}
                      \cup {[NewProg("file", "send") EXCEPT !.id = "given", !.left = n] : n \in {0, 2}}
BY DEF Beginning

LEMMA DbOpens ==
    ASSUME NEW g \in Beginning("db")
    PROVE  Opens(g, "db")
<1>. DEFINE f == NewProg("db", "send")
<1>1. PICK n \in 0..1 : g = [f EXCEPT !.left = n]
  BY BeginningStream
<1>2. Starts(f, "db", "send") /\ f.ws = FALSE
  BY NewProgStarts DEF Kind, Place
<1>. HIDE DEF f
<1>3. Starts(g, "db", "send") /\ g.ws = FALSE
  BY <1>1, <1>2, LeftIs, n \in 0..2
<1>. QED
  BY <1>3 DEF Opens, Starts, Places

LEMMA FileOpens ==
    ASSUME NEW g \in Beginning("file")
    PROVE  Opens(g, "file")
<1>. DEFINE u == NewProg("file", "upload")
            f == NewProg("file", "send")
<1>1. \/ \E n \in {0, 2} : g = [u EXCEPT !.left = n]
      \/ \E n \in {0, 2} : g = [f EXCEPT !.id = "given", !.left = n]
  BY BeginningStream
<1>2. Starts(u, "file", "upload") /\ u.ws = FALSE /\ Starts(f, "file", "send") /\ f.ws = FALSE
  BY NewProgStarts DEF Kind, Place
<1>. HIDE DEF u, f
<1>3. CASE \E n \in {0, 2} : g = [u EXCEPT !.left = n]
  <2>1. PICK n \in 0..2 : g = [u EXCEPT !.left = n]
    BY <1>3
  <2>2. Starts(g, "file", "upload") /\ g.ws = FALSE
    BY <1>2, <2>1, LeftIs
  <2>. QED
    BY <2>2 DEF Opens, Starts, Places
<1>4. CASE \E n \in {0, 2} : g = [f EXCEPT !.id = "given", !.left = n]
  <2>1. PICK n \in {0, 2} : g = [f EXCEPT !.id = "given", !.left = n]
    BY <1>4
  <2>2. n \in 0..2
    OBVIOUS
  <2>3. Starts(g, "file", "send") /\ g.ws = FALSE
    BY <1>2, <2>1, <2>2, GivenAndLeft
  <2>. QED
    BY <2>3 DEF Opens, Starts, Places
<1>. QED
  BY <1>1, <1>3, <1>4

LEMMA BeginningScript ==
    /\ Beginning("import") = {[NewProg("import", "script") EXCEPT !.region = r] : r \in Region}
    /\ Beginning("status") = {[NewProg("status", "script") EXCEPT !.asked = s] : s \in Session}
    /\ Beginning("ls") = {[NewProg("ls", "script") EXCEPT !.ws = w] : w \in BOOLEAN}
    /\ Beginning("ls_tables") = {[NewProg("ls_tables", "script") EXCEPT !.ws = w] : w \in BOOLEAN}
    /\ Beginning("library") = {[NewProg("library", "script") EXCEPT !.ws = w] : w \in BOOLEAN}
    /\ \A kind \in {"agent_list", "agent_describe", "agent_create", "agent_update", "agent_publish", "release",
                    "workspace", "reports"} : Beginning(kind) = {NewProg(kind, "script")}
BY DEF Beginning

LEMMA Scripts ==
    DOMAIN Script = {"agent_list", "agent_describe", "agent_create", "agent_update", "agent_publish", "import",
                     "release", "ls", "ls_tables", "workspace", "status", "reports", "attach", "library"}
BY DEF Script

LEMMA ScriptOpens ==
    ASSUME NEW kind \in DOMAIN Script \ {"attach"}, NEW g \in Beginning(kind)
    PROVE  Opens(g, kind)
<1>. DEFINE f == NewProg(kind, "script")
<1>1. Starts(f, kind, "script") /\ f.ws = FALSE
  BY NewProgStarts DEF Kind, Place
<1>2. ASSUME Starts(g, kind, "script"), kind = "status" => g.asked \in Session,
             g.ws => kind \in {"ls", "ls_tables", "library"}
      PROVE  Opens(g, kind)
  BY <1>2, Scripts DEF Opens, Starts, Places
<1>3. CASE kind = "import"
  <2>1. PICK r \in Region : g = [f EXCEPT !.region = r]
    BY <1>3, BeginningScript
  <2>. HIDE DEF f
  <2>. QED
    BY <1>1, <1>2, <1>3, <2>1, RegionIs
<1>4. CASE kind = "status"
  <2>1. PICK s \in Session : g = [f EXCEPT !.asked = s]
    BY <1>4, BeginningScript
  <2>. HIDE DEF f
  <2>. QED
    BY <1>1, <1>2, <1>4, <2>1, AskedFor
<1>5. CASE kind \in {"ls", "ls_tables", "library"}
  <2>1. PICK w \in BOOLEAN : g = [f EXCEPT !.ws = w]
    BY <1>5, BeginningScript
  <2>. HIDE DEF f
  <2>. QED
    BY <1>1, <1>2, <1>5, <2>1, WorkspaceIs
<1>6. CASE kind \notin {"import", "status", "ls", "ls_tables", "library"}
  <2>1. g = f
    BY <1>6, Scripts, BeginningScript
  <2>. QED
    BY <1>1, <1>2, <1>6, <2>1
<1>. QED
  BY <1>3, <1>4, <1>5, <1>6

LEMMA FileTaskOpens ==
    ASSUME NEW kind \in {"upload", "delete"}, NEW g \in Beginning(kind)
    PROVE  Opens(g, kind)
<1>1. /\ Beginning("upload") = {NewProg("upload", "upload")}
      /\ Beginning("delete") = {NewProg("delete", "delete")}
  BY DEF Beginning
<1>2. g = NewProg(kind, kind) /\ kind \in Place /\ kind \in Kind
  BY <1>1 DEF Place, Kind
<1>3. Starts(g, kind, kind) /\ g.ws = FALSE
  BY <1>2, NewProgStarts
<1>. QED
  BY <1>3 DEF Opens, Starts, Places

LEMMA ProgramsOpen ==
    ASSUME NEW kind \in Kind, NEW g \in Beginning(kind)
    PROVE  Opens(g, kind)
BY AskOpens, SendOpens, SessionOpens, AttachOpens, DbOpens, FileOpens, ScriptOpens, FileTaskOpens DEF Kind

LEMMA NoCallAnswers == NoCall \in CallType /\ NoCall.stage = "none" /\ Answers(NoCall, {}) /\ NoCall.op # FileUploadCallback
<1>1. NoCall \in CallType
  <2>1. 0 \in 0..MaxRetries /\ 0 \in Nat /\ {} \in SUBSET Nat /\ "none" \in Stage /\ "home" \in Region
    BY ClientAssumption DEF Stage, Region
  <2>. QED
    BY <2>1 DEF NoCall, CallType
<1>2. /\ NoCall.op = Read("none") /\ NoCall.stage = "none" /\ NoCall.answer = "none" /\ NoCall.init = FALSE
  BY DEF NoCall
<1>3. Read("none").name = "none" /\ Read("none").checked = FALSE
  BY DEF Read
<1>. DEFINE c == NoCall
<1>4. /\ c.op \notin {DescribeSession, CreateSession, SendMessage, CancelMessage, FileUploadCallback}
      /\ c.op.checked = FALSE
  BY <1>2, <1>3, OperationsDiffer
<1>. HIDE DEF c
<1>. QED
  BY <1>1, <1>2, <1>4 DEF Answers, c

\* A program fits as it begins, and one that is not there.
LEMMA BeginningFits ==
    ASSUME NEW g, NEW kind, NEW pc, NEW has, Starts(g, kind, pc), Places(g),
           pc \in {"off", "ask", "refresh", "forget", "cancel", "query", "attach", "send", "upload", "delete", "script"}
    PROVE  Fits(g, NoCall, {}, has)
<1>1. /\ g \in ProgType /\ g.pc = pc /\ g.last = none /\ g.turn = 1 /\ g.left \in 0..2 /\ g.seen = {}
      /\ g.result = "none" /\ g.step = 0 /\ g.id \in {none, "given"}
  BY DEF Starts, ProgType
<1>2. InHand(g)
  BY <1>1 DEF InHand
<1>3. Waits(g, NoCall)
  BY <1>1, NoCallAnswers DEF Waits
<1>4. Ends(g, NoCall, {}) /\ HasFile(g, NoCall, has)
  BY <1>1, NoCallAnswers, CommandAssumption DEF Ends, HasFile
<1>. QED
  BY <1>1, <1>2, <1>3, <1>4, NoCallAnswers DEF Fits

LEMMA InitPInv == Init => PInv
<1>. SUFFICES ASSUME Init PROVE PInv
  OBVIOUS
<1>1. PICK i \in Instance : auth = i.auth /\ override = i.override /\ prog = i.prog /\ faults = i.faults
                            /\ status = [s \in Session |-> IF \E p \in Proc : prog[p].asked = s THEN i.status ELSE "absent"]
  BY DEF Init
<1>2. i \in InstanceType
  BY CommandAssumption
<1>. DEFINE Beginnings == UNION {Beginning(k) : k \in Kind}
<1>3. InstanceType = [auth : Auth, override : BOOLEAN, status : ServiceStatus, faults : 0..MaxFaults,
                      prog : [Proc -> Beginnings \cup {OffProg}]]
  BY DEF InstanceType
<1>. HIDE DEF Beginnings
<1>4. /\ auth \in Auth /\ override \in BOOLEAN /\ faults \in 0..MaxFaults /\ i.status \in ServiceStatus
      /\ prog \in [Proc -> Beginnings \cup {OffProg}]
  BY <1>1, <1>2, <1>3
<1>5. ASSUME NEW p \in Proc
      PROVE  Fits(prog[p], NoCall, {}, p \in stored)
  <2>1. prog[p] \in Beginnings \/ prog[p] = OffProg
    BY <1>4
  <2>2. CASE prog[p] = OffProg
    <3>1. Begun(OffProg, "none", "off")
      BY NewProgBegins DEF OffProg, Place, Final
    <3>2. Starts(OffProg, "none", "off") /\ Places(OffProg)
      BY <3>1 DEF Begun, Starts, Places
    <3>. QED
      BY <2>2, <3>2, BeginningFits
  <2>3. CASE prog[p] \in Beginnings
    <3>1. PICK kind \in Kind : prog[p] \in Beginning(kind)
      BY <2>3 DEF Beginnings
    <3>2. Opens(prog[p], kind)
      BY <3>1, ProgramsOpen
    <3>. QED
      BY <3>2, BeginningFits DEF Opens
  <2>. QED
    BY <2>1, <2>2, <2>3
<1>6. prog = [p \in Proc |-> prog[p]]
  BY <1>4
<1>7. /\ \A p \in Proc : call[p] = NoCall /\ told[p] = {}
      /\ told \in [Proc -> SUBSET (Session \X SessionStatus)] /\ active = {} /\ stored = {}
  BY DEF Init
<1>8. \A p \in Proc : Fits(prog[p], call[p], told[p], p \in stored)
  BY <1>5, <1>7
<1>9. status \in [Session -> ServiceStatus]
  BY <1>1, <1>4 DEF ServiceStatus
<1>10. /\ unit \in [value : Region \cup {"config", none}, region : Region \cup {none}]
      /\ unitCache \in [Region -> Region \cup {none}] /\ wsCache \subseteq Region \cup {"config"}
  BY DEF Init
<1>11. TypeOK
  BY <1>4, <1>7, <1>8, <1>9, <1>10 DEF TypeOK, Fits
<1>. QED
  BY <1>6, <1>8, <1>11 DEF PInv

-----------------------------------------------------------------------------

\* Whatever the programs are and however their steps, their calls, lost answers and the
\* sessions interleave: where a program stands, what it has in hand, the operation it
\* waits for and what that operation's answer says fit together.
THEOREM ProgramsFit == Spec => []PInv
<1>1. Init => PInv /\ IInv
  BY InitPInv, InitIInv
<1>2. PInv /\ IInv /\ [Next]_vars => PInv' /\ IInv'
  BY NextPInv, NextIInv
<1>. QED
  BY <1>1, <1>2, PTL DEF Spec

\* Every variable keeps its type, whatever is run.
THEOREM TypeCorrect == Spec => []TypeOK
BY ProgramsFit, PTL DEF PInv

\* A manager that waits hands out a session of which it was told, by its own request,
\* that it is ready, and the synchronous one the session it was asked for.
THEOREM OnlyReadyIsHandedOut == Spec => []HandedOutReady
<1>1. PInv => HandedOutReady
  BY DEF PInv, Fits, Ends, HandedOutReady
<1>. QED
  BY <1>1, ProgramsFit, PTL

\* A registration is asked for, and an ID handed out, only when the object store has
\* the file, and an ID that is the service's only when the service has registered it.
THEOREM FileIdsAreStored == Spec => []FileIdNamesObject
<1>1. PInv => FileIdNamesObject
  BY DEF PInv, Fits, HasFile, FileIdNamesObject
<1>. QED
  BY <1>1, ProgramsFit, PTL

\* No message of db and file is sent on top of an ask or a failure, and "completed" is
\* reported of responses that did not fail.
THEOREM ForegroundIsHonest == Spec => []ForegroundHonest
<1>1. PInv => ForegroundHonest
  <2>. SUFFICES ASSUME PInv, NEW p \in Proc
                PROVE  /\ prog[p].pc \in {"followup", "followed"} => prog[p].seen = {}
                       /\ prog[p].result = "completed" =>
                             \A e \in prog[p].seen : e[2] = "ask" /\ e[1] > 1 /\ prog[p].kind = "db"
    BY DEF ForegroundHonest
  <2>1. Places(prog[p]) /\ InHand(prog[p])
    BY DEF PInv, Fits
  <2>. QED
    BY <2>1 DEF Places, InHand, Final
<1>. QED
  BY <1>1, ProgramsFit, PTL

\* Exit code 0 of send, cancel and runtime-release means that the service has acted, and
\* with --poll that the session was last heard of as idle.
THEOREM DoneIsDone == Spec => []DoneMeansDone
<1>1. PInv => DoneMeansDone
  BY DEF PInv, Fits, Ends, Finished, DoneMeansDone
<1>. QED
  BY <1>1, ProgramsFit, PTL

=============================================================================
