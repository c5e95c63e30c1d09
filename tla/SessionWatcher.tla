--------------------------- MODULE SessionWatcher ---------------------------
(***************************************************************************)
(* One analysis session of the MCP server: the Watcher goroutine that      *)
(* follows the remote event stream, the tool calls that answer it          *)
(* (Manager.SendMessage down to Watcher.sendMessage), the snapshot on disk,*)
(* process crashes, and the remote service with its network.               *)
(*                                                                         *)
(* mem   is the State record in memory, disk the last snapshot written.    *)
(* send  is the sendMessage in progress; whoever runs it holds opMu, so no *)
(*       event is applied while send.by # "none".                          *)
(* log, remote, inbox stand for the remote service: the events it has      *)
(*       emitted, what it is doing, how many messages it has taken but not *)
(*       acted on.  They are external to the code.                         *)
(* accepted, fence, renewed, doubt, skipped are history: what the remote   *)
(*       really took, and what was true when.  No action of the code reads *)
(*       them.                                                             *)
(***************************************************************************)
EXTENDS SessionState, Sequences

CONSTANTS
    Callers,          \* concurrent data_agent_send_message calls
    AutoConfirm,      \* the auto_confirm flag of the session
    RemoteEmits,      \* the event types the remote uses in this instance
    MaxErrors,        \* maxConsecutiveErrors (10 in the code)
    MaxCalls,         \* bound: how many calls are ever made
    MaxDrops,         \* bound: how many times the stream breaks by itself
    MaxReplay,        \* bound: how far before the checkpoint a stream can begin
    MaxCrashes        \* bound: how many times the process dies

ASSUME ActorAssumption ==
    /\ {"none", "auto"} \cap Callers = {}
    /\ AutoConfirm \in BOOLEAN
    /\ RemoteEmits \subseteq EventType
    /\ {MaxErrors, MaxCalls, MaxDrops, MaxReplay, MaxCrashes} \subseteq Nat

VARIABLES
    mem, disk,        \* Session records
    entry,            \* the manager's map holds this session's watcher
    run,              \* where Watcher.Run is
    errs,             \* consecutiveErrors
    seen,             \* what Run had read when it began to wait
    stream,           \* the connection streamOnce reads
    send,             \* the sendMessage in progress
    caller,           \* the tool calls
    log, remote, inbox,                   \* the remote service
    accepted, fence, renewed, doubt, skipped,      \* history
    calls, drops, crashes                 \* spent budgets

sessionVars == <<mem, disk>>
watchVars   == <<entry, run, errs, seen, stream>>
remoteVars  == <<log, remote, inbox>>
ghostVars   == <<accepted, fence, renewed, doubt, skipped>>
budgetVars  == <<calls, drops, crashes>>
vars == <<sessionVars, watchVars, send, caller, remoteVars, ghostVars, budgetVars>>

RunPhase    == {"none", "top", "stream", "waiting", "giveup", "done"}
SendPhase   == {"idle", "intent", "wire", "accepted", "lost", "rejected"}
CallerPhase == {"idle", "called", "checked", "ready", "revive", "sending"}

\* What Manager.SendMessage compares before and after it waits for the lock.
Sig(s) == <<s.pending, s.gen, s.msg, PendingRequest(s).status>>
SigSet == (Key \cup {NoAsk}) \X Nat \X SendStatus \X SendStatus
NoSig  == <<NoAsk, 0, "none", "none">>

NoStream == [pos |-> 0, latest |-> 0, open |-> FALSE, live |-> FALSE]
NoSend   == [by |-> "none", key |-> NoAsk, phase |-> "idle"]
Idle     == [pc |-> "idle", before |-> NoSig, wbefore |-> <<NoAsk, 0>>]

Event == [type : EventType, stable : BOOLEAN]

\* Every variable keeps its type: the ledger of a session, in memory and on disk,
\* holds statuses the code knows, and the cursor stays inside the remote's log.
TypeOK ==
    /\ mem \in Session /\ disk \in Session
    /\ entry \in BOOLEAN /\ run \in RunPhase /\ errs \in Nat /\ seen \in SigSet
    /\ stream \in [pos : Key \cup {0}, latest : Key \cup {0}, open : BOOLEAN, live : BOOLEAN]
    /\ send \in [by : Callers \cup {"none", "auto"}, key : Key \cup {NoAsk}, phase : SendPhase]
    /\ caller \in [Callers -> [pc : CallerPhase, before : SigSet,
                               wbefore : (Key \cup {NoAsk}) \X Nat]]
    /\ log \in Seq(Event) /\ Len(log) <= MaxEvents
    /\ remote \in {"idle", "working", "asked", "offered"} /\ inbox \in Nat
    /\ accepted \in [Key -> Nat] /\ fence \subseteq Key
    /\ renewed \in BOOLEAN /\ doubt \in {"no", "yes"} /\ skipped \subseteq Key
    /\ calls \in Nat /\ drops \in Nat /\ crashes \in Nat

\* CreateSession has persisted and delivered the first message and started
\* the watcher.
Init ==
    /\ mem = [NewSession EXCEPT !.msg = "acknowledged", !.gen = 1]
    /\ disk = mem
    /\ entry = TRUE /\ run = "top" /\ errs = 0 /\ seen = NoSig /\ stream = NoStream
    /\ send = NoSend /\ caller = [c \in Callers |-> Idle]
    /\ log = <<>> /\ remote = "idle" /\ inbox = 1
    /\ accepted = [k \in Key |-> 0]
    /\ fence = {} /\ renewed = FALSE /\ doubt = "no" /\ skipped = {}
    /\ calls = 0 /\ drops = 0 /\ crashes = 0

\* The turns whose beginning the session has seen.
TurnsSeen(s) == {i \in s.applied : log[i].type = "chat_start"}

OpMuFree   == send.by = "none"
OpLockFree == \A c \in Callers : caller[c].pc \in {"idle", "called"}
Visible    == IF entry THEN mem ELSE disk       \* Manager.GetStatus

\* state.persist: the whole record, or nothing when the write fails.
PersistIgnoringError(s) == disk' \in {s, disk}

-----------------------------------------------------------------------------
(* The remote service.                                                     *)

Emit(type, stable) ==
    /\ type \in RemoteEmits
    /\ Len(log) < MaxEvents
    /\ log' = Append(log, [type |-> type, stable |-> stable])

RemoteFrame == UNCHANGED <<sessionVars, watchVars, send, caller, ghostVars, budgetVars>>

\* The next message in the inbox starts a turn.
RemoteStartTurn ==
    /\ remote = "idle" /\ inbox > 0
    /\ Emit("chat_start", TRUE)
    /\ remote' = "working" /\ inbox' = inbox - 1
    /\ RemoteFrame

\* Streamed content is bracketed; data of another category may come in between,
\* and the end of the turn can cut it short.
ContentOpen ==
    \E i \in 1..Len(log) :
        /\ log[i].type = "content_start"
        /\ \A j \in i..Len(log) : log[j].type \notin Terminal \cup {"content_finish"}

RemoteContent ==
    /\ remote \in {"working", "offered"}
    /\ \/ Emit(IF ContentOpen THEN "content_finish" ELSE "content_start", TRUE)
       \/ Emit("fallback", TRUE)
    /\ UNCHANGED <<remote, inbox>>
    /\ RemoteFrame

\* A plan (or SQL) to confirm, or a question, stops the turn for an answer.
RemoteAsk ==
    /\ remote = "working" /\ ~ContentOpen
    /\ \E type \in {"ask_plan", "ask_human"}, stable \in BOOLEAN : Emit(type, stable)
    /\ remote' = "asked"
    /\ UNCHANGED inbox
    /\ RemoteFrame

\* The offer to render a report precedes the tail of the analysis.
RemoteOfferReport ==
    /\ remote = "working" /\ ~ContentOpen
    /\ Emit("ask_report_render", TRUE)
    /\ remote' = "offered"
    /\ UNCHANGED inbox
    /\ RemoteFrame

RemoteResume ==
    /\ remote = "asked" /\ inbox > 0
    /\ remote' = "working" /\ inbox' = inbox - 1
    /\ UNCHANGED log
    /\ RemoteFrame

RemoteEndTurn ==
    /\ remote \in {"working", "offered"}
    /\ \E type \in Terminal : Emit(type, TRUE)
    /\ remote' = "idle"
    /\ UNCHANGED inbox
    /\ RemoteFrame

Remote == \/ RemoteStartTurn \/ RemoteContent \/ RemoteAsk
          \/ RemoteOfferReport \/ RemoteResume \/ RemoteEndTurn

-----------------------------------------------------------------------------
(* Watcher.Run and streamOnce.                                             *)

\* What streamOnce returns once the channel is closed (a stream the watcher
\* cancelled is no error), and what Run does with it.  s is the state it reads.
AfterStream(s, cancelled) ==
    LET isError == ~cancelled /\ (~HasResult(s, AutoConfirm) \/ Draining(PendingRequest(s)))
    IN
    IF NeedsUser(s, AutoConfirm) /\ ~Draining(PendingRequest(s))
    THEN run' = "waiting" /\ seen' = Sig(s) /\ UNCHANGED errs
    ELSE /\ errs' = IF isError THEN errs + 1 ELSE 0
         /\ run'  = IF isError /\ errs + 1 > MaxErrors THEN "giveup" ELSE "top"
         /\ UNCHANGED seen

\* Mutant: the stream is asked for from behind the event after the checkpoint.
ConnectPastCursor ==
    /\ run = "top" /\ OpMuFree
    /\ stream' = [pos |-> IF mem.cp < Len(log) THEN mem.cp + 1 ELSE mem.cp,
                  latest |-> mem.cp, open |-> FALSE, live |-> TRUE]
    /\ run' = "stream"
    /\ UNCHANGED <<sessionVars, entry, errs, seen, send, caller, remoteVars, ghostVars, budgetVars>>

\* The stream is asked for from the checkpoint; the remote begins there or
\* replays events before it.
Connect ==
    /\ run = "top" /\ OpMuFree
    /\ \E from \in 0..mem.cp :
         /\ from + MaxReplay >= mem.cp
         /\ stream' = [pos |-> from, latest |-> mem.cp, open |-> FALSE, live |-> TRUE]
    /\ run' = "stream"
    /\ UNCHANGED <<sessionVars, entry, errs, seen, send, caller, remoteVars, ghostVars, budgetVars>>

StreamFrame ==
    UNCHANGED <<sessionVars, entry, send, caller, remoteVars, ghostVars, calls, crashes>>

\* The channel of events closes: the watcher cancelled it after a reply, or the
\* remote has nothing more to say (SSE_FINISH).
StreamClosed ==
    /\ run = "stream" /\ send.by # "auto"
    /\ ~stream.live \/ (stream.pos = Len(log) /\ inbox = 0 /\ remote \in {"asked", "idle"})
    /\ AfterStream(mem, ~stream.live)
    /\ stream' = NoStream
    /\ UNCHANGED drops /\ StreamFrame

\* The connection breaks, or cannot be made.
StreamBreak ==
    /\ run = "stream" /\ send.by # "auto" /\ stream.live
    /\ drops < MaxDrops /\ drops' = drops + 1
    /\ AfterStream(mem, FALSE)
    /\ stream' = NoStream
    /\ StreamFrame

\* Mutant: Run waits for the reply to an ask only.
WakeOnReply ==
    /\ run = "waiting" /\ mem.pending # seen[1]
    /\ run' = "top" /\ seen' = NoSig
    /\ UNCHANGED <<sessionVars, entry, errs, stream, send, caller, remoteVars, ghostVars, budgetVars>>

\* Run wakes on a change of the state, or every 2s while a delivery is unknown.
Wake ==
    /\ run = "waiting"
    /\ Sig(mem) # seen \/ "unknown" \in {seen[3], seen[4]}
    /\ run' = "top" /\ seen' = NoSig
    /\ UNCHANGED <<sessionVars, entry, errs, stream, send, caller, remoteVars, ghostVars, budgetVars>>

GiveUp ==
    /\ run = "giveup" /\ OpMuFree
    /\ mem' = SetTerminal(mem, "error")
    /\ PersistIgnoringError(mem')
    /\ run' = "done"
    /\ doubt' = "no"
    /\ UNCHANGED <<entry, errs, seen, stream, send, caller, remoteVars, accepted, fence, renewed, skipped, budgetVars>>

-----------------------------------------------------------------------------
(* The process function of streamOnce: one event under opMu.               *)

NextEvent == log[stream.pos + 1]

\* An event is about to be processed; latestCheckpoint follows the events that
\* carry a checkpoint.
Receiving(types) ==
    /\ run = "stream" /\ stream.live /\ OpMuFree
    /\ stream.pos < Len(log)
    /\ NextEvent.type \in types

Latest == IF NextEvent.stable /\ stream.pos + 1 > stream.latest
          THEN stream.pos + 1 ELSE stream.latest

\* Mutant: the cursor follows every event.
AdvanceAlways(s, open) == IF Latest > s.cp THEN SetCheckpoint(s, Latest) ELSE s

\* The cursor stays before content whose lifecycle is unfinished.
Advance(s, open) == IF ~open /\ Latest > s.cp THEN SetCheckpoint(s, Latest) ELSE s

Read(open) == stream' = [stream EXCEPT !.pos = @ + 1, !.latest = Latest, !.open = open]

DeliverFrame == UNCHANGED <<entry, caller, remoteVars, accepted, fence, renewed, calls, drops, crashes>>

ReceiveChatStart ==
    /\ Receiving({"chat_start"})
    /\ LET i == stream.pos + 1
           s == StartTurn(MarkApplied(mem, i))
       IN  IF i \in mem.applied
           THEN mem' = Advance(mem, stream.open) /\ UNCHANGED <<disk, doubt>>
           ELSE /\ PersistIgnoringError(s)
                /\ mem' = Advance(s, stream.open)
                /\ doubt' = "no"
    /\ Read(stream.open)
    /\ UNCHANGED <<run, errs, seen, send, skipped>>
    /\ DeliverFrame

ReceiveContentStart ==
    /\ Receiving({"content_start"})
    /\ Read(TRUE)
    /\ UNCHANGED <<sessionVars, run, errs, seen, send, doubt, skipped>>
    /\ DeliverFrame

\* Event i is old: it was applied before, or it belongs to the turn that ended
\* before the follow-up that is waiting for its own turn.
Stale(s, i) == i \in s.applied \/ s.awaiting

Skip(s, i) ==
    /\ mem' = s
    /\ skipped' = IF i \in s.applied THEN skipped ELSE skipped \cup {i}
    /\ UNCHANGED <<disk, doubt, run, errs, seen, send>>

\* The end of streamed content, or text kept as a fallback.  Without the start
\* of its lifecycle on this connection the frame has nothing to show.
ReceiveContent ==
    /\ Receiving({"content_finish", "fallback"})
    /\ LET i    == stream.pos + 1
           kind == NextEvent.type
           s    == Advance(mem, kind = "fallback" /\ stream.open)
           t    == IF kind = "fallback" THEN KeepFallback(MarkApplied(s, i), i)
                   ELSE AddConclusion(MarkApplied(s, i), i)
       IN  IF kind = "content_finish" /\ ~stream.open
           THEN mem' = s /\ UNCHANGED <<disk, doubt, skipped, run, errs, seen, send>>
           ELSE IF Stale(s, i) THEN Skip(s, i)
           ELSE /\ mem' = t
                /\ PersistIgnoringError(t)
                /\ UNCHANGED <<doubt, skipped, run, errs, seen, send>>
    /\ Read(stream.open /\ NextEvent.type = "fallback")
    /\ DeliverFrame

\* handleConfirmation: register the ask, write it down, and answer it at once
\* when that is allowed.  A failed write leaves it to the user.
ReceiveAsk ==
    /\ Receiving(AskKind)
    /\ LET i == stream.pos + 1
           s == Advance(mem, stream.open)
           t == RegisterAsk(s, i, NextEvent.type, NextEvent.stable)
       IN  IF Stale(s, i) THEN Skip(s, i)
           ELSE IF IsRegistered(s, i)
           THEN mem' = s /\ UNCHANGED <<disk, doubt, skipped, run, errs, seen, send>>
           ELSE /\ \/ /\ mem' = t /\ disk' = t
                      /\ send' = IF AutoConfirm /\ AutoConfirmable(t.req[i])
                                 THEN [by |-> "auto", key |-> i, phase |-> "intent"] ELSE send
                   \/ /\ mem' = SetSendStatus(t, i, "failed")
                      /\ UNCHANGED <<disk, send>>
                /\ UNCHANGED <<doubt, skipped, run, errs, seen>>
    /\ Read(stream.open)
    /\ DeliverFrame

\* A terminal event first flushes open content and, when the turn gave no
\* conclusion, promotes the fallback.  Completion with a report on offer makes
\* the offer answerable; anything else ends the session and the watcher.
ReceiveEnd ==
    /\ Receiving(Terminal)
    /\ LET i == stream.pos + 1
           s == Advance(mem, stream.open)
           flushed  == IF stream.open THEN AddConclusion(MarkApplied(s, i), i) ELSE MarkApplied(s, i)
           promoted == IF flushed.answered \/ flushed.kept = {} THEN flushed
                       ELSE [flushed EXCEPT !.answers = @ \cup flushed.kept, !.answered = TRUE]
           offer    == PendingRequest(promoted).kind = "ask_report_render"
           ready    == MarkReportReady(promoted, promoted.pending)
           over     == SetTerminal(promoted, NextEvent.type)
       IN  IF Stale(s, i) THEN Skip(s, i) /\ Read(stream.open)
           ELSE IF NextEvent.type = "completed" /\ offer
           THEN /\ \/ mem' = ready /\ disk' = ready
                   \/ mem' = SetSendStatus(ready, ready.pending, "failed") /\ UNCHANGED disk
                /\ stream' = NoStream
                /\ AfterStream(mem', FALSE)
                /\ UNCHANGED <<doubt, skipped, send>>
           ELSE /\ mem' = over
                /\ PersistIgnoringError(over)
                /\ run' = "done" /\ stream' = NoStream /\ doubt' = "no"
                /\ UNCHANGED <<errs, seen, send, skipped>>
    /\ DeliverFrame

Deliver == \/ ReceiveChatStart \/ ReceiveContentStart \/ ReceiveContent
           \/ ReceiveAsk \/ ReceiveEnd

-----------------------------------------------------------------------------
(* Watcher.sendMessage, by a caller or by the watcher itself.              *)

\* startWatcher for a session that was revived to be sent to.
Publish == entry' = TRUE /\ run' = "top" /\ errs' = 0

\* sendMessage returns.  A revived session is observed unless the send was
\* certainly not made and the session is not running.
SendReturns(s) ==
    /\ send' = NoSend
    /\ caller' = [c \in Callers |-> IF c = send.by THEN Idle ELSE caller[c]]
    /\ IF ~entry /\ (s.msg = "unknown" \/ PendingRequest(s).status = "unknown" \/ s.status = "running")
       THEN Publish ELSE UNCHANGED <<entry, run, errs>>

\* A message to a finished session, or an accepted report, starts a turn of its own.
IsFollowUp == IF send.key = NoAsk THEN mem.status \in Terminal
              ELSE mem.req[send.key].kind = "ask_report_render"

\* The intent to send is on disk before anything leaves the process.
SendIntent ==
    /\ send.phase = "intent"
    /\ LET s == SetSendStatus(mem, send.key, "sending")
           f == SetSendStatus(s, send.key, "failed")
       IN  \/ /\ mem' = s /\ disk' = s
              /\ send' = [send EXCEPT !.phase = "wire"]
              /\ IF IsFollowUp
                 THEN fence' = TurnsSeen(mem) /\ renewed' = FALSE
                 ELSE renewed' = (renewed \/ TurnsSeen(mem) \subseteq fence) /\ UNCHANGED fence
              /\ UNCHANGED <<entry, run, errs, caller>>
           \/ /\ mem' = f
              /\ SendReturns(f)
              /\ renewed' = (renewed \/ (~IsFollowUp /\ TurnsSeen(mem) \subseteq fence))
              /\ UNCHANGED <<disk, fence>>
    /\ UNCHANGED <<seen, stream, remoteVars, accepted, doubt, skipped, budgetVars>>

\* The network and the remote: the request is taken, lost, or refused.
Wire ==
    /\ send.phase = "wire"
    /\ \/ /\ send' = [send EXCEPT !.phase = "accepted"]
          /\ accepted' = [k \in Key |-> IF k = send.key THEN accepted[k] + 1 ELSE accepted[k]]
          /\ inbox' = inbox + 1
       \/ /\ \E p \in {"lost", "rejected"} : send' = [send EXCEPT !.phase = p]
          /\ UNCHANGED <<accepted, inbox>>
    /\ UNCHANGED <<sessionVars, watchVars, caller, log, remote, fence, renewed, doubt, skipped, budgetVars>>

\* The outcomes the client can see: a refusal is definite, anything else that
\* is not an answer leaves the delivery unknown.
Outcome == CASE send.phase = "accepted" -> {"acknowledged", "unknown"}
             [] send.phase = "lost"     -> {"unknown"}
             [] send.phase = "rejected" -> {"failed"}
             [] OTHER                   -> {}

SendResult ==
    /\ \E status \in Outcome :
         LET s == SetSendStatus(mem, send.key, status)
         IN  /\ mem' = s
             /\ PersistIgnoringError(s)
             /\ doubt' = IF send.key = NoAsk /\ status = "unknown" THEN "yes" ELSE doubt
             /\ IF send.by = "auto" /\ status = "acknowledged"
                THEN /\ run' = "top" /\ errs' = 0 /\ stream' = NoStream
                     /\ send' = NoSend /\ UNCHANGED <<entry, caller>>
                ELSE /\ SendReturns(s)
                     /\ stream' = [stream EXCEPT !.live = @ /\ status # "acknowledged"]
    /\ UNCHANGED <<seen, remoteVars, accepted, fence, renewed, skipped, budgetVars>>

-----------------------------------------------------------------------------
(* Manager.SendMessage.                                                    *)

CallFrame == UNCHANGED <<remoteVars, ghostVars, drops, crashes>>

Call(c) ==
    /\ caller[c].pc = "idle" /\ calls < MaxCalls
    /\ caller' = [caller EXCEPT ![c] = [Idle EXCEPT !.pc = "called", !.before = Sig(Visible)]]
    /\ calls' = calls + 1
    /\ UNCHANGED <<sessionVars, watchVars, send>> /\ CallFrame

\* The watcher that has ended is joined and forgotten; the session is loaded
\* again from its snapshot, unpublished.
Retire(c) ==
    /\ caller' = [caller EXCEPT ![c].pc = "revive", ![c].wbefore = <<NoAsk, 0>>]
    /\ mem' = FromSnapshot(disk)
    /\ entry' = FALSE /\ run' = "none" /\ errs' = 0 /\ stream' = NoStream
    /\ seen' = NoSig
    /\ UNCHANGED disk

Refuse(c) == caller' = [caller EXCEPT ![c] = Idle]

TakeOpLock(c) ==
    /\ caller[c].pc = "called" /\ OpLockFree
    /\ IF Sig(Visible) # caller[c].before
       THEN Refuse(c) /\ UNCHANGED <<sessionVars, watchVars>>
       ELSE IF entry /\ mem.status \notin Terminal
       THEN /\ caller' = [caller EXCEPT ![c].pc = "checked"]
            /\ UNCHANGED <<sessionVars, watchVars>>
       ELSE Retire(c)
    /\ UNCHANGED <<send, calls>> /\ CallFrame

\* Watcher.SendMessage reads the state before it waits for opMu ...
ReadBefore(c) ==
    /\ caller[c].pc = "checked"
    /\ IF "sending" \in {mem.msg, PendingRequest(mem).status}
       THEN Refuse(c)
       ELSE caller' = [caller EXCEPT ![c].pc = "ready", ![c].wbefore = <<mem.pending, mem.gen>>]
    /\ UNCHANGED <<sessionVars, watchVars, send, calls>> /\ CallFrame

\* ... and again when it has it.
EnterOpMu(c) ==
    /\ caller[c].pc = "ready" /\ OpMuFree
    /\ IF run = "done"
       THEN Retire(c) /\ UNCHANGED send
       ELSE /\ \/ /\ <<mem.pending, mem.gen>> = caller[c].wbefore
                  /\ \E confirm \in BOOLEAN : MaySend(mem, mem.pending, FALSE, confirm)
                  /\ caller' = [caller EXCEPT ![c].pc = "sending", ![c].wbefore = <<NoAsk, 0>>]
                  /\ send' = [by |-> c, key |-> mem.pending, phase |-> "intent"]
               \/ /\ \/ <<mem.pending, mem.gen>> # caller[c].wbefore
                     \/ \E confirm \in BOOLEAN : ~MaySend(mem, mem.pending, FALSE, confirm)
                  /\ Refuse(c) /\ UNCHANGED send
            /\ UNCHANGED <<sessionVars, watchVars>>
    /\ UNCHANGED calls /\ CallFrame

Revive(c) ==
    /\ caller[c].pc = "revive" /\ OpMuFree
    /\ \/ /\ \E confirm \in BOOLEAN : MaySend(mem, mem.pending, FALSE, confirm)
          /\ caller' = [caller EXCEPT ![c].pc = "sending"]
          /\ send' = [by |-> c, key |-> mem.pending, phase |-> "intent"]
          /\ UNCHANGED <<entry, run, errs>>
       \/ /\ \E confirm \in BOOLEAN : ~MaySend(mem, mem.pending, FALSE, confirm)
          /\ Refuse(c)
          /\ IF "unknown" \in {mem.msg, PendingRequest(mem).status} \/ mem.status = "running"
             THEN Publish ELSE UNCHANGED <<entry, run, errs>>
          /\ UNCHANGED send
    /\ UNCHANGED <<sessionVars, seen, stream, calls>> /\ CallFrame

-----------------------------------------------------------------------------
(* The process dies; a new one restores the session if it was active.      *)

Crash ==
    /\ crashes < MaxCrashes
    /\ crashes' = crashes + 1
    /\ mem' = FromSnapshot(disk)
    /\ entry' = FALSE /\ run' = "none" /\ errs' = 0 /\ seen' = NoSig /\ stream' = NoStream
    /\ doubt' = IF send.key = NoAsk /\ send.phase \in {"wire", "accepted", "lost"} THEN "yes" ELSE doubt
    /\ send' = NoSend /\ caller' = [c \in Callers |-> Idle]
    /\ UNCHANGED <<disk, remoteVars, accepted, fence, renewed, skipped, calls, drops>>

RestoreSession ==
    /\ ~entry /\ OpLockFree
    /\ FromSnapshot(disk).status \in {"running", "waiting_input"}
    /\ mem' = FromSnapshot(disk)
    /\ Publish
    /\ UNCHANGED <<disk, seen, stream, send, caller, remoteVars, ghostVars, budgetVars>>

-----------------------------------------------------------------------------
Watch == Connect \/ StreamClosed \/ StreamBreak \/ Wake \/ GiveUp \/ Deliver
Send  == SendIntent \/ Wire \/ SendResult
Serve(c) == Call(c) \/ TakeOpLock(c) \/ ReadBefore(c) \/ EnterOpMu(c) \/ Revive(c)

Next == Remote \/ Watch \/ Send \/ (\E c \in Callers : Serve(c)) \/ Crash \/ RestoreSession

Spec == Init /\ [][Next]_vars

\* The goroutines of the process are scheduled: Run keeps reading and
\* reconnecting, a call that was made runs on, a request answers or times out,
\* and the stream delivers what the remote has emitted.  Nothing is assumed of
\* the user, of faults, or of what the remote does next.
Fairness ==
    /\ WF_vars(Connect) /\ WF_vars(StreamClosed) /\ WF_vars(Wake) /\ WF_vars(GiveUp)
    /\ WF_vars(Deliver) /\ WF_vars(SendIntent) /\ WF_vars(Wire) /\ WF_vars(SendResult)
    /\ \A c \in Callers : WF_vars(TakeOpLock(c) \/ ReadBefore(c) \/ EnterOpMu(c) \/ Revive(c))

FairSpec == Spec /\ Fairness

-----------------------------------------------------------------------------
(* Properties.                                                             *)

\* A reply the remote has taken is known to the ledger in memory and on disk
\* as sending, unknown or acknowledged, whatever write failed and whenever the
\* process died (watcher.go: the intent is persisted before the call).
DeliveryRecorded ==
    \A k \in Key : accepted[k] > 0 =>
        mem.req[k].status \in Committed /\ disk.req[k].status \in Committed

\* No ask is ever answered twice, by the user, by auto-confirmation or by both,
\* across replays of the stream, lost answers and restarts.
AtMostOneReply == \A k \in Key : accepted[k] <= 1

\* What the session shows has a cause, in memory and on disk: it never waits for
\* nothing, and never hides an ask that is open.
PendingConsistent == WaitingHasCause(mem) /\ WaitingHasCause(disk)

\* A free-form message whose delivery is in doubt is not followed by another
\* one before a turn of the remote begins or ends, or the watcher gives up: no
\* failed write and no restart loses the doubt (MessageStatus, stateFromSnapshot).
NoResendInDoubt ==
    [][(send.phase = "intent" /\ send.key = NoAsk /\ send'.phase = "wire") => doubt # "yes"]_vars

\* A follow-up to a finished session, or an accepted report, is not ended by an
\* event of a turn seen before it: when an event of the stream ends the session,
\* a turn that was new after the last such message has begun (AwaitingTurn).
EndsOwnTurn == \E j \in TurnsSeen(mem) : j \notin fence

FollowUpKeepsItsTurn ==
    [][(run = "stream" /\ mem.status \notin Terminal /\ mem'.status \in Terminal)
         => EndsOwnTurn \/ renewed]_vars

\* The resume cursor never passes content that the session has not kept: every
\* answer and every fallback text at or before the checkpoint was recorded, or
\* was left out because it belongs to a turn before the follow-up.
CoversContent(s) ==
    \A i \in 1..Len(log) : i <= s.cp =>
        /\ log[i].type = "content_finish" => i \in s.answers \cup skipped
        /\ log[i].type = "fallback" => i \in s.applied \cup skipped

CheckpointCovers == CoversContent(mem) /\ CoversContent(disk)

\* The analysis that offered report k was received to its end: its completion was
\* applied, and the answers up to it are recorded.
Drained(k) ==
    \E j \in mem.applied :
        /\ j > k /\ log[j].type = "completed"
        /\ \A i \in k..j : log[i].type = "content_finish" => i \in mem.answers \cup skipped

ReportIsAskedFor ==
    send.phase \in {"wire", "accepted"} /\ send.key # NoAsk /\ log[send.key].type = "ask_report_render"

\* The completion of an older turn was passed over while a follow-up waited for
\* its turn (AwaitingTurn), and applied when it was replayed after that turn began.
OldEndApplied == \E j \in mem.applied \cap skipped : log[j].type = "completed"

\* The report is asked for only after the analysis it renders was received to its
\* end: the turn that offered it is complete and its answers are recorded.  The
\* one exception is OldEndApplied, which ReportSentDrained shows to be possible.
ReportAfterAnalysis == ReportIsAskedFor => Drained(send.key) \/ OldEndApplied

\* What a test says of every report that is sent (confirmation_test.go: "report
\* sent before analysis was drained" is a failure), without the exception.
ReportSentDrained == ReportIsAskedFor => Drained(send.key)

\* Once the remote has stopped to ask, a waiting tool call is told that the user
\* is needed, unless the remote goes on: a stale cursor, a broken stream or a
\* reply in flight does not hide the ask for ever.  (For an instance in which the
\* stream breaks less often in a row than maxConsecutiveErrors.)
AskReachesUser ==
    (remote = "asked" /\ inbox = 0)
        ~> (NeedsUser(mem, AutoConfirm) \/ mem.status = "completed" \/ remote # "asked" \/ inbox > 0)

\* When the remote has ended its last turn the session is completed, also when
\* the answer to its last reply was lost, and is neither left running nor given
\* up, under the same bound.  Only a free-form message or a report request in doubt,
\* or an ask that the user can answer, leaves it waiting.
TurnEndReachesSession ==
    (remote = "idle" /\ inbox = 0)
        ~> \/ mem.status = "completed" \/ mem.msg = "unknown"
           \/ PendingRequest(mem).status \in {"pending", "failed"}
           \/ PendingRequest(mem).kind = "ask_report_render" /\ PendingRequest(mem).status = "unknown"
           \/ remote # "idle" \/ inbox > 0

\* What resultReason assumes when it hides a pending ask from a waiting tool
\* call ("RegisterAsk notifies waiters before auto-confirmation starts"): the
\* automatic answer to it is under way.
HiddenAskIsBeingAnswered ==
    LET r == PendingRequest(mem)
    IN  (entry /\ OpMuFree /\ AutoConfirm) => ~(AutoConfirmable(r) /\ r.status = "pending")
=============================================================================
