---------------------------- MODULE SessionState ----------------------------
(***************************************************************************)
(* The record one analysis session keeps (server/internal/session/state.go)*)
(* and the methods of State, as functions from a record to a record.  A    *)
(* method holds State.mu for its whole body, so each is one indivisible    *)
(* change.                                                                 *)
(*                                                                         *)
(* Every event of the remote stream is named by its position in the        *)
(* remote's log, so a request key, an applied-event key and a checkpoint   *)
(* are all positions; 0 stands for "no ask is pending" (PendingAsk = "").  *)
(***************************************************************************)
EXTENDS Integers, FiniteSets

CONSTANT MaxEvents      \* bound: how many events the remote ever emits

ASSUME MaxEventsAssumption == MaxEvents \in Nat \ {0}

Key   == 1..MaxEvents
NoAsk == 0

AskKind    == {"ask_plan", "ask_human", "ask_report_render"}
SendStatus == {"none", "pending", "sending", "acknowledged", "failed", "unknown"}
Status     == {"running", "waiting_input", "completed", "error", "canceled"}
Terminal   == {"completed", "error", "canceled"}

\* What an event of the log can be.  "conclusion" frames bracket one streamed
\* answer; "fallback" is text kept in case no conclusion is ever delivered.
EventType == AskKind \cup Terminal \cup
             {"chat_start", "content_start", "content_finish", "fallback"}

Request == [kind : AskKind \cup {"none"}, status : SendStatus,
            stable : BOOLEAN, ready : BOOLEAN]

Session == [status   : Status,            \* Status
            req      : [Key -> Request],  \* Requests
            pending  : Key \cup {NoAsk},  \* PendingAsk
            applied  : SUBSET Key,        \* AppliedEvents
            awaiting : BOOLEAN,           \* AwaitingTurn
            msg      : SendStatus,        \* MessageStatus of the free-form message
            gen      : Nat,               \* SendGeneration
            cp       : Key \cup {0},      \* Checkpoint
            answers  : SUBSET Key,        \* Conclusions, by the event that completed each
            kept     : SUBSET Key,        \* PendingLLM and PendingToolOutput
            answered : BOOLEAN]           \* HasTurnConclusion

NoRequest == [kind |-> "none", status |-> "none", stable |-> FALSE, ready |-> FALSE]

\* A session whose first message is about to be sent by CreateSession.
NewSession == [status |-> "running", req |-> [k \in Key |-> NoRequest],
               pending |-> NoAsk, applied |-> {}, awaiting |-> FALSE,
               msg |-> "none", gen |-> 0, cp |-> 0,
               answers |-> {}, kept |-> {}, answered |-> FALSE]

-----------------------------------------------------------------------------
\* Requests[PendingAsk], where a missing key reads as the zero request.
PendingRequest(s) == IF s.pending = NoAsk THEN NoRequest ELSE s.req[s.pending]

IsRegistered(s, k) == s.req[k].status # "none"

\* RegisterAsk of a key that is not in the ledger yet.
RegisterAsk(s, k, kind, stable) ==
    [s EXCEPT !.req[k]  = [kind |-> kind, status |-> "pending",
                           stable |-> stable, ready |-> FALSE],
              !.pending = k,
              !.status  = "waiting_input"]

MarkReportReady(s, k) == [s EXCEPT !.req[k].ready = TRUE]

\* SetSendStatus(key # "", status): the delivery state of one request.
SetRequestStatus(s, k, status) ==
    LET acked == status = "acknowledged" /\ s.pending = k
        asks  == status # "acknowledged" /\ s.pending = k
    IN  [s EXCEPT !.req[k].status = status,
                  !.awaiting = \/ s.awaiting
                               \/ status = "sending" /\ s.req[k].kind = "ask_report_render",
                  !.pending  = IF acked THEN NoAsk ELSE s.pending,
                  !.status   = IF acked THEN "running"
                               ELSE IF asks THEN "waiting_input" ELSE s.status,
                  !.gen      = IF status = "sending" THEN s.gen + 1 ELSE s.gen]

\* Mutant: a follow-up does not wait for its own turn.
SetMessageStatusAnyTurn(s, status) ==
    [s EXCEPT !.msg      = status,
              !.status   = CASE status = "acknowledged" -> "running"
                             [] status = "unknown"      -> "waiting_input"
                             [] OTHER                   -> s.status,
              !.gen      = IF status = "sending" THEN s.gen + 1 ELSE s.gen]

\* SetSendStatus("", status): the delivery state of a free-form message.
SetMessageStatus(s, status) ==
    [s EXCEPT !.msg      = status,
              !.awaiting = IF status = "sending" THEN s.status \in Terminal ELSE s.awaiting,
              !.status   = CASE status = "acknowledged" -> "running"
                             [] status = "unknown"      -> "waiting_input"
                             [] OTHER                   -> s.status,
              !.gen      = IF status = "sending" THEN s.gen + 1 ELSE s.gen]

SetSendStatus(s, k, status) ==
    IF k = NoAsk THEN SetMessageStatus(s, status) ELSE SetRequestStatus(s, k, status)

MarkApplied(s, k)   == [s EXCEPT !.applied = s.applied \cup {k}]
SetCheckpoint(s, c) == [s EXCEPT !.cp = c]

StartTurn(s) ==
    [s EXCEPT !.awaiting = FALSE, !.pending = NoAsk, !.status = "running",
              !.msg = "none", !.kept = {}, !.answered = FALSE]

\* Mutant: a session ends with its ask still pending.
SetTerminalKeepingAsk(s, status) == [s EXCEPT !.status = status, !.msg = "none"]

\* SetCompleted, SetError and SetCanceled differ in the status they leave.
SetTerminal(s, status) ==
    [s EXCEPT !.status = status, !.pending = NoAsk, !.msg = "none"]

AddConclusion(s, k) == [s EXCEPT !.answers = s.answers \cup {k}, !.answered = TRUE]
KeepFallback(s, k)  == [s EXCEPT !.kept = s.kept \cup {k}]

-----------------------------------------------------------------------------
\* Mutants: a restart takes a send under way for one never made; it forgets a
\* free-form message under way.
FromSnapshotUnsent(s) ==
    [s EXCEPT !.req = [k \in Key |-> IF s.req[k].status = "sending"
                                     THEN [s.req[k] EXCEPT !.status = "pending"]
                                     ELSE s.req[k]],
              !.msg = IF s.msg = "sending" THEN "unknown" ELSE s.msg,
              !.status = IF s.msg = "sending" THEN "waiting_input" ELSE s.status]

FromSnapshotNoMessage(s) ==
    LET inDoubt == {k \in Key : s.req[k].status = "sending"}
    IN  [s EXCEPT !.req = [k \in Key |-> IF k \in inDoubt
                                         THEN [s.req[k] EXCEPT !.status = "unknown"]
                                         ELSE s.req[k]],
                  !.msg = IF s.msg = "sending" THEN "none" ELSE s.msg,
                  !.status = IF s.pending \in inDoubt THEN "waiting_input" ELSE s.status]

\* stateFromSnapshot: a send that was under way when the process died may or
\* may not have reached the remote.
FromSnapshot(s) ==
    LET inDoubt == {k \in Key : s.req[k].status = "sending"}
    IN  [s EXCEPT !.req = [k \in Key |-> IF k \in inDoubt
                                         THEN [s.req[k] EXCEPT !.status = "unknown"]
                                         ELSE s.req[k]],
                  !.msg = IF s.msg = "sending" THEN "unknown" ELSE s.msg,
                  !.status = IF s.msg = "sending" \/ s.pending \in inDoubt
                             THEN "waiting_input" ELSE s.status]

\* An ask the watcher answers by itself.
AutoConfirmable(r) == r.stable /\ r.kind = "ask_plan"

\* An analysis report that may not be asked for yet.
Draining(r) == r.kind = "ask_report_render" /\ ~r.ready

\* resultReason = "waiting_input": the user has to act.
NeedsUser(s, auto) ==
    LET r == PendingRequest(s)
    IN  /\ s.status = "waiting_input"
        /\ ~(Draining(r) /\ r.status = "pending")
        /\ ~(auto /\ AutoConfirmable(r) /\ r.status \in {"pending", "sending"})

\* resultReason # "": a waiting tool call returns.
HasResult(s, auto) == s.status \in Terminal \/ NeedsUser(s, auto)

-----------------------------------------------------------------------------
\* Mutants: a reply in doubt may be sent again; a report may be asked for at once.
MaySendAgain(s, k, auto, confirm) ==
    IF k = NoAsk
    THEN ~confirm /\ s.msg \notin {"unknown", "sending"}
    ELSE /\ s.pending = k
         /\ s.req[k].status \in (IF auto THEN {"pending"} ELSE {"pending", "failed", "unknown"})
         /\ ~Draining(s.req[k])

MaySendEarly(s, k, auto, confirm) ==
    IF k = NoAsk
    THEN ~confirm /\ s.msg \notin {"unknown", "sending"}
    ELSE /\ s.pending = k
         /\ s.req[k].status \in (IF auto THEN {"pending"} ELSE {"pending", "failed"})

\* The guards of Watcher.sendMessage, before anything is written: "confirm"
\* without a pending ask is refused, and so is whatever may already have been
\* delivered.  by = "auto" is the watcher's own answer.
MaySend(s, k, auto, confirm) ==
    IF k = NoAsk
    THEN ~confirm /\ s.msg \notin {"unknown", "sending"}
    ELSE /\ s.pending = k
         /\ s.req[k].status \in (IF auto THEN {"pending"} ELSE {"pending", "failed"})
         /\ ~Draining(s.req[k])

-----------------------------------------------------------------------------
\* A reply with one of these states may have reached the remote.
Committed == {"sending", "unknown", "acknowledged"}

\* A pending ask is shown as waiting for input and is still open, and a session
\* that waits for input has either such an ask or a message in doubt.
WaitingHasCause(s) ==
    /\ s.pending # NoAsk => /\ s.status = "waiting_input"
                            /\ s.req[s.pending].status \in {"pending", "sending", "failed", "unknown"}
    /\ s.status = "waiting_input" /\ s.pending = NoAsk => s.msg = "unknown"
=============================================================================
