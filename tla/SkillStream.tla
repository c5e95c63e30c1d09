---------------------------- MODULE SkillStream ----------------------------
(***************************************************************************)
(* What a process of the skill's command line receives of one session:     *)
(* stream_chat_content reads the events of the server, reconnects after a  *)
(* broken connection from the last checkpoint it has seen, and passes each *)
(* event to the handlers of streaming.py, which keep the flags the process *)
(* reports its result from.                                                *)
(*                                                                         *)
(* An event is its place in log, which is its checkpoint too if it carries *)
(* one.  The server replays what follows a given checkpoint; where it      *)
(* begins without one is its own choice.  SSE_FINISH ends a connection     *)
(* and is not in the log.                                                  *)
(***************************************************************************)
EXTENDS Integers, Sequences

CONSTANTS
    Worker,         \* background processes of the session
    Emits,          \* the types of events the server may emit
    Unnumbered,     \* those of them that carry no checkpoint
    MaxRetries,     \* max_retries (3), of a stream and of a message
    MaxEvents,      \* bound: length of log
    MaxDrops        \* bound: faults of the network

Ask == {"ask_plan", "ask_sql", "ask_human", "ask_report_render"}

EventType == Ask \cup {"chat_start", "output", "report_offer", "task_failed",
                       "chat_finish", "chat_canceled", "SSE_FAILURE"}

ASSUME StreamAssumption ==
    /\ Emits \subseteq EventType /\ Unnumbered \subseteq Emits
    /\ {MaxRetries, MaxEvents, MaxDrops} \subseteq Nat

VARIABLES
    server,         \* SessionStatus of the session, "none" before its first message
    log,            \* the events the server has emitted
    turn,           \* the length of log when the last message was accepted
    stream,         \* the stream of each process
    drops           \* faults so far

streamVars == <<server, log, turn, stream, drops>>

NoCheckpoint == -1

StreamType ==
    [phase    : {"off", "connecting", "open", "finished", "closed", "raised"},
     attach   : BOOLEAN,                        \* StreamState.is_attach
     from     : NoCheckpoint..MaxEvents,        \* the checkpoint asked for at first
     ck       : NoCheckpoint..MaxEvents,        \* current_checkpoint
     pos      : 0..MaxEvents,                   \* where the connection stands
     retries  : 0..(MaxRetries + 1),            \* retry_count
     confirm  : BOOLEAN,                        \* StreamState.need_user_confirm
     failed   : BOOLEAN,                        \* StreamState.task_failed_message
     seen     : SUBSET (1..MaxEvents),          \* history: events handled
     twice    : BOOLEAN]                        \* history: one was handled again

NoStream == [phase |-> "off", attach |-> FALSE, from |-> NoCheckpoint, ck |-> NoCheckpoint,
             pos |-> 0, retries |-> 0, confirm |-> FALSE, failed |-> FALSE,
             seen |-> {}, twice |-> FALSE]

Numbered(i) == log[i] \notin Unnumbered
Over(w)     == stream[w].phase \in {"finished", "closed", "raised"}

-----------------------------------------------------------------------------
(* The server.                                                             *)

\* An ask, an end or a failure of the turn stops it until the next message.
Emit ==
    /\ server = "RUNNING" /\ Len(log) < MaxEvents
    /\ \E t \in Emits :
        /\ log' = Append(log, t)
        /\ server' = CASE t \in Ask -> "WAIT_INPUT"
                       [] t \in {"chat_finish", "chat_canceled"} -> "IDLE"
                       [] t = "SSE_FAILURE" -> "FAILED"
                       [] OTHER -> "RUNNING"
    /\ UNCHANGED <<turn, stream, drops>>

\* A message answers the ask or begins a turn; a busy server goes on.
Accept ==
    /\ server' = "RUNNING"
    /\ turn' = IF server = "RUNNING" THEN turn ELSE Len(log)

\* A message that is not confirmed: an error is answered, or the answer is lost.  It
\* has arrived, or it never will.
LoseCall ==
    /\ drops < MaxDrops /\ drops' = drops + 1
    /\ Accept \/ UNCHANGED <<server, turn>>

-----------------------------------------------------------------------------
(* The handlers of streaming.py.                                           *)

\* BUG: the confirmation asked for in a plan is reset whoever reads it.
ConfirmAfterAlwaysReset(confirm, attach, t) ==
    IF t = "report_offer" THEN TRUE
    ELSE IF t \in Ask THEN FALSE ELSE confirm

\* need_user_confirm: data/ask_report_render sets it for everybody, an ask_sql
\* leaves it alone in an attached process, the other asks reset it there.
ConfirmAfter(confirm, attach, t) ==
    CASE t = "report_offer"      -> TRUE
      [] t \in Ask /\ ~attach    -> TRUE
      [] t \in Ask \ {"ask_sql"} /\ attach -> FALSE
      [] OTHER                   -> confirm

CheckpointAfter(ck, i) == IF Numbered(i) THEN i ELSE ck

\* The event at i is parsed, its checkpoint kept, and dispatched.
Handled(s, i) ==
    [s EXCEPT !.pos = i,
              !.ck = CheckpointAfter(@, i),
              !.confirm = ConfirmAfter(@, s.attach, log[i]),
              !.failed = @ \/ log[i] = "task_failed",
              !.seen = @ \cup {i},
              !.twice = @ \/ (i \in s.seen /\ Numbered(i))]

-----------------------------------------------------------------------------
(* stream_chat_content.                                                    *)

Phase(w, p) == stream' = [stream EXCEPT ![w].phase = p]

\* What a new stream of w is; the generator runs when the first event is asked for.
Opened(from, attach) ==
    [NoStream EXCEPT !.phase = "connecting", !.attach = attach, !.from = from, !.ck = from,
                     !.pos = IF from = NoCheckpoint THEN 0 ELSE from]

\* The server takes the connection and chooses where to begin if it has to.
Connect(w) ==
    /\ stream[w].phase = "connecting"
    /\ \E p \in IF stream[w].ck = NoCheckpoint THEN turn..Len(log) ELSE {stream[w].ck} :
          stream' = [stream EXCEPT ![w].phase = "open", ![w].pos = p]
    /\ UNCHANGED <<server, log, turn, drops>>

Receive(w) ==
    /\ stream[w].phase = "open" /\ stream[w].pos < Len(log)
    /\ stream' = [stream EXCEPT ![w] = Handled(@, stream[w].pos + 1)]
    /\ UNCHANGED <<server, log, turn, drops>>

\* SSE_FINISH: what was emitted so far has been delivered.  The turn may go on:
\* steps may still be executing (_post_query_state).
Finish(w) ==
    /\ stream[w].phase = "open" /\ stream[w].pos = Len(log)
    /\ Phase(w, "finished")
    /\ UNCHANGED <<server, log, turn, drops>>

\* The connection ends without SSE_FINISH; stream_chat_content returns.
CleanEnd(w) ==
    /\ stream[w].phase = "open"
    /\ drops < MaxDrops /\ drops' = drops + 1
    /\ Phase(w, "closed")
    /\ UNCHANGED <<server, log, turn>>

\* BUG: one attempt too many.
RetryOnceMore(w) ==
    stream' = [stream EXCEPT ![w].retries = @ + 1,
                             ![w].phase = IF stream[w].retries > MaxRetries
                                          THEN "raised" ELSE "connecting"]

\* BUG: the reconnection begins where the caller began.
RetryFromStart(w) ==
    stream' = [stream EXCEPT ![w].retries = @ + 1, ![w].ck = stream[w].from,
                             ![w].phase = IF stream[w].retries >= MaxRetries
                                          THEN "raised" ELSE "connecting"]

\* A retryable exception: sleep and connect again, unless there were too many.
Retry(w) ==
    stream' = [stream EXCEPT ![w].retries = @ + 1,
                             ![w].phase = IF stream[w].retries >= MaxRetries
                                          THEN "raised" ELSE "connecting"]

Break(w) ==
    /\ stream[w].phase \in {"connecting", "open"}
    /\ drops < MaxDrops /\ drops' = drops + 1
    /\ Retry(w)
    /\ UNCHANGED <<server, log, turn>>

\* Nothing arrives for the timeout of the request.
ReadTimeout(w) ==
    /\ stream[w].phase = "open" /\ stream[w].pos = Len(log) /\ server = "RUNNING"
    /\ Retry(w)
    /\ UNCHANGED <<server, log, turn, drops>>

\* An answer with an error, or none at all, is not retried.
Rejected(w) ==
    /\ stream[w].phase = "connecting"
    /\ drops < MaxDrops /\ drops' = drops + 1
    /\ Phase(w, "raised")
    /\ UNCHANGED <<server, log, turn>>

Read(w) == Connect(w) \/ Receive(w) \/ Finish(w) \/ ReadTimeout(w)

-----------------------------------------------------------------------------
\* A stream handles each numbered event at most once, and leaves none out after the
\* checkpoint it asked for at first, however its connections broke; without one, only
\* what came before the first of them may be missing (stream_chat_content resumes from
\* current_checkpoint).
ExactlyOnce ==
    \A w \in Worker :
        LET s == stream[w]
            numbered == {i \in s.seen : Numbered(i)}
        IN  /\ ~s.twice
            /\ \A j \in 1..s.pos : Numbered(j) /\ j \notin s.seen =>
                  j <= s.from \/ (s.from = NoCheckpoint /\ \A k \in numbered : j < k)
=============================================================================
