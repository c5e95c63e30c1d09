----------------------- MODULE SessionWatcherProofs -----------------------
(***************************************************************************)
(* What SessionWatcher guarantees for every number of callers, events,     *)
(* crashes, broken streams and failed writes: no ask is answered twice, a  *)
(* reply the remote has taken is never forgotten, and what the session     *)
(* shows has a cause.                                                      *)
(*                                                                         *)
(* The argument: while a send is in progress it alone changes the record   *)
(* (opMu and the session's operation lock), its ask stays marked "sending" *)
(* in memory and on disk from before the request leaves until its outcome  *)
(* is known, and an ask that is marked so is never taken up again.         *)
(*                                                                         *)
(* Further invariants rest on that one: what the record says of a message  *)
(* in doubt (DoubtInv), what a stream has delivered and the record has kept *)
(* of it (StreamInv), and which turn the record is in (TurnInv).           *)
(***************************************************************************)
EXTENDS SessionWatcher, SessionStateProofs

RestTypes ==
    /\ entry \in BOOLEAN /\ run \in RunPhase /\ errs \in Nat /\ seen \in SigSet
    /\ stream \in [pos : Key \cup {0}, latest : Key \cup {0}, open : BOOLEAN, live : BOOLEAN]
    /\ send \in [by : Callers \cup {"none", "auto"}, key : Key \cup {NoAsk}, phase : SendPhase]
    /\ caller \in [Callers -> [pc : CallerPhase, before : SigSet,
                               wbefore : (Key \cup {NoAsk}) \X Nat]]
    /\ log \in Seq(Event) /\ Len(log) <= MaxEvents
    /\ remote \in {"idle", "working", "asked", "offered"} /\ inbox \in Nat
    /\ accepted \in [Key -> Nat] /\ fence \subseteq Key
    /\ renewed \in BOOLEAN /\ doubt \in {"no", "yes"} /\ skipped \subseteq Key
    /\ calls \in Nat /\ drops \in Nat /\ crashes \in Nat

\* Every reply the remote has taken is known to the record.
Knows(s) == \A k \in Key : accepted[k] > 0 => s.req[k].status \in Committed

\* What is true of the ask, or of the message, that is being sent.
Underway == {"wire", "accepted", "lost", "rejected"}

SendInv ==
    /\ send.by = "none" <=> send.phase = "idle"
    /\ send.phase = "intent" /\ send.key # NoAsk =>
         /\ mem.pending = send.key
         /\ mem.req[send.key].status \in {"pending", "failed"}
    /\ send.phase \in Underway /\ send.key # NoAsk =>
         /\ mem.pending = send.key
         /\ mem.req[send.key].status = "sending" /\ disk.req[send.key].status = "sending"
         /\ send.phase # "accepted" => accepted[send.key] = 0
    /\ send.phase # "idle" /\ send.key = NoAsk =>
         mem.pending = NoAsk /\ mem.status # "waiting_input"

\* Who sends keeps everybody else from replacing the record.
LockInv ==
    /\ send.by \in Callers => caller[send.by].pc = "sending"
    /\ send.by = "auto" => entry /\ send.key # NoAsk
    /\ run # "none" => entry

IInv == /\ RestTypes /\ Sound(mem) /\ Sound(disk) /\ Knows(mem) /\ Knows(disk)
        /\ AtMostOneReply /\ SendInv /\ LockInv

-----------------------------------------------------------------------------
(* Operators.                                                              *)

LEMMA SigTyped ==
    ASSUME NEW s \in Session
    PROVE  Sig(s) \in SigSet
<1>1. PendingRequest(s).status \in SendStatus
  BY DEF Session, Request, PendingRequest, NoRequest, SendStatus
<1>2. QED
  BY <1>1 DEF Session, Sig, SigSet

\* The event that is about to be processed.
LEMMA Incoming ==
    ASSUME RestTypes, SendInv, NEW types, Receiving(types)
    PROVE  /\ stream.pos + 1 \in Key /\ NextEvent \in Event /\ NextEvent.type \in types
           /\ Latest \in Key \cup {0}
           /\ send.by = "none" /\ send.phase = "idle" /\ run = "stream"
<1>1. stream.pos \in Nat /\ stream.pos + 1 <= Len(log) /\ stream.pos + 1 \in 1..Len(log)
  BY DEF RestTypes, Receiving, Key
<1>2. stream.pos + 1 \in Key
  BY <1>1, MaxEventsAssumption DEF RestTypes, Key
<1>3. NextEvent \in Event
  BY <1>1 DEF RestTypes, NextEvent
<1>4. Latest \in Key \cup {0}
  BY <1>2 DEF Latest, RestTypes
<1>5. QED
  BY <1>2, <1>3, <1>4 DEF Receiving, OpMuFree, SendInv

LEMMA Advanced ==
    ASSUME NEW s, Sound(s), Latest \in Key \cup {0}, NEW open
    PROVE  /\ Sound(Advance(s, open)) /\ SameLedger(s, Advance(s, open))
           /\ Advance(s, open).pending = s.pending /\ Advance(s, open).awaiting = s.awaiting
<1>1. /\ Sound(SetCheckpoint(s, Latest)) /\ SameLedger(s, SetCheckpoint(s, Latest))
  <2>1. 1 \in Key
    BY MaxEventsAssumption DEF Key
  <2>2. QED
    BY <2>1, Bookkeeping
<1>2. /\ SetCheckpoint(s, Latest).pending = s.pending
      /\ SetCheckpoint(s, Latest).awaiting = s.awaiting
  BY DEF SetCheckpoint, Sound, Session
<1>3. QED
  BY <1>1, <1>2 DEF Advance, SameLedger

LEMMA KnowsSame ==
    ASSUME NEW s, NEW t, Knows(s), SameLedger(s, t)
    PROVE  Knows(t)
BY DEF Knows, SameLedger

-----------------------------------------------------------------------------
(* Kinds of steps.                                                         *)

\* The record, the send and the remote's replies stay as they are.
LEMMA IdleStep ==
    ASSUME IInv, RestTypes', UNCHANGED <<mem, disk, send, accepted, entry>>,
           \A c \in Callers : send.by = c => caller'[c] = caller[c],
           run' # "none" => run # "none"
    PROVE  IInv'
BY DEF IInv, Knows, AtMostOneReply, SendInv, LockInv

\* The record is replaced while nobody sends, and nobody begins to.
LEMMA QuietStep ==
    ASSUME IInv, RestTypes', UNCHANGED <<accepted, entry>>, send.by = "none", send' = send,
           Sound(mem'), Sound(disk'), Knows(mem'), Knows(disk'), run' # "none" => run # "none"
    PROVE  IInv'
<1>1. Knows(mem)' /\ Knows(disk)' /\ Sound(mem)' /\ Sound(disk)'
  BY DEF Knows
<1>2. send.phase = "idle"
  BY DEF IInv, SendInv
<1>3. SendInv'
  BY <1>2 DEF SendInv, Underway
<1>4. LockInv' /\ AtMostOneReply'
  BY ActorAssumption DEF IInv, LockInv, AtMostOneReply
<1>5. QED
  BY <1>1, <1>3, <1>4 DEF IInv

-----------------------------------------------------------------------------
(* The remote.                                                             *)

LEMMA RemoteStep ==
    ASSUME IInv, Remote
    PROVE  IInv'
<1> USE DEF IInv
<1>1. /\ UNCHANGED <<mem, disk, send, accepted, entry, caller, run>>
      /\ UNCHANGED <<errs, seen, stream, fence, renewed, doubt, skipped, calls, drops, crashes>>
  BY DEF Remote, RemoteStartTurn, RemoteContent, RemoteAsk, RemoteOfferReport, RemoteResume,
         RemoteEndTurn, RemoteFrame, sessionVars, watchVars, ghostVars, budgetVars
<1>2. log' \in Seq(Event) /\ Len(log') <= MaxEvents
  <2>1. ASSUME NEW type, NEW stable \in BOOLEAN, Emit(type, stable)
        PROVE  log' \in Seq(Event) /\ Len(log') <= MaxEvents
    <3>1. [type |-> type, stable |-> stable] \in Event
      BY <2>1, ActorAssumption DEF Emit, Event
    <3>2. log' = Append(log, [type |-> type, stable |-> stable]) /\ Len(log) < MaxEvents
      BY <2>1 DEF Emit
    <3>3. QED
      BY <3>1, <3>2, MaxEventsAssumption DEF RestTypes
  <2>2. CASE UNCHANGED log
    BY <2>2 DEF RestTypes
  <2>3. QED
    BY <2>1, <2>2 DEF Remote, RemoteStartTurn, RemoteContent, RemoteAsk, RemoteOfferReport,
                      RemoteResume, RemoteEndTurn
<1>3. remote' \in {"idle", "working", "asked", "offered"} /\ inbox' \in Nat
  <2>1. inbox \in Nat /\ remote \in {"idle", "working", "asked", "offered"}
    BY DEF RestTypes
  <2>2. CASE RemoteStartTurn \/ RemoteResume
    <3>1. inbox > 0 /\ inbox' = inbox - 1 /\ remote' = "working"
      BY <2>2 DEF RemoteStartTurn, RemoteResume
    <3>2. inbox' \in Nat
      BY <2>1, <3>1
    <3>3. QED
      BY <3>1, <3>2
  <2>3. CASE RemoteContent
    BY <2>1, <2>3 DEF RemoteContent
  <2>4. CASE RemoteAsk \/ RemoteOfferReport \/ RemoteEndTurn
    BY <2>1, <2>4 DEF RemoteAsk, RemoteOfferReport, RemoteEndTurn
  <2>5. QED
    BY <2>2, <2>3, <2>4 DEF Remote
<1>4. RestTypes'
  BY <1>1, <1>2, <1>3 DEF RestTypes
<1>5. QED
  BY <1>1, <1>4, IdleStep

-----------------------------------------------------------------------------
(* Watcher.Run.                                                            *)

LEMMA AfterStreamTyped ==
    ASSUME NEW s \in Session, NEW cancelled, AfterStream(s, cancelled), errs \in Nat, seen \in SigSet
    PROVE  run' \in RunPhase /\ errs' \in Nat /\ seen' \in SigSet
BY SigTyped DEF AfterStream, RunPhase

LEMMA RunStep ==
    ASSUME IInv, Connect \/ StreamClosed \/ StreamBreak \/ Wake
    PROVE  IInv'
<1> USE DEF IInv
<1>1. CASE Connect
  <2>1. mem.cp \in Key \cup {0} /\ \A from \in 0..mem.cp : from \in Key \cup {0}
    BY MaxEventsAssumption DEF Sound, Session, Key
  <2>2. stream' \in [pos : Key \cup {0}, latest : Key \cup {0}, open : BOOLEAN, live : BOOLEAN]
    BY <1>1, <2>1 DEF Connect
  <2>3. RestTypes'
    BY <1>1, <2>2 DEF Connect, RestTypes, RunPhase, remoteVars, ghostVars, budgetVars
  <2>4. QED
    BY <1>1, <2>3, IdleStep DEF Connect, sessionVars, ghostVars
<1>2. CASE StreamClosed \/ StreamBreak
  <2>1. \E cancelled : AfterStream(mem, cancelled)
    BY <1>2 DEF StreamClosed, StreamBreak
  <2>2. run' \in RunPhase /\ errs' \in Nat /\ seen' \in SigSet
    BY <2>1, AfterStreamTyped DEF Sound, RestTypes
  <2>3. stream' = NoStream /\ drops' \in Nat /\ run # "none"
    <3>1. drops \in Nat
      BY DEF RestTypes
    <3>2. CASE StreamClosed
      BY <3>1, <3>2 DEF StreamClosed
    <3>3. CASE StreamBreak
      BY <3>1, <3>3 DEF StreamBreak
    <3>4. QED
      BY <1>2, <3>2, <3>3
  <2>4. UNCHANGED <<mem, disk, entry, send, caller, log, remote, inbox, accepted, fence, renewed,
                    doubt, skipped, calls, crashes>>
    BY <1>2 DEF StreamClosed, StreamBreak, StreamFrame, sessionVars, remoteVars, ghostVars
  <2>5. RestTypes'
    BY <2>2, <2>3, <2>4 DEF RestTypes, NoStream
  <2>6. QED
    BY <2>3, <2>4, <2>5, IdleStep
<1>3. CASE Wake
  <2>1. RestTypes'
    BY <1>3 DEF Wake, RestTypes, RunPhase, SigSet, NoSig, NoAsk, SendStatus, remoteVars, ghostVars, budgetVars
  <2>2. QED
    BY <1>3, <2>1, IdleStep DEF Wake, sessionVars, ghostVars
<1>4. QED
  BY <1>1, <1>2, <1>3

LEMMA GiveUpStep ==
    ASSUME IInv, GiveUp
    PROVE  IInv'
<1> USE DEF IInv
<1>1. send.by = "none" /\ send' = send /\ UNCHANGED <<accepted, entry>> /\ run # "none"
  BY DEF GiveUp, OpMuFree
<1>2. mem' = SetTerminal(mem, "error") /\ disk' \in {mem', disk}
  BY DEF GiveUp, PersistIgnoringError
<1>3. Sound(mem') /\ SameLedger(mem, mem')
  BY <1>2, Turns DEF Terminal
<1>4. Knows(mem')
  BY <1>3, KnowsSame
<1>5. RestTypes'
  BY DEF GiveUp, RestTypes, RunPhase, remoteVars, budgetVars
<1>6. QED
  BY <1>1, <1>2, <1>3, <1>4, <1>5, QuietStep

-----------------------------------------------------------------------------
(* The events of the stream.                                               *)

LEMMA ReadTyped ==
    ASSUME RestTypes, stream.pos + 1 \in Key, Latest \in Key \cup {0}, NEW open \in BOOLEAN, Read(open)
    PROVE  stream' \in [pos : Key \cup {0}, latest : Key \cup {0}, open : BOOLEAN, live : BOOLEAN]
BY DEF RestTypes, Read

LEMMA ChatStartStep ==
    ASSUME IInv, ReceiveChatStart
    PROVE  IInv'
<1> USE DEF IInv
<1> DEFINE i == stream.pos + 1
           s == StartTurn(MarkApplied(mem, i))
<1>1. i \in Key /\ Latest \in Key \cup {0} /\ send.by = "none" /\ run = "stream"
  BY Incoming DEF ReceiveChatStart
<1>2. Sound(s) /\ SameLedger(mem, s)
  BY <1>1, Bookkeeping, Turns DEF Terminal, SameLedger
<1>3. \/ mem' = Advance(mem, stream.open) /\ disk' = disk
      \/ mem' = Advance(s, stream.open) /\ disk' \in {s, disk}
  BY DEF ReceiveChatStart, PersistIgnoringError
<1>4. Sound(mem') /\ SameLedger(mem, mem') /\ Sound(disk')
  BY <1>1, <1>2, <1>3, Advanced DEF SameLedger
<1>5. Knows(mem') /\ Knows(disk')
  BY <1>2, <1>3, <1>4, KnowsSame
<1>6. stream' \in [pos : Key \cup {0}, latest : Key \cup {0}, open : BOOLEAN, live : BOOLEAN]
  BY <1>1, ReadTyped DEF ReceiveChatStart, RestTypes
<1>7. RestTypes' /\ send' = send /\ UNCHANGED <<accepted, entry, run>>
  BY <1>6 DEF ReceiveChatStart, DeliverFrame, RestTypes, remoteVars
<1>8. QED
  BY <1>1, <1>4, <1>5, <1>7, QuietStep

LEMMA ContentStep ==
    ASSUME IInv, ReceiveContentStart \/ ReceiveContent
    PROVE  IInv'
<1> USE DEF IInv
<1> DEFINE i == stream.pos + 1
<1>1. i \in Key /\ Latest \in Key \cup {0} /\ send.by = "none" /\ run = "stream"
  BY Incoming DEF ReceiveContentStart, ReceiveContent
<1>2. Sound(mem') /\ SameLedger(mem, mem') /\ disk' \in {mem', disk} /\ skipped' \subseteq Key
      /\ UNCHANGED <<run, errs, seen, send, doubt>>
  <2>1. CASE ReceiveContentStart
    BY <2>1 DEF ReceiveContentStart, sessionVars, SameLedger, RestTypes
  <2>2. CASE ReceiveContent
    <3> DEFINE kind == NextEvent.type
               s == Advance(mem, kind = "fallback" /\ stream.open)
               t == IF kind = "fallback" THEN KeepFallback(MarkApplied(s, i), i)
                    ELSE AddConclusion(MarkApplied(s, i), i)
    <3>1. Sound(s) /\ SameLedger(mem, s)
      BY <1>1, Advanced
    <3>2. Sound(t) /\ SameLedger(mem, t)
      <4> DEFINE u == MarkApplied(s, i)
      <4> HIDE DEF s
      <4>1. Sound(u) /\ SameLedger(s, u)
        BY <1>1, <3>1, Bookkeeping
      <4> HIDE DEF u
      <4>2. /\ Sound(KeepFallback(u, i)) /\ SameLedger(u, KeepFallback(u, i))
            /\ Sound(AddConclusion(u, i)) /\ SameLedger(u, AddConclusion(u, i))
        BY <1>1, <4>1, Bookkeeping
      <4>3. t \in {KeepFallback(u, i), AddConclusion(u, i)}
        BY DEF u
      <4>4. QED
        BY <3>1, <4>1, <4>2, <4>3 DEF SameLedger
    <3>3. mem' \in {s, t} /\ disk' \in {mem', disk} /\ skipped' \in {skipped, skipped \cup {i}}
          /\ UNCHANGED <<run, errs, seen, send, doubt>>
      <4> HIDE DEF s, t
      <4>1. QED
        BY <2>2 DEF ReceiveContent, PersistIgnoringError, Skip, s, t
    <3>4. QED
      BY <1>1, <3>1, <3>2, <3>3 DEF RestTypes
  <2>3. QED
    BY <2>1, <2>2
<1>3. Knows(mem') /\ Knows(disk') /\ Sound(disk')
  BY <1>2, KnowsSame
<1>4. stream' \in [pos : Key \cup {0}, latest : Key \cup {0}, open : BOOLEAN, live : BOOLEAN]
  <2>1. \E open \in BOOLEAN : Read(open)
    <3>1. (stream.open /\ NextEvent.type = "fallback") \in BOOLEAN
      OBVIOUS
    <3>2. QED
      BY <3>1 DEF ReceiveContentStart, ReceiveContent
  <2>2. QED
    BY <1>1, <2>1, ReadTyped
<1>5. UNCHANGED <<entry, caller, log, remote, inbox, accepted, fence, renewed, calls, drops, crashes>>
  BY DEF ReceiveContentStart, ReceiveContent, DeliverFrame, remoteVars
<1>6. RestTypes'
  BY <1>2, <1>4, <1>5 DEF RestTypes
<1>7. QED
  BY <1>1, <1>2, <1>3, <1>5, <1>6, QuietStep

\* A new ask: nobody has answered it, and the watcher's own answer to it is the
\* only send that begins while nobody sends.
LEMMA AskStep ==
    ASSUME IInv, ReceiveAsk
    PROVE  IInv'
<1> USE DEF IInv
<1> DEFINE i == stream.pos + 1
           s == Advance(mem, stream.open)
           t == RegisterAsk(s, i, NextEvent.type, NextEvent.stable)
           f == SetSendStatus(t, i, "failed")
<1>1. /\ i \in Key /\ Latest \in Key \cup {0} /\ send.by = "none" /\ send.phase = "idle"
      /\ run = "stream" /\ NextEvent.type \in AskKind /\ NextEvent.stable \in BOOLEAN /\ i # NoAsk
  BY Incoming DEF ReceiveAsk, Event, Key, NoAsk
<1>2. Sound(s) /\ SameLedger(mem, s)
  BY <1>1, Advanced
<1>3. /\ stream' \in [pos : Key \cup {0}, latest : Key \cup {0}, open : BOOLEAN, live : BOOLEAN]
  BY <1>1, ReadTyped DEF ReceiveAsk, RestTypes
<1>4. UNCHANGED <<entry, caller, log, remote, inbox, accepted, fence, renewed, calls, drops, crashes>>
  BY DEF ReceiveAsk, DeliverFrame, remoteVars
<1>5. CASE Stale(s, i) \/ IsRegistered(s, i)
  <2>1. mem' = s /\ skipped' \in {skipped, skipped \cup {i}}
        /\ UNCHANGED <<disk, doubt, run, errs, seen, send>>
    <3> HIDE DEF s, i
    <3>1. QED
      BY <1>5 DEF ReceiveAsk, Skip, s, i
  <2>2. Sound(mem') /\ Knows(mem')
    BY <1>2, <2>1, KnowsSame
  <2>3. RestTypes'
    BY <1>1, <1>3, <1>4, <2>1 DEF RestTypes
  <2>4. QED
    BY <1>1, <1>4, <2>1, <2>2, <2>3, QuietStep
<1>6. CASE ~Stale(s, i) /\ ~IsRegistered(s, i)
  <2>1. accepted[i] = 0
    <3>1. mem.req[i].status = "none"
      BY <1>1, <1>2, <1>6 DEF IsRegistered, SameLedger
    <3>2. ~(accepted[i] > 0)
      BY <1>1, <3>1 DEF Knows, Committed
    <3>3. QED
      BY <1>1, <3>2 DEF RestTypes
  <2>2. /\ Sound(t) /\ t.pending = i /\ t.req[i].status = "pending"
        /\ \A j \in Key \ {i} : t.req[j] = s.req[j]
    BY <1>1, <1>2, Registered
  <2> HIDE DEF t
  <2>3. /\ Sound(f) /\ \A j \in Key \ {i} : f.req[j] = t.req[j]
    BY <1>1, <2>2, ReplyStatus
  <2> HIDE DEF f
  <2>4. Knows(t) /\ Knows(f)
    BY <1>2, <2>1, <2>2, <2>3 DEF Knows, SameLedger
  <2>5. UNCHANGED <<doubt, skipped, run, errs, seen>>
    <3> HIDE DEF s, i
    <3>1. QED
      BY <1>6 DEF ReceiveAsk, s, i, t
  <2>6. \/ /\ mem' = t /\ disk' = t
           /\ send' \in {send, [by |-> "auto", key |-> i, phase |-> "intent"]}
        \/ mem' = f /\ UNCHANGED <<disk, send>>
    <3> HIDE DEF s, i
    <3>1. QED
      BY <1>6 DEF ReceiveAsk, s, i, t, f
  <2>7. RestTypes'
    <3>1. send' \in [by : Callers \cup {"none", "auto"}, key : Key \cup {NoAsk}, phase : SendPhase]
      BY <1>1, <2>6 DEF RestTypes, SendPhase
    <3>2. QED
      BY <1>3, <1>4, <2>5, <3>1 DEF RestTypes
  <2>8. Sound(mem') /\ Sound(disk') /\ Knows(mem') /\ Knows(disk')
    BY <2>2, <2>3, <2>4, <2>6
  <2>9. CASE send' = send
    BY <1>1, <1>4, <2>5, <2>7, <2>8, <2>9, QuietStep
  <2>10. CASE mem' = t /\ send' = [by |-> "auto", key |-> i, phase |-> "intent"]
    <3>1. SendInv'
      BY <1>1, <2>2, <2>10 DEF SendInv, Underway
    <3>2. LockInv'
      BY <1>1, <1>4, <2>5, <2>10, ActorAssumption DEF LockInv
    <3>3. QED
      BY <1>4, <2>7, <2>8, <3>1, <3>2 DEF Knows, AtMostOneReply
  <2>11. QED
    BY <2>6, <2>9, <2>10
<1>7. QED
  BY <1>5, <1>6

\* The end of a turn: a report on offer may be asked for, or the session ends.
LEMMA EndStep ==
    ASSUME IInv, ReceiveEnd
    PROVE  IInv'
<1> USE DEF IInv
<1> DEFINE i == stream.pos + 1
           s == Advance(mem, stream.open)
           flushed  == IF stream.open THEN AddConclusion(MarkApplied(s, i), i) ELSE MarkApplied(s, i)
           promoted == IF flushed.answered \/ flushed.kept = {} THEN flushed
                       ELSE [flushed EXCEPT !.answers = @ \cup flushed.kept, !.answered = TRUE]
           offer    == PendingRequest(promoted).kind = "ask_report_render"
           ready    == MarkReportReady(promoted, promoted.pending)
           over     == SetTerminal(promoted, NextEvent.type)
           failed   == SetSendStatus(ready, ready.pending, "failed")
<1>1. /\ i \in Key /\ Latest \in Key \cup {0} /\ send.by = "none"
      /\ run = "stream" /\ NextEvent.type \in Terminal
  BY Incoming DEF ReceiveEnd
<1>2. Sound(s) /\ SameLedger(mem, s) /\ s.awaiting \in BOOLEAN
  BY <1>1, Advanced DEF Sound, Session
<1>3. stream' \in [pos : Key \cup {0}, latest : Key \cup {0}, open : BOOLEAN, live : BOOLEAN]
  <2>1. Read(stream.open) \/ stream' = NoStream
    BY DEF ReceiveEnd
  <2>2. CASE Read(stream.open)
    BY <1>1, <2>2, ReadTyped DEF RestTypes
  <2>3. CASE stream' = NoStream
    BY <2>3 DEF NoStream
  <2>4. QED
    BY <2>1, <2>2, <2>3
<1>4. UNCHANGED <<entry, caller, log, remote, inbox, accepted, fence, renewed, calls, drops, crashes>>
      /\ send' = send
  BY DEF ReceiveEnd, DeliverFrame, remoteVars, Skip
<1>5. CASE Stale(s, i)
  <2>1. mem' = s /\ skipped' \in {skipped, skipped \cup {i}}
        /\ UNCHANGED <<disk, doubt, run, errs, seen>>
    <3> HIDE DEF s, i
    <3>1. QED
      BY <1>5 DEF ReceiveEnd, Skip, s, i
  <2>2. Knows(mem')
    BY <1>2, <2>1, KnowsSame
  <2>3. RestTypes'
    BY <1>1, <1>3, <1>4, <2>1 DEF RestTypes
  <2>4. QED
    BY <1>1, <1>2, <1>4, <2>1, <2>2, <2>3, QuietStep
<1>6. CASE ~Stale(s, i)
  <2>1. Sound(promoted) /\ SameLedger(mem, promoted)
        /\ promoted.awaiting = FALSE
    <3>1. s.awaiting = FALSE
      BY <1>2, <1>6 DEF Stale
    <3> DEFINE u == MarkApplied(s, i)
    <3> HIDE DEF s
    <3>2. Sound(u) /\ SameLedger(s, u) /\ u.awaiting = FALSE
      <4>1. u.awaiting = s.awaiting
        BY <1>2 DEF MarkApplied, Sound, Session
      <4>2. QED
        BY <1>1, <1>2, <3>1, <4>1, Bookkeeping
    <3> HIDE DEF u
    <3>3. Sound(flushed) /\ SameLedger(u, flushed) /\ flushed.awaiting = FALSE
      <4>1. AddConclusion(u, i).awaiting = u.awaiting
        BY <3>2 DEF AddConclusion, Sound, Session
      <4>2. Sound(AddConclusion(u, i)) /\ SameLedger(u, AddConclusion(u, i))
        BY <1>1, <3>2, Bookkeeping
      <4>3. flushed \in {u, AddConclusion(u, i)}
        BY DEF u
      <4>4. QED
        BY <3>2, <4>1, <4>2, <4>3 DEF SameLedger
    <3> HIDE DEF flushed
    <3>4. Sound(promoted) /\ SameLedger(flushed, promoted) /\ promoted.awaiting = FALSE
      BY <3>3 DEF Sound, Session, SameLedger, WaitingHasCause, ReportAwaitsTurn
    <3>5. QED
      BY <1>2, <3>2, <3>3, <3>4 DEF SameLedger
  <2> HIDE DEF promoted
  <2>2. CASE NextEvent.type = "completed" /\ offer
    <3>1. promoted.pending \in Key
      BY <2>1, <2>2 DEF PendingRequest, NoRequest, Sound, Session
    <3>2. /\ Sound(ready) /\ SameLedger(promoted, ready) /\ ready.pending = promoted.pending
          /\ ready.awaiting = FALSE
      BY <2>1, <3>1, ReportReady
    <3>3. promoted.req[promoted.pending].kind = "ask_report_render" /\ promoted.pending # NoAsk
      BY <2>2, <3>1 DEF PendingRequest, Key, NoAsk
    <3>4. ready.req[ready.pending].status \notin Committed
      BY <2>1, <3>1, <3>2, <3>3 DEF Sound, ReportAwaitsTurn, SameLedger
    <3> HIDE DEF ready
    <3>5. /\ Sound(failed) /\ \A j \in Key \ {ready.pending} : failed.req[j] = ready.req[j]
      BY <3>1, <3>2, ReplyStatus
    <3> HIDE DEF failed
    <3>6. Knows(ready)
      BY <2>1, <3>2, KnowsSame
    <3>7. Knows(failed)
      BY <3>1, <3>2, <3>4, <3>5, <3>6 DEF Knows
    <3>8. /\ \/ mem' = ready /\ disk' = ready
             \/ mem' = failed /\ UNCHANGED disk
          /\ AfterStream(mem', FALSE) /\ UNCHANGED <<doubt, skipped>>
      <4> HIDE DEF s, i
      <4>1. QED
        BY <1>6, <2>2 DEF ReceiveEnd, s, i, promoted, flushed, ready, failed
    <3>9. run' \in RunPhase /\ errs' \in Nat /\ seen' \in SigSet
      BY <3>2, <3>5, <3>8, AfterStreamTyped DEF RestTypes, Sound
    <3>10. RestTypes'
      BY <1>3, <1>4, <3>8, <3>9 DEF RestTypes
    <3>11. QED
      BY <1>1, <1>4, <3>2, <3>5, <3>6, <3>7, <3>8, <3>10, QuietStep
  <2>3. CASE ~(NextEvent.type = "completed" /\ offer)
    <3>1. Sound(over) /\ SameLedger(promoted, over)
      BY <1>1, <2>1, Turns
    <3> HIDE DEF over
    <3>2. Knows(over)
      BY <2>1, <3>1, KnowsSame DEF SameLedger
    <3>3. /\ mem' = over /\ disk' \in {over, disk} /\ run' = "done" /\ doubt' = "no"
          /\ UNCHANGED <<errs, seen, skipped>>
      <4> HIDE DEF s, i
      <4>1. QED
        BY <1>6, <2>3 DEF ReceiveEnd, s, i, promoted, flushed, over, PersistIgnoringError
    <3>4. RestTypes'
      BY <1>3, <1>4, <3>3 DEF RestTypes, RunPhase
    <3>5. QED
      BY <1>1, <1>4, <3>1, <3>2, <3>3, <3>4, QuietStep
  <2>4. QED
    BY <2>2, <2>3
<1>7. QED
  BY <1>5, <1>6

-----------------------------------------------------------------------------
(* Sending.                                                                *)

\* What sendMessage leaves behind when it returns.
LEMMA Returned ==
    ASSUME RestTypes, LockInv, NEW s, SendReturns(s)
    PROVE  /\ send' = NoSend /\ entry' \in BOOLEAN /\ run' \in RunPhase /\ errs' \in Nat
           /\ run' # "none" => entry'
           /\ caller' \in [Callers -> [pc : CallerPhase, before : SigSet,
                                       wbefore : (Key \cup {NoAsk}) \X Nat]]
<1>1. Idle \in [pc : CallerPhase, before : SigSet, wbefore : (Key \cup {NoAsk}) \X Nat]
  BY DEF Idle, CallerPhase, SigSet, NoSig, NoAsk, SendStatus
<1>2. caller' = [c \in Callers |-> IF c = send.by THEN Idle ELSE caller[c]] /\ send' = NoSend
  BY DEF SendReturns
<1>3. caller' \in [Callers -> [pc : CallerPhase, before : SigSet, wbefore : (Key \cup {NoAsk}) \X Nat]]
  BY <1>1, <1>2 DEF RestTypes
<1>4. entry' \in BOOLEAN /\ run' \in RunPhase /\ errs' \in Nat /\ (run' # "none" => entry')
  <2>1. \/ entry' = TRUE /\ run' = "top" /\ errs' = 0
        \/ entry' = entry /\ run' = run /\ errs' = errs
    BY DEF SendReturns, Publish
  <2>2. entry \in BOOLEAN /\ run \in RunPhase /\ errs \in Nat /\ (run # "none" => entry)
    BY DEF RestTypes, LockInv
  <2>3. CASE entry' = TRUE /\ run' = "top" /\ errs' = 0
    BY <2>3 DEF RunPhase
  <2>4. CASE entry' = entry /\ run' = run /\ errs' = errs
    BY <2>2, <2>4
  <2>5. QED
    BY <2>1, <2>3, <2>4
<1>5. QED
  BY <1>2, <1>3, <1>4

\* Once nothing is being sent only the records have to be looked at.
LEMMA Unlocked ==
    ASSUME IInv, RestTypes', send' = NoSend, UNCHANGED accepted, run' # "none" => entry',
           Sound(mem'), Sound(disk'), Knows(mem'), Knows(disk')
    PROVE  IInv'
<1>1. Knows(mem)' /\ Knows(disk)' /\ Sound(mem)' /\ Sound(disk)'
  BY DEF Knows
<1>2. SendInv' /\ LockInv'
  BY ActorAssumption DEF SendInv, LockInv, NoSend, Underway
<1>3. AtMostOneReply'
  BY DEF IInv, AtMostOneReply
<1>4. QED
  BY <1>1, <1>2, <1>3 DEF IInv

\* What SetSendStatus makes of the record while it is being sent from.
LEMMA Marked ==
    ASSUME IInv, send.phase # "idle",
           NEW s, Sound(s), s.pending = mem.pending, s.pending = NoAsk => s.status # "waiting_input",
           NEW status \in {"sending", "acknowledged", "failed", "unknown"},
           status = "unknown" /\ send.key # NoAsk => s.req[send.key].status \in Committed
    PROVE  LET t == SetSendStatus(s, send.key, status)
           IN  /\ Sound(t)
               /\ send.key # NoAsk => t.req[send.key].status = status
               /\ \A j \in Key : j # send.key => t.req[j].status = s.req[j].status
               /\ status # "acknowledged" => t.pending = send.key
               /\ t.pending = NoAsk /\ send.key = NoAsk /\ status # "unknown" => t.status # "waiting_input"
<1>1. send.key \in Key \cup {NoAsk} /\ NoAsk \notin Key
  BY DEF IInv, RestTypes, Key, NoAsk
<1>2. send.phase \in {"intent"} \cup Underway
  BY DEF IInv, RestTypes, SendPhase, Underway
<1>3. s.pending = send.key
  BY <1>2 DEF IInv, SendInv
<1>4. CASE send.key \in Key
  <2>1. send.key # NoAsk
    BY <1>1, <1>4
  <2>2. QED
    BY <1>3, <1>4, <2>1, ReplyStatus
<1>5. CASE send.key = NoAsk
  BY <1>1, <1>3, <1>5, MessageStatus DEF SameLedger
<1>6. QED
  BY <1>1, <1>4, <1>5

LEMMA IntentStep ==
    ASSUME IInv, SendIntent
    PROVE  IInv'
<1> USE DEF IInv
<1> DEFINE s == SetSendStatus(mem, send.key, "sending")
           f == SetSendStatus(s, send.key, "failed")
<1>1. send.phase = "intent" /\ send.by # "none" /\ send.key \in Key \cup {NoAsk} /\ NoAsk \notin Key
  BY DEF SendIntent, SendInv, RestTypes, Key, NoAsk
<1>2. /\ Sound(s) /\ s.pending = send.key
      /\ send.key # NoAsk => s.req[send.key].status = "sending"
      /\ \A j \in Key : j # send.key => s.req[j].status = mem.req[j].status
      /\ send.key = NoAsk => s.status # "waiting_input"
  <2>1. mem.pending = NoAsk => mem.status # "waiting_input"
    BY <1>1 DEF SendInv
  <2>2. QED
    BY <1>1, <2>1, Marked
<1>3. mem.pending = send.key
  BY <1>1 DEF SendInv
<1> HIDE DEF s
<1>4. /\ Sound(f)
      /\ \A j \in Key : j # send.key => f.req[j].status = s.req[j].status
  BY <1>1, <1>2, <1>3, Marked
<1> HIDE DEF f
<1>5. send.key # NoAsk => accepted[send.key] = 0
  <2>1. SUFFICES ASSUME send.key # NoAsk
                 PROVE  accepted[send.key] = 0
    OBVIOUS
  <2>2. mem.req[send.key].status \notin Committed
    BY <1>1, <2>1 DEF SendInv, Committed
  <2>3. ~(accepted[send.key] > 0)
    BY <1>1, <2>1, <2>2 DEF Knows
  <2>4. QED
    BY <1>1, <2>1, <2>3 DEF RestTypes
<1>6. Knows(s) /\ Knows(f)
  <2>1. SUFFICES ASSUME NEW k \in Key, accepted[k] > 0
                 PROVE  s.req[k].status \in Committed /\ f.req[k].status \in Committed
    BY DEF Knows
  <2>2. k # send.key
    BY <1>1, <1>5, <2>1
  <2>3. QED
    BY <1>2, <1>4, <2>1, <2>2 DEF Knows
<1>7. fence' \subseteq Key /\ renewed' \in BOOLEAN
  <2>1. TurnsSeen(mem) \subseteq Key
    BY DEF TurnsSeen, Sound, Session
  <2>2. fence' \in {fence, TurnsSeen(mem)}
    BY DEF SendIntent
  <2>3. renewed' \in BOOLEAN
    BY DEF SendIntent, RestTypes
  <2>4. QED
    BY <2>1, <2>2, <2>3 DEF RestTypes
<1>8. UNCHANGED <<seen, stream, log, remote, inbox, accepted, doubt, skipped, calls, drops, crashes>>
  BY DEF SendIntent, remoteVars, budgetVars
<1>9. CASE /\ mem' = s /\ disk' = s /\ send' = [send EXCEPT !.phase = "wire"]
           /\ UNCHANGED <<entry, run, errs, caller>>
  <2>1. send'.phase = "wire" /\ send'.key = send.key /\ send'.by = send.by
        /\ send' \in [by : Callers \cup {"none", "auto"}, key : Key \cup {NoAsk}, phase : SendPhase]
    BY <1>9 DEF RestTypes, SendPhase
  <2>2. RestTypes'
    BY <1>7, <1>8, <1>9, <2>1 DEF RestTypes
  <2>3. SendInv'
    BY <1>1, <1>2, <1>5, <1>8, <1>9, <2>1 DEF SendInv, Underway
  <2>4. LockInv'
    BY <1>9, <2>1 DEF LockInv
  <2>5. QED
    BY <1>2, <1>6, <1>8, <1>9, <2>2, <2>3, <2>4 DEF Knows, AtMostOneReply
<1>10. CASE mem' = f /\ SendReturns(f) /\ UNCHANGED disk
  <2>1. RestTypes' /\ send' = NoSend /\ (run' # "none" => entry')
    <3>1. NoSend \in [by : Callers \cup {"none", "auto"}, key : Key \cup {NoAsk}, phase : SendPhase]
      BY DEF NoSend, SendPhase
    <3>2. QED
      BY <1>7, <1>8, <1>10, <3>1, Returned DEF RestTypes
  <2>2. QED
    BY <1>4, <1>6, <1>8, <1>10, <2>1, Unlocked
<1>11. QED
  BY <1>9, <1>10 DEF SendIntent, s, f

LEMMA WireStep ==
    ASSUME IInv, Wire
    PROVE  IInv'
<1> USE DEF IInv
<1>1. /\ send.phase = "wire" /\ send.by # "none" /\ send'.phase \in {"accepted", "lost", "rejected"}
      /\ send'.by = send.by /\ send'.key = send.key
      /\ send' \in [by : Callers \cup {"none", "auto"}, key : Key \cup {NoAsk}, phase : SendPhase]
  BY DEF Wire, SendInv, RestTypes, SendPhase
<1>2. UNCHANGED <<mem, disk, entry, run, errs, seen, stream, caller, log, remote, fence, renewed,
                  doubt, skipped, calls, drops, crashes>>
  BY DEF Wire, sessionVars, watchVars, budgetVars
<1>3. /\ \/ /\ accepted' = [k \in Key |-> IF k = send.key THEN accepted[k] + 1 ELSE accepted[k]]
            /\ send'.phase = "accepted"
         \/ UNCHANGED accepted /\ send'.phase # "accepted"
      /\ inbox' \in {inbox, inbox + 1}
  BY DEF Wire, RestTypes
<1>4. accepted' \in [Key -> Nat] /\ inbox' \in Nat
  <2>1. accepted \in [Key -> Nat] /\ inbox \in Nat
    BY DEF RestTypes
  <2>2. accepted' \in [Key -> Nat]
    <3>1. \A k \in Key : accepted[k] \in Nat /\ accepted[k] + 1 \in Nat
      BY <2>1
    <3>2. QED
      BY <1>3, <2>1, <3>1
  <2>3. inbox' \in Nat
    BY <1>3, <2>1
  <2>4. QED
    BY <2>2, <2>3
<1>5. \A k \in Key : k # send.key => accepted'[k] = accepted[k]
  BY <1>3 DEF RestTypes
<1>6. send.key # NoAsk => /\ send.key \in Key /\ accepted[send.key] = 0 /\ accepted'[send.key] <= 1
                          /\ send'.phase # "accepted" => accepted'[send.key] = 0
                          /\ mem.req[send.key].status = "sending" /\ disk.req[send.key].status = "sending"
  <2>1. SUFFICES ASSUME send.key # NoAsk
                 PROVE  /\ send.key \in Key /\ accepted[send.key] = 0 /\ accepted'[send.key] <= 1
                        /\ send'.phase # "accepted" => accepted'[send.key] = 0
                        /\ mem.req[send.key].status = "sending" /\ disk.req[send.key].status = "sending"
    OBVIOUS
  <2>2. send.key \in Key
    BY <2>1 DEF RestTypes
  <2>3. accepted[send.key] = 0 /\ mem.req[send.key].status = "sending" /\ disk.req[send.key].status = "sending"
    BY <1>1, <2>1 DEF SendInv, Underway
  <2>4. CASE /\ accepted' = [k \in Key |-> IF k = send.key THEN accepted[k] + 1 ELSE accepted[k]]
             /\ send'.phase = "accepted"
    <3>1. accepted'[send.key] = accepted[send.key] + 1
      BY <2>2, <2>4
    <3>2. accepted'[send.key] = 1
      BY <2>3, <3>1
    <3>3. QED
      BY <2>2, <2>3, <2>4, <3>2
  <2>5. CASE UNCHANGED accepted /\ send'.phase # "accepted"
    BY <2>2, <2>3, <2>5
  <2>6. QED
    BY <1>3, <2>4, <2>5
<1>7. SendInv'
  BY <1>1, <1>2, <1>6 DEF SendInv, Underway
<1>8. AtMostOneReply' /\ Knows(mem)' /\ Knows(disk)'
  <2>1. SUFFICES ASSUME NEW k \in Key
                 PROVE  /\ accepted'[k] <= 1
                        /\ accepted'[k] > 0 => /\ mem.req[k].status \in Committed
                                               /\ disk.req[k].status \in Committed
    BY <1>2 DEF AtMostOneReply, Knows
  <2>2. CASE k = send.key
    <3>1. k # NoAsk
      BY DEF Key, NoAsk
    <3>2. QED
      BY <1>6, <2>2, <3>1 DEF Committed
  <2>3. CASE k # send.key
    BY <1>5, <2>3 DEF AtMostOneReply, Knows
  <2>4. QED
    BY <2>2, <2>3
<1>9. RestTypes'
  BY <1>1, <1>2, <1>4 DEF RestTypes
<1>10. LockInv'
  BY <1>1, <1>2 DEF LockInv
<1>11. QED
  BY <1>2, <1>7, <1>8, <1>9, <1>10

LEMMA ResultStep ==
    ASSUME IInv, SendResult
    PROVE  IInv'
<1> USE DEF IInv
<1>1. PICK status \in Outcome :
        LET s == SetSendStatus(mem, send.key, status)
        IN  /\ mem' = s /\ disk' \in {s, disk}
            /\ doubt' \in {"yes", doubt}
            /\ \/ /\ send.by = "auto" /\ run' = "top" /\ errs' = 0 /\ stream' = NoStream
                  /\ send' = NoSend /\ UNCHANGED <<entry, caller>>
               \/ SendReturns(s) /\ stream' = [stream EXCEPT !.live = @ /\ status # "acknowledged"]
  BY DEF SendResult, PersistIgnoringError
<1> DEFINE s == SetSendStatus(mem, send.key, status)
<1>2. /\ send.phase \in {"accepted", "lost", "rejected"} /\ status \in {"acknowledged", "unknown", "failed"}
      /\ send.phase = "accepted" => status \in Committed
      /\ status = "failed" => send.phase # "accepted"
  BY <1>1 DEF Outcome, Committed
<1>3. send.key \in Key \cup {NoAsk} /\ NoAsk \notin Key
  BY DEF RestTypes, Key, NoAsk
<1>4. /\ send.key # NoAsk => mem.req[send.key].status = "sending" /\ mem.pending = send.key
      /\ send.key = NoAsk => mem.pending = NoAsk /\ mem.status # "waiting_input"
      /\ send.key # NoAsk /\ status = "failed" => accepted[send.key] = 0
  BY <1>2 DEF SendInv, Underway
<1>5. /\ Sound(s)
      /\ send.key # NoAsk => s.req[send.key].status = status
      /\ \A j \in Key : j # send.key => s.req[j].status = mem.req[j].status
  BY <1>2, <1>3, <1>4, Marked DEF Committed
<1> HIDE DEF s
<1>6. Knows(s)
  <2>1. SUFFICES ASSUME NEW k \in Key, accepted[k] > 0
                 PROVE  s.req[k].status \in Committed
    BY DEF Knows
  <2>2. CASE k = send.key
    <3>1. status # "failed"
      BY <1>3, <1>4, <2>1, <2>2
    <3>2. QED
      BY <1>2, <1>3, <1>5, <2>2, <3>1 DEF Committed
  <2>3. CASE k # send.key
    BY <1>5, <2>1, <2>3 DEF Knows
  <2>4. QED
    BY <2>2, <2>3
<1>7. UNCHANGED <<seen, log, remote, inbox, accepted, fence, renewed, skipped, calls, drops, crashes>>
  BY DEF SendResult, remoteVars, budgetVars
<1>8. mem' = s /\ disk' \in {s, disk}
  BY <1>1 DEF s
<1>9. stream' \in [pos : Key \cup {0}, latest : Key \cup {0}, open : BOOLEAN, live : BOOLEAN]
  <2>1. \/ stream' = NoStream
        \/ stream' = [stream EXCEPT !.live = stream.live /\ status # "acknowledged"]
    BY <1>1
  <2> DEFINE live == stream.live /\ status # "acknowledged"
  <2>2. live \in BOOLEAN
    OBVIOUS
  <2>3. CASE stream' = NoStream
    BY <2>3 DEF NoStream
  <2> HIDE DEF live
  <2>4. CASE stream' = [stream EXCEPT !.live = live]
    BY <2>2, <2>4 DEF RestTypes
  <2>5. QED
    BY <2>1, <2>3, <2>4 DEF live
<1>10. /\ send' = NoSend /\ entry' \in BOOLEAN /\ run' \in RunPhase /\ errs' \in Nat
       /\ run' # "none" => entry'
       /\ caller' \in [Callers -> [pc : CallerPhase, before : SigSet,
                                   wbefore : (Key \cup {NoAsk}) \X Nat]]
  <2>1. CASE /\ send.by = "auto" /\ run' = "top" /\ errs' = 0
             /\ send' = NoSend /\ UNCHANGED <<entry, caller>>
    BY <2>1 DEF RestTypes, LockInv, RunPhase
  <2>2. CASE SendReturns(s)
    BY <2>2, Returned
  <2>3. QED
    BY <1>1, <2>1, <2>2 DEF s
<1>11. doubt' \in {"no", "yes"}
  BY <1>1 DEF RestTypes
<1>12. RestTypes'
  <2>1. NoSend \in [by : Callers \cup {"none", "auto"}, key : Key \cup {NoAsk}, phase : SendPhase]
    BY DEF NoSend, SendPhase
  <2>2. QED
    BY <1>7, <1>9, <1>10, <1>11, <2>1 DEF RestTypes
<1>13. QED
  BY <1>5, <1>6, <1>7, <1>8, <1>10, <1>12, Unlocked

-----------------------------------------------------------------------------
(* Manager.SendMessage.                                                    *)

CallerSet == [pc : CallerPhase, before : SigSet, wbefore : (Key \cup {NoAsk}) \X Nat]

\* A call that is not the one sending can do anything with its own state.
LEMMA CallerStep ==
    ASSUME IInv, NEW c \in Callers, NEW r \in CallerSet, caller' = [caller EXCEPT ![c] = r],
           send' = send, caller[c].pc # "sending",
           UNCHANGED <<mem, disk, log, remote, inbox, ghostVars, stream, seen, drops, crashes>>,
           calls' \in Nat, entry' \in BOOLEAN, run' \in RunPhase, errs' \in Nat,
           entry => entry', run' # "none" => entry'
    PROVE  IInv'
<1> USE DEF IInv
<1>1. send.by # c
  BY DEF LockInv
<1>2. caller' \in [Callers -> CallerSet] /\ \A d \in Callers : d # c => caller'[d] = caller[d]
  BY DEF RestTypes, CallerSet
<1>3. RestTypes'
  BY <1>2 DEF RestTypes, CallerSet, ghostVars
<1>4. LockInv'
  BY <1>1, <1>2 DEF LockInv
<1>5. QED
  BY <1>3, <1>4 DEF Knows, AtMostOneReply, SendInv, ghostVars

\* A call that joins a watcher that has ended loads the session again.
LEMMA RetireStep ==
    ASSUME IInv, NEW c \in Callers, Retire(c), send.by = "none", send' = send,
           UNCHANGED <<calls, drops, crashes, ghostVars, remoteVars>>
    PROVE  IInv'
<1> USE DEF IInv
<1>1. Sound(mem') /\ Sound(disk') /\ Knows(mem') /\ Knows(disk')
  BY Restored DEF Retire, Knows
<1>2. caller' \in [Callers -> CallerSet]
  <2>1. [caller[c] EXCEPT !.pc = "revive", !.wbefore = <<NoAsk, 0>>] \in CallerSet
    <3>1. caller[c] \in CallerSet
      BY DEF RestTypes, CallerSet
    <3>2. QED
      BY <3>1 DEF CallerSet, CallerPhase
  <2>2. caller' = [caller EXCEPT ![c] = [caller[c] EXCEPT !.pc = "revive", !.wbefore = <<NoAsk, 0>>]]
    BY DEF Retire, RestTypes
  <2>3. QED
    BY <2>1, <2>2 DEF RestTypes, CallerSet
<1>3. RestTypes'
  <2>1. NoSig \in SigSet /\ NoStream \in [pos : Key \cup {0}, latest : Key \cup {0}, open : BOOLEAN, live : BOOLEAN]
    BY DEF NoSig, SigSet, NoAsk, SendStatus, NoStream
  <2>2. QED
    BY <1>2, <2>1 DEF Retire, RestTypes, RunPhase, CallerSet, ghostVars, remoteVars
<1>4. send' = NoSend \/ send'.by = "none"
  BY <1>3
<1>5. SendInv' /\ LockInv'
  BY <1>4, ActorAssumption DEF Retire, SendInv, LockInv, Underway, NoSend
<1>6. AtMostOneReply' /\ Knows(mem)' /\ Knows(disk)' /\ Sound(mem)' /\ Sound(disk)'
  BY <1>1 DEF AtMostOneReply, Knows, ghostVars
<1>7. QED
  BY <1>3, <1>5, <1>6

\* A call that holds opMu and passes the guards of sendMessage begins to send.
LEMMA BeginStep ==
    ASSUME IInv, NEW c \in Callers, NEW r \in CallerSet, caller' = [caller EXCEPT ![c] = r],
           r.pc = "sending", send.by = "none",
           send' = [by |-> c, key |-> mem.pending, phase |-> "intent"],
           NEW confirm \in BOOLEAN, MaySend(mem, mem.pending, FALSE, confirm),
           UNCHANGED <<mem, disk, watchVars, remoteVars, ghostVars, calls, drops, crashes>>
    PROVE  IInv'
<1> USE DEF IInv
<1>1. mem.pending \in Key \cup {NoAsk} /\ NoAsk \notin Key
  BY DEF Sound, Session, Key, NoAsk
<1>2. caller' \in [Callers -> CallerSet] /\ caller'[c] = r
  BY DEF RestTypes, CallerSet
<1>3. send' \in [by : Callers \cup {"none", "auto"}, key : Key \cup {NoAsk}, phase : SendPhase]
  BY <1>1 DEF SendPhase
<1>4. RestTypes'
  BY <1>2, <1>3 DEF RestTypes, CallerSet, watchVars, remoteVars, ghostVars
<1>5. mem.pending # NoAsk => mem.req[mem.pending].status \in {"pending", "failed"}
  BY DEF MaySend
<1>6. mem.pending = NoAsk => mem.status # "waiting_input"
  BY DEF MaySend, Sound, WaitingHasCause
<1>7. c # "none" /\ c # "auto"
  BY ActorAssumption
<1>8. SendInv'
  BY <1>5, <1>6, <1>7 DEF SendInv, Underway
<1>9. LockInv'
  BY <1>2, <1>7 DEF LockInv, watchVars
<1>10. QED
  BY <1>4, <1>8, <1>9 DEF Knows, AtMostOneReply, ghostVars

LEMMA ServeStep ==
    ASSUME IInv, NEW c \in Callers, Serve(c)
    PROVE  IInv'
<1> USE DEF IInv
<1>1. caller[c] \in CallerSet /\ Idle \in CallerSet /\ mem \in Session /\ disk \in Session
  BY DEF RestTypes, CallerSet, Idle, CallerPhase, SigSet, NoSig, NoAsk, SendStatus, Sound
<1>2. entry \in BOOLEAN /\ run \in RunPhase /\ errs \in Nat /\ calls \in Nat /\ (run # "none" => entry)
  BY DEF RestTypes, LockInv
<1>3. UNCHANGED <<log, remote, inbox, ghostVars, drops, crashes>>
  BY DEF Serve, Call, TakeOpLock, ReadBefore, EnterOpMu, Revive, CallFrame, remoteVars
<1>4. CASE Call(c)
  <2>1. Sig(Visible) \in SigSet
    BY <1>1, SigTyped DEF Visible
  <2>2. [Idle EXCEPT !.pc = "called", !.before = Sig(Visible)] \in CallerSet
    BY <1>1, <2>1 DEF CallerSet, CallerPhase
  <2> DEFINE r == [Idle EXCEPT !.pc = "called", !.before = Sig(Visible)]
  <2>3. /\ caller' = [caller EXCEPT ![c] = r] /\ caller[c].pc # "sending" /\ send' = send
        /\ UNCHANGED <<mem, disk, entry, run, errs, seen, stream>>
    BY <1>4 DEF Call, sessionVars, watchVars
  <2>4. calls' \in Nat
    BY <1>2, <1>4 DEF Call
  <2> HIDE DEF r
  <2>5. QED
    BY <1>2, <1>3, <2>2, <2>3, <2>4, CallerStep DEF r
<1>5. CASE TakeOpLock(c)
  <2>1. caller[c].pc = "called" /\ send' = send /\ UNCHANGED calls
    BY <1>5 DEF TakeOpLock
  <2>2. CASE Refuse(c) /\ UNCHANGED <<sessionVars, watchVars>>
    BY <1>1, <1>2, <1>3, <2>1, <2>2, CallerStep DEF Refuse, sessionVars, watchVars
  <2>3. CASE caller' = [caller EXCEPT ![c].pc = "checked"] /\ UNCHANGED <<sessionVars, watchVars>>
    <3>1. [caller[c] EXCEPT !.pc = "checked"] \in CallerSet
      BY <1>1 DEF CallerSet, CallerPhase
    <3>2. caller' = [caller EXCEPT ![c] = [caller[c] EXCEPT !.pc = "checked"]]
      BY <2>3 DEF RestTypes
    <3>3. QED
      BY <1>2, <1>3, <2>1, <2>3, <3>1, <3>2, CallerStep DEF sessionVars, watchVars
  <2>4. CASE Retire(c) /\ ~(entry /\ mem.status \notin Terminal)
    <3>1. send.by \notin Callers
      BY <1>5 DEF TakeOpLock, OpLockFree, LockInv
    <3>2. send.by # "auto"
      <4>1. SUFFICES ASSUME send.by = "auto"
                     PROVE  FALSE
        OBVIOUS
      <4>2. entry /\ send.key # NoAsk /\ send.phase # "idle"
        BY <4>1 DEF LockInv, SendInv
      <4>3. mem.pending # NoAsk
        BY <4>2 DEF SendInv, RestTypes, SendPhase, Underway
      <4>4. mem.status = "waiting_input"
        BY <4>3 DEF Sound, WaitingHasCause
      <4>5. QED
        BY <2>4, <4>2, <4>4 DEF Terminal
    <3>3. send.by = "none"
      BY <3>1, <3>2 DEF RestTypes
    <3>4. QED
      BY <1>3, <2>1, <2>4, <3>3, RetireStep DEF remoteVars
  <2>5. QED
    BY <1>5, <2>2, <2>3, <2>4 DEF TakeOpLock
<1>6. CASE ReadBefore(c)
  <2>1. [caller[c] EXCEPT !.pc = "ready", !.wbefore = <<mem.pending, mem.gen>>] \in CallerSet
    BY <1>1 DEF CallerSet, CallerPhase, Session
  <2>2. \/ caller' = [caller EXCEPT ![c] = Idle]
        \/ caller' = [caller EXCEPT ![c] = [caller[c] EXCEPT !.pc = "ready", !.wbefore = <<mem.pending, mem.gen>>]]
    BY <1>6 DEF ReadBefore, Refuse, RestTypes
  <2>3. caller[c].pc # "sending" /\ send' = send /\ UNCHANGED <<mem, disk, entry, run, errs, seen, stream, calls>>
    BY <1>6 DEF ReadBefore, sessionVars, watchVars
  <2>4. QED
    BY <1>1, <1>2, <1>3, <2>1, <2>2, <2>3, CallerStep
<1>7. CASE EnterOpMu(c)
  <2>1. caller[c].pc = "ready" /\ send.by = "none" /\ UNCHANGED calls
    BY <1>7 DEF EnterOpMu, OpMuFree
  <2>2. CASE Retire(c) /\ send' = send
    BY <1>3, <2>1, <2>2, RetireStep DEF remoteVars
  <2>3. CASE /\ \E confirm \in BOOLEAN : MaySend(mem, mem.pending, FALSE, confirm)
             /\ caller' = [caller EXCEPT ![c].pc = "sending", ![c].wbefore = <<NoAsk, 0>>]
             /\ send' = [by |-> c, key |-> mem.pending, phase |-> "intent"]
             /\ UNCHANGED <<sessionVars, watchVars>>
    <3> DEFINE r == [caller[c] EXCEPT !.pc = "sending", !.wbefore = <<NoAsk, 0>>]
    <3>1. r \in CallerSet /\ r.pc = "sending"
      BY <1>1 DEF CallerSet, CallerPhase
    <3>2. caller' = [caller EXCEPT ![c] = r]
      BY <2>3 DEF RestTypes
    <3>3. QED
      BY <1>3, <2>1, <2>3, <3>1, <3>2, BeginStep DEF sessionVars, remoteVars
  <2>4. CASE Refuse(c) /\ send' = send /\ UNCHANGED <<sessionVars, watchVars>>
    BY <1>1, <1>2, <1>3, <2>1, <2>4, CallerStep DEF Refuse, sessionVars, watchVars
  <2>5. QED
    BY <1>7, <2>2, <2>3, <2>4 DEF EnterOpMu
<1>8. CASE Revive(c)
  <2>1. caller[c].pc = "revive" /\ send.by = "none" /\ UNCHANGED <<calls, sessionVars, seen, stream>>
    BY <1>8 DEF Revive, OpMuFree
  <2>2. CASE /\ \E confirm \in BOOLEAN : MaySend(mem, mem.pending, FALSE, confirm)
             /\ caller' = [caller EXCEPT ![c].pc = "sending"]
             /\ send' = [by |-> c, key |-> mem.pending, phase |-> "intent"]
             /\ UNCHANGED <<entry, run, errs>>
    <3> DEFINE r == [caller[c] EXCEPT !.pc = "sending"]
    <3>1. r \in CallerSet /\ r.pc = "sending"
      BY <1>1 DEF CallerSet, CallerPhase
    <3>2. caller' = [caller EXCEPT ![c] = r]
      BY <2>2 DEF RestTypes
    <3>3. QED
      BY <1>3, <2>1, <2>2, <3>1, <3>2, BeginStep DEF sessionVars, watchVars, remoteVars
  <2>3. CASE /\ Refuse(c) /\ send' = send
             /\ Publish \/ UNCHANGED <<entry, run, errs>>
    <3>1. entry' \in BOOLEAN /\ run' \in RunPhase /\ errs' \in Nat /\ (entry => entry') /\ (run' # "none" => entry')
      <4>1. CASE Publish
        BY <4>1 DEF Publish, RunPhase
      <4>2. CASE UNCHANGED <<entry, run, errs>>
        BY <1>2, <4>2
      <4>3. QED
        BY <2>3, <4>1, <4>2
    <3>2. QED
      BY <1>1, <1>2, <1>3, <2>1, <2>3, <3>1, CallerStep DEF Refuse, sessionVars
  <2>4. QED
    BY <1>8, <2>2, <2>3 DEF Revive
<1>9. QED
  BY <1>4, <1>5, <1>6, <1>7, <1>8 DEF Serve

-----------------------------------------------------------------------------
(* Crashes and restarts.                                                   *)

LEMMA CrashStep ==
    ASSUME IInv, Crash
    PROVE  IInv'
<1> USE DEF IInv
<1>1. Sound(mem') /\ Sound(disk') /\ Knows(mem') /\ Knows(disk')
  BY Restored DEF Crash, Knows
<1>2. RestTypes'
  <2>1. /\ NoSig \in SigSet
        /\ NoStream \in [pos : Key \cup {0}, latest : Key \cup {0}, open : BOOLEAN, live : BOOLEAN]
        /\ NoSend \in [by : Callers \cup {"none", "auto"}, key : Key \cup {NoAsk}, phase : SendPhase]
    BY DEF NoSig, SigSet, NoAsk, SendStatus, NoStream, NoSend, SendPhase
  <2>2. [c \in Callers |-> Idle] \in [Callers -> CallerSet]
    BY <2>1 DEF Idle, CallerSet, CallerPhase, NoAsk
  <2>3. doubt' \in {"no", "yes"} /\ crashes' \in Nat
    BY DEF Crash, RestTypes
  <2>4. QED
    BY <2>1, <2>2, <2>3 DEF Crash, RestTypes, RunPhase, CallerSet, remoteVars
<1>3. QED
  BY <1>1, <1>2, Unlocked DEF Crash

LEMMA RestoreStep ==
    ASSUME IInv, RestoreSession
    PROVE  IInv'
<1> USE DEF IInv
<1>1. send.by = "none"
  BY DEF RestoreSession, OpLockFree, LockInv, RestTypes
<1>2. Sound(mem') /\ Sound(disk') /\ Knows(mem') /\ Knows(disk')
  BY Restored DEF RestoreSession, Knows
<1>3. RestTypes'
  BY DEF RestoreSession, Publish, RestTypes, RunPhase, remoteVars, ghostVars, budgetVars
<1>4. SendInv' /\ LockInv'
  BY <1>1, ActorAssumption DEF RestoreSession, Publish, SendInv, LockInv, Underway
<1>5. AtMostOneReply' /\ Knows(mem)' /\ Knows(disk)' /\ Sound(mem)' /\ Sound(disk)'
  BY <1>2 DEF AtMostOneReply, Knows, RestoreSession, ghostVars
<1>6. QED
  BY <1>3, <1>4, <1>5

-----------------------------------------------------------------------------
(* The invariant and what follows from it.                                 *)

LEMMA Initially ==
    ASSUME Init
    PROVE  IInv
<1>1. Sound(mem)
  <2>1. 0 \in Key \cup {0} /\ NoRequest \in Request
    BY DEF NoRequest, Request, SendStatus
  <2>2. mem \in Session /\ mem.pending = NoAsk /\ mem.status = "running"
    BY <2>1 DEF Init, NewSession, Session, Status, SendStatus, NoAsk
  <2>3. QED
    BY <2>2 DEF Sound, WaitingHasCause, ReportAwaitsTurn
<1>2. RestTypes
  <2>1. /\ NoSig \in SigSet
        /\ NoStream \in [pos : Key \cup {0}, latest : Key \cup {0}, open : BOOLEAN, live : BOOLEAN]
        /\ NoSend \in [by : Callers \cup {"none", "auto"}, key : Key \cup {NoAsk}, phase : SendPhase]
    BY DEF NoSig, SigSet, NoAsk, SendStatus, NoStream, NoSend, SendPhase
  <2>2. [c \in Callers |-> Idle] \in [Callers -> CallerSet]
    BY <2>1 DEF Idle, CallerSet, CallerPhase, NoAsk
  <2>3. <<>> \in Seq(Event) /\ Len(<<>>) <= MaxEvents
    BY MaxEventsAssumption
  <2>4. QED
    BY <2>1, <2>2, <2>3 DEF Init, RestTypes, RunPhase, CallerSet
<1>3. AtMostOneReply /\ Knows(mem) /\ Knows(disk)
  BY DEF Init, AtMostOneReply, Knows
<1>4. SendInv /\ LockInv
  BY ActorAssumption DEF Init, SendInv, LockInv, NoSend, Underway
<1>5. QED
  BY <1>1, <1>2, <1>3, <1>4 DEF Init, IInv

LEMMA Consecution ==
    ASSUME IInv, [Next]_vars
    PROVE  IInv'
<1>1. CASE Remote
  BY <1>1, RemoteStep
<1>2. CASE Watch
  BY <1>2, RunStep, GiveUpStep, ChatStartStep, ContentStep, AskStep, EndStep DEF Watch, Deliver
<1>3. CASE Send
  BY <1>3, IntentStep, WireStep, ResultStep DEF Send
<1>4. CASE \E c \in Callers : Serve(c)
  BY <1>4, ServeStep
<1>5. CASE Crash
  BY <1>5, CrashStep
<1>6. CASE RestoreSession
  BY <1>6, RestoreStep
<1>7. CASE UNCHANGED vars
  <2>1. RestTypes'
    BY <1>7 DEF vars, sessionVars, watchVars, remoteVars, ghostVars, budgetVars, IInv, RestTypes
  <2>2. QED
    BY <1>7, <2>1, IdleStep DEF vars, sessionVars, watchVars, ghostVars
<1>8. QED
  BY <1>1, <1>2, <1>3, <1>4, <1>5, <1>6, <1>7 DEF Next

\* The strengthening of the safety properties is inductive.
THEOREM Invariance == Spec => []IInv
<1>1. Init => IInv
  BY Initially
<1>2. IInv /\ [Next]_vars => IInv'
  BY Consecution
<1>3. QED
  BY <1>1, <1>2, PTL DEF Spec

\* Every variable keeps its type, the session records included.
THEOREM TypeCorrect == Spec => []TypeOK
<1>1. IInv => TypeOK
  BY DEF IInv, RestTypes, Sound, TypeOK
<1>2. QED
  BY <1>1, Invariance, PTL

\* Every reply the remote has taken is recorded, in memory and on disk, as sent
\* or possibly sent: for any number of crashes and failed writes.
THEOREM RepliesAreRecorded == Spec => []DeliveryRecorded
<1>1. IInv => DeliveryRecorded
  BY DEF IInv, Knows, DeliveryRecorded
<1>2. QED
  BY <1>1, Invariance, PTL

\* No ask is answered twice: for any number of callers, replays and restarts.
THEOREM AsksAreAnsweredOnce == Spec => []AtMostOneReply
<1>1. IInv => AtMostOneReply
  BY DEF IInv
<1>2. QED
  BY <1>1, Invariance, PTL

\* What the session shows has a cause, in memory and on disk.
THEOREM WaitingIsExplained == Spec => []PendingConsistent
<1>1. IInv => PendingConsistent
  BY DEF IInv, Sound, PendingConsistent
<1>2. QED
  BY <1>1, Invariance, PTL

-----------------------------------------------------------------------------
(* Messages in doubt.                                                      *)

InDoubt == {"unknown", "sending"}

\* The doubt about a free-form message is in the record, in memory and on disk,
\* for as long as it lasts, and a message is sent only when there is none.
DoubtInv ==
    /\ doubt = "yes" => mem.msg \in InDoubt /\ disk.msg \in InDoubt
    /\ send.key = NoAsk /\ send.phase = "intent" => mem.msg \notin InDoubt
    /\ send.key = NoAsk /\ send.phase \in Underway =>
         mem.msg = "sending" /\ disk.msg = "sending" /\ doubt # "yes"

-----------------------------------------------------------------------------
(* What the session has read of the remote's log.                          *)

\* Streamed content that begins at k is still unfinished at j.
OpenAt(k, j) ==
    /\ k \in 1..Len(log) /\ k <= j /\ log[k].type = "content_start"
    /\ \A m \in k..j : log[m].type \notin Terminal \cup {"content_finish"}

\* The log begins with a turn; what ends content follows what began it; only
\* plans and questions come without a checkpoint.
LogInv ==
    /\ log = <<>> => remote = "idle"
    /\ log # <<>> => log[1].type = "chat_start"
    /\ \A i \in 1..Len(log) :
         /\ log[i].type = "content_finish" => \E k \in 1..Len(log) : OpenAt(k, i - 1)
         /\ log[i].type \notin {"ask_plan", "ask_human"} => log[i].stable

\* The content up to n was recorded, or belongs to an older turn; the turns and
\* the ends of turns up to n were noticed.
Handled(s, n) ==
    \A i \in 1..Len(log) : i <= n =>
        /\ log[i].type = "content_finish" => i \in s.answers \cup skipped
        /\ log[i].type = "fallback" => i \in s.applied \cup skipped
        /\ log[i].type \in Terminal => i \in s.applied \cup skipped
        /\ log[i].type = "chat_start" => i \in s.applied

DrainedIn(s, k) ==
    \E j \in s.applied :
        /\ j > k /\ log[j].type = "completed"
        /\ \A i \in k..j : log[i].type = "content_finish" => i \in s.answers \cup skipped

OldEndIn(s) == \E j \in s.applied \cap skipped : log[j].type = "completed"

\* A record is true to the log: nothing before its cursor is lost or unfinished,
\* and its asks are events of the log that it has read up to.
Faithful(s) ==
    /\ s.applied \subseteq 1..Len(log) /\ s.cp <= Len(log)
    /\ Handled(s, s.cp)
    /\ \A k \in 1..Len(log) : ~OpenAt(k, s.cp)
    /\ \A i \in s.applied : log[i].type = "content_finish" => i \in s.answers
    /\ \A k \in Key :
         /\ s.req[k].status # "none" => /\ k <= Len(log) /\ log[k].type = s.req[k].kind
                                        /\ Handled(s, k - 1)
         /\ s.req[k].ready => DrainedIn(s, k) \/ OldEndIn(s)

\* What a connection knows: how far it has read, and whether content is open.
Reading ==
    /\ stream.pos <= Len(log)
    /\ stream.latest <= mem.cp \/ (stream.open /\ stream.latest <= stream.pos)
    /\ Handled(mem, stream.pos)
    /\ \A k \in 1..Len(log) : OpenAt(k, stream.pos) => stream.open \/ k <= mem.cp

\* A report that is being asked for is one that may be asked for.
ReportInv == send.key # NoAsk /\ send.phase # "idle" => ~Draining(mem.req[send.key])

StreamInv == LogInv /\ Faithful(mem) /\ Faithful(disk) /\ (run = "stream" => Reading) /\ ReportInv

-----------------------------------------------------------------------------
(* Turns.                                                                  *)

\* The session waits for its turn, or has seen one since its last follow-up.
OwnTurn(s) ==
    \/ s.awaiting \/ renewed \/ TurnsSeen(s) = {}
    \/ \E j \in TurnsSeen(s) : j \notin fence

\* A snapshot from which a restart makes a finished session.
Ended(s) == s.status \in Terminal /\ s.msg # "sending"

\* The turns before the last follow-up are in the record, in memory and on disk.
FenceInv ==
    /\ fence \subseteq TurnsSeen(mem) /\ fence \subseteq TurnsSeen(disk)
    /\ OwnTurn(mem) /\ OwnTurn(disk)

\* What is over in a snapshot is over in memory, and is not read any more.
EndInv ==
    /\ mem.status \in Terminal => mem.msg # "unknown"
    /\ disk.status \in Terminal => disk.msg # "unknown"
    /\ Ended(disk) => mem.status \in Terminal
    /\ run \notin {"none", "done"} => mem.status \notin Terminal

TurnInv == FenceInv /\ EndInv

-----------------------------------------------------------------------------
(* What each event of the stream does, field by field.                     *)

NewCursor(open) == IF ~open /\ Latest > mem.cp THEN Latest ELSE mem.cp

LEMMA AdvanceFields ==
    ASSUME mem \in Session, Latest \in Key \cup {0}, NEW open
    PROVE  LET t == Advance(mem, open)
           IN  /\ t \in Session /\ SameTurn(mem, t) /\ t.req = mem.req /\ t.pending = mem.pending
               /\ t.applied = mem.applied /\ t.answers = mem.answers /\ t.cp = NewCursor(open)
BY CursorFields DEF Advance, NewCursor, SameTurn

\* What every event finds, and what none of them changes.
LEMMA Delivered ==
    ASSUME IInv, Deliver
    PROVE  /\ stream.pos + 1 \in Key /\ stream.pos + 1 \in 1..Len(log) /\ stream.pos \in Nat
           /\ NextEvent = log[stream.pos + 1] /\ NextEvent \in Event
           /\ Latest \in Key \cup {0} /\ mem \in Session /\ disk \in Session
           /\ run = "stream" /\ send.by = "none" /\ send.phase = "idle"
           /\ UNCHANGED <<log, remote, fence, renewed, caller, entry>>
<1>1. \E types : Receiving(types)
  BY DEF Deliver, ReceiveChatStart, ReceiveContentStart, ReceiveContent, ReceiveAsk, ReceiveEnd
<1>2. PICK types : Receiving(types)
  BY <1>1
<1>3. stream.pos \in Nat /\ stream.pos < Len(log) /\ Len(log) \in Nat
  BY <1>2 DEF Receiving, IInv, RestTypes, Key
<1>4. UNCHANGED <<log, remote, fence, renewed, caller, entry>>
  BY DEF Deliver, ReceiveChatStart, ReceiveContentStart, ReceiveContent, ReceiveAsk, ReceiveEnd,
         DeliverFrame, remoteVars
<1>5. QED
  BY <1>2, <1>3, <1>4, Incoming DEF IInv, NextEvent, Sound

LEMMA ReadFields ==
    ASSUME RestTypes, NEW open, Read(open)
    PROVE  stream'.pos = stream.pos + 1 /\ stream'.latest = Latest /\ stream'.open = open
BY DEF RestTypes, Read

LEMMA ChatStartEffect ==
    ASSUME IInv, ReceiveChatStart
    PROVE  LET i == stream.pos + 1
           IN  /\ log[i].type = "chat_start"
               /\ mem' \in Session /\ mem'.req = mem.req /\ mem'.answers = mem.answers
               /\ mem'.cp = NewCursor(stream.open)
               /\ stream'.pos = i /\ stream'.latest = Latest /\ stream'.open = stream.open
               /\ UNCHANGED <<run, send, skipped>>
               /\ \/ /\ i \in mem.applied /\ mem'.applied = mem.applied /\ SameTurn(mem, mem')
                     /\ UNCHANGED <<disk, doubt>>
                  \/ /\ i \notin mem.applied /\ mem'.applied = mem.applied \cup {i}
                     /\ mem'.awaiting = FALSE /\ mem'.status = "running" /\ mem'.msg = "none"
                     /\ doubt' = "no"
                     /\ \/ disk' = disk
                        \/ /\ disk' \in Session /\ disk'.req = mem.req /\ disk'.answers = mem.answers
                           /\ disk'.cp = mem.cp /\ disk'.applied = mem'.applied /\ SameTurn(mem', disk')
<1> DEFINE i == stream.pos + 1
           m == MarkApplied(mem, i)
           s == StartTurn(m)
           t == Advance(mem, stream.open)
           u == Advance(s, stream.open)
<1>1. /\ i \in Key /\ NextEvent = log[i] /\ Latest \in Key \cup {0} /\ mem \in Session
      /\ log[i].type = "chat_start"
  BY Delivered DEF Deliver, ReceiveChatStart, Receiving
<1>2. /\ m \in Session /\ m.req = mem.req /\ m.answers = mem.answers
      /\ m.cp = mem.cp /\ m.applied = mem.applied \cup {i}
  BY <1>1, AppliedFields
<1>3. /\ s \in Session /\ s.req = mem.req /\ s.answers = mem.answers
      /\ s.cp = mem.cp /\ s.applied = mem.applied \cup {i}
      /\ s.awaiting = FALSE /\ s.status = "running" /\ s.msg = "none"
  <2> HIDE DEF m
  <2>1. "completed" \in Terminal
    BY DEF Terminal
  <2>2. QED
    BY <1>2, <2>1, TurnFields DEF SameLine
<1>4. /\ t \in Session /\ SameTurn(mem, t) /\ t.req = mem.req
      /\ t.applied = mem.applied /\ t.answers = mem.answers /\ t.cp = NewCursor(stream.open)
  BY <1>1, AdvanceFields
<1>5. /\ u \in Session /\ SameTurn(s, u) /\ u.req = s.req /\ u.applied = s.applied
      /\ u.answers = s.answers /\ u.cp = NewCursor(stream.open)
  <2> HIDE DEF s
  <2>1. QED
    BY <1>1, <1>3, CursorFields DEF Advance, NewCursor, SameTurn
<1>6. /\ \/ i \in mem.applied /\ mem' = t /\ UNCHANGED <<disk, doubt>>
         \/ i \notin mem.applied /\ mem' = u /\ disk' \in {s, disk} /\ doubt' = "no"
      /\ Read(stream.open) /\ UNCHANGED <<run, send, skipped>>
  BY DEF ReceiveChatStart, PersistIgnoringError
<1>7. stream'.pos = i /\ stream'.latest = Latest /\ stream'.open = stream.open
  BY <1>6, ReadFields DEF IInv
<1> HIDE DEF s, t, u
<1>8. QED
  BY <1>1, <1>3, <1>4, <1>5, <1>6, <1>7 DEF SameTurn

\* One request of the ledger, with what it offers and whether it is there at all.
SameOffer(r, q) == q.kind = r.kind /\ q.ready = r.ready /\ q.status = r.status

\* What is passed over is remembered as such, unless it was applied before.
PassedOver(i) == skipped' = IF i \in mem.applied THEN skipped ELSE skipped \cup {i}

LEMMA ContentEffect ==
    ASSUME IInv, ReceiveContent
    PROVE  LET i    == stream.pos + 1
               open == log[i].type = "fallback" /\ stream.open
           IN  /\ log[i].type \in {"content_finish", "fallback"}
               /\ mem' \in Session /\ mem'.req = mem.req /\ SameTurn(mem, mem')
               /\ mem'.cp = NewCursor(open)
               /\ stream'.pos = i /\ stream'.latest = Latest /\ stream'.open = open
               /\ UNCHANGED <<run, send, doubt>>
               /\ \/ /\ log[i].type = "content_finish" /\ ~stream.open
                     /\ mem'.applied = mem.applied /\ mem'.answers = mem.answers
                     /\ UNCHANGED <<disk, skipped>>
                  \/ /\ i \in mem.applied \/ mem.awaiting
                     /\ mem'.applied = mem.applied /\ mem'.answers = mem.answers
                     /\ UNCHANGED disk /\ PassedOver(i)
                  \/ /\ mem'.applied = mem.applied \cup {i}
                     /\ log[i].type = "content_finish" => mem'.answers = mem.answers \cup {i}
                     /\ log[i].type = "fallback" => mem'.answers = mem.answers
                     /\ disk' \in {mem', disk} /\ UNCHANGED skipped
<1> DEFINE i    == stream.pos + 1
           kind == NextEvent.type
           open == kind = "fallback" /\ stream.open
           s    == Advance(mem, open)
           m    == MarkApplied(s, i)
           t    == IF kind = "fallback" THEN KeepFallback(m, i) ELSE AddConclusion(m, i)
<1>1. /\ i \in Key /\ NextEvent = log[i] /\ Latest \in Key \cup {0} /\ mem \in Session
      /\ kind \in {"content_finish", "fallback"}
  BY Delivered DEF Deliver, ReceiveContent, Receiving
<1>2. /\ s \in Session /\ SameTurn(mem, s) /\ s.req = mem.req
      /\ s.applied = mem.applied /\ s.answers = mem.answers /\ s.cp = NewCursor(open)
  BY <1>1, AdvanceFields
<1>3. /\ m \in Session /\ SameTurn(mem, m) /\ m.req = mem.req
      /\ m.applied = mem.applied \cup {i} /\ m.answers = mem.answers /\ m.cp = NewCursor(open)
  <2> HIDE DEF s
  <2>1. /\ m \in Session /\ SameTurn(s, m) /\ m.req = s.req /\ m.cp = s.cp
        /\ m.applied = s.applied \cup {i} /\ m.answers = s.answers
    BY <1>1, <1>2, AppliedFields
  <2> HIDE DEF m
  <2>2. QED
    BY <1>2, <2>1 DEF SameTurn
<1>4. /\ t \in Session /\ SameTurn(mem, t) /\ t.req = mem.req
      /\ t.applied = mem.applied \cup {i} /\ t.cp = NewCursor(open)
      /\ kind = "content_finish" => t.answers = mem.answers \cup {i}
      /\ kind = "fallback" => t.answers = mem.answers
  <2> HIDE DEF m
  <2>1. CASE kind = "fallback"
    BY <1>1, <1>3, <2>1, FallbackFields DEF SameTurn, SameLine
  <2>2. CASE kind = "content_finish"
    <3>1. t = AddConclusion(m, i)
      BY <2>2
    <3>2. /\ t \in Session /\ SameTurn(m, t) /\ t.req = m.req /\ t.cp = m.cp
          /\ t.answers = m.answers \cup {i} /\ t.applied = m.applied
      BY <1>1, <1>3, <3>1, ConclusionFields
    <3> HIDE DEF t
    <3>3. QED
      BY <1>3, <2>2, <3>2 DEF SameTurn
  <2>3. QED
    BY <1>1, <2>1, <2>2
<1>5. /\ Read(open) /\ UNCHANGED <<run, send, doubt>>
      /\ \/ kind = "content_finish" /\ ~stream.open /\ mem' = s /\ UNCHANGED <<disk, skipped>>
         \/ Stale(s, i) /\ Skip(s, i)
         \/ mem' = t /\ disk' \in {t, disk} /\ UNCHANGED skipped
  <2>1. Read(open)
    BY DEF ReceiveContent
  <2>2. UNCHANGED <<run, send, doubt>>
    BY DEF ReceiveContent, Skip
  <2>3. \/ kind = "content_finish" /\ ~stream.open /\ mem' = s /\ UNCHANGED <<disk, skipped>>
        \/ Stale(s, i) /\ Skip(s, i)
        \/ mem' = t /\ disk' \in {t, disk} /\ UNCHANGED skipped
    BY DEF ReceiveContent, PersistIgnoringError
  <2>4. QED
    BY <2>1, <2>2, <2>3
<1>6. stream'.pos = i /\ stream'.latest = Latest /\ stream'.open = open
  BY <1>5, ReadFields DEF IInv
<1> HIDE DEF s, t, open
<1>7. CASE kind = "content_finish" /\ ~stream.open /\ mem' = s /\ UNCHANGED <<disk, skipped>>
  BY <1>1, <1>2, <1>5, <1>6, <1>7 DEF open
<1>8. CASE Stale(s, i) /\ Skip(s, i)
  <2>1. (i \in mem.applied \/ mem.awaiting) /\ mem' = s /\ UNCHANGED disk /\ PassedOver(i)
    BY <1>2, <1>8 DEF Stale, Skip, SameTurn, PassedOver
  <2>2. QED
    BY <1>1, <1>2, <1>5, <1>6, <2>1 DEF open
<1>9. CASE mem' = t /\ disk' \in {t, disk} /\ UNCHANGED skipped
  BY <1>1, <1>4, <1>5, <1>6, <1>9 DEF open
<1>10. QED
  BY <1>5, <1>7, <1>8, <1>9

LEMMA AskEffect ==
    ASSUME IInv, ReceiveAsk
    PROVE  LET i == stream.pos + 1
           IN  /\ log[i].type \in AskKind
               /\ mem' \in Session /\ mem'.applied = mem.applied /\ mem'.answers = mem.answers
               /\ mem'.cp = NewCursor(stream.open) /\ mem'.msg = mem.msg /\ mem'.awaiting = mem.awaiting
               /\ stream'.pos = i /\ stream'.latest = Latest /\ stream'.open = stream.open
               /\ UNCHANGED <<run, doubt>>
               /\ \/ /\ SameTurn(mem, mem') /\ mem'.req = mem.req /\ UNCHANGED <<disk, send>>
                     /\ UNCHANGED skipped \/ PassedOver(i)
                  \/ /\ mem.req[i].status = "none" /\ mem'.status = "waiting_input"
                     /\ mem'.req[i].kind = log[i].type /\ mem'.req[i].ready = FALSE
                     /\ \A j \in Key : j # i => SameOffer(mem.req[j], mem'.req[j])
                     /\ UNCHANGED skipped
                     /\ \/ disk' = disk /\ send' = send
                        \/ disk' = mem' /\ send' = send
                        \/ /\ disk' = mem' /\ send' = [by |-> "auto", key |-> i, phase |-> "intent"]
                           /\ mem'.req[i].kind = "ask_plan"
<1> DEFINE i == stream.pos + 1
           s == Advance(mem, stream.open)
           t == RegisterAsk(s, i, NextEvent.type, NextEvent.stable)
           f == SetSendStatus(t, i, "failed")
<1>1. /\ i \in Key /\ NextEvent = log[i] /\ Latest \in Key \cup {0} /\ mem \in Session
      /\ NextEvent.type \in AskKind /\ NextEvent.stable \in BOOLEAN
  BY Delivered DEF Deliver, ReceiveAsk, Receiving, Event
<1>2. /\ s \in Session /\ SameTurn(mem, s) /\ s.req = mem.req
      /\ s.applied = mem.applied /\ s.answers = mem.answers /\ s.cp = NewCursor(stream.open)
  BY <1>1, AdvanceFields
<1>3. /\ t \in Session /\ SameLine(s, t) /\ t.pending = i
      /\ t.status = "waiting_input" /\ t.msg = s.msg /\ t.awaiting = s.awaiting
      /\ t.req[i].kind = NextEvent.type /\ t.req[i].ready = FALSE
      /\ \A j \in Key : j # i => t.req[j] = s.req[j]
  <2> HIDE DEF s
  <2>1. Asked(s, i, NextEvent.type, t)
    BY <1>1, <1>2, AskFields
  <2> HIDE DEF t
  <2>2. QED
    BY <2>1 DEF Asked
<1>4. /\ f \in Session /\ SameLine(t, f) /\ SameOffers(t, f) /\ f.msg = t.msg
      /\ f.awaiting = t.awaiting /\ f.status = "waiting_input"
      /\ \A j \in Key : j # i => f.req[j].status = t.req[j].status
  <2> HIDE DEF t
  <2>1. i # NoAsk
    BY <1>1 DEF Key, NoAsk
  <2>2. /\ f \in Session /\ SameLine(t, f) /\ SameOffers(t, f) /\ f.msg = t.msg
        /\ f.awaiting = t.awaiting
        /\ \A j \in Key : j # i => f.req[j].status = t.req[j].status
    <3>1. Replied(t, i, "failed", f)
      BY <1>1, <1>3, ReplyFields
    <3> HIDE DEF f
    <3>2. QED
      BY <3>1 DEF Replied
  <2>3. f.status = "waiting_input"
    BY <1>3, <2>1 DEF SetSendStatus, SetRequestStatus, Session
  <2>4. QED
    BY <2>2, <2>3
<1>5. Read(stream.open) /\ UNCHANGED <<run, doubt>>
  BY DEF ReceiveAsk, Skip
<1>6. \/ Skip(s, i)
      \/ mem' = s /\ UNCHANGED <<disk, skipped, send>>
      \/ /\ ~IsRegistered(s, i) /\ UNCHANGED skipped
         /\ \/ /\ mem' = t /\ disk' = t
               /\ \/ send' = send
                  \/ /\ send' = [by |-> "auto", key |-> i, phase |-> "intent"]
                     /\ AutoConfirmable(t.req[i])
            \/ mem' = f /\ UNCHANGED <<disk, send>>
  BY DEF ReceiveAsk
<1>7. stream'.pos = i /\ stream'.latest = Latest /\ stream'.open = stream.open
  BY <1>5, ReadFields DEF IInv
<1> HIDE DEF s, t, f
<1>8. CASE Skip(s, i)
  <2>1. mem' = s /\ UNCHANGED <<disk, send>> /\ PassedOver(i)
    BY <1>2, <1>8 DEF Skip, PassedOver
  <2>2. QED
    BY <1>1, <1>2, <1>5, <1>7, <2>1 DEF SameTurn
<1>9. CASE mem' = s /\ UNCHANGED <<disk, skipped, send>>
  BY <1>1, <1>2, <1>5, <1>7, <1>9 DEF SameTurn
<1>10. CASE ~IsRegistered(s, i) /\ mem' \in {t, f} /\ UNCHANGED skipped
            /\ \/ disk' = disk /\ send' = send
               \/ disk' = mem' /\ send' = send
               \/ /\ disk' = mem' /\ send' = [by |-> "auto", key |-> i, phase |-> "intent"]
                  /\ mem' = t /\ AutoConfirmable(t.req[i])
  <2>1. mem.req[i].status = "none"
    BY <1>2, <1>10 DEF IsRegistered
  <2>2. /\ mem' \in Session /\ mem'.applied = mem.applied /\ mem'.answers = mem.answers
        /\ mem'.cp = NewCursor(stream.open) /\ mem'.msg = mem.msg /\ mem'.awaiting = mem.awaiting
        /\ mem'.status = "waiting_input"
    BY <1>2, <1>3, <1>4, <1>10 DEF SameLine, SameTurn
  <2>3. /\ mem'.req[i].kind = log[i].type /\ mem'.req[i].ready = FALSE
        /\ \A j \in Key : j # i => SameOffer(mem.req[j], mem'.req[j])
    BY <1>1, <1>2, <1>3, <1>4, <1>10 DEF SameOffers, SameOffer
  <2>4. AutoConfirmable(t.req[i]) /\ mem' = t => mem'.req[i].kind = "ask_plan"
    BY DEF AutoConfirmable
  <2>5. QED
    BY <1>1, <1>5, <1>7, <1>10, <2>1, <2>2, <2>3, <2>4
<1>11. QED
  BY <1>6, <1>8, <1>9, <1>10

LEMMA EndEffect ==
    ASSUME IInv, ReceiveEnd
    PROVE  LET i == stream.pos + 1
           IN  /\ log[i].type \in Terminal
               /\ mem' \in Session /\ mem'.cp = NewCursor(stream.open) /\ mem'.awaiting = mem.awaiting
               /\ UNCHANGED send
               /\ \/ /\ i \in mem.applied \/ mem.awaiting
                     /\ SameTurn(mem, mem') /\ mem'.req = mem.req
                     /\ mem'.applied = mem.applied /\ mem'.answers = mem.answers
                     /\ UNCHANGED <<disk, run, doubt>> /\ PassedOver(i)
                     /\ stream'.pos = i /\ stream'.latest = Latest /\ stream'.open = stream.open
                  \/ /\ i \notin mem.applied /\ ~mem.awaiting
                     /\ mem'.applied = mem.applied \cup {i} /\ mem.answers \subseteq mem'.answers
                     /\ disk' \in {mem', disk} /\ UNCHANGED skipped
                     /\ \/ /\ mem'.status \in Terminal /\ mem'.msg = "none" /\ mem'.req = mem.req
                           /\ run' = "done" /\ doubt' = "no"
                        \/ /\ log[i].type = "completed" /\ mem.pending \in Key
                           /\ mem.req[mem.pending].kind = "ask_report_render"
                           /\ mem'.msg = mem.msg
                           /\ mem'.status \in {mem.status, "running", "waiting_input"}
                           /\ \A j \in Key : j # mem.pending => SameOffer(mem.req[j], mem'.req[j])
                           /\ mem'.req[mem.pending].kind = "ask_report_render"
                           /\ run' \in {"waiting", "top", "giveup"} /\ doubt' = doubt
<1> DEFINE i == stream.pos + 1
           s == Advance(mem, stream.open)
           m == MarkApplied(s, i)
           flushed  == IF stream.open THEN AddConclusion(m, i) ELSE m
           promoted == IF flushed.answered \/ flushed.kept = {} THEN flushed
                       ELSE [flushed EXCEPT !.answers = @ \cup flushed.kept, !.answered = TRUE]
           ready    == MarkReportReady(promoted, promoted.pending)
           failed   == SetSendStatus(ready, ready.pending, "failed")
           over     == SetTerminal(promoted, NextEvent.type)
<1>1. /\ i \in Key /\ NextEvent = log[i] /\ Latest \in Key \cup {0} /\ mem \in Session
      /\ NextEvent.type \in Terminal
  BY Delivered DEF Deliver, ReceiveEnd, Receiving
<1>2. /\ s \in Session /\ SameTurn(mem, s) /\ s.req = mem.req /\ s.pending = mem.pending
      /\ s.applied = mem.applied /\ s.answers = mem.answers /\ s.cp = NewCursor(stream.open)
  BY <1>1, AdvanceFields
<1>3. UNCHANGED send
  BY DEF ReceiveEnd, Skip
<1>4. \/ Stale(s, i) /\ Skip(s, i) /\ Read(stream.open)
      \/ /\ ~Stale(s, i) /\ UNCHANGED skipped
         /\ \/ /\ mem' = over /\ disk' \in {over, disk} /\ run' = "done" /\ doubt' = "no"
            \/ /\ NextEvent.type = "completed" /\ PendingRequest(promoted).kind = "ask_report_render"
               /\ AfterStream(mem', FALSE) /\ doubt' = doubt
               /\ \/ mem' = ready /\ disk' = ready
                  \/ mem' = failed /\ disk' = disk
  BY DEF ReceiveEnd, PersistIgnoringError
<1>5. CASE Stale(s, i) /\ Skip(s, i) /\ Read(stream.open)
  <2>1. stream'.pos = i /\ stream'.latest = Latest /\ stream'.open = stream.open
    BY <1>5, ReadFields DEF IInv
  <2> HIDE DEF s
  <2>2. /\ i \in mem.applied \/ mem.awaiting
        /\ mem' = s /\ UNCHANGED <<disk, run, doubt>> /\ PassedOver(i)
    BY <1>2, <1>5 DEF Stale, Skip, SameTurn, PassedOver
  <2>3. QED
    BY <1>1, <1>2, <1>3, <2>1, <2>2 DEF SameTurn
<1>6. ASSUME ~Stale(s, i)
      PROVE  i \notin mem.applied /\ ~mem.awaiting
  BY <1>2, <1>6 DEF Stale, SameTurn
<1> DEFINE Kept(t) == /\ t \in Session /\ t.req = mem.req /\ t.pending = mem.pending
                      /\ t.status = mem.status /\ t.msg = mem.msg /\ t.awaiting = mem.awaiting
                      /\ t.applied = mem.applied \cup {i} /\ mem.answers \subseteq t.answers
                      /\ t.cp = NewCursor(stream.open)
<1>7. Kept(promoted)
  <2>1. Kept(m)
    <3> HIDE DEF s
    <3>1. /\ m \in Session /\ SameTurn(s, m) /\ m.req = s.req /\ m.cp = s.cp /\ m.pending = s.pending
          /\ m.applied = s.applied \cup {i} /\ m.answers = s.answers
      BY <1>1, <1>2, AppliedFields
    <3> HIDE DEF m
    <3>2. QED
      BY <1>2, <3>1 DEF SameTurn
  <2>2. Kept(flushed)
    <3> HIDE DEF m
    <3>1. Kept(AddConclusion(m, i))
      <4> DEFINE c == AddConclusion(m, i)
      <4>1. /\ c \in Session /\ SameTurn(m, c) /\ c.req = m.req /\ c.cp = m.cp /\ c.pending = m.pending
            /\ c.answers = m.answers \cup {i} /\ c.applied = m.applied
        BY <1>1, <2>1, ConclusionFields
      <4> HIDE DEF c
      <4>2. QED
        BY <2>1, <4>1 DEF SameTurn, c
    <3>2. QED
      BY <2>1, <3>1
  <2> HIDE DEF flushed
  <2>3. Kept([flushed EXCEPT !.answers = @ \cup flushed.kept, !.answered = TRUE])
    BY <2>2 DEF Session
  <2>4. QED
    BY <2>2, <2>3
<1> HIDE DEF promoted, s
<1>8. CASE /\ ~Stale(s, i) /\ UNCHANGED skipped
           /\ mem' = over /\ disk' \in {over, disk} /\ run' = "done" /\ doubt' = "no"
  <2>1. /\ over \in Session /\ SameLine(promoted, over) /\ over.req = promoted.req
        /\ over.status = NextEvent.type /\ over.msg = "none" /\ over.awaiting = promoted.awaiting
    BY <1>1, <1>7, TurnFields
  <2> HIDE DEF over
  <2>2. QED
    BY <1>1, <1>3, <1>6, <1>7, <1>8, <2>1 DEF SameLine
<1>9. CASE /\ ~Stale(s, i) /\ UNCHANGED skipped /\ NextEvent.type = "completed"
           /\ PendingRequest(promoted).kind = "ask_report_render"
           /\ AfterStream(mem', FALSE) /\ doubt' = doubt
           /\ \/ mem' = ready /\ disk' = ready
              \/ mem' = failed /\ disk' = disk
  <2> DEFINE k == mem.pending
  <2>1. k \in Key /\ promoted.pending = k /\ mem.req[k].kind = "ask_report_render"
    BY <1>7, <1>9 DEF PendingRequest, NoRequest, Session
  <2>2. /\ ready \in Session /\ SameTurn(promoted, ready) /\ SameLine(promoted, ready)
        /\ ready.pending = k
        /\ \A j \in Key : /\ ready.req[j].kind = mem.req[j].kind
                          /\ ready.req[j].status = mem.req[j].status
                          /\ j # k => ready.req[j].ready = mem.req[j].ready
    <3>1. Offered(promoted, k, ready)
      BY <1>7, <2>1, OfferFields
    <3> HIDE DEF ready
    <3>2. QED
      BY <1>7, <2>1, <3>1 DEF Offered
  <2> HIDE DEF ready
  <2>3. /\ failed \in Session /\ SameLine(ready, failed) /\ SameOffers(ready, failed)
        /\ failed.msg = ready.msg /\ failed.awaiting = ready.awaiting
        /\ \A j \in Key : j # k => failed.req[j].status = ready.req[j].status
        /\ failed.status \in {ready.status, "running", "waiting_input"}
    <3>1. Replied(ready, k, "failed", failed)
      BY <2>1, <2>2, ReplyFields
    <3> HIDE DEF failed
    <3>2. QED
      BY <3>1 DEF Replied
  <2> HIDE DEF failed
  <2>4. mem' \in {ready, failed} /\ disk' \in {mem', disk}
    BY <1>9
  <2>5. run' \in {"waiting", "top", "giveup"}
    BY <1>9 DEF AfterStream
  <2>6. /\ mem' \in Session /\ mem'.cp = NewCursor(stream.open) /\ mem'.awaiting = mem.awaiting
        /\ mem'.applied = mem.applied \cup {i} /\ mem.answers \subseteq mem'.answers
        /\ mem'.msg = mem.msg /\ mem'.status \in {mem.status, "running", "waiting_input"}
    BY <1>7, <2>2, <2>3, <2>4 DEF SameTurn, SameLine
  <2>7. /\ \A j \in Key : j # k => SameOffer(mem.req[j], mem'.req[j])
        /\ mem'.req[k].kind = "ask_report_render"
    BY <2>1, <2>2, <2>3, <2>4 DEF SameOffers, SameOffer
  <2>8. QED
    BY <1>1, <1>3, <1>6, <1>9, <2>1, <2>4, <2>5, <2>6, <2>7
<1>10. QED
  BY <1>4, <1>5, <1>8, <1>9

-----------------------------------------------------------------------------
(* What the steps of a send do, field by field.                            *)

\* No ask comes into the ledger.
NoNewAsk(s, t) == \A k \in Key : t.req[k].status # "none" => s.req[k].status # "none"

\* A send leaves what was read of the log, and what is on offer, alone; when it
\* makes a watcher the session is not a finished one.
SendKeeps ==
    /\ mem' \in Session /\ SameLine(mem, mem') /\ SameOffers(mem, mem') /\ NoNewAsk(mem, mem')
    /\ disk' \in {mem', disk}
    /\ \/ run' = run
       \/ run' = "top" /\ (mem'.status \notin Terminal \/ mem'.msg = "unknown")
    /\ UNCHANGED <<log, remote, skipped>>
    /\ run' = "stream" => /\ stream'.pos = stream.pos /\ stream'.latest = stream.latest
                          /\ stream'.open = stream.open

\* What a send finds.
LEMMA Sending ==
    ASSUME IInv, send.phase # "idle"
    PROVE  /\ send.key \in Key \cup {NoAsk} /\ NoAsk \notin Key /\ mem.pending = send.key
           /\ mem \in Session /\ disk \in Session
           /\ send.key # NoAsk => /\ mem.status = "waiting_input"
                                  /\ mem.req[send.key].status # "none"
           /\ send.key = NoAsk => mem.status # "waiting_input"
<1>1. send.phase \in {"intent"} \cup Underway /\ send.key \in Key \cup {NoAsk} /\ NoAsk \notin Key
  BY DEF IInv, RestTypes, SendPhase, Underway, Key, NoAsk
<1>2. mem.pending = send.key
  BY <1>1 DEF IInv, SendInv
<1>3. QED
  BY <1>1, <1>2 DEF IInv, SendInv, Sound, WaitingHasCause

\* What SendReturns(s) does to the watcher.
LEMMA ReturnKeeps ==
    ASSUME NEW s \in Session, SendReturns(s),
           PendingRequest(s).status # "unknown" \/ s.status = "waiting_input"
    PROVE  \/ run' = run
           \/ run' = "top" /\ (s.status \notin Terminal \/ s.msg = "unknown")
BY DEF SendReturns, Publish, Terminal

LEMMA IntentEffect ==
    ASSUME IInv, SendIntent
    PROVE  /\ send.phase = "intent" /\ SendKeeps /\ UNCHANGED doubt
           /\ send.key # NoAsk => /\ mem'.msg = mem.msg /\ mem'.status = "waiting_input"
                                  /\ mem.awaiting => mem'.awaiting
           /\ send.key = NoAsk => /\ mem'.status = mem.status
                                  /\ mem'.awaiting <=> mem.status \in Terminal
           /\ \/ /\ disk' = mem' /\ send'.phase = "wire" /\ send'.key = send.key
                 /\ send.key = NoAsk => mem'.msg = "sending"
                 /\ \/ /\ IsFollowUp /\ mem'.awaiting
                       /\ fence' = TurnsSeen(mem) /\ renewed' = FALSE
                    \/ /\ ~IsFollowUp /\ UNCHANGED fence
                       /\ renewed' = (renewed \/ TurnsSeen(mem) \subseteq fence)
              \/ /\ UNCHANGED <<disk, fence>> /\ send' = NoSend
                 /\ send.key = NoAsk => mem'.msg = "failed"
                 /\ renewed' = (renewed \/ (~IsFollowUp /\ TurnsSeen(mem) \subseteq fence))
<1> DEFINE k == send.key
           s == SetSendStatus(mem, k, "sending")
           f == SetSendStatus(s, k, "failed")
<1>1. /\ send.phase = "intent" /\ k \in Key \cup {NoAsk} /\ NoAsk \notin Key /\ mem.pending = k
      /\ mem \in Session
      /\ k # NoAsk => mem.status = "waiting_input" /\ mem.req[k].status # "none"
      /\ k = NoAsk => mem.status # "waiting_input"
  BY Sending DEF SendIntent
<1>2. k \in Key => Replied(mem, k, "sending", s) /\ Replied(s, k, "failed", f)
  <2>1. SUFFICES ASSUME k \in Key
                 PROVE  Replied(mem, k, "sending", s) /\ Replied(s, k, "failed", f)
    OBVIOUS
  <2>2. Replied(mem, k, "sending", s)
    BY <1>1, <2>1, ReplyFields
  <2> HIDE DEF s
  <2>3. s \in Session
    BY <2>2 DEF Replied
  <2>4. Replied(s, k, "failed", f)
    BY <2>1, <2>3, ReplyFields
  <2>5. QED
    BY <2>2, <2>4
<1>3. k = NoAsk => Messaged(mem, "sending", s) /\ Messaged(s, "failed", f)
  <2>1. SUFFICES ASSUME k = NoAsk
                 PROVE  Messaged(mem, "sending", s) /\ Messaged(s, "failed", f)
    OBVIOUS
  <2>2. Messaged(mem, "sending", s)
    BY <1>1, <2>1, MessageFields
  <2> HIDE DEF s
  <2>3. s \in Session
    BY <2>2 DEF Messaged
  <2>4. Messaged(s, "failed", f)
    BY <2>1, <2>3, MessageFields
  <2>5. QED
    BY <2>2, <2>4
<1>4. k # NoAsk => s.status = "waiting_input" /\ f.status = "waiting_input"
  BY <1>1 DEF SetSendStatus, SetRequestStatus, Session
<1>5. s.pending = k /\ f.pending = k
  <2>1. CASE k = NoAsk
    BY <1>1, <1>3, <2>1 DEF Messaged
  <2>2. CASE k # NoAsk
    BY <1>1, <2>2 DEF SetSendStatus, SetRequestStatus, Session
  <2>3. QED
    BY <2>1, <2>2
<1>6. /\ UNCHANGED <<log, remote, skipped, doubt, stream>>
      /\ \/ /\ mem' = s /\ disk' = s /\ send' = [send EXCEPT !.phase = "wire"] /\ run' = run
            /\ \/ IsFollowUp /\ fence' = TurnsSeen(mem) /\ renewed' = FALSE
               \/ /\ ~IsFollowUp /\ UNCHANGED fence
                  /\ renewed' = (renewed \/ TurnsSeen(mem) \subseteq fence)
         \/ /\ mem' = f /\ disk' = disk /\ fence' = fence /\ SendReturns(f)
            /\ renewed' = (renewed \/ (~IsFollowUp /\ TurnsSeen(mem) \subseteq fence))
  BY DEF SendIntent, remoteVars
<1>7. /\ \A t \in {s, f} : /\ t \in Session /\ SameLine(mem, t) /\ SameOffers(mem, t)
                           /\ k # NoAsk => t.msg = mem.msg
                           /\ k = NoAsk => t.status = mem.status
      /\ k = NoAsk => s.msg = "sending" /\ f.msg = "failed"
  BY <1>1, <1>2, <1>3 DEF Replied, Messaged, SameLine, SameOffers
<1>8. \A t \in {s, f} : NoNewAsk(mem, t)
  BY <1>1, <1>2, <1>3 DEF Replied, Messaged, NoNewAsk
<1>9. /\ k # NoAsk /\ mem.awaiting => s.awaiting /\ f.awaiting
      /\ k = NoAsk => (s.awaiting <=> mem.status \in Terminal)
      /\ k = NoAsk => (f.awaiting <=> mem.status \in Terminal)
      /\ IsFollowUp => s.awaiting
  BY <1>1, <1>2, <1>3 DEF Replied, Messaged, IsFollowUp
<1>10. k = NoAsk => PendingRequest(f).status = "none"
  BY <1>5 DEF PendingRequest, NoRequest
<1> HIDE DEF s, f
<1>11. CASE /\ mem' = s /\ disk' = s /\ send' = [send EXCEPT !.phase = "wire"] /\ run' = run
            /\ \/ IsFollowUp /\ fence' = TurnsSeen(mem) /\ renewed' = FALSE
               \/ /\ ~IsFollowUp /\ UNCHANGED fence
                  /\ renewed' = (renewed \/ TurnsSeen(mem) \subseteq fence)
  <2>1. send'.phase = "wire" /\ send'.key = k
    BY <1>11 DEF IInv, RestTypes
  <2>2. SendKeeps
    BY <1>6, <1>7, <1>8, <1>11 DEF SendKeeps
  <2>3. QED
    BY <1>1, <1>4, <1>6, <1>7, <1>9, <1>11, <2>1, <2>2
<1>12. CASE /\ mem' = f /\ disk' = disk /\ fence' = fence /\ SendReturns(f)
            /\ renewed' = (renewed \/ (~IsFollowUp /\ TurnsSeen(mem) \subseteq fence))
  <2>1. \/ run' = run
        \/ run' = "top" /\ (f.status \notin Terminal \/ f.msg = "unknown")
    BY <1>4, <1>7, <1>10, <1>12, ReturnKeeps
  <2>2. send' = NoSend
    BY <1>12 DEF SendReturns
  <2>3. SendKeeps
    BY <1>6, <1>7, <1>8, <1>12, <2>1 DEF SendKeeps
  <2>4. QED
    BY <1>1, <1>4, <1>6, <1>7, <1>9, <1>12, <2>2, <2>3
<1>13. QED
  BY <1>6, <1>11, <1>12

LEMMA ResultEffect ==
    ASSUME IInv, SendResult
    PROVE  /\ send.phase \in Underway /\ send' = NoSend /\ SendKeeps
           /\ UNCHANGED <<fence, renewed>> /\ mem'.awaiting = mem.awaiting
           /\ send.key # NoAsk => /\ mem'.msg = mem.msg /\ mem'.status \notin Terminal
                                  /\ UNCHANGED doubt
           /\ send.key = NoAsk =>
                \/ mem'.msg = "unknown" /\ mem'.status = "waiting_input" /\ doubt' = "yes"
                \/ mem'.msg = "acknowledged" /\ mem'.status = "running" /\ doubt' = doubt
                \/ mem'.msg = "failed" /\ mem'.status = mem.status /\ doubt' = doubt
<1> DEFINE k == send.key
<1>1. PICK status \in Outcome :
        LET s == SetSendStatus(mem, k, status)
        IN  /\ mem' = s /\ disk' \in {s, disk}
            /\ doubt' = IF k = NoAsk /\ status = "unknown" THEN "yes" ELSE doubt
            /\ \/ /\ send.by = "auto" /\ status = "acknowledged" /\ run' = "top" /\ send' = NoSend
               \/ SendReturns(s) /\ stream' = [stream EXCEPT !.live = @ /\ status # "acknowledged"]
  BY DEF SendResult, PersistIgnoringError
<1> DEFINE s == SetSendStatus(mem, k, status)
<1>2. send.phase \in Underway /\ status \in {"acknowledged", "unknown", "failed"}
  BY <1>1 DEF Outcome, Underway
<1>3. /\ k \in Key \cup {NoAsk} /\ NoAsk \notin Key /\ mem.pending = k /\ mem \in Session
      /\ k # NoAsk => mem.status = "waiting_input" /\ mem.req[k].status # "none"
      /\ k = NoAsk => mem.status # "waiting_input"
  BY <1>2, Sending DEF Underway
<1>4. k \in Key => Replied(mem, k, status, s)
  BY <1>2, <1>3, ReplyFields
<1>5. k = NoAsk => Messaged(mem, status, s)
  BY <1>2, <1>3, MessageFields
<1>6. k # NoAsk => s.status \in {"waiting_input", "running"} /\ (s.pending # NoAsk => s.status = "waiting_input")
  BY <1>2, <1>3 DEF SetSendStatus, SetRequestStatus, Session
<1>7. /\ s \in Session /\ SameLine(mem, s) /\ SameOffers(mem, s) /\ NoNewAsk(mem, s)
      /\ k # NoAsk => s.msg = mem.msg
      /\ k = NoAsk => /\ s.msg = status /\ s.pending = NoAsk
                      /\ status = "acknowledged" => s.status = "running"
                      /\ status = "unknown" => s.status = "waiting_input"
                      /\ status = "failed" => s.status = mem.status
  BY <1>2, <1>3, <1>4, <1>5 DEF Replied, Messaged, SameLine, SameOffers, NoNewAsk
<1>8. s.awaiting = mem.awaiting
  BY <1>2, <1>3, <1>4, <1>5 DEF Replied, Messaged
<1>9. UNCHANGED <<log, remote, skipped, fence, renewed>>
  BY DEF SendResult, remoteVars
<1>10. PendingRequest(s).status # "unknown" \/ s.status = "waiting_input"
  BY <1>6, <1>7 DEF PendingRequest, NoRequest
<1> HIDE DEF s
<1>11. mem' = s /\ disk' \in {s, disk} /\ doubt' = IF k = NoAsk /\ status = "unknown" THEN "yes" ELSE doubt
  BY <1>1 DEF s
<1>12. /\ send' = NoSend
       /\ \/ run' = run
          \/ run' = "top" /\ (s.status \notin Terminal \/ s.msg = "unknown")
       /\ run' = "stream" => /\ stream'.pos = stream.pos /\ stream'.latest = stream.latest
                             /\ stream'.open = stream.open
  <2>1. CASE send.by = "auto" /\ status = "acknowledged" /\ run' = "top" /\ send' = NoSend
    <3>1. k # NoAsk
      BY <2>1 DEF IInv, LockInv
    <3>2. QED
      BY <1>6, <2>1, <3>1 DEF Terminal
  <2>2. CASE SendReturns(s) /\ stream' = [stream EXCEPT !.live = @ /\ status # "acknowledged"]
    <3>1. send' = NoSend
      BY <2>2 DEF SendReturns
    <3>2. stream'.pos = stream.pos /\ stream'.latest = stream.latest /\ stream'.open = stream.open
      BY <2>2 DEF IInv, RestTypes
    <3>3. QED
      BY <1>7, <1>10, <2>2, <3>1, <3>2, ReturnKeeps
  <2>3. QED
    BY <1>1, <2>1, <2>2 DEF s
<1>13. SendKeeps
  BY <1>7, <1>9, <1>11, <1>12 DEF SendKeeps
<1>14. QED
  BY <1>2, <1>6, <1>7, <1>8, <1>9, <1>11, <1>12, <1>13 DEF Terminal

\* A call does nothing to the record, or begins to send, or loads the session
\* again because its watcher has ended.
LEMMA ServeEffect ==
    ASSUME IInv, NEW c \in Callers, Serve(c)
    PROVE  /\ UNCHANGED <<disk, log, remote, ghostVars>>
           /\ \/ UNCHANGED <<mem, send, stream, run>>
              \/ /\ UNCHANGED <<mem, send, stream>>
                 /\ run' = "top" /\ (mem.status \notin Terminal \/ mem.msg = "unknown")
              \/ /\ mem' = FromSnapshot(disk) /\ send' = send /\ send.phase = "idle"
                 /\ run' = "none" /\ (run # "stream" \/ mem.status \in Terminal)
              \/ /\ UNCHANGED <<mem, stream, run>> /\ send.phase = "idle"
                 /\ send' = [by |-> c, key |-> mem.pending, phase |-> "intent"]
                 /\ \E confirm \in BOOLEAN : MaySend(mem, mem.pending, FALSE, confirm)
<1>1. UNCHANGED <<disk, log, remote, ghostVars>>
  BY DEF Serve, Call, TakeOpLock, ReadBefore, EnterOpMu, Revive, CallFrame, remoteVars, sessionVars, Retire
<1>2. send.by = "none" => send.phase = "idle"
  BY DEF IInv, SendInv
<1>3. CASE Call(c) \/ ReadBefore(c)
  BY <1>1, <1>3 DEF Call, ReadBefore, sessionVars, watchVars
<1>4. CASE TakeOpLock(c)
  <2>1. CASE UNCHANGED <<sessionVars, watchVars>>
    BY <1>1, <1>4, <2>1 DEF TakeOpLock, sessionVars, watchVars
  <2>2. CASE Retire(c) /\ ~(entry /\ mem.status \notin Terminal)
    <3>1. send.by \notin Callers
      BY <1>4 DEF IInv, TakeOpLock, OpLockFree, LockInv
    <3>2. send.by # "auto"
      <4>1. SUFFICES ASSUME send.by = "auto"
                     PROVE  FALSE
        OBVIOUS
      <4>2. entry /\ send.key # NoAsk /\ send.phase # "idle"
        BY <4>1 DEF IInv, LockInv, SendInv
      <4>3. mem.status = "waiting_input"
        BY <4>2, Sending
      <4>4. QED
        BY <2>2, <4>2, <4>3 DEF Terminal
    <3>3. send.by = "none"
      BY <3>1, <3>2 DEF IInv, RestTypes
    <3>4. run # "stream" \/ mem.status \in Terminal
      BY <2>2 DEF IInv, LockInv
    <3>5. QED
      BY <1>1, <1>2, <1>4, <2>2, <3>3, <3>4 DEF TakeOpLock, Retire
  <2>3. QED
    BY <1>4, <2>1, <2>2 DEF TakeOpLock
<1>5. CASE EnterOpMu(c)
  <2>1. CASE run = "done"
    BY <1>1, <1>2, <1>5, <2>1 DEF EnterOpMu, Retire, OpMuFree
  <2>2. CASE run # "done"
    BY <1>1, <1>2, <1>5, <2>2 DEF EnterOpMu, OpMuFree, sessionVars, watchVars
  <2>3. QED
    BY <2>1, <2>2
<1>6. CASE Revive(c)
  <2>1. UNCHANGED <<mem, stream>> /\ send.phase = "idle"
    BY <1>2, <1>6 DEF Revive, OpMuFree, sessionVars
  <2>2. CASE /\ \E confirm \in BOOLEAN : MaySend(mem, mem.pending, FALSE, confirm)
             /\ send' = [by |-> c, key |-> mem.pending, phase |-> "intent"]
             /\ UNCHANGED <<entry, run, errs>>
    BY <1>1, <2>1, <2>2
  <2>3. CASE /\ send' = send
             /\ IF "unknown" \in {mem.msg, PendingRequest(mem).status} \/ mem.status = "running"
                THEN Publish ELSE UNCHANGED <<entry, run, errs>>
    <3>1. PendingRequest(mem).status = "unknown" => mem.status = "waiting_input"
      BY DEF PendingRequest, NoRequest, IInv, Sound, WaitingHasCause
    <3>2. QED
      BY <1>1, <2>1, <2>3, <3>1 DEF Publish, Terminal
  <2>4. QED
    BY <1>6, <2>2, <2>3 DEF Revive
<1>7. QED
  BY <1>3, <1>4, <1>5, <1>6 DEF Serve

-----------------------------------------------------------------------------
(* No message is sent while an earlier one is in doubt.                    *)

\* A message can only be begun when none is in doubt.
LEMMA BeginWithoutDoubt ==
    ASSUME NEW confirm, MaySend(mem, mem.pending, FALSE, confirm), mem.pending = NoAsk
    PROVE  mem.msg \notin InDoubt
BY DEF MaySend, InDoubt

\* A restart keeps the doubt, and doubts the message that was under way.
LEMMA DoubtReloaded ==
    ASSUME IInv, DoubtInv, mem' = FromSnapshot(disk), disk' = disk,
           doubt' = "yes" => disk.msg \in InDoubt,
           send'.phase = "idle"
    PROVE  DoubtInv'
<1>1. mem'.msg = IF disk.msg = "sending" THEN "unknown" ELSE disk.msg
  BY RestoredFields DEF IInv, Sound, Reloaded
<1>2. QED
  BY <1>1 DEF DoubtInv, InDoubt, Underway

LEMMA DeliverDoubt ==
    ASSUME IInv, DoubtInv, Deliver
    PROVE  DoubtInv'
<1> USE DEF DoubtInv, InDoubt, Underway
<1> DEFINE i == stream.pos + 1
<1>1. send.phase = "idle" /\ i \in Key /\ NoAsk \notin Key /\ i # NoAsk
  BY Delivered DEF Key, NoAsk
<1>2. CASE ReceiveChatStart
  BY <1>1, <1>2, ChatStartEffect DEF SameTurn
<1>3. CASE ReceiveContentStart
  BY <1>1, <1>3 DEF ReceiveContentStart, sessionVars
<1>4. CASE ReceiveContent
  <2>1. mem'.msg = mem.msg /\ disk' \in {mem', disk} /\ UNCHANGED <<send, doubt>>
    BY <1>4, ContentEffect DEF SameTurn
  <2>2. QED
    BY <1>1, <2>1
<1>5. CASE ReceiveAsk
  <2>1. /\ mem'.msg = mem.msg /\ disk' \in {mem', disk} /\ doubt' = doubt
        /\ send' = send \/ send' = [by |-> "auto", key |-> i, phase |-> "intent"]
    BY <1>5, AskEffect
  <2>2. send'.key # NoAsk \/ send'.phase = "idle"
    BY <1>1, <2>1
  <2>3. QED
    BY <2>1, <2>2
<1>6. CASE ReceiveEnd
  <2>1. /\ send' = send /\ disk' \in {mem', disk}
        /\ \/ mem'.msg = mem.msg /\ doubt' = doubt
           \/ doubt' = "no"
    BY <1>6, EndEffect DEF SameTurn
  <2>2. QED
    BY <1>1, <2>1
<1>7. QED
  BY <1>2, <1>3, <1>4, <1>5, <1>6 DEF Deliver

LEMMA SendDoubt ==
    ASSUME IInv, DoubtInv, Send
    PROVE  DoubtInv'
<1> USE DEF DoubtInv, InDoubt, Underway
<1>1. CASE SendIntent
  <2>1. /\ send.phase = "intent" /\ UNCHANGED doubt /\ disk' \in {mem', disk}
        /\ send.key # NoAsk => mem'.msg = mem.msg
        /\ \/ /\ disk' = mem' /\ send'.phase = "wire" /\ send'.key = send.key
              /\ send.key = NoAsk => mem'.msg = "sending"
           \/ /\ disk' = disk /\ send' = NoSend
              /\ send.key = NoAsk => mem'.msg = "failed"
    BY <1>1, IntentEffect DEF SendKeeps
  <2>2. send' = NoSend => send'.phase = "idle"
    BY DEF NoSend
  <2>3. QED
    BY <2>1, <2>2
<1>2. CASE Wire
  <2>1. /\ send.phase = "wire" /\ send'.key = send.key /\ send'.phase \in {"accepted", "lost", "rejected"}
        /\ UNCHANGED <<mem, disk, doubt>>
    BY <1>2 DEF Wire, IInv, RestTypes, sessionVars
  <2>2. QED
    BY <2>1
<1>3. CASE SendResult
  <2>1. send'.phase = "idle"
    BY <1>3, ResultEffect DEF NoSend
  <2>2. QED
    BY <1>3, <2>1, ResultEffect DEF SendKeeps
<1>4. QED
  BY <1>1, <1>2, <1>3 DEF Send

LEMMA DoubtStep ==
    ASSUME IInv, DoubtInv, [Next]_vars
    PROVE  DoubtInv'
<1> USE DEF DoubtInv
<1>1. CASE Remote
  BY <1>1 DEF Remote, RemoteStartTurn, RemoteContent, RemoteAsk, RemoteOfferReport, RemoteResume,
              RemoteEndTurn, RemoteFrame, sessionVars, ghostVars
<1>2. CASE Connect \/ StreamClosed \/ StreamBreak \/ Wake
  BY <1>2 DEF Connect, StreamClosed, StreamBreak, Wake, StreamFrame, sessionVars, ghostVars
<1>3. CASE GiveUp
  BY <1>3 DEF GiveUp, OpMuFree, IInv, SendInv, Underway
<1>4. CASE Deliver
  BY <1>4, DeliverDoubt
<1>5. CASE Send
  BY <1>5, SendDoubt
<1>6. CASE \E c \in Callers : Serve(c)
  <2>1. PICK c \in Callers : Serve(c)
    BY <1>6
  <2>2. UNCHANGED <<disk, doubt>>
    BY <2>1, ServeEffect DEF ghostVars
  <2>3. CASE UNCHANGED <<mem, send>>
    BY <2>2, <2>3
  <2>4. CASE mem' = FromSnapshot(disk) /\ send' = send /\ send.phase = "idle"
    BY <2>2, <2>4, DoubtReloaded
  <2>5. CASE /\ mem' = mem /\ send.phase = "idle"
             /\ send' = [by |-> c, key |-> mem.pending, phase |-> "intent"]
             /\ \E confirm \in BOOLEAN : MaySend(mem, mem.pending, FALSE, confirm)
    <3>1. send'.key = mem.pending /\ send'.phase = "intent"
      BY <2>5
    <3>2. QED
      BY <2>2, <2>5, <3>1, BeginWithoutDoubt DEF Underway
  <2>6. QED
    BY <2>1, <2>3, <2>4, <2>5, ServeEffect
<1>7. CASE Crash
  <2>1. /\ mem' = FromSnapshot(disk) /\ disk' = disk /\ send'.phase = "idle"
        /\ doubt' = IF send.key = NoAsk /\ send.phase \in {"wire", "accepted", "lost"} THEN "yes" ELSE doubt
    BY <1>7 DEF Crash, NoSend
  <2>2. doubt' = "yes" => disk.msg \in InDoubt
    BY <2>1 DEF Underway, InDoubt
  <2>3. QED
    BY <2>1, <2>2, DoubtReloaded
<1>8. CASE RestoreSession
  <2>1. mem' = FromSnapshot(disk) /\ UNCHANGED <<disk, send, doubt>>
    BY <1>8 DEF RestoreSession, ghostVars
  <2>2. send.phase = "idle"
    BY <1>8 DEF RestoreSession, OpLockFree, IInv, LockInv, SendInv, RestTypes
  <2>3. QED
    BY <2>1, <2>2, DoubtReloaded
<1>9. CASE UNCHANGED vars
  BY <1>9 DEF vars, sessionVars, ghostVars
<1>10. QED
  BY <1>1, <1>2, <1>3, <1>4, <1>5, <1>6, <1>7, <1>8, <1>9 DEF Next, Watch

\* The doubt about a message is kept in the record for as long as it lasts.
THEOREM DoubtIsKept == Spec => []DoubtInv
<1>1. Init => DoubtInv
  BY DEF Init, DoubtInv, NoSend, Underway
<1>2. IInv /\ DoubtInv /\ [Next]_vars => DoubtInv'
  BY DoubtStep
<1>3. QED
  BY <1>1, <1>2, Invariance, PTL DEF Spec

\* No free-form message leaves while an earlier one may or may not have arrived:
\* for any number of callers, failed writes and restarts.
THEOREM DoubtfulMessageIsNotFollowed == Spec => NoResendInDoubt
<1>1. ASSUME IInv, DoubtInv, [Next]_vars
      PROVE  send.phase = "intent" /\ send.key = NoAsk /\ send'.phase = "wire" => doubt # "yes"
  BY <1>1 DEF DoubtInv
<1>2. IInv /\ DoubtInv /\ [Next]_vars
        => [(send.phase = "intent" /\ send.key = NoAsk /\ send'.phase = "wire") => doubt # "yes"]_vars
  BY <1>1
<1>3. QED
  BY <1>2, Invariance, DoubtIsKept, PTL DEF Spec, NoResendInDoubt

-----------------------------------------------------------------------------
(* What was read of the log is kept.                                       *)

LEMMA OpenEarlier ==
    ASSUME NEW k \in Int, NEW i \in Int, NEW j \in Int, OpenAt(k, j), k <= i, i <= j
    PROVE  OpenAt(k, i)
BY DEF OpenAt

LEMMA HandledMore ==
    ASSUME NEW s, NEW t, NEW n \in Int, NEW m \in Int, m <= n, Handled(s, n), log' = log,
           skipped \subseteq skipped',
           s.applied \subseteq t.applied, s.answers \subseteq t.answers
    PROVE  Handled(t, m)'
BY DEF Handled

\* A report stays drained while more is read.
LEMMA DrainedMore ==
    ASSUME NEW s, NEW t, NEW k, DrainedIn(s, k) \/ OldEndIn(s), log' = log, skipped \subseteq skipped',
           s.applied \subseteq t.applied, s.answers \subseteq t.answers
    PROVE  (DrainedIn(t, k) \/ OldEndIn(t))'
<1>1. CASE DrainedIn(s, k)
  BY <1>1 DEF DrainedIn
<1>2. CASE OldEndIn(s)
  BY <1>2 DEF OldEndIn
<1>3. QED
  BY <1>1, <1>2

\* The asks of t are those of s, and nothing new is on offer.
LEMMA AsksMore ==
    ASSUME NEW s, NEW t, Faithful(s), log \in Seq(Event), log' = log, skipped \subseteq skipped',
           SameOffers(s, t), NoNewAsk(s, t),
           s.applied \subseteq t.applied, s.answers \subseteq t.answers,
           NEW k \in Key
    PROVE  /\ t.req[k].status # "none" => /\ k <= Len(log') /\ log'[k].type = t.req[k].kind
                                          /\ Handled(t, k - 1)'
           /\ t.req[k].ready => (DrainedIn(t, k) \/ OldEndIn(t))'
<1>1. k - 1 \in Int /\ k - 1 <= k - 1
  BY DEF Key
<1>2. ASSUME t.req[k].status # "none"
      PROVE  k <= Len(log') /\ log'[k].type = t.req[k].kind /\ Handled(t, k - 1)'
  <2>1. s.req[k].status # "none"
    BY <1>2 DEF NoNewAsk
  <2>2. k <= Len(log) /\ log[k].type = s.req[k].kind /\ Handled(s, k - 1)
    BY <2>1 DEF Faithful
  <2>3. QED
    BY <1>1, <2>2, HandledMore DEF SameOffers
<1>3. ASSUME t.req[k].ready
      PROVE  (DrainedIn(t, k) \/ OldEndIn(t))'
  <2>1. DrainedIn(s, k) \/ OldEndIn(s)
    BY <1>3 DEF SameOffers, Faithful
  <2>2. QED
    BY <2>1, DrainedMore
<1>4. QED
  BY <1>2, <1>3

\* A record that keeps its cursor and its asks stays true to the log.
LEMMA FaithfulMore ==
    ASSUME NEW s \in Session, NEW t, Faithful(s), log \in Seq(Event), log' = log,
           skipped \subseteq skipped', SameOffers(s, t), NoNewAsk(s, t), t.cp = s.cp,
           s.applied \subseteq t.applied, t.applied \subseteq 1..Len(log), s.answers \subseteq t.answers,
           \A i \in t.applied : log[i].type = "content_finish" => i \in t.answers
    PROVE  Faithful(t)'
<1>1. s.cp \in Int
  BY DEF Session, Key
<1>2. Handled(t, t.cp)'
  BY <1>1, HandledMore DEF Faithful
<1>3. \A k \in 1..Len(log) : ~OpenAt(k, t.cp)'
  BY DEF Faithful, OpenAt
<1>4. \A k \in Key :
         /\ t.req[k].status # "none" => /\ k <= Len(log') /\ log'[k].type = t.req[k].kind
                                        /\ Handled(t, k - 1)'
         /\ t.req[k].ready => (DrainedIn(t, k) \/ OldEndIn(t))'
  BY AsksMore
<1>5. QED
  BY <1>2, <1>3, <1>4 DEF Faithful

\* The cursor moves only to the event that is being read, when no content is open.
LEMMA CursorMoves ==
    ASSUME IInv, LogInv, Faithful(mem), Reading, Deliver,
           NEW open \in BOOLEAN,
           log[stream.pos + 1].type = "content_start" => open,
           log[stream.pos + 1].type \notin {"content_start", "content_finish"} => open = stream.open
    PROVE  LET i == stream.pos + 1
           IN  /\ NewCursor(open) \in {mem.cp, i}
               /\ \A k \in 1..Len(log) : ~OpenAt(k, NewCursor(open))
               /\ \A k \in 1..Len(log) : OpenAt(k, i) => open \/ k <= NewCursor(open)
               /\ Latest <= NewCursor(open) \/ (open /\ Latest <= i)
<1> DEFINE i == stream.pos + 1
<1>1. /\ i \in 1..Len(log) /\ stream.pos \in Nat /\ Latest \in Nat /\ mem.cp \in Nat /\ stream.latest \in Nat
      /\ i \in Nat /\ NextEvent = log[i] /\ Len(log) \in Nat
  <2>1. i \in 1..Len(log) /\ stream.pos \in Nat /\ NextEvent = log[i] /\ Latest \in Key \cup {0} /\ mem \in Session
    BY Delivered
  <2>2. log \in Seq(Event) /\ stream.latest \in Key \cup {0}
    BY DEF IInv, RestTypes
  <2>3. mem.cp \in Key \cup {0}
    BY <2>1 DEF Session
  <2>4. Latest \in Nat /\ mem.cp \in Nat /\ stream.latest \in Nat /\ Len(log) \in Nat
    BY <2>1, <2>2, <2>3 DEF Key
  <2>5. QED
    BY <2>1, <2>4
<1>2. Latest = i \/ (Latest = stream.latest /\ ~(NextEvent.stable /\ i > stream.latest))
  BY DEF Latest
<1>3. stream.latest <= mem.cp \/ (stream.open /\ stream.latest <= stream.pos)
  BY DEF Reading
<1>4. ASSUME ~open, Latest > mem.cp
      PROVE  Latest = i
  <2>1. CASE stream.latest <= mem.cp
    BY <1>1, <1>2, <1>4, <2>1
  <2>2. CASE stream.open /\ stream.latest <= stream.pos
    <3>1. log[i].type = "content_finish"
      BY <1>4, <2>2
    <3>2. NextEvent.stable
      BY <1>1, <3>1 DEF LogInv
    <3>3. QED
      BY <1>1, <1>2, <2>2, <3>2
  <2>3. QED
    BY <1>3, <2>1, <2>2
<1>5. NewCursor(open) = IF ~open /\ Latest > mem.cp THEN i ELSE mem.cp
  BY <1>4 DEF NewCursor
<1>6. ASSUME NEW k \in 1..Len(log), OpenAt(k, i), ~open
      PROVE  k <= mem.cp
  <2>1. log[i].type \notin {"content_start", "content_finish"} /\ k <= i
    BY <1>1, <1>6 DEF OpenAt
  <2>2. k # i /\ k \in Int
    BY <1>6, <2>1 DEF OpenAt
  <2>3. k <= stream.pos
    BY <1>1, <2>1, <2>2
  <2>4. OpenAt(k, stream.pos)
    BY <1>1, <1>6, <2>2, <2>3, OpenEarlier
  <2>5. QED
    BY <1>6, <2>1, <2>4 DEF Reading
<1>7. ASSUME NEW k \in 1..Len(log), OpenAt(k, NewCursor(open))
      PROVE  FALSE
  <2>1. CASE ~open /\ Latest > mem.cp
    <3>1. NewCursor(open) = i /\ i > mem.cp
      BY <1>4, <1>5, <2>1
    <3>2. k <= mem.cp /\ OpenAt(k, i)
      BY <1>6, <1>7, <2>1, <3>1
    <3>3. OpenAt(k, mem.cp)
      BY <1>1, <3>1, <3>2, OpenEarlier
    <3>4. QED
      BY <3>3 DEF Faithful
  <2>2. CASE ~(~open /\ Latest > mem.cp)
    BY <1>5, <1>7, <2>2 DEF Faithful
  <2>3. QED
    BY <2>1, <2>2
<1>8. Latest <= NewCursor(open) \/ (open /\ Latest <= i)
  <2>1. CASE open
    BY <1>1, <1>2, <1>3, <1>5, <2>1
  <2>2. CASE ~open
    BY <1>1, <1>4, <1>5, <2>2
  <2>3. QED
    BY <2>1, <2>2
<1>9. \A k \in 1..Len(log) : OpenAt(k, i) => open \/ k <= NewCursor(open)
  <2>1. mem.cp <= NewCursor(open)
    BY <1>1, <1>4, <1>5
  <2>2. QED
    BY <1>1, <1>5, <1>6, <2>1
<1>10. QED
  BY <1>5, <1>7, <1>8, <1>9

\* What reading event i makes of a record: the event is dealt with, and a report
\* comes on offer only when it is drained.
ReadInto(t, i, open) ==
    /\ t \in Session /\ t.cp = NewCursor(open)
    /\ mem.applied \subseteq t.applied /\ t.applied \subseteq mem.applied \cup {i}
    /\ mem.answers \subseteq t.answers
    /\ log[i].type = "content_finish" =>
         /\ i \in t.answers \cup skipped' \/ ~stream.open
         /\ i \in t.applied => i \in t.answers \/ i \in mem.applied
    /\ log[i].type = "fallback" => i \in t.applied \cup skipped'
    /\ log[i].type \in Terminal => i \in t.applied \cup skipped'
    /\ log[i].type = "chat_start" => i \in t.applied

\* The asks of t are those of the record in memory, or events that were read.
OffersRead(t, i) ==
    \A k \in Key :
      \/ SameOffer(mem.req[k], t.req[k])
      \/ k = i /\ t.req[k].kind = log[i].type /\ ~t.req[k].ready
      \/ /\ mem.req[k].status # "none" /\ t.req[k].kind = mem.req[k].kind
         /\ log[k].type = "ask_report_render" /\ log[i].type = "completed"
         /\ i \notin mem.applied /\ i \in t.applied

LEMMA ReadKeeps ==
    ASSUME IInv, LogInv, Faithful(mem), Reading, Deliver, skipped \subseteq skipped',
           NEW open \in BOOLEAN,
           log[stream.pos + 1].type = "content_start" => open,
           log[stream.pos + 1].type \notin {"content_start", "content_finish"} => open = stream.open,
           NEW i, i = stream.pos + 1, NEW t, ReadInto(t, i, open), OffersRead(t, i)
    PROVE  Faithful(t)' /\ Handled(t, i)'
<1>1. /\ i \in 1..Len(log) /\ i \in Key /\ stream.pos \in Nat /\ log' = log /\ mem \in Session
      /\ log \in Seq(Event)
  BY Delivered DEF IInv, RestTypes
<1>2. mem.cp \in Nat /\ Len(log) \in Nat
  BY <1>1 DEF Session, Key
<1>3. /\ NewCursor(open) \in {mem.cp, i}
      /\ \A k \in 1..Len(log) : ~OpenAt(k, NewCursor(open))
  BY CursorMoves
<1>4. ASSUME log[i].type = "content_finish", ~stream.open
      PROVE  i \in mem.answers \cup skipped
  <2>1. PICK k \in 1..Len(log) : OpenAt(k, stream.pos)
    BY <1>1, <1>4 DEF LogInv
  <2>2. k <= mem.cp /\ k \in Int
    BY <1>4, <2>1 DEF Reading
  <2>3. ~(mem.cp <= stream.pos)
    BY <1>1, <1>2, <2>1, <2>2, OpenEarlier DEF Faithful
  <2>4. i <= mem.cp
    BY <1>1, <1>2, <2>3
  <2>5. Handled(mem, mem.cp)
    BY DEF Faithful
  <2>6. QED
    BY <1>1, <1>4, <2>4, <2>5 DEF Handled
<1>5. Handled(t, i)'
  <2>1. SUFFICES ASSUME NEW j \in 1..Len(log), j <= i
                 PROVE  /\ log[j].type = "content_finish" => j \in t.answers \cup skipped'
                        /\ log[j].type = "fallback" => j \in t.applied \cup skipped'
                        /\ log[j].type \in Terminal => j \in t.applied \cup skipped'
                        /\ log[j].type = "chat_start" => j \in t.applied
    BY <1>1 DEF Handled
  <2>2. CASE j = i
    BY <1>4, <2>2 DEF ReadInto
  <2>3. CASE j # i
    <3>1. j <= stream.pos
      BY <1>1, <2>1, <2>3
    <3>2. Handled(mem, stream.pos)
      BY DEF Reading
    <3>3. QED
      BY <3>1, <3>2 DEF Handled, ReadInto
  <2>4. QED
    BY <2>2, <2>3
<1>6. Handled(t, t.cp)'
  <2>1. t.cp = NewCursor(open)
    BY DEF ReadInto
  <2>2. CASE t.cp = i
    BY <1>5, <2>2
  <2>3. CASE t.cp = mem.cp
    <3>1. Handled(mem, t.cp) /\ t.cp \in Int /\ t.cp <= t.cp
      BY <1>2, <2>3 DEF Faithful
    <3>2. QED
      BY <1>1, <3>1, HandledMore DEF ReadInto
  <2>4. QED
    BY <1>3, <2>1, <2>2, <2>3
<1>7. t.cp <= Len(log) /\ t.applied \subseteq 1..Len(log)
  BY <1>1, <1>2, <1>3 DEF ReadInto, Faithful
<1>8. \A k \in 1..Len(log) : ~OpenAt(k, t.cp)'
  BY <1>1, <1>3 DEF ReadInto, OpenAt
<1>9. \A j \in t.applied : log[j].type = "content_finish" => j \in t.answers
  BY DEF ReadInto, Faithful
<1>10. ASSUME NEW k \in Key
       PROVE  /\ t.req[k].status # "none" => /\ k <= Len(log) /\ log[k].type = t.req[k].kind
                                             /\ Handled(t, k - 1)'
              /\ t.req[k].ready => (DrainedIn(t, k) \/ OldEndIn(t))'
  <2>1. k \in Nat /\ k - 1 \in Int /\ k - 1 <= k - 1
    BY DEF Key
  <2>2. mem.req[k].status # "none" => /\ k <= Len(log) /\ log[k].type = mem.req[k].kind
                                      /\ Handled(mem, k - 1) /\ Handled(t, k - 1)'
    <3>1. SUFFICES ASSUME mem.req[k].status # "none"
                   PROVE  /\ k <= Len(log) /\ log[k].type = mem.req[k].kind
                          /\ Handled(mem, k - 1) /\ Handled(t, k - 1)'
      OBVIOUS
    <3>2. k <= Len(log) /\ log[k].type = mem.req[k].kind /\ Handled(mem, k - 1)
      BY <3>1 DEF Faithful
    <3>3. QED
      BY <1>1, <2>1, <3>2, HandledMore DEF ReadInto
  <2>3. CASE SameOffer(mem.req[k], t.req[k])
    <3>1. t.req[k].ready => (DrainedIn(t, k) \/ OldEndIn(t))'
      <4>1. SUFFICES ASSUME t.req[k].ready
                     PROVE  (DrainedIn(t, k) \/ OldEndIn(t))'
        OBVIOUS
      <4>2. DrainedIn(mem, k) \/ OldEndIn(mem)
        BY <2>3, <4>1 DEF Faithful, SameOffer
      <4>3. QED
        BY <1>1, <4>2, DrainedMore DEF ReadInto
    <3>2. QED
      BY <2>2, <2>3, <3>1 DEF SameOffer
  <2>4. CASE k = i /\ t.req[k].kind = log[i].type /\ ~t.req[k].ready
    <3>1. Handled(mem, stream.pos) /\ k - 1 <= stream.pos /\ stream.pos \in Int
      BY <1>1, <2>4 DEF Reading
    <3>2. Handled(t, k - 1)'
      BY <1>1, <2>1, <3>1, HandledMore DEF ReadInto
    <3>3. QED
      BY <1>1, <2>4, <3>2
  <2>5. CASE /\ mem.req[k].status # "none" /\ t.req[k].kind = mem.req[k].kind
             /\ log[k].type = "ask_report_render" /\ log[i].type = "completed"
             /\ i \notin mem.applied /\ i \in t.applied
    <3>1. k # i
      BY <2>5
    <3>2. CASE i < k
      <4>1. i <= k - 1
        BY <1>1, <2>1, <3>2
      <4>2. i \in skipped
        BY <1>1, <2>2, <2>5, <4>1 DEF Handled, Terminal
      <4>3. OldEndIn(t)'
        BY <1>1, <2>5, <4>2 DEF OldEndIn
      <4>4. QED
        BY <2>2, <2>5, <4>3
    <3>3. CASE k < i
      <4>1. \A j \in k..i : log[j].type = "content_finish" => j \in t.answers \cup skipped'
        BY <1>1, <1>5, <2>1 DEF Handled, Key
      <4>2. DrainedIn(t, k)'
        BY <1>1, <2>5, <3>3, <4>1 DEF DrainedIn
      <4>3. QED
        BY <2>2, <2>5, <4>2
    <3>4. QED
      BY <1>1, <2>1, <3>1, <3>2, <3>3
  <2>6. QED
    BY <2>3, <2>4, <2>5 DEF OffersRead
<1>11. Faithful(t)'
  BY <1>1, <1>6, <1>7, <1>8, <1>9, <1>10 DEF Faithful
<1>12. QED
  BY <1>5, <1>11

LEMMA FaithfulSame ==
    ASSUME NEW s \in Session, Faithful(s), log \in Seq(Event), log' = log, skipped \subseteq skipped'
    PROVE  Faithful(s)'
<1>1. SameOffers(s, s) /\ NoNewAsk(s, s)
  BY DEF SameOffers, NoNewAsk
<1>2. s.applied \subseteq 1..Len(log) /\ \A i \in s.applied : log[i].type = "content_finish" => i \in s.answers
  BY DEF Faithful
<1>3. QED
  BY <1>1, <1>2, FaithfulMore

\* The connection knows as much after the event as before it.
LEMMA ReadOn ==
    ASSUME IInv, LogInv, Faithful(mem), Reading, Deliver, skipped \subseteq skipped',
           NEW open \in BOOLEAN,
           log[stream.pos + 1].type = "content_start" => open,
           log[stream.pos + 1].type \notin {"content_start", "content_finish"} => open = stream.open,
           NEW i, i = stream.pos + 1, ReadInto(mem', i, open), OffersRead(mem', i),
           stream'.pos = i, stream'.latest = Latest, stream'.open = open
    PROVE  Faithful(mem)' /\ Reading'
<1>1. i \in 1..Len(log) /\ log' = log
  BY Delivered
<1>2. PICK t : t = mem'
  OBVIOUS
<1>3. Faithful(t)' /\ Handled(t, i)'
  BY <1>2, ReadKeeps
<1>4. t.cp = NewCursor(open)
  BY <1>2 DEF ReadInto
<1>5. Handled(mem, stream.pos)'
  BY <1>1, <1>2, <1>3 DEF Handled
<1>6. stream'.latest <= mem'.cp \/ (stream'.open /\ stream'.latest <= stream'.pos)
  BY <1>2, <1>4, CursorMoves
<1>7. \A k \in 1..Len(log) : OpenAt(k, i) => open \/ k <= t.cp
  BY <1>4, CursorMoves
<1>8. \A k \in 1..Len(log') : OpenAt(k, stream.pos)' => stream'.open \/ k <= mem'.cp
  BY <1>1, <1>2, <1>7 DEF OpenAt
<1>9. QED
  BY <1>1, <1>2, <1>3, <1>5, <1>6, <1>8 DEF Reading

LEMMA LogSame ==
    ASSUME LogInv, UNCHANGED <<log, remote>>
    PROVE  LogInv'
BY DEF LogInv, OpenAt

LEMMA ChatStartKeeps ==
    ASSUME IInv, StreamInv, ReceiveChatStart
    PROVE  Faithful(mem)' /\ Faithful(disk)' /\ Reading'
<1> USE DEF StreamInv
<1>1. Deliver /\ run = "stream"
  BY Delivered DEF Deliver, ReceiveChatStart, Receiving
<1>2. PICK i : i = stream.pos + 1
  OBVIOUS
<1>3. i \in 1..Len(log) /\ i \in Key /\ log' = log /\ log \in Seq(Event) /\ disk \in Session /\ mem \in Session
  BY <1>1, <1>2, Delivered DEF IInv, RestTypes
<1>4. /\ log[i].type = "chat_start" /\ skipped' = skipped
      /\ mem' \in Session /\ mem'.req = mem.req /\ mem'.answers = mem.answers
      /\ mem'.cp = NewCursor(stream.open)
      /\ stream'.pos = i /\ stream'.latest = Latest /\ stream'.open = stream.open
      /\ i \in mem'.applied /\ mem'.applied \in {mem.applied, mem.applied \cup {i}}
      /\ \/ disk' = disk
         \/ /\ disk' \in Session /\ disk'.req = mem.req /\ disk'.answers = mem.answers
            /\ disk'.cp = mem.cp /\ disk'.applied = mem.applied \cup {i}
  BY <1>2, ChatStartEffect
<1>5. ReadInto(mem', i, stream.open) /\ OffersRead(mem', i)
  BY <1>4 DEF ReadInto, OffersRead, SameOffer, Terminal
<1>6. Faithful(mem)' /\ Reading'
  <2>1. stream.open \in BOOLEAN
    BY DEF IInv, RestTypes
  <2>2. QED
    BY <1>1, <1>2, <1>4, <1>5, <2>1, ReadOn
<1>7. Faithful(disk)'
  <2>1. CASE disk' = disk
    BY <1>3, <1>4, <2>1, FaithfulSame
  <2>2. CASE /\ disk' \in Session /\ disk'.req = mem.req /\ disk'.answers = mem.answers
             /\ disk'.cp = mem.cp /\ disk'.applied = mem.applied \cup {i}
    <3>1. SameOffers(mem, disk') /\ NoNewAsk(mem, disk')
      BY <2>2 DEF SameOffers, NoNewAsk
    <3>2. /\ disk'.applied \subseteq 1..Len(log)
          /\ \A j \in disk'.applied : log[j].type = "content_finish" => j \in disk'.answers
      BY <1>3, <1>4, <2>2 DEF Faithful
    <3>3. PICK t : t = disk'
      OBVIOUS
    <3>4. Faithful(t)'
      BY <1>3, <1>4, <2>2, <3>1, <3>2, <3>3, FaithfulMore
    <3>5. QED
      BY <3>3, <3>4
  <2>3. QED
    BY <1>4, <2>1, <2>2
<1>8. QED
  BY <1>6, <1>7

LEMMA ContentStartKeeps ==
    ASSUME IInv, StreamInv, ReceiveContentStart
    PROVE  Faithful(mem)' /\ Faithful(disk)' /\ Reading'
<1> USE DEF StreamInv
<1>1. Deliver /\ run = "stream"
  BY Delivered DEF Deliver, ReceiveContentStart, Receiving
<1>2. PICK i : i = stream.pos + 1
  OBVIOUS
<1>3. log' = log /\ log \in Seq(Event) /\ disk \in Session /\ mem \in Session
  BY <1>1, <1>2, Delivered DEF IInv, RestTypes
<1>4. log[i].type = "content_start" /\ mem' = mem /\ disk' = disk /\ skipped' = skipped
  BY <1>1, <1>2, Delivered DEF ReceiveContentStart, Receiving, sessionVars
<1>5. stream'.pos = i /\ stream'.latest = Latest /\ stream'.open = TRUE
  BY <1>2, ReadFields DEF ReceiveContentStart, IInv
<1>6. ReadInto(mem', i, TRUE) /\ OffersRead(mem', i)
  BY <1>3, <1>4 DEF ReadInto, OffersRead, SameOffer, Terminal, NewCursor
<1>7. Faithful(mem)' /\ Reading'
  BY <1>1, <1>2, <1>4, <1>5, <1>6, ReadOn
<1>8. QED
  BY <1>3, <1>4, <1>7, FaithfulSame

LEMMA ContentKeeps ==
    ASSUME IInv, StreamInv, ReceiveContent
    PROVE  Faithful(mem)' /\ Faithful(disk)' /\ Reading'
<1> USE DEF StreamInv
<1>1. Deliver /\ run = "stream"
  BY Delivered DEF Deliver, ReceiveContent, Receiving
<1>2. PICK i : i = stream.pos + 1
  OBVIOUS
<1>3. log' = log /\ log \in Seq(Event) /\ disk \in Session /\ mem \in Session
  BY <1>1, <1>2, Delivered DEF IInv, RestTypes
<1> DEFINE open == log[i].type = "fallback" /\ stream.open
<1>4. /\ log[i].type \in {"content_finish", "fallback"} /\ open \in BOOLEAN
      /\ mem' \in Session /\ mem'.req = mem.req /\ mem'.cp = NewCursor(open)
      /\ stream'.pos = i /\ stream'.latest = Latest /\ stream'.open = open
      /\ \/ /\ log[i].type = "content_finish" /\ ~stream.open
            /\ mem'.applied = mem.applied /\ mem'.answers = mem.answers
            /\ UNCHANGED <<disk, skipped>>
         \/ /\ mem'.applied = mem.applied /\ mem'.answers = mem.answers
            /\ UNCHANGED disk /\ PassedOver(i)
         \/ /\ mem'.applied = mem.applied \cup {i}
            /\ log[i].type = "content_finish" => mem'.answers = mem.answers \cup {i}
            /\ log[i].type = "fallback" => mem'.answers = mem.answers
            /\ disk' \in {mem', disk} /\ UNCHANGED skipped
  BY <1>2, ContentEffect
<1>5. skipped \subseteq skipped' /\ disk' \in {mem', disk}
  BY <1>4 DEF PassedOver
<1>6. \A j \in mem.applied : log[j].type = "content_finish" => j \in mem.answers
  BY DEF Faithful
<1>7. ReadInto(mem', i, open) /\ OffersRead(mem', i)
  BY <1>4, <1>6 DEF ReadInto, OffersRead, SameOffer, Terminal, PassedOver
<1>8. Faithful(mem)' /\ Reading'
  <2>1. log[i].type = "content_start" => open
    BY <1>4
  <2>2. log[i].type \notin {"content_start", "content_finish"} => open = stream.open
    BY <1>4 DEF IInv, RestTypes
  <2> HIDE DEF open
  <2>3. QED
    BY <1>1, <1>2, <1>4, <1>5, <1>7, <2>1, <2>2, ReadOn
<1>9. QED
  <2>1. CASE disk' = disk
    BY <1>3, <1>5, <1>8, <2>1, FaithfulSame
  <2>2. CASE disk' = mem'
    BY <1>8, <2>2 DEF Faithful, Handled, OpenAt, DrainedIn, OldEndIn
  <2>3. QED
    BY <1>5, <2>1, <2>2

LEMMA AskKeeps ==
    ASSUME IInv, StreamInv, ReceiveAsk
    PROVE  Faithful(mem)' /\ Faithful(disk)' /\ Reading' /\ ReportInv'
<1> USE DEF StreamInv
<1>1. Deliver /\ run = "stream" /\ send.phase = "idle"
  BY Delivered DEF Deliver, ReceiveAsk, Receiving
<1>2. PICK i : i = stream.pos + 1
  OBVIOUS
<1>3. i \in Key /\ log' = log /\ log \in Seq(Event) /\ disk \in Session /\ mem \in Session
  BY <1>1, <1>2, Delivered DEF IInv, RestTypes
<1>4. /\ log[i].type \in AskKind
      /\ mem' \in Session /\ mem'.applied = mem.applied /\ mem'.answers = mem.answers
      /\ mem'.cp = NewCursor(stream.open)
      /\ stream'.pos = i /\ stream'.latest = Latest /\ stream'.open = stream.open
      /\ \/ /\ mem'.req = mem.req /\ UNCHANGED <<disk, send>>
            /\ UNCHANGED skipped \/ PassedOver(i)
         \/ /\ mem'.req[i].kind = log[i].type /\ mem'.req[i].ready = FALSE
            /\ \A j \in Key : j # i => SameOffer(mem.req[j], mem'.req[j])
            /\ UNCHANGED skipped
            /\ \/ disk' \in {mem', disk} /\ send' = send
               \/ /\ disk' = mem' /\ send' = [by |-> "auto", key |-> i, phase |-> "intent"]
                  /\ mem'.req[i].kind = "ask_plan"
  BY <1>2, AskEffect
<1>5. skipped \subseteq skipped' /\ disk' \in {mem', disk}
  BY <1>4 DEF PassedOver
<1>6. log[i].type \notin Terminal \cup {"content_start", "content_finish", "fallback", "chat_start"}
  BY <1>4 DEF AskKind, Terminal
<1>7. ReadInto(mem', i, stream.open) /\ OffersRead(mem', i)
  BY <1>3, <1>4, <1>6 DEF ReadInto, OffersRead, SameOffer
<1>8. Faithful(mem)' /\ Reading'
  <2>1. stream.open \in BOOLEAN
    BY DEF IInv, RestTypes
  <2>2. QED
    BY <1>1, <1>2, <1>4, <1>5, <1>6, <1>7, <2>1, ReadOn
<1>9. Faithful(disk)'
  <2>1. CASE disk' = disk
    BY <1>3, <1>5, <2>1, FaithfulSame
  <2>2. CASE disk' = mem'
    BY <1>8, <2>2 DEF Faithful, Handled, OpenAt, DrainedIn, OldEndIn
  <2>3. QED
    BY <1>5, <2>1, <2>2
<1>10. ReportInv'
  <2>1. CASE send' = send
    BY <1>1, <2>1 DEF ReportInv
  <2>2. CASE send' = [by |-> "auto", key |-> i, phase |-> "intent"] /\ mem'.req[i].kind = "ask_plan"
    BY <2>2 DEF ReportInv, Draining
  <2>3. QED
    BY <1>4, <2>1, <2>2
<1>11. QED
  BY <1>8, <1>9, <1>10

LEMMA EndKeeps ==
    ASSUME IInv, StreamInv, ReceiveEnd
    PROVE  Faithful(mem)' /\ Faithful(disk)' /\ (run' = "stream" => Reading')
<1> USE DEF StreamInv
<1>1. Deliver /\ run = "stream"
  BY Delivered DEF Deliver, ReceiveEnd, Receiving
<1>2. PICK i : i = stream.pos + 1
  OBVIOUS
<1>3. i \in Key /\ log' = log /\ log \in Seq(Event) /\ disk \in Session /\ mem \in Session
  BY <1>1, <1>2, Delivered DEF IInv, RestTypes
<1>4. /\ log[i].type \in Terminal
      /\ mem' \in Session /\ mem'.cp = NewCursor(stream.open)
      /\ \/ /\ mem'.req = mem.req /\ mem'.applied = mem.applied /\ mem'.answers = mem.answers
            /\ UNCHANGED disk /\ PassedOver(i)
            /\ stream'.pos = i /\ stream'.latest = Latest /\ stream'.open = stream.open
         \/ /\ i \notin mem.applied
            /\ mem'.applied = mem.applied \cup {i} /\ mem.answers \subseteq mem'.answers
            /\ disk' \in {mem', disk} /\ UNCHANGED skipped /\ run' # "stream"
            /\ \/ mem'.req = mem.req
               \/ /\ log[i].type = "completed" /\ mem.pending \in Key
                  /\ mem.req[mem.pending].kind = "ask_report_render"
                  /\ \A j \in Key : j # mem.pending => SameOffer(mem.req[j], mem'.req[j])
                  /\ mem'.req[mem.pending].kind = "ask_report_render"
  BY <1>2, EndEffect
<1>5. skipped \subseteq skipped' /\ disk' \in {mem', disk}
  BY <1>4 DEF PassedOver
<1>6. log[i].type \notin AskKind \cup {"content_start", "content_finish", "fallback", "chat_start"}
  BY <1>4 DEF AskKind, Terminal
<1>7. ReadInto(mem', i, stream.open)
  BY <1>3, <1>4, <1>6 DEF ReadInto, PassedOver
<1>8. OffersRead(mem', i)
  <2>1. CASE mem'.req = mem.req
    BY <2>1 DEF OffersRead, SameOffer
  <2>2. CASE /\ i \notin mem.applied /\ i \in mem'.applied
             /\ log[i].type = "completed" /\ mem.pending \in Key
             /\ mem.req[mem.pending].kind = "ask_report_render"
             /\ \A j \in Key : j # mem.pending => SameOffer(mem.req[j], mem'.req[j])
             /\ mem'.req[mem.pending].kind = "ask_report_render"
    <3>1. mem.pending # NoAsk
      BY <2>2 DEF Key, NoAsk
    <3>2. mem.req[mem.pending].status # "none"
      BY <3>1 DEF IInv, Sound, WaitingHasCause
    <3>3. log[mem.pending].type = "ask_report_render"
      BY <2>2, <3>2 DEF Faithful
    <3>4. QED
      BY <2>2, <3>2, <3>3 DEF OffersRead
  <2>3. QED
    BY <1>4, <2>1, <2>2
<1>9. Faithful(mem)'
  <2>1. stream.open \in BOOLEAN
    BY DEF IInv, RestTypes
  <2>2. PICK t : t = mem'
    OBVIOUS
  <2>3. Faithful(t)'
    BY <1>1, <1>2, <1>5, <1>6, <1>7, <1>8, <2>1, <2>2, ReadKeeps
  <2>4. QED
    BY <2>2, <2>3
<1>10. run' = "stream" => Reading'
  <2>1. SUFFICES ASSUME run' = "stream"
                 PROVE  Reading'
    OBVIOUS
  <2>2. stream.open \in BOOLEAN
    BY DEF IInv, RestTypes
  <2>3. stream'.pos = i /\ stream'.latest = Latest /\ stream'.open = stream.open
    BY <1>4, <2>1
  <2>4. QED
    BY <1>1, <1>2, <1>5, <1>6, <1>7, <1>8, <2>2, <2>3, ReadOn
<1>11. Faithful(disk)'
  <2>1. CASE disk' = disk
    BY <1>3, <1>5, <2>1, FaithfulSame
  <2>2. CASE disk' = mem'
    BY <1>9, <2>2 DEF Faithful, Handled, OpenAt, DrainedIn, OldEndIn
  <2>3. QED
    BY <1>5, <2>1, <2>2
<1>12. QED
  BY <1>9, <1>10, <1>11

LEMMA DeliverStream ==
    ASSUME IInv, StreamInv, Deliver
    PROVE  StreamInv'
<1>1. LogInv'
  BY Delivered, LogSame DEF StreamInv
<1>2. ReportInv' \/ ReceiveAsk
  <2>1. SUFFICES ASSUME ~ReceiveAsk
                 PROVE  ReportInv'
    OBVIOUS
  <2>2. send' = send
    BY <2>1, ChatStartEffect, ContentEffect, EndEffect DEF Deliver, ReceiveContentStart
  <2>3. QED
    BY <2>2, Delivered DEF ReportInv
<1>3. QED
  BY <1>1, <1>2, ChatStartKeeps, ContentStartKeeps, ContentKeeps, AskKeeps, EndKeeps DEF Deliver, StreamInv

-----------------------------------------------------------------------------
(* What was read stays true when the remote goes on.                       *)

LEMMA Grown ==
    ASSUME log \in Seq(Event), NEW e \in Event, log' = Append(log, e)
    PROVE  /\ log' \in Seq(Event) /\ Len(log') = Len(log) + 1 /\ Len(log) \in Nat
           /\ log'[Len(log) + 1] = e
           /\ \A i \in 1..Len(log) : log'[i] = log[i]
OBVIOUS

LEMMA GrownOpen ==
    ASSUME log \in Seq(Event), NEW e \in Event, log' = Append(log, e),
           NEW k, NEW j \in Int, j <= Len(log)
    PROVE  /\ OpenAt(k, j)' => OpenAt(k, j)
           /\ OpenAt(k, j) => OpenAt(k, j)'
<1>1. Len(log') = Len(log) + 1 /\ Len(log) \in Nat /\ \A i \in 1..Len(log) : log'[i] = log[i]
  BY Grown
<1>2. ASSUME OpenAt(k, j)'
      PROVE  OpenAt(k, j)
  <2>1. k \in 1..Len(log') /\ k <= j /\ log'[k].type = "content_start"
    BY <1>2 DEF OpenAt
  <2>2. k \in 1..Len(log)
    BY <1>1, <2>1
  <2>3. \A m \in k..j : m \in 1..Len(log)
    BY <1>1, <2>2
  <2>4. QED
    BY <1>1, <1>2, <2>1, <2>2, <2>3 DEF OpenAt
<1>3. ASSUME OpenAt(k, j)
      PROVE  OpenAt(k, j)'
  <2>1. k \in 1..Len(log) /\ k \in 1..Len(log')
    BY <1>1, <1>3 DEF OpenAt
  <2>2. \A m \in k..j : m \in 1..Len(log)
    BY <1>1, <2>1
  <2>3. QED
    BY <1>1, <1>3, <2>1, <2>2 DEF OpenAt
<1>4. QED
  BY <1>2, <1>3

LEMMA GrownHandled ==
    ASSUME log \in Seq(Event), NEW e \in Event, log' = Append(log, e), skipped' = skipped,
           NEW s, NEW n \in Int, n <= Len(log), Handled(s, n)
    PROVE  Handled(s, n)'
<1>1. Len(log') = Len(log) + 1 /\ Len(log) \in Nat /\ \A i \in 1..Len(log) : log'[i] = log[i]
  BY Grown
<1>2. \A i \in 1..Len(log') : i <= n => i \in 1..Len(log)
  BY <1>1
<1>3. QED
  BY <1>1, <1>2 DEF Handled

LEMMA GrownFaithful ==
    ASSUME log \in Seq(Event), NEW e \in Event, log' = Append(log, e), skipped' = skipped,
           NEW s \in Session, Faithful(s)
    PROVE  Faithful(s)'
<1>1. Len(log') = Len(log) + 1 /\ Len(log) \in Nat /\ \A i \in 1..Len(log) : log'[i] = log[i]
  BY Grown
<1>2. s.applied \subseteq 1..Len(log) /\ s.cp <= Len(log) /\ s.cp \in Int
  BY DEF Faithful, Session, Key
<1>3. s.applied \subseteq 1..Len(log') /\ s.cp <= Len(log')
  BY <1>1, <1>2
<1>4. Handled(s, s.cp)'
  BY <1>2, GrownHandled DEF Faithful
<1>5. ASSUME NEW k \in 1..Len(log')
      PROVE  ~OpenAt(k, s.cp)'
  <2>1. SUFFICES ASSUME OpenAt(k, s.cp)'
                 PROVE  FALSE
    OBVIOUS
  <2>2. OpenAt(k, s.cp)
    BY <1>2, <2>1, GrownOpen
  <2>3. k \in 1..Len(log)
    BY <2>2 DEF OpenAt
  <2>4. QED
    BY <2>2, <2>3 DEF Faithful
<1>6. \A i \in s.applied : log'[i].type = "content_finish" => i \in s.answers
  BY <1>1, <1>2 DEF Faithful
<1>7. ASSUME NEW k \in Key
      PROVE  /\ s.req[k].status # "none" => /\ k <= Len(log') /\ log'[k].type = s.req[k].kind
                                            /\ Handled(s, k - 1)'
             /\ s.req[k].ready => (DrainedIn(s, k) \/ OldEndIn(s))'
  <2>1. k \in Nat /\ k >= 1
    BY DEF Key
  <2>2. ASSUME s.req[k].status # "none"
        PROVE  /\ k <= Len(log') /\ log'[k].type = s.req[k].kind
               /\ Handled(s, k - 1)'
    <3>1. k <= Len(log) /\ log[k].type = s.req[k].kind /\ Handled(s, k - 1)
      BY <2>2 DEF Faithful
    <3>2. k - 1 \in Int /\ k - 1 <= Len(log)
      BY <1>1, <2>1, <3>1
    <3>3. QED
      BY <1>1, <2>1, <3>1, <3>2, GrownHandled
  <2>3. ASSUME DrainedIn(s, k)
        PROVE  DrainedIn(s, k)'
    <3>1. PICK j \in s.applied :
             /\ j > k /\ log[j].type = "completed"
             /\ \A i \in k..j : log[i].type = "content_finish" => i \in s.answers \cup skipped
      BY <2>3 DEF DrainedIn
    <3>2. j \in 1..Len(log) /\ \A i \in k..j : i \in 1..Len(log)
      BY <1>1, <1>2, <2>1, <3>1
    <3>3. QED
      BY <1>1, <3>1, <3>2 DEF DrainedIn
  <2>4. ASSUME OldEndIn(s)
        PROVE  OldEndIn(s)'
    BY <1>1, <1>2, <2>4 DEF OldEndIn
  <2>5. QED
    BY <2>2, <2>3, <2>4 DEF Faithful
<1>8. QED
  BY <1>3, <1>4, <1>5, <1>6, <1>7 DEF Faithful

LEMMA GrownReading ==
    ASSUME IInv, NEW e \in Event, log' = Append(log, e), UNCHANGED <<skipped, stream, mem>>, Reading
    PROVE  Reading'
<1>1. log \in Seq(Event) /\ stream.pos \in Int /\ stream.pos <= Len(log)
  BY DEF IInv, RestTypes, Key, Reading
<1>2. Len(log') = Len(log) + 1 /\ Len(log) \in Nat
  BY <1>1, Grown
<1>3. PICK n : n = stream.pos
  OBVIOUS
<1>4. PICK s : s = mem
  OBVIOUS
<1>5. Handled(s, n)'
  BY <1>1, <1>3, <1>4, GrownHandled DEF Reading
<1>6. Handled(mem, stream.pos)'
  BY <1>3, <1>4, <1>5 DEF Handled
<1>7. ASSUME NEW k \in 1..Len(log'), OpenAt(k, n)'
      PROVE  stream.open \/ k <= mem.cp
  <2>1. OpenAt(k, n)
    BY <1>1, <1>3, <1>7, GrownOpen
  <2>2. QED
    BY <1>3, <2>1 DEF Reading, OpenAt
<1>8. \A k \in 1..Len(log') : OpenAt(k, stream.pos)' => stream'.open \/ k <= mem'.cp
  BY <1>3, <1>7 DEF OpenAt
<1>9. QED
  BY <1>1, <1>2, <1>6, <1>8 DEF Reading

\* The log stays well formed when an event comes to it at the right moment.
LEMMA GrownLog ==
    ASSUME log \in Seq(Event), LogInv, NEW e \in Event, log' = Append(log, e),
           log = <<>> => e.type = "chat_start",
           e.type = "content_finish" => ContentOpen,
           e.type \notin {"ask_plan", "ask_human"} => e.stable
    PROVE  LogInv'
<1> DEFINE n == Len(log)
<1>1. /\ log' \in Seq(Event) /\ Len(log') = n + 1 /\ n \in Nat /\ log'[n + 1] = e
      /\ \A i \in 1..n : log'[i] = log[i]
  BY Grown
<1>2. log' # <<>>
  BY <1>1
<1>3. log'[1].type = "chat_start"
  <2>1. CASE log = <<>>
    BY <1>1, <2>1
  <2>2. CASE log # <<>>
    <3>1. 1 \in 1..n
      BY <1>1, <2>2
    <3>2. QED
      BY <1>1, <2>2, <3>1 DEF LogInv
  <2>3. QED
    BY <2>1, <2>2
<1>4. ASSUME NEW i \in 1..Len(log')
      PROVE  /\ log'[i].type = "content_finish" => \E k \in 1..Len(log') : OpenAt(k, i - 1)'
             /\ log'[i].type \notin {"ask_plan", "ask_human"} => log'[i].stable
  <2>1. CASE i = n + 1
    <3>1. ASSUME e.type = "content_finish"
          PROVE  \E k \in 1..Len(log') : OpenAt(k, i - 1)'
      <4>1. PICK k \in 1..n : /\ log[k].type = "content_start"
                              /\ \A j \in k..n : log[j].type \notin Terminal \cup {"content_finish"}
        BY <3>1 DEF ContentOpen
      <4>2. OpenAt(k, n) /\ n \in Int /\ n <= Len(log)
        BY <1>1, <4>1 DEF OpenAt
      <4>3. i - 1 = n /\ k \in 1..Len(log')
        BY <1>1, <2>1
      <4>4. OpenAt(k, i - 1)'
        BY <1>1, <4>2, <4>3, GrownOpen
      <4>5. QED
        BY <4>3, <4>4
    <3>2. QED
      BY <1>1, <2>1, <3>1
  <2>2. CASE i \in 1..n
    <3>1. ASSUME log[i].type = "content_finish"
          PROVE  \E k \in 1..Len(log') : OpenAt(k, i - 1)'
      <4>1. PICK k \in 1..n : OpenAt(k, i - 1)
        BY <2>2, <3>1 DEF LogInv
      <4>2. i - 1 \in Int /\ i - 1 <= n
        BY <1>1, <2>2
      <4>3. OpenAt(k, i - 1)' /\ k \in 1..Len(log')
        BY <1>1, <4>1, <4>2, GrownOpen
      <4>4. QED
        BY <4>3
    <3>2. QED
      BY <1>1, <2>2, <3>1 DEF LogInv
  <2>3. QED
    BY <1>1, <2>1, <2>2
<1>5. QED
  BY <1>2, <1>3, <1>4 DEF LogInv

LEMMA EmitStream ==
    ASSUME IInv, StreamInv, NEW type, NEW stable \in BOOLEAN, Emit(type, stable),
           UNCHANGED <<mem, disk, run, stream, send, skipped>>,
           log = <<>> => type = "chat_start",
           type = "content_finish" => ContentOpen,
           type \notin {"ask_plan", "ask_human"} => stable
    PROVE  StreamInv'
<1> DEFINE e == [type |-> type, stable |-> stable]
<1>1. e \in Event /\ log' = Append(log, e) /\ log \in Seq(Event) /\ mem \in Session /\ disk \in Session
  BY ActorAssumption DEF Emit, Event, IInv, RestTypes, Sound
<1>2. e.type = type /\ e.stable = stable
  OBVIOUS
<1> HIDE DEF e
<1>3. LogInv'
  BY <1>1, <1>2, GrownLog DEF StreamInv
<1>4. Faithful(mem)' /\ Faithful(disk)'
  <2>1. PICK s, d : s = mem /\ d = disk
    OBVIOUS
  <2>2. Faithful(s)' /\ Faithful(d)'
    BY <1>1, <2>1, GrownFaithful DEF StreamInv
  <2>3. QED
    BY <2>1, <2>2
<1>5. run' = "stream" => Reading'
  BY <1>1, GrownReading DEF StreamInv
<1>6. ReportInv'
  BY DEF StreamInv, ReportInv
<1>7. QED
  BY <1>3, <1>4, <1>5, <1>6 DEF StreamInv

\* Nothing is read, and what is sent and shown stays as it is.
LEMMA QuietStream ==
    ASSUME IInv, StreamInv, UNCHANGED <<mem, disk, log, skipped>>,
           log = <<>> => remote' = "idle",
           run' = "stream" => Reading',
           send' = send \/ send'.phase = "idle"
    PROVE  StreamInv'
<1>1. log \in Seq(Event) /\ mem \in Session /\ disk \in Session
  BY DEF IInv, RestTypes, Sound
<1>2. Faithful(mem)' /\ Faithful(disk)'
  BY <1>1, FaithfulSame DEF StreamInv
<1>3. LogInv'
  BY DEF StreamInv, LogInv, OpenAt
<1>4. ReportInv'
  BY DEF StreamInv, ReportInv
<1>5. QED
  BY <1>2, <1>3, <1>4 DEF StreamInv

LEMMA ReadingSame ==
    ASSUME Reading, UNCHANGED <<mem, log, skipped>>,
           stream'.pos = stream.pos, stream'.latest = stream.latest, stream'.open = stream.open
    PROVE  Reading'
BY DEF Reading, Handled, OpenAt

LEMMA RemoteStream ==
    ASSUME IInv, StreamInv, Remote
    PROVE  StreamInv'
<1>1. UNCHANGED <<mem, disk, run, stream, send, skipped>>
  BY DEF Remote, RemoteStartTurn, RemoteContent, RemoteAsk, RemoteOfferReport, RemoteResume,
         RemoteEndTurn, RemoteFrame, sessionVars, watchVars, ghostVars
<1>2. log = <<>> => remote = "idle"
  BY DEF StreamInv, LogInv
<1>3. CASE RemoteStartTurn
  BY <1>1, <1>3, EmitStream DEF RemoteStartTurn
<1>4. CASE RemoteContent
  <2>1. log # <<>>
    BY <1>2, <1>4 DEF RemoteContent
  <2>2. CASE Emit("fallback", TRUE)
    BY <1>1, <2>1, <2>2, EmitStream
  <2>3. CASE ContentOpen /\ Emit("content_finish", TRUE)
    BY <1>1, <2>1, <2>3, EmitStream
  <2>4. CASE Emit("content_start", TRUE)
    BY <1>1, <2>1, <2>4, EmitStream
  <2>5. QED
    BY <1>4, <2>2, <2>3, <2>4 DEF RemoteContent
<1>5. CASE RemoteAsk
  <2>1. log # <<>>
    BY <1>2, <1>5 DEF RemoteAsk
  <2>2. PICK type \in {"ask_plan", "ask_human"}, stable \in BOOLEAN : Emit(type, stable)
    BY <1>5 DEF RemoteAsk
  <2>3. QED
    BY <1>1, <2>1, <2>2, EmitStream
<1>6. CASE RemoteOfferReport
  <2>1. log # <<>> /\ Emit("ask_report_render", TRUE)
    BY <1>2, <1>6 DEF RemoteOfferReport
  <2>2. QED
    BY <1>1, <2>1, EmitStream
<1>7. CASE RemoteResume
  <2>1. log # <<>> /\ log' = log
    BY <1>2, <1>7 DEF RemoteResume
  <2>2. run' = "stream" => Reading'
    BY <1>1, <2>1, ReadingSame DEF StreamInv
  <2>3. QED
    BY <1>1, <2>1, <2>2, QuietStream
<1>8. CASE RemoteEndTurn
  <2>1. log # <<>>
    BY <1>2, <1>8 DEF RemoteEndTurn
  <2>2. PICK type \in Terminal : Emit(type, TRUE)
    BY <1>8 DEF RemoteEndTurn
  <2>3. type # "content_finish"
    BY <2>2 DEF Terminal
  <2>4. QED
    BY <1>1, <2>1, <2>2, <2>3, EmitStream
<1>9. QED
  BY <1>3, <1>4, <1>5, <1>6, <1>7, <1>8 DEF Remote

-----------------------------------------------------------------------------
(* What was read stays true when the session goes on.                      *)

LEMMA KeptFaithful ==
    ASSUME NEW s \in Session, NEW t, Faithful(s), log \in Seq(Event), UNCHANGED <<log, skipped>>,
           SameLine(s, t), SameOffers(s, t), NoNewAsk(s, t)
    PROVE  Faithful(t)'
<1>1. /\ t.applied = s.applied /\ t.answers = s.answers /\ t.cp = s.cp
      /\ s.applied \subseteq 1..Len(log)
      /\ \A i \in s.applied : log[i].type = "content_finish" => i \in s.answers
  BY DEF SameLine, Faithful
<1>2. QED
  BY <1>1, FaithfulMore

\* A step that changes no more of the record than its turn and its replies.
LEMMA KeptStream ==
    ASSUME IInv, StreamInv, SameLine(mem, mem'), SameOffers(mem, mem'), NoNewAsk(mem, mem'),
           disk' \in {mem', disk}, UNCHANGED <<log, remote, skipped>>,
           run' = "stream" => /\ run = "stream" /\ stream'.pos = stream.pos
                              /\ stream'.latest = stream.latest /\ stream'.open = stream.open,
           ReportInv'
    PROVE  StreamInv'
<1>1. log \in Seq(Event) /\ mem \in Session /\ disk \in Session
  BY DEF IInv, RestTypes, Sound
<1>2. PICK t : t = mem'
  OBVIOUS
<1>3. Faithful(t)'
  BY <1>1, <1>2, KeptFaithful DEF StreamInv
<1>4. Faithful(mem)'
  BY <1>2, <1>3
<1>5. Faithful(disk)'
  <2>1. CASE disk' = disk
    BY <1>1, <2>1, FaithfulSame DEF StreamInv
  <2>2. CASE disk' = t
    BY <1>3, <2>2
  <2>3. QED
    BY <1>2, <2>1, <2>2
<1>6. run' = "stream" => Reading'
  BY DEF StreamInv, Reading, Handled, OpenAt, SameLine
<1>7. LogInv'
  BY LogSame DEF StreamInv
<1>8. QED
  BY <1>4, <1>5, <1>6, <1>7 DEF StreamInv

\* A record that is read from its snapshot.
LEMMA ReloadedStream ==
    ASSUME IInv, StreamInv, mem' = FromSnapshot(disk), UNCHANGED <<disk, log, remote, skipped>>,
           run' # "stream", send'.phase = "idle"
    PROVE  StreamInv'
<1>1. log \in Seq(Event) /\ disk \in Session
  BY DEF IInv, RestTypes, Sound
<1>2. PICK t : t = FromSnapshot(disk)
  OBVIOUS
<1>3. SameLine(disk, t) /\ SameOffers(disk, t) /\ NoNewAsk(disk, t)
  BY <1>1, <1>2, RestoredFields DEF Reloaded, NoNewAsk
<1>4. Faithful(t)'
  BY <1>1, <1>3, KeptFaithful DEF StreamInv
<1>5. Faithful(mem)' /\ Faithful(disk)'
  BY <1>1, <1>2, <1>4, FaithfulSame DEF StreamInv
<1>6. LogInv'
  BY LogSame DEF StreamInv
<1>7. ReportInv'
  BY DEF ReportInv
<1>8. QED
  BY <1>5, <1>6, <1>7 DEF StreamInv

LEMMA ConnectStream ==
    ASSUME IInv, StreamInv, Connect
    PROVE  StreamInv'
<1>1. PICK from \in 0..mem.cp :
        stream' = [pos |-> from, latest |-> mem.cp, open |-> FALSE, live |-> TRUE]
  BY DEF Connect
<1>2. UNCHANGED <<mem, disk, log, remote, skipped, send>>
  BY DEF Connect, sessionVars, remoteVars, ghostVars
<1>3. mem.cp \in Nat /\ mem.cp <= Len(log) /\ Handled(mem, mem.cp) /\ log \in Seq(Event)
  BY DEF StreamInv, Faithful, IInv, RestTypes, Sound, Session, Key
<1>4. PICK s : s = mem
  OBVIOUS
<1>5. Handled(s, from)'
  BY <1>2, <1>3, <1>4, HandledMore
<1>6. Handled(mem, stream.pos)'
  BY <1>1, <1>2, <1>4, <1>5 DEF Handled
<1>7. from <= Len(log')
  BY <1>2, <1>3
<1>8. \A k \in 1..Len(log') : OpenAt(k, stream.pos)' => k <= mem'.cp
  BY <1>1, <1>2, <1>3 DEF OpenAt
<1>9. Reading'
  BY <1>1, <1>2, <1>3, <1>6, <1>7, <1>8 DEF Reading
<1>10. QED
  BY <1>2, <1>9, QuietStream DEF StreamInv, LogInv

LEMMA RunStream ==
    ASSUME IInv, StreamInv, StreamClosed \/ StreamBreak \/ Wake
    PROVE  StreamInv'
<1>1. UNCHANGED <<mem, disk, log, remote, skipped, send>>
  BY DEF StreamClosed, StreamBreak, Wake, StreamFrame, sessionVars, remoteVars, ghostVars
<1>2. run' # "stream"
  BY DEF StreamClosed, StreamBreak, Wake, AfterStream
<1>3. QED
  BY <1>1, <1>2, QuietStream DEF StreamInv, LogInv

LEMMA GiveUpStream ==
    ASSUME IInv, StreamInv, GiveUp
    PROVE  StreamInv'
<1>1. /\ mem' = SetTerminal(mem, "error") /\ disk' \in {mem', disk} /\ run' = "done"
      /\ UNCHANGED <<log, remote, skipped, send>> /\ send.phase = "idle"
  BY DEF GiveUp, PersistIgnoringError, remoteVars, OpMuFree, IInv, SendInv
<1>2. SameLine(mem, mem') /\ mem'.req = mem.req
  <2>1. "error" \in Terminal /\ mem \in Session
    BY DEF Terminal, IInv, Sound
  <2>2. QED
    BY <1>1, <2>1, TurnFields
<1>3. SameOffers(mem, mem') /\ NoNewAsk(mem, mem') /\ ReportInv'
  BY <1>1, <1>2 DEF SameOffers, NoNewAsk, ReportInv
<1>4. QED
  BY <1>1, <1>2, <1>3, KeptStream

LEMMA SendStream ==
    ASSUME IInv, StreamInv, Send
    PROVE  StreamInv'
<1>1. CASE SendIntent \/ SendResult
  <2>1. /\ SendKeeps
        /\ send'.phase # "idle" => send.phase # "idle" /\ send'.key = send.key
    <3>1. CASE SendIntent
      <4>1. SendKeeps /\ send.phase = "intent" /\ (send' = NoSend \/ send'.key = send.key)
        BY <3>1, IntentEffect
      <4>2. QED
        BY <4>1 DEF NoSend
    <3>2. CASE SendResult
      <4>1. SendKeeps /\ send' = NoSend
        BY <3>2, ResultEffect
      <4>2. QED
        BY <4>1 DEF NoSend
    <3>3. QED
      BY <1>1, <3>1, <3>2
  <2>2. ReportInv'
    <3>1. SUFFICES ASSUME send'.key # NoAsk, send'.phase # "idle"
                   PROVE  ~Draining(mem.req[send.key])'
      BY DEF ReportInv
    <3>2. send'.key = send.key /\ send.key \in Key /\ ~Draining(mem.req[send.key])
      BY <2>1, <3>1, Sending DEF StreamInv, ReportInv, IInv, RestTypes
    <3>3. QED
      BY <2>1, <3>2 DEF SendKeeps, SameOffers, Draining
  <2>3. run' = "stream" => run = "stream"
    BY <2>1 DEF SendKeeps
  <2>4. QED
    BY <2>1, <2>2, <2>3, KeptStream DEF SendKeeps
<1>2. CASE Wire
  <2>1. UNCHANGED <<mem, disk, log, remote, skipped, run, stream>> /\ send'.key = send.key /\ send.phase = "wire"
    BY <1>2 DEF Wire, sessionVars, watchVars, IInv, RestTypes
  <2>2. SameLine(mem, mem') /\ SameOffers(mem, mem') /\ NoNewAsk(mem, mem') /\ ReportInv'
    BY <2>1 DEF SameLine, SameOffers, NoNewAsk, StreamInv, ReportInv
  <2>3. QED
    BY <2>1, <2>2, KeptStream
<1>3. QED
  BY <1>1, <1>2 DEF Send

LEMMA ServeStream ==
    ASSUME IInv, StreamInv, NEW c \in Callers, Serve(c)
    PROVE  StreamInv'
<1>1. UNCHANGED <<disk, log, remote, skipped>>
  BY ServeEffect DEF ghostVars
<1>2. CASE UNCHANGED <<mem, send, stream, run>>
  BY <1>1, <1>2, ReadingSame, QuietStream DEF StreamInv, LogInv
<1>3. CASE UNCHANGED <<mem, send, stream>> /\ run' = "top"
  BY <1>1, <1>3, QuietStream DEF StreamInv, LogInv
<1>4. CASE mem' = FromSnapshot(disk) /\ send' = send /\ send.phase = "idle" /\ run' = "none"
  BY <1>1, <1>4, ReloadedStream
<1>5. CASE /\ UNCHANGED <<mem, stream, run>>
           /\ send' = [by |-> c, key |-> mem.pending, phase |-> "intent"]
           /\ \E confirm \in BOOLEAN : MaySend(mem, mem.pending, FALSE, confirm)
  <2>1. SameLine(mem, mem') /\ SameOffers(mem, mem') /\ NoNewAsk(mem, mem')
    BY <1>5 DEF SameLine, SameOffers, NoNewAsk
  <2>2. ReportInv'
    BY <1>5 DEF ReportInv, MaySend
  <2>3. QED
    BY <1>1, <1>5, <2>1, <2>2, KeptStream
<1>6. QED
  BY <1>2, <1>3, <1>4, <1>5, ServeEffect

LEMMA StreamStep ==
    ASSUME IInv, StreamInv, [Next]_vars
    PROVE  StreamInv'
<1>1. CASE Crash
  BY <1>1, ReloadedStream DEF Crash, NoSend, remoteVars
<1>2. CASE RestoreSession
  <2>1. mem' = FromSnapshot(disk) /\ UNCHANGED <<disk, log, remote, skipped, send>> /\ run' = "top"
    BY <1>2 DEF RestoreSession, Publish, remoteVars, ghostVars
  <2>2. send.phase = "idle"
    BY <1>2 DEF RestoreSession, OpLockFree, IInv, LockInv, SendInv, RestTypes
  <2>3. QED
    BY <2>1, <2>2, ReloadedStream
<1>3. CASE UNCHANGED vars
  <2>1. UNCHANGED <<mem, disk, run, stream, send, log, remote, skipped>>
    BY <1>3 DEF vars, sessionVars, watchVars, remoteVars, ghostVars
  <2>2. run' = "stream" => Reading'
    BY <2>1, ReadingSame DEF StreamInv
  <2>3. QED
    BY <2>1, <2>2, QuietStream DEF StreamInv, LogInv
<1>4. QED
  BY <1>1, <1>2, <1>3, RemoteStream, ConnectStream, RunStream, GiveUpStream, DeliverStream,
     SendStream, ServeStream DEF Next, Watch

\* The session is true to the remote's log: nothing before the cursor is lost, and
\* every ask it shows is one of the log.
THEOREM LogIsKept == Spec => []StreamInv
<1>1. Init => StreamInv
  <2>1. SUFFICES ASSUME Init
                 PROVE  StreamInv
    OBVIOUS
  <2>2. /\ mem = [NewSession EXCEPT !.msg = "acknowledged", !.gen = 1] /\ disk = mem
        /\ log = <<>> /\ remote = "idle" /\ run = "top" /\ send = NoSend
    BY <2>1 DEF Init
  <2>3. /\ mem.applied = {} /\ mem.cp = 0
        /\ \A k \in Key : mem.req[k].status = "none" /\ mem.req[k].ready = FALSE
    BY <2>2 DEF NewSession, NoRequest
  <2>4. Faithful(mem)
    BY <2>2, <2>3 DEF Faithful, Handled, OpenAt
  <2>5. LogInv /\ ReportInv
    BY <2>2 DEF LogInv, ReportInv, NoSend
  <2>6. QED
    BY <2>2, <2>4, <2>5 DEF StreamInv
<1>2. IInv /\ StreamInv /\ [Next]_vars => StreamInv'
  BY StreamStep
<1>3. QED
  BY <1>1, <1>2, Invariance, PTL DEF Spec

\* The resume cursor never passes content that the session has not kept, in memory
\* or on disk: wherever a stream begins, breaks, or is read again after a restart.
THEOREM CursorPassesNothing == Spec => []CheckpointCovers
<1>1. StreamInv => CheckpointCovers
  BY DEF StreamInv, Faithful, Handled, CheckpointCovers, CoversContent
<1>2. QED
  BY <1>1, LogIsKept, PTL

\* A report is asked for when the analysis that offered it was received to its end.
THEOREM ReportFollowsAnalysis == Spec => []ReportAfterAnalysis
<1>1. ASSUME IInv, StreamInv, ReportIsAskedFor
      PROVE  Drained(send.key) \/ OldEndApplied
  <2>1. /\ send.phase \in Underway /\ send.key \in Key
        /\ log[send.key].type = "ask_report_render"
    BY <1>1 DEF ReportIsAskedFor, Underway, IInv, RestTypes
  <2>2. mem.req[send.key].status = "sending"
    BY <1>1, <2>1 DEF ReportIsAskedFor, IInv, SendInv
  <2>3. mem.req[send.key].kind = "ask_report_render"
    BY <1>1, <2>1, <2>2 DEF StreamInv, Faithful
  <2>4. mem.req[send.key].ready
    BY <1>1, <2>1, <2>3 DEF ReportIsAskedFor, StreamInv, ReportInv, Draining
  <2>5. DrainedIn(mem, send.key) \/ OldEndIn(mem)
    BY <1>1, <2>1, <2>4 DEF StreamInv, Faithful
  <2>6. QED
    BY <2>5 DEF DrainedIn, OldEndIn, Drained, OldEndApplied
<1>2. IInv /\ StreamInv => ReportAfterAnalysis
  BY <1>1 DEF ReportAfterAnalysis
<1>3. QED
  BY <1>2, Invariance, LogIsKept, PTL

-----------------------------------------------------------------------------
(* A follow-up and its turn.                                               *)

LEMMA OwnTurnMore ==
    ASSUME NEW s, NEW t, OwnTurn(s), fence \subseteq TurnsSeen(s), fence' = fence, renewed => renewed',
           s.applied \subseteq 1..Len(log), \A i \in 1..Len(log) : log'[i] = log[i],
           s.applied \subseteq t.applied, s.awaiting => t.awaiting
    PROVE  OwnTurn(t)' /\ (fence \subseteq TurnsSeen(t))'
<1>1. TurnsSeen(s) \subseteq TurnsSeen(t)'
  BY DEF TurnsSeen
<1>2. OwnTurn(t)'
  <2>1. CASE s.awaiting \/ renewed
    BY <2>1 DEF OwnTurn
  <2>2. CASE TurnsSeen(s) = {}
    <3>1. fence' = {}
      BY <2>2
    <3>2. QED
      BY <3>1 DEF OwnTurn
  <2>3. CASE \E j \in TurnsSeen(s) : j \notin fence
    BY <1>1, <2>3 DEF OwnTurn
  <2>4. QED
    BY <2>1, <2>2, <2>3 DEF OwnTurn
<1>3. QED
  BY <1>1, <1>2

\* More is read, in memory and perhaps on disk, while the turn waited for is the same.
LEMMA FenceKept ==
    ASSUME StreamInv, FenceInv, fence' = fence, renewed => renewed',
           \A i \in 1..Len(log) : log'[i] = log[i],
           mem.applied \subseteq mem'.applied, mem.awaiting => mem'.awaiting,
           disk' \in {mem', disk}
    PROVE  FenceInv'
<1>1. mem.applied \subseteq 1..Len(log) /\ disk.applied \subseteq 1..Len(log)
  BY DEF StreamInv, Faithful
<1>2. PICK t, d : t = mem' /\ d = disk
  OBVIOUS
<1>3. OwnTurn(t)' /\ (fence \subseteq TurnsSeen(t))'
  BY <1>1, <1>2, OwnTurnMore DEF FenceInv
<1>4. OwnTurn(d)' /\ (fence \subseteq TurnsSeen(d))'
  BY <1>1, <1>2, OwnTurnMore DEF FenceInv
<1>5. QED
  BY <1>2, <1>3, <1>4 DEF FenceInv

LEMMA ReloadedTurn ==
    ASSUME IInv, StreamInv, TurnInv, mem' = FromSnapshot(disk),
           UNCHANGED <<disk, log, fence, renewed>>,
           run' \in {"none", "done"} \/ mem'.status \notin Terminal
    PROVE  TurnInv' /\ (mem'.status \in Terminal => mem.status \in Terminal)
<1> DEFINE t == FromSnapshot(disk)
<1>1. Reloaded(disk, t) /\ WaitingHasCause(t) /\ WaitingHasCause(disk)
  BY RestoredFields, Restored DEF IInv, Sound
<1> HIDE DEF t
<1>2. FenceInv'
  <2>1. disk.applied \subseteq 1..Len(log) /\ t.applied = disk.applied /\ t.awaiting = disk.awaiting
    BY <1>1 DEF StreamInv, Faithful, Reloaded, SameLine
  <2>2. PICK s, d : s = t /\ d = disk
    OBVIOUS
  <2>3. OwnTurn(d) /\ fence \subseteq TurnsSeen(d)
    BY <2>2 DEF TurnInv, FenceInv
  <2>4. OwnTurn(s)' /\ (fence \subseteq TurnsSeen(s))'
    BY <2>1, <2>2, <2>3, OwnTurnMore
  <2>5. OwnTurn(d)' /\ (fence \subseteq TurnsSeen(d))'
    BY <2>1, <2>2, <2>3, OwnTurnMore
  <2>6. QED
    BY <2>2, <2>4, <2>5 DEF FenceInv, t
<1>3. t.status \in Terminal => Ended(disk) /\ t.msg # "unknown"
  BY <1>1 DEF Reloaded, Ended, TurnInv, EndInv, Terminal
<1>4. Ended(disk) => t.status \in Terminal
  <2>1. SUFFICES ASSUME Ended(disk)
                 PROVE  t.status \in Terminal
    OBVIOUS
  <2>2. disk.pending = NoAsk /\ disk.msg \notin {"sending", "unknown"} /\ disk.status \in Terminal
    BY <1>1, <2>1 DEF Ended, WaitingHasCause, Terminal, TurnInv, EndInv
  <2>3. t.pending = NoAsk /\ t.msg # "unknown" /\ t.status \in {disk.status, "waiting_input"}
    BY <1>1, <2>2 DEF Reloaded
  <2>4. t.status # "waiting_input"
    BY <1>1, <2>3 DEF WaitingHasCause
  <2>5. QED
    BY <2>2, <2>3, <2>4
<1>5. EndInv'
  BY <1>3, <1>4 DEF t, TurnInv, EndInv, Ended
<1>6. QED
  BY <1>2, <1>3, <1>5 DEF t, TurnInv, EndInv

LEMMA ChatStartTurn ==
    ASSUME IInv, StreamInv, TurnInv, ReceiveChatStart
    PROVE  TurnInv'
<1> USE DEF TurnInv
<1>1. /\ Deliver /\ run = "stream" /\ log' = log /\ fence' = fence /\ renewed' = renewed
      /\ mem.status \notin Terminal /\ ~Ended(disk)
  BY Delivered DEF Deliver, ReceiveChatStart, EndInv
<1>2. PICK i : i = stream.pos + 1
  OBVIOUS
<1>3. /\ log[i].type = "chat_start" /\ run' = run
      /\ \/ /\ mem'.applied = mem.applied /\ SameTurn(mem, mem') /\ disk' = disk
         \/ /\ i \notin mem.applied /\ mem'.applied = mem.applied \cup {i}
            /\ mem'.awaiting = FALSE /\ mem'.status = "running" /\ mem'.msg = "none"
            /\ \/ disk' = disk
               \/ disk'.applied = mem'.applied /\ SameTurn(mem', disk')
  BY <1>2, ChatStartEffect
<1>4. CASE mem'.applied = mem.applied /\ SameTurn(mem, mem') /\ disk' = disk
  <2>1. FenceInv'
    BY <1>1, <1>4, FenceKept DEF SameTurn
  <2>2. EndInv'
    BY <1>1, <1>4 DEF EndInv, SameTurn, Ended
  <2>3. QED
    BY <2>1, <2>2
<1>5. CASE /\ i \notin mem.applied /\ mem'.applied = mem.applied \cup {i}
           /\ mem'.awaiting = FALSE /\ mem'.status = "running" /\ mem'.msg = "none"
           /\ \/ disk' = disk
              \/ disk'.applied = mem'.applied /\ SameTurn(mem', disk')
  <2>1. i \notin fence /\ fence \subseteq TurnsSeen(mem) /\ fence \subseteq TurnsSeen(disk)
    BY <1>5 DEF FenceInv, TurnsSeen
  <2>2. OwnTurn(mem)' /\ fence' \subseteq TurnsSeen(mem)'
    BY <1>1, <1>3, <1>5, <2>1 DEF OwnTurn, TurnsSeen
  <2>3. OwnTurn(disk)' /\ fence' \subseteq TurnsSeen(disk)'
    <3>1. CASE disk' = disk
      BY <1>1, <2>1, <3>1 DEF OwnTurn, TurnsSeen, FenceInv
    <3>2. CASE disk'.applied = mem'.applied /\ SameTurn(mem', disk')
      BY <1>1, <1>3, <1>5, <2>1, <3>2 DEF OwnTurn, TurnsSeen
    <3>3. QED
      BY <1>5, <3>1, <3>2
  <2>4. EndInv'
    BY <1>1, <1>5 DEF EndInv, SameTurn, Ended, Terminal
  <2>5. QED
    BY <2>2, <2>3, <2>4 DEF FenceInv
<1>6. QED
  BY <1>3, <1>4, <1>5

LEMMA ReadTurn ==
    ASSUME IInv, StreamInv, TurnInv, ReceiveContentStart \/ ReceiveContent \/ ReceiveAsk
    PROVE  TurnInv' /\ (mem'.status \in Terminal => mem.status \in Terminal)
<1>1. /\ run = "stream" /\ log' = log /\ fence' = fence /\ renewed' = renewed
      /\ mem.status \notin Terminal /\ ~Ended(disk)
  BY Delivered DEF Deliver, TurnInv, EndInv
<1>2. /\ mem.applied \subseteq mem'.applied /\ mem'.awaiting = mem.awaiting /\ mem'.msg = mem.msg
      /\ mem'.status \in {mem.status, "waiting_input"} /\ disk' \in {mem', disk} /\ run' = run
  <2>1. CASE ReceiveContentStart
    BY <2>1 DEF ReceiveContentStart, sessionVars
  <2>2. CASE ReceiveContent
    BY <2>2, ContentEffect DEF SameTurn
  <2>3. CASE ReceiveAsk
    BY <2>3, AskEffect DEF SameTurn
  <2>4. QED
    BY <2>1, <2>2, <2>3
<1>3. FenceInv'
  BY <1>1, <1>2, FenceKept DEF TurnInv
<1>4. EndInv'
  BY <1>1, <1>2 DEF TurnInv, EndInv, Ended, Terminal
<1>5. QED
  BY <1>1, <1>2, <1>3, <1>4 DEF TurnInv, Terminal

LEMMA EndTurn ==
    ASSUME IInv, StreamInv, TurnInv, ReceiveEnd
    PROVE  TurnInv' /\ (mem'.status \in Terminal => EndsOwnTurn \/ renewed)
<1>1. /\ Deliver /\ run = "stream" /\ log' = log /\ fence' = fence /\ renewed' = renewed
      /\ mem.status \notin Terminal /\ ~Ended(disk)
  BY Delivered DEF Deliver, TurnInv, EndInv
<1>2. PICK i : i = stream.pos + 1
  OBVIOUS
<1>3. /\ log[i].type \in Terminal /\ mem'.awaiting = mem.awaiting
      /\ mem.applied \subseteq mem'.applied /\ disk' \in {mem', disk}
      /\ \/ SameTurn(mem, mem') /\ run' = run
         \/ mem'.status \in Terminal /\ mem'.msg = "none" /\ run' = "done" /\ ~mem.awaiting
         \/ mem'.msg = mem.msg /\ mem'.status \in {mem.status, "running", "waiting_input"}
  BY <1>2, EndEffect
<1>4. FenceInv'
  BY <1>1, <1>3, FenceKept DEF TurnInv
<1>5. EndInv'
  BY <1>1, <1>3 DEF TurnInv, EndInv, Ended, Terminal, SameTurn
<1>6. ASSUME mem'.status \in Terminal
      PROVE  EndsOwnTurn \/ renewed
  <2>1. ~mem.awaiting
    BY <1>1, <1>3, <1>6 DEF SameTurn, Terminal
  <2>2. 1 \in mem.applied
    <3>1. i \in 1..Len(log) /\ stream.pos \in Nat /\ log \in Seq(Event) /\ Len(log) \in Nat
      BY <1>1, <1>2, Delivered DEF IInv, RestTypes
    <3>2. log[1].type = "chat_start" /\ 1 \in 1..Len(log)
      BY <3>1 DEF StreamInv, LogInv
    <3>3. i # 1
      BY <1>3, <3>2 DEF Terminal
    <3>4. 1 <= stream.pos
      BY <1>2, <3>1, <3>3
    <3>5. QED
      BY <1>1, <3>2, <3>4 DEF StreamInv, Reading, Handled
  <2>3. 1 \in TurnsSeen(mem)
    BY <1>1, <2>2 DEF TurnsSeen, StreamInv, LogInv, Faithful
  <2>4. QED
    BY <2>1, <2>3 DEF TurnInv, FenceInv, OwnTurn, EndsOwnTurn
<1>7. QED
  BY <1>4, <1>5, <1>6 DEF TurnInv

LEMMA SendTurn ==
    ASSUME IInv, DoubtInv, StreamInv, TurnInv, Send
    PROVE  TurnInv' /\ (mem'.status \in Terminal => mem.status \in Terminal)
<1> USE DEF TurnInv
<1>1. CASE SendIntent
  <2> DEFINE k == send.key
  <2>1. /\ send.phase = "intent" /\ SendKeeps
        /\ k # NoAsk => mem'.msg = mem.msg /\ mem'.status = "waiting_input" /\ mem.status = "waiting_input"
        /\ k # NoAsk => (mem.awaiting => mem'.awaiting)
        /\ k = NoAsk => mem'.status = mem.status /\ mem'.msg \in {"sending", "failed"}
        /\ k = NoAsk => (mem'.awaiting <=> mem.status \in Terminal)
        /\ \/ /\ disk' = mem' /\ (k = NoAsk => mem'.msg = "sending")
              /\ \/ mem'.awaiting /\ fence' = TurnsSeen(mem)
                 \/ fence' = fence /\ renewed' = (renewed \/ TurnsSeen(mem) \subseteq fence)
           \/ /\ disk' = disk /\ fence' = fence
              /\ renewed' = (renewed \/ (~IsFollowUp /\ TurnsSeen(mem) \subseteq fence))
    BY <1>1, IntentEffect, Sending
  <2>2. /\ log' = log /\ mem'.applied = mem.applied
        /\ run' = run \/ (run' = "top" /\ (mem'.status \notin Terminal \/ mem'.msg = "unknown"))
    BY <2>1 DEF SendKeeps, SameLine
  <2>3. TurnsSeen(mem)' = TurnsSeen(mem)
    BY <2>2 DEF TurnsSeen
  <2>4. FenceInv'
    <3>1. CASE disk' = mem' /\ mem'.awaiting /\ fence' = TurnsSeen(mem)
      <4>1. TurnsSeen(disk)' = TurnsSeen(mem)
        BY <2>3, <3>1 DEF TurnsSeen
      <4>2. QED
        BY <2>3, <3>1, <4>1 DEF FenceInv, OwnTurn
    <3>2. CASE /\ disk' = mem' /\ fence' = fence
               /\ renewed' = (renewed \/ TurnsSeen(mem) \subseteq fence)
      <4>1. TurnsSeen(disk)' = TurnsSeen(mem) /\ fence \subseteq TurnsSeen(mem)
        BY <2>3, <3>2 DEF TurnsSeen, FenceInv
      <4>2. QED
        BY <2>3, <3>2, <4>1 DEF FenceInv, OwnTurn
    <3>3. CASE /\ disk' = disk /\ fence' = fence
               /\ renewed' = (renewed \/ (~IsFollowUp /\ TurnsSeen(mem) \subseteq fence))
      <4>1. TurnsSeen(disk)' = TurnsSeen(disk) /\ fence \subseteq TurnsSeen(mem) /\ fence \subseteq TurnsSeen(disk)
        BY <2>2, <3>3 DEF TurnsSeen, FenceInv
      <4>2. OwnTurn(disk)'
        BY <3>3, <4>1 DEF FenceInv, OwnTurn
      <4>3. OwnTurn(mem)'
        <5>1. CASE ~IsFollowUp
          BY <2>3, <3>3, <5>1 DEF OwnTurn
        <5>2. CASE IsFollowUp /\ k = NoAsk
          BY <2>1, <5>2 DEF IsFollowUp, OwnTurn
        <5>3. CASE k # NoAsk
          BY <2>1, <2>3, <3>3, <5>3 DEF FenceInv, OwnTurn
        <5>4. QED
          BY <5>1, <5>2, <5>3
      <4>4. QED
        BY <2>3, <3>3, <4>1, <4>2, <4>3 DEF FenceInv
    <3>4. QED
      BY <2>1, <3>1, <3>2, <3>3
  <2>5. EndInv'
    <3>1. CASE k = NoAsk
      BY <2>1, <2>2, <3>1 DEF EndInv, Ended
    <3>2. CASE k # NoAsk
      BY <2>1, <2>2, <3>2 DEF EndInv, Ended, Terminal
    <3>3. QED
      BY <3>1, <3>2
  <2>6. mem'.status \in Terminal => mem.status \in Terminal
    BY <2>1 DEF Terminal
  <2>7. QED
    BY <2>4, <2>5, <2>6
<1>2. CASE SendResult
  <2>1. /\ SendKeeps /\ fence' = fence /\ renewed' = renewed /\ mem'.awaiting = mem.awaiting
        /\ \/ /\ mem'.status \notin Terminal
              /\ send.key # NoAsk => mem.status \notin Terminal
              /\ send.key = NoAsk => disk.msg = "sending"
           \/ send.key = NoAsk /\ mem'.status = mem.status /\ mem'.msg = "failed" /\ disk.msg = "sending"
    BY <1>2, ResultEffect, Sending DEF Terminal, DoubtInv, Underway
  <2>2. /\ log' = log /\ mem'.applied = mem.applied /\ disk' \in {mem', disk}
        /\ run' = run \/ (run' = "top" /\ (mem'.status \notin Terminal \/ mem'.msg = "unknown"))
    BY <2>1 DEF SendKeeps, SameLine
  <2>3. FenceInv'
    BY <2>1, <2>2, FenceKept
  <2>4. EndInv'
    BY <2>1, <2>2 DEF EndInv, Ended
  <2>5. mem'.status \in Terminal => mem.status \in Terminal
    BY <2>1
  <2>6. QED
    BY <2>3, <2>4, <2>5
<1>3. CASE Wire
  <2>1. UNCHANGED <<mem, disk, log, fence, renewed, run>>
    BY <1>3 DEF Wire, sessionVars, watchVars
  <2>2. QED
    BY <2>1, FenceKept DEF EndInv, Ended
<1>4. QED
  BY <1>1, <1>2, <1>3 DEF Send

\* The steps that leave the record of the turns as it is.
LEMMA QuietTurn ==
    ASSUME StreamInv, TurnInv, UNCHANGED <<mem, disk, fence, renewed>>,
           \A i \in 1..Len(log) : log'[i] = log[i],
           run' \in {"none", "done"} \/ mem.status \notin Terminal
    PROVE  TurnInv'
<1>1. FenceInv'
  BY FenceKept DEF TurnInv
<1>2. EndInv'
  BY DEF TurnInv, EndInv, Ended
<1>3. QED
  BY <1>1, <1>2 DEF TurnInv

LEMMA RemoteTurn ==
    ASSUME IInv, StreamInv, TurnInv, Remote
    PROVE  TurnInv'
<1>1. UNCHANGED <<mem, disk, run, fence, renewed>>
  BY DEF Remote, RemoteStartTurn, RemoteContent, RemoteAsk, RemoteOfferReport, RemoteResume,
         RemoteEndTurn, RemoteFrame, sessionVars, watchVars, ghostVars
<1>2. \A i \in 1..Len(log) : log'[i] = log[i]
  <2>1. ASSUME NEW type, NEW stable \in BOOLEAN, Emit(type, stable)
        PROVE  \A i \in 1..Len(log) : log'[i] = log[i]
    <3>1. [type |-> type, stable |-> stable] \in Event /\ log \in Seq(Event)
      BY <2>1, ActorAssumption DEF Emit, Event, IInv, RestTypes
    <3>2. QED
      BY <2>1, <3>1, Grown DEF Emit
  <2>2. QED
    BY <2>1 DEF Remote, RemoteStartTurn, RemoteContent, RemoteAsk, RemoteOfferReport,
                RemoteResume, RemoteEndTurn
<1>3. QED
  BY <1>1, <1>2, QuietTurn DEF TurnInv, EndInv

LEMMA RunTurn ==
    ASSUME IInv, StreamInv, TurnInv, Connect \/ StreamClosed \/ StreamBreak \/ Wake
    PROVE  TurnInv'
<1>1. UNCHANGED <<mem, disk, log, fence, renewed>> /\ run \notin {"none", "done"}
  BY DEF Connect, StreamClosed, StreamBreak, Wake, StreamFrame, sessionVars, remoteVars, ghostVars
<1>2. QED
  BY <1>1, QuietTurn DEF TurnInv, EndInv

LEMMA GiveUpTurn ==
    ASSUME IInv, StreamInv, TurnInv, GiveUp
    PROVE  TurnInv'
<1>1. /\ mem' = SetTerminal(mem, "error") /\ disk' \in {mem', disk} /\ run' = "done"
      /\ UNCHANGED <<log, fence, renewed>>
  BY DEF GiveUp, PersistIgnoringError, remoteVars
<1>2. mem'.applied = mem.applied /\ mem'.awaiting = mem.awaiting /\ mem'.msg = "none" /\ mem'.status = "error"
  <2>1. "error" \in Terminal /\ mem \in Session
    BY DEF Terminal, IInv, Sound
  <2>2. QED
    BY <1>1, <2>1, TurnFields DEF SameLine
<1>3. FenceInv'
  BY <1>1, <1>2, FenceKept DEF TurnInv
<1>4. EndInv'
  BY <1>1, <1>2 DEF TurnInv, EndInv, Ended, Terminal
<1>5. QED
  BY <1>3, <1>4 DEF TurnInv

LEMMA ServeTurn ==
    ASSUME IInv, StreamInv, TurnInv, NEW c \in Callers, Serve(c)
    PROVE  TurnInv' /\ (mem'.status \in Terminal => mem.status \in Terminal)
<1>1. UNCHANGED <<disk, log, fence, renewed>>
  BY ServeEffect DEF ghostVars
<1>2. CASE mem' = mem /\ (run' = run \/ (run' = "top" /\ (mem.status \notin Terminal \/ mem.msg = "unknown")))
  BY <1>1, <1>2, QuietTurn DEF TurnInv, EndInv
<1>3. CASE mem' = FromSnapshot(disk) /\ run' = "none"
  BY <1>1, <1>3, ReloadedTurn
<1>4. QED
  BY <1>2, <1>3, ServeEffect

\* A step keeps the invariant; it ends the session only where the watcher gives up,
\* or by an event of a turn of its own.
LEMMA TurnStep ==
    ASSUME IInv, DoubtInv, StreamInv, TurnInv, [Next]_vars
    PROVE  /\ TurnInv'
           /\ run = "stream" /\ mem.status \notin Terminal /\ mem'.status \in Terminal
                => EndsOwnTurn \/ renewed
<1>1. CASE Remote
  BY <1>1, RemoteTurn DEF Remote, RemoteStartTurn, RemoteContent, RemoteAsk, RemoteOfferReport,
                          RemoteResume, RemoteEndTurn, RemoteFrame, sessionVars
<1>2. CASE Connect \/ StreamClosed \/ StreamBreak \/ Wake
  BY <1>2, RunTurn DEF Connect, StreamClosed, StreamBreak, Wake, StreamFrame, sessionVars
<1>3. CASE GiveUp
  BY <1>3, GiveUpTurn DEF GiveUp
<1>4. CASE Deliver
  <2>1. CASE ReceiveChatStart
    <3>1. mem'.status \in Terminal => mem.status \in Terminal
      BY <2>1, ChatStartEffect DEF SameTurn, Terminal
    <3>2. QED
      BY <2>1, <3>1, ChatStartTurn
  <2>2. QED
    BY <1>4, <2>1, ReadTurn, EndTurn DEF Deliver
<1>5. CASE Send
  BY <1>5, SendTurn
<1>6. CASE \E c \in Callers : Serve(c)
  BY <1>6, ServeTurn
<1>7. CASE Crash
  BY <1>7, ReloadedTurn DEF Crash, remoteVars
<1>8. CASE RestoreSession
  <2>1. mem' = FromSnapshot(disk) /\ UNCHANGED <<disk, log, fence, renewed>> /\ mem'.status \notin Terminal
    BY <1>8 DEF RestoreSession, remoteVars, ghostVars, Terminal
  <2>2. QED
    BY <2>1, ReloadedTurn
<1>9. CASE UNCHANGED vars
  <2>1. UNCHANGED <<mem, disk, log, fence, renewed, run>>
    BY <1>9 DEF vars, sessionVars, watchVars, remoteVars, ghostVars
  <2>2. QED
    BY <2>1, QuietTurn DEF TurnInv, EndInv
<1>10. QED
  BY <1>1, <1>2, <1>3, <1>4, <1>5, <1>6, <1>7, <1>8, <1>9 DEF Next, Watch

\* The record knows the turns before the last follow-up, and whether it has seen one
\* since; what is over on disk is over in memory.
THEOREM TurnsAreKept == Spec => []TurnInv
<1>1. Init => TurnInv
  <2>1. SUFFICES ASSUME Init
                 PROVE  TurnInv
    OBVIOUS
  <2>2. /\ mem = [NewSession EXCEPT !.msg = "acknowledged", !.gen = 1] /\ disk = mem
        /\ fence = {} /\ run = "top"
    BY <2>1 DEF Init
  <2>3. mem.applied = {} /\ mem.status = "running"
    BY <2>2 DEF NewSession
  <2>4. QED
    BY <2>2, <2>3 DEF TurnInv, FenceInv, EndInv, OwnTurn, TurnsSeen, Ended, Terminal
<1>2. IInv /\ DoubtInv /\ StreamInv /\ TurnInv /\ [Next]_vars => TurnInv'
  BY TurnStep
<1>3. QED
  BY <1>1, <1>2, Invariance, DoubtIsKept, LogIsKept, PTL DEF Spec

\* A follow-up to a finished session, or an accepted report, is ended by an event of
\* its own turn only: in any order of replayed events, failed writes and restarts.
THEOREM FollowUpsKeepTheirTurn == Spec => FollowUpKeepsItsTurn
<1>1. IInv /\ DoubtInv /\ StreamInv /\ TurnInv /\ [Next]_vars
        => [(run = "stream" /\ mem.status \notin Terminal /\ mem'.status \in Terminal)
              => EndsOwnTurn \/ renewed]_vars
  BY TurnStep
<1>2. QED
  BY <1>1, Invariance, DoubtIsKept, LogIsKept, TurnsAreKept, PTL DEF Spec, FollowUpKeepsItsTurn

=============================================================================
