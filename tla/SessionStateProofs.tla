------------------------ MODULE SessionStateProofs ------------------------
(***************************************************************************)
(* What the operations of SessionState keep, for every session record.     *)
(***************************************************************************)
EXTENDS SessionState, TLAPS

\* An accepted report starts a turn of its own, so what may have been asked for
\* already is shielded from the events of the turn that offered it.
ReportAwaitsTurn(s) ==
    s.pending # NoAsk /\ s.req[s.pending].kind = "ask_report_render"
                      /\ s.req[s.pending].status \in Committed => s.awaiting

Sound(s) == s \in Session /\ WaitingHasCause(s) /\ ReportAwaitsTurn(s)

SameLedger(s, t) == \A k \in Key : t.req[k].status = s.req[k].status

\* The operations that leave the ledger of replies alone.
LEMMA Bookkeeping ==
    ASSUME NEW s, Sound(s), NEW k \in Key, NEW c \in Key \cup {0}
    PROVE  /\ Sound(MarkApplied(s, k)) /\ SameLedger(s, MarkApplied(s, k))
           /\ Sound(SetCheckpoint(s, c)) /\ SameLedger(s, SetCheckpoint(s, c))
           /\ Sound(AddConclusion(s, k)) /\ SameLedger(s, AddConclusion(s, k))
           /\ Sound(KeepFallback(s, k)) /\ SameLedger(s, KeepFallback(s, k))
BY DEF Sound, SameLedger, Session, WaitingHasCause, ReportAwaitsTurn, NoAsk,
       MarkApplied, SetCheckpoint, AddConclusion, KeepFallback

LEMMA Turns ==
    ASSUME NEW s, Sound(s), NEW status \in Terminal
    PROVE  /\ Sound(StartTurn(s)) /\ SameLedger(s, StartTurn(s))
           /\ Sound(SetTerminal(s, status)) /\ SameLedger(s, SetTerminal(s, status))
           /\ StartTurn(s).status # "waiting_input"
           /\ SetTerminal(s, status).status # "waiting_input"
BY DEF Sound, SameLedger, Session, WaitingHasCause, ReportAwaitsTurn, NoAsk,
       StartTurn, SetTerminal, Terminal, Status, SendStatus

LEMMA ReportReady ==
    ASSUME NEW s, Sound(s), NEW k \in Key
    PROVE  /\ Sound(MarkReportReady(s, k)) /\ SameLedger(s, MarkReportReady(s, k))
           /\ MarkReportReady(s, k).pending = s.pending
           /\ MarkReportReady(s, k).awaiting = s.awaiting
<1> DEFINE t == MarkReportReady(s, k)
<1>1. t \in Session
  BY ZenonT(60) DEF Sound, Session, Request, MarkReportReady
<1>2. \A j \in Key : t.req[j].status = s.req[j].status /\ t.req[j].kind = s.req[j].kind
  BY DEF Sound, Session, Request, MarkReportReady
<1>3. t.pending = s.pending /\ t.status = s.status /\ t.msg = s.msg /\ t.awaiting = s.awaiting
  BY DEF Sound, Session, MarkReportReady
<1>4. s.pending \in Key \cup {NoAsk}
  BY DEF Sound, Session
<1>5. QED
  BY <1>1, <1>2, <1>3, <1>4 DEF Sound, SameLedger, WaitingHasCause, ReportAwaitsTurn

LEMMA Registered ==
    ASSUME NEW s, Sound(s), NEW k \in Key, NEW kind \in AskKind, NEW stable \in BOOLEAN
    PROVE  LET t == RegisterAsk(s, k, kind, stable)
           IN  /\ Sound(t) /\ t.pending = k /\ t.status = "waiting_input"
               /\ t.req[k].status = "pending"
               /\ \A j \in Key \ {k} : t.req[j] = s.req[j]
<1> DEFINE t == RegisterAsk(s, k, kind, stable)
<1>1. t \in Session /\ t.pending = k /\ t.status = "waiting_input"
  BY DEF Sound, Session, Request, RegisterAsk, Status, SendStatus
<1>2. t.req[k].status = "pending" /\ \A j \in Key \ {k} : t.req[j] = s.req[j]
  BY DEF Sound, Session, RegisterAsk
<1>3. k # NoAsk
  BY DEF Key, NoAsk
<1>4. QED
  BY <1>1, <1>2, <1>3 DEF Sound, WaitingHasCause, ReportAwaitsTurn, Committed

\* The delivery state of the ask that is pending.
LEMMA ReplyStatus ==
    ASSUME NEW s, Sound(s), NEW k \in Key, s.pending = k,
           NEW status \in {"sending", "acknowledged", "failed", "unknown"},
           status = "unknown" => s.req[k].status \in Committed
    PROVE  LET t == SetSendStatus(s, k, status)
           IN  /\ Sound(t) /\ t.req[k].status = status
               /\ \A j \in Key \ {k} : t.req[j] = s.req[j]
               /\ status # "acknowledged" => t.pending = k /\ t.status = "waiting_input"
<1> DEFINE t == SetSendStatus(s, k, status)
<1>1. k # NoAsk
  BY DEF Key, NoAsk
<1>2. t = SetRequestStatus(s, k, status)
  BY <1>1 DEF SetSendStatus
<1>3. t \in Session
  <2> DEFINE req      == [s.req EXCEPT ![k].status = status]
             awaiting == \/ s.awaiting
                         \/ status = "sending" /\ s.req[k].kind = "ask_report_render"
             pending  == IF status = "acknowledged" THEN NoAsk ELSE k
             shown    == IF status = "acknowledged" THEN "running" ELSE "waiting_input"
             gen      == IF status = "sending" THEN s.gen + 1 ELSE s.gen
  <2>1. req \in [Key -> Request] /\ awaiting \in BOOLEAN /\ pending \in Key \cup {NoAsk}
        /\ shown \in Status /\ gen \in Nat
    BY DEF Sound, Session, Request, SendStatus, Status
  <2>2. t = [s EXCEPT !.req = req, !.awaiting = awaiting, !.pending = pending,
                      !.status = shown, !.gen = gen]
    BY <1>2 DEF SetRequestStatus, Sound, Session
  <2> HIDE DEF req, awaiting, pending, shown, gen
  <2>3. QED
    BY <2>1, <2>2 DEF Sound, Session
<1>4. t.req[k].status = status /\ t.req[k].kind = s.req[k].kind /\ \A j \in Key \ {k} : t.req[j] = s.req[j]
  BY <1>2 DEF Sound, Session, Request, SetRequestStatus
<1>5. CASE status = "acknowledged"
  <2>1. t.pending = NoAsk /\ t.status = "running"
    BY <1>2, <1>5 DEF Sound, Session, SetRequestStatus
  <2>2. QED
    BY <1>3, <1>4, <1>5, <2>1 DEF Sound, WaitingHasCause, ReportAwaitsTurn
<1>6. CASE status # "acknowledged"
  <2>1. t.pending = k /\ t.status = "waiting_input"
    BY <1>2, <1>6 DEF Sound, Session, SetRequestStatus
  <2>2. t.req[k].kind = "ask_report_render" /\ status \in Committed => t.awaiting
    <3>1. t.awaiting = (s.awaiting \/ (status = "sending" /\ s.req[k].kind = "ask_report_render"))
      BY <1>2 DEF Sound, Session, SetRequestStatus
    <3>2. QED
      BY <1>1, <1>4, <1>6, <3>1 DEF Sound, ReportAwaitsTurn, Committed
  <2>3. QED
    BY <1>1, <1>3, <1>4, <1>6, <2>1, <2>2 DEF Sound, WaitingHasCause, ReportAwaitsTurn
<1>7. QED
  BY <1>5, <1>6

\* The delivery state of a free-form message, which no ask and no doubt precedes.
LEMMA MessageStatus ==
    ASSUME NEW s, Sound(s), s.pending = NoAsk, s.status # "waiting_input",
           NEW status \in {"sending", "acknowledged", "failed", "unknown"}
    PROVE  LET t == SetSendStatus(s, NoAsk, status)
           IN  /\ Sound(t) /\ SameLedger(s, t) /\ t.pending = NoAsk
               /\ status # "unknown" => t.status # "waiting_input"
<1> DEFINE t == SetSendStatus(s, NoAsk, status)
<1>1. t = SetMessageStatus(s, status)
  BY DEF SetSendStatus
<1>2. t \in Session /\ SameLedger(s, t) /\ t.pending = NoAsk /\ t.msg = status
  <2> DEFINE awaiting == IF status = "sending" THEN s.status \in Terminal ELSE s.awaiting
             shown    == CASE status = "acknowledged" -> "running"
                           [] status = "unknown"      -> "waiting_input"
                           [] OTHER                   -> s.status
             gen      == IF status = "sending" THEN s.gen + 1 ELSE s.gen
  <2>1. awaiting \in BOOLEAN /\ shown \in Status /\ gen \in Nat /\ status \in SendStatus
    <3>1. s.awaiting \in BOOLEAN /\ s.status \in Status /\ s.gen \in Nat
      BY DEF Sound, Session
    <3>2. awaiting \in BOOLEAN
      <4>1. (s.status \in Terminal) \in BOOLEAN
        OBVIOUS
      <4>2. QED
        BY <3>1, <4>1
    <3>3. shown \in Status
      BY <3>1 DEF Status
    <3>4. QED
      BY <3>1, <3>2, <3>3 DEF SendStatus
  <2>2. t = [s EXCEPT !.msg = status, !.awaiting = awaiting, !.status = shown, !.gen = gen]
    BY <1>1 DEF SetMessageStatus
  <2> HIDE DEF awaiting, shown, gen
  <2>3. QED
    BY <2>1, <2>2 DEF Sound, Session, SameLedger
<1>3. t.status = "waiting_input" <=> status = "unknown"
  BY <1>1 DEF Sound, Session, SetMessageStatus
<1>4. QED
  BY <1>2, <1>3 DEF Sound, WaitingHasCause, ReportAwaitsTurn

\* A restart keeps what may have been delivered.
LEMMA Restored ==
    ASSUME NEW s, Sound(s)
    PROVE  LET t == FromSnapshot(s)
           IN  /\ Sound(t)
               /\ \A k \in Key : s.req[k].status \in Committed => t.req[k].status \in Committed
<1> DEFINE t == FromSnapshot(s)
           inDoubt == {k \in Key : s.req[k].status = "sending"}
<1>1. t \in Session
  <2> DEFINE req   == [k \in Key |-> IF k \in inDoubt THEN [s.req[k] EXCEPT !.status = "unknown"]
                                                      ELSE s.req[k]]
             msg   == IF s.msg = "sending" THEN "unknown" ELSE s.msg
             shown == IF s.msg = "sending" \/ s.pending \in inDoubt THEN "waiting_input" ELSE s.status
  <2>1. req \in [Key -> Request] /\ msg \in SendStatus /\ shown \in Status
    BY DEF Sound, Session, Request, SendStatus, Status
  <2>2. t = [s EXCEPT !.req = req, !.msg = msg, !.status = shown]
    BY DEF FromSnapshot
  <2> HIDE DEF req, msg, shown
  <2>3. QED
    BY <2>1, <2>2 DEF Sound, Session
<1>2. \A k \in Key : /\ t.req[k].kind = s.req[k].kind
                     /\ t.req[k].status = IF k \in inDoubt THEN "unknown" ELSE s.req[k].status
  BY DEF Sound, Session, Request, FromSnapshot
<1>3. /\ t.pending = s.pending /\ t.awaiting = s.awaiting /\ s.pending \in Key \cup {NoAsk}
      /\ t.msg = IF s.msg = "sending" THEN "unknown" ELSE s.msg
      /\ t.status = IF s.msg = "sending" \/ s.pending \in inDoubt THEN "waiting_input" ELSE s.status
  BY DEF Sound, Session, FromSnapshot
<1>4. NoAsk \notin inDoubt
  BY DEF Key, NoAsk
<1>5. WaitingHasCause(t)
  BY <1>2, <1>3, <1>4 DEF Sound, WaitingHasCause
<1>6. ReportAwaitsTurn(t)
  BY <1>2, <1>3, <1>4 DEF Sound, ReportAwaitsTurn, Committed
<1>7. QED
  BY <1>1, <1>2, <1>5, <1>6 DEF Sound, Committed
-----------------------------------------------------------------------------
(* What each operation changes, field by field.                            *)

SameTurn(s, t)   == t.status = s.status /\ t.msg = s.msg /\ t.awaiting = s.awaiting
SameLine(s, t)   == t.cp = s.cp /\ t.applied = s.applied /\ t.answers = s.answers
SameOffers(s, t) == \A k \in Key : /\ t.req[k].kind = s.req[k].kind
                                   /\ t.req[k].ready = s.req[k].ready

LEMMA CursorFields ==
    ASSUME NEW s \in Session, NEW c \in Key \cup {0}
    PROVE  LET t == SetCheckpoint(s, c)
           IN  /\ t \in Session /\ SameTurn(s, t) /\ t.req = s.req /\ t.pending = s.pending
               /\ t.cp = c /\ t.answers = s.answers /\ t.applied = s.applied
BY DEF Session, SameTurn, SetCheckpoint

LEMMA AppliedFields ==
    ASSUME NEW s \in Session, NEW k \in Key
    PROVE  LET t == MarkApplied(s, k)
           IN  /\ t \in Session /\ SameTurn(s, t) /\ t.req = s.req /\ t.pending = s.pending
               /\ t.cp = s.cp /\ t.answers = s.answers /\ t.applied = s.applied \cup {k}
BY DEF Session, SameTurn, MarkApplied

LEMMA ConclusionFields ==
    ASSUME NEW s \in Session, NEW k \in Key
    PROVE  LET t == AddConclusion(s, k)
           IN  /\ t \in Session /\ SameTurn(s, t) /\ t.req = s.req /\ t.pending = s.pending
               /\ t.cp = s.cp /\ t.answers = s.answers \cup {k} /\ t.applied = s.applied
BY DEF Session, SameTurn, AddConclusion

LEMMA FallbackFields ==
    ASSUME NEW s \in Session, NEW k \in Key
    PROVE  LET t == KeepFallback(s, k)
           IN  /\ t \in Session /\ SameTurn(s, t) /\ t.req = s.req /\ t.pending = s.pending
               /\ SameLine(s, t)
BY DEF Session, SameTurn, SameLine, KeepFallback

LEMMA TurnFields ==
    ASSUME NEW s \in Session, NEW status \in Terminal
    PROVE  /\ LET t == StartTurn(s)
              IN  /\ t \in Session /\ SameLine(s, t) /\ t.req = s.req /\ t.pending = NoAsk
                  /\ t.status = "running" /\ t.msg = "none" /\ t.awaiting = FALSE
           /\ LET t == SetTerminal(s, status)
              IN  /\ t \in Session /\ SameLine(s, t) /\ t.req = s.req /\ t.pending = NoAsk
                  /\ t.status = status /\ t.msg = "none" /\ t.awaiting = s.awaiting
BY DEF Session, SameLine, StartTurn, SetTerminal, Terminal, Status, SendStatus

\* t is s with the report of ask k on offer.
Offered(s, k, t) ==
    /\ t \in Session /\ SameTurn(s, t) /\ SameLine(s, t) /\ t.pending = s.pending
    /\ t.req[k].ready = TRUE
    /\ \A j \in Key : /\ t.req[j].kind = s.req[j].kind
                      /\ t.req[j].status = s.req[j].status
                      /\ j # k => t.req[j].ready = s.req[j].ready

LEMMA OfferFields ==
    ASSUME NEW s \in Session, NEW k \in Key
    PROVE  Offered(s, k, MarkReportReady(s, k))
<1>1. MarkReportReady(s, k) = [s EXCEPT !.req = [s.req EXCEPT ![k] = [s.req[k] EXCEPT !.ready = TRUE]]]
  BY DEF MarkReportReady, Session
<1>2. s.req \in [Key -> Request]
  BY DEF Session
<1> DEFINE req == [s.req EXCEPT ![k] = [s.req[k] EXCEPT !.ready = TRUE]]
<1>3. /\ req \in [Key -> Request] /\ req[k].ready = TRUE
      /\ \A j \in Key : /\ req[j].kind = s.req[j].kind /\ req[j].status = s.req[j].status
                        /\ j # k => req[j].ready = s.req[j].ready
  BY <1>2 DEF Request
<1> HIDE DEF req
<1>4. QED
  BY <1>1, <1>3 DEF Offered, Session, SameTurn, SameLine, req

\* t is s with a new ask k pending.
Asked(s, k, kind, t) ==
    /\ t \in Session /\ SameLine(s, t) /\ t.pending = k
    /\ t.status = "waiting_input" /\ t.msg = s.msg /\ t.awaiting = s.awaiting
    /\ t.req[k].kind = kind /\ t.req[k].ready = FALSE
    /\ \A j \in Key : j # k => t.req[j] = s.req[j]

LEMMA AskFields ==
    ASSUME NEW s \in Session, NEW k \in Key, NEW kind \in AskKind, NEW stable \in BOOLEAN
    PROVE  Asked(s, k, kind, RegisterAsk(s, k, kind, stable))
<1> DEFINE req == [s.req EXCEPT ![k] = [kind |-> kind, status |-> "pending",
                                        stable |-> stable, ready |-> FALSE]]
<1>1. RegisterAsk(s, k, kind, stable) = [s EXCEPT !.req = req, !.pending = k, !.status = "waiting_input"]
  BY DEF RegisterAsk, Session
<1>2. /\ req \in [Key -> Request] /\ req[k].kind = kind /\ req[k].ready = FALSE
      /\ \A j \in Key : j # k => req[j] = s.req[j]
  BY DEF Session, Request, SendStatus
<1> HIDE DEF req
<1>3. QED
  BY <1>1, <1>2 DEF Asked, Session, SameLine, Status

\* t is s after the delivery state of the reply to k became status.
Replied(s, k, status, t) ==
    /\ t \in Session /\ SameLine(s, t) /\ SameOffers(s, t) /\ t.msg = s.msg
    /\ t.req[k].status = status
    /\ \A j \in Key : j # k => t.req[j].status = s.req[j].status
    /\ s.awaiting => t.awaiting
    /\ status # "sending" => t.awaiting = s.awaiting
    /\ status = "sending" /\ s.req[k].kind = "ask_report_render" => t.awaiting
    /\ t.status \in {s.status, "running", "waiting_input"}

LEMMA ReplyFields ==
    ASSUME NEW s \in Session, NEW k \in Key,
           NEW status \in {"sending", "acknowledged", "failed", "unknown"}
    PROVE  Replied(s, k, status, SetSendStatus(s, k, status))
<1> DEFINE req      == [s.req EXCEPT ![k] = [s.req[k] EXCEPT !.status = status]]
           awaiting == \/ s.awaiting
                       \/ status = "sending" /\ s.req[k].kind = "ask_report_render"
           pending  == IF status = "acknowledged" /\ s.pending = k THEN NoAsk ELSE s.pending
           shown    == IF status = "acknowledged" /\ s.pending = k THEN "running"
                       ELSE IF status # "acknowledged" /\ s.pending = k THEN "waiting_input" ELSE s.status
           gen      == IF status = "sending" THEN s.gen + 1 ELSE s.gen
<1>1. k # NoAsk
  BY DEF Key, NoAsk
<1>2. SetSendStatus(s, k, status) = [s EXCEPT !.req = req, !.awaiting = awaiting, !.pending = pending,
                                              !.status = shown, !.gen = gen]
  BY <1>1 DEF SetSendStatus, SetRequestStatus, Session
<1>3. /\ req \in [Key -> Request] /\ req[k].status = status
      /\ \A j \in Key : /\ req[j].kind = s.req[j].kind /\ req[j].ready = s.req[j].ready
                        /\ j # k => req[j].status = s.req[j].status
  BY DEF Session, Request, SendStatus
<1>4. awaiting \in BOOLEAN
  BY DEF Session
<1>5. /\ pending \in Key \cup {NoAsk} /\ gen \in Nat
      /\ shown \in Status /\ shown \in {s.status, "running", "waiting_input"}
  BY DEF Session, Status
<1>6. /\ s.awaiting => awaiting
      /\ status # "sending" => awaiting = s.awaiting
      /\ status = "sending" /\ s.req[k].kind = "ask_report_render" => awaiting
  BY DEF Session
<1> HIDE DEF req, awaiting, pending, shown, gen
<1> DEFINE t == SetSendStatus(s, k, status)
<1>7. /\ t \in Session /\ SameLine(s, t) /\ t.req = req /\ t.msg = s.msg /\ t.status = shown
  BY ZenonT(60), <1>2, <1>3, <1>4, <1>5 DEF Session, SameLine
<1>8. t.awaiting = awaiting
  BY <1>2 DEF Session
<1> HIDE DEF t
<1>9. QED
  BY <1>3, <1>5, <1>6, <1>7, <1>8 DEF Replied, t, SameOffers

\* t is s after the delivery state of the free-form message became status.
Messaged(s, status, t) ==
    /\ t \in Session /\ SameLine(s, t) /\ t.req = s.req /\ t.pending = s.pending
    /\ t.msg = status
    /\ status = "sending" => (t.awaiting <=> s.status \in Terminal)
    /\ status # "sending" => t.awaiting = s.awaiting
    /\ status = "acknowledged" => t.status = "running"
    /\ status = "unknown" => t.status = "waiting_input"
    /\ status \in {"sending", "failed"} => t.status = s.status

LEMMA MessageFields ==
    ASSUME NEW s \in Session, NEW status \in {"sending", "acknowledged", "failed", "unknown"}
    PROVE  Messaged(s, status, SetSendStatus(s, NoAsk, status))
<1> DEFINE awaiting == IF status = "sending" THEN s.status \in Terminal ELSE s.awaiting
           shown    == CASE status = "acknowledged" -> "running"
                         [] status = "unknown"      -> "waiting_input"
                         [] OTHER                   -> s.status
           gen      == IF status = "sending" THEN s.gen + 1 ELSE s.gen
<1>1. SetSendStatus(s, NoAsk, status) = [s EXCEPT !.msg = status, !.awaiting = awaiting,
                                                  !.status = shown, !.gen = gen]
  BY DEF SetSendStatus, SetMessageStatus
<1>2. awaiting \in BOOLEAN
  <2>1. (s.status \in Terminal) \in BOOLEAN /\ s.awaiting \in BOOLEAN
    BY DEF Session
  <2>2. QED
    BY <2>1
<1>3. shown \in Status /\ gen \in Nat /\ status \in SendStatus
  BY DEF Session, Status, SendStatus
<1>4. /\ status = "acknowledged" => shown = "running"
      /\ status = "unknown" => shown = "waiting_input"
      /\ status \in {"sending", "failed"} => shown = s.status
  OBVIOUS
<1>5. /\ status = "sending" => (awaiting <=> s.status \in Terminal)
      /\ status # "sending" => awaiting = s.awaiting
  OBVIOUS
<1> HIDE DEF awaiting, shown, gen
<1> DEFINE t == SetSendStatus(s, NoAsk, status)
<1>6. /\ t \in Session /\ SameLine(s, t) /\ t.req = s.req /\ t.pending = s.pending
      /\ t.msg = status /\ t.status = shown
  BY <1>1, <1>2, <1>3 DEF Session, SameLine
<1>7. t.awaiting = awaiting
  BY <1>1 DEF Session
<1> HIDE DEF t
<1>8. QED
  BY <1>4, <1>5, <1>6, <1>7 DEF Messaged, t

\* t is what a restart makes of s.
Reloaded(s, t) ==
    /\ t \in Session /\ SameLine(s, t) /\ SameOffers(s, t) /\ t.awaiting = s.awaiting
    /\ t.pending = s.pending
    /\ t.msg = IF s.msg = "sending" THEN "unknown" ELSE s.msg
    /\ t.status \in {s.status, "waiting_input"}
    /\ s.msg = "sending" => t.status = "waiting_input"
    /\ \A k \in Key : t.req[k].status # "none" => s.req[k].status # "none"

LEMMA RestoredFields ==
    ASSUME NEW s \in Session
    PROVE  Reloaded(s, FromSnapshot(s))
<1> DEFINE inDoubt == {k \in Key : s.req[k].status = "sending"}
           req     == [k \in Key |-> IF k \in inDoubt THEN [s.req[k] EXCEPT !.status = "unknown"]
                                                      ELSE s.req[k]]
           msg     == IF s.msg = "sending" THEN "unknown" ELSE s.msg
           shown   == IF s.msg = "sending" \/ s.pending \in inDoubt THEN "waiting_input" ELSE s.status
<1>1. /\ req \in [Key -> Request]
      /\ \A k \in Key : /\ req[k].kind = s.req[k].kind /\ req[k].ready = s.req[k].ready
                        /\ req[k].status # "none" => s.req[k].status # "none"
  BY DEF Session, Request, SendStatus
<1>2. msg \in SendStatus /\ shown \in Status
  BY DEF Session, Status, SendStatus
<1>3. shown \in {s.status, "waiting_input"} /\ (s.msg = "sending" => shown = "waiting_input")
  OBVIOUS
<1>4. FromSnapshot(s) = [s EXCEPT !.req = req, !.msg = msg, !.status = shown]
  BY DEF FromSnapshot
<1>5. msg = IF s.msg = "sending" THEN "unknown" ELSE s.msg
  OBVIOUS
<1> HIDE DEF req, msg, shown
<1>6. QED
  BY ZenonT(60), <1>1, <1>2, <1>3, <1>4, <1>5 DEF Reloaded, Session, SameLine, SameOffers

=============================================================================
