-------------------------- MODULE SkillWorkerProofs --------------------------
(***************************************************************************)
(* Proofs about the background runs of the skill, for any number of runs,  *)
(* events, retries, faults and kills: what each stream delivers, that only *)
(* one run of a session works unless a launch was raced, that its report   *)
(* stands, and that an ask stops it.                                       *)
(*                                                                         *)
(* The argument: a stream is where its checkpoint and its connection put it *)
(* (Good); unless a launch was raced one run at most is active, from the   *)
(* check of the lock until the lock is removed (Exclusive), because a run  *)
(* that works is named in the lock file (LockOf); so nobody else writes the *)
(* files or speaks to the server meanwhile (OwnStep, QuietStep).           *)
(***************************************************************************)
EXTENDS SkillWorker, TLAPS

-----------------------------------------------------------------------------
(* The streams.                                                            *)

\* Where a stream stands in the log l, and what it has made of the events it has seen.
Good(s, l) ==
    /\ s.pos <= Len(l) /\ s.ck <= s.pos /\ s.seen \subseteq 1..Len(l)
    /\ s.phase \in {"connecting", "open"} => s.retries <= MaxRetries
    /\ s.ck = NoCheckpoint => s.from = NoCheckpoint
    /\ \A k \in s.seen : l[k] \notin Unnumbered => k <= s.ck
    /\ ~s.twice
    /\ \A j \in 1..s.pos : l[j] \notin Unnumbered /\ j \notin s.seen =>
          j <= s.from \/ (s.from = NoCheckpoint /\ \A k \in s.seen : l[k] \notin Unnumbered => j < k)
    /\ ~s.attach => \A k \in s.seen : l[k] \in Ask => s.confirm

StreamTyped ==
    /\ server \in {"none", "RUNNING", "WAIT_INPUT", "IDLE", "FAILED"}
    /\ log \in Seq(Emits) /\ Len(log) <= MaxEvents /\ turn \in 0..Len(log)
    /\ stream \in [Worker -> StreamType] /\ drops \in 0..MaxDrops

\* The server waits for input when the last event of the turn is an ask.
AskedLast == server = "WAIT_INPUT" => turn < Len(log) /\ log[Len(log)] \in Ask

SInv == StreamTyped /\ AskedLast /\ \A w \in Worker : Good(stream[w], log)

LEMMA Bounds == MaxRetries \in Nat /\ MaxEvents \in Nat /\ MaxDrops \in Nat
BY StreamAssumption

LEMMA NoStreamGood ==
    ASSUME NEW l \in Seq(Emits)
    PROVE  NoStream \in StreamType /\ Good(NoStream, l)
<1>1. /\ NoCheckpoint \in NoCheckpoint..MaxEvents /\ 0 \in 0..MaxEvents /\ 0 \in 0..(MaxRetries + 1)
      /\ {} \in SUBSET (1..MaxEvents)
  BY Bounds DEF NoCheckpoint
<1>2. NoStream \in StreamType
  BY <1>1 DEF NoStream, StreamType
<1>3. Good(NoStream, l)
  BY Bounds DEF NoStream, Good, NoCheckpoint
<1>. QED
  BY <1>2, <1>3

LEMMA OpenedGood ==
    ASSUME NEW l \in Seq(Emits), Len(l) <= MaxEvents, NEW from \in NoCheckpoint..Len(l), NEW attach \in BOOLEAN
    PROVE  /\ Opened(from, attach) \in StreamType /\ Good(Opened(from, attach), l)
           /\ Opened(from, attach).attach = attach /\ Opened(from, attach).phase = "connecting"
<1>. DEFINE s == Opened(from, attach)
            p == IF from = NoCheckpoint THEN 0 ELSE from
<1>1. /\ from \in NoCheckpoint..MaxEvents /\ p \in 0..MaxEvents /\ 0 \in 0..(MaxRetries + 1)
      /\ {} \in SUBSET (1..MaxEvents) /\ from <= p /\ p <= Len(l) /\ Len(l) \in Nat
      /\ \A j \in 1..p : j <= from
  BY Bounds DEF NoCheckpoint
<1>2. /\ s.phase = "connecting" /\ s.attach = attach /\ s.from = from /\ s.ck = from /\ s.pos = p
      /\ s.retries = 0 /\ s.confirm = FALSE /\ s.seen = {} /\ s.twice = FALSE
  BY DEF Opened, NoStream
<1>. HIDE DEF p
<1>3. s \in StreamType
  BY <1>1, NoStreamGood DEF Opened, StreamType, p
<1>. HIDE DEF s
<1>4. Good(s, l)
  BY <1>1, <1>2, Bounds DEF Good
<1>. QED
  BY <1>2, <1>3, <1>4 DEF s

\* One stream changes.
LEMMA StreamPut ==
    ASSUME SInv, NEW w \in Worker, NEW s \in StreamType, Good(s, log), log' = log,
           stream' = [stream EXCEPT ![w] = s]
    PROVE  stream' \in [Worker -> StreamType] /\ \A v \in Worker : Good(stream'[v], log')
BY DEF SInv, StreamTyped

\* A longer log takes nothing from a stream.
LEMMA GoodGrows ==
    ASSUME NEW l \in Seq(Emits), NEW t \in Emits, NEW s \in StreamType, Good(s, l)
    PROVE  Good(s, Append(l, t))
<1>. DEFINE m == Append(l, t)
<1>1. Len(m) = Len(l) + 1 /\ \A k \in 1..Len(l) : m[k] = l[k]
  OBVIOUS
<1>2. Len(l) \in Nat /\ s.pos \in Nat /\ 1..s.pos \subseteq 1..Len(l)
  BY Bounds DEF StreamType, Good
<1>. HIDE DEF m
<1>3. s.pos <= Len(m) /\ s.seen \subseteq 1..Len(m)
  BY <1>1, <1>2 DEF Good
<1>4. /\ \A k \in s.seen : m[k] = l[k]
      /\ \A j \in 1..s.pos : m[j] = l[j]
  BY <1>1, <1>2 DEF Good
<1>5. \A j \in 1..s.pos : m[j] \notin Unnumbered /\ j \notin s.seen =>
          j <= s.from \/ (s.from = NoCheckpoint /\ \A k \in s.seen : m[k] \notin Unnumbered => j < k)
  BY <1>4 DEF Good
<1>6. \A k \in s.seen : (m[k] \notin Unnumbered => k <= s.ck) /\ (~s.attach /\ m[k] \in Ask => s.confirm)
  BY <1>4 DEF Good
<1>. QED
  BY <1>3, <1>5, <1>6 DEF Good, m

LEMMA EmitStreams == SInv /\ Emit => SInv'
<1>. SUFFICES ASSUME SInv, Emit PROVE SInv'
  OBVIOUS
<1>1. PICK t \in Emits : /\ log' = Append(log, t)
                         /\ server' = CASE t \in Ask -> "WAIT_INPUT"
                                        [] t \in {"chat_finish", "chat_canceled"} -> "IDLE"
                                        [] t = "SSE_FAILURE" -> "FAILED"
                                        [] OTHER -> "RUNNING"
  BY DEF Emit
<1>2. /\ log \in Seq(Emits) /\ Len(log) < MaxEvents /\ turn \in 0..Len(log) /\ UNCHANGED <<turn, stream, drops>>
  BY DEF SInv, StreamTyped, Emit
<1>3. /\ log' \in Seq(Emits) /\ Len(log') = Len(log) + 1 /\ log'[Len(log')] = t /\ Len(log) \in Nat
  BY <1>1, <1>2
<1>4. Len(log') <= MaxEvents /\ turn' \in 0..Len(log') /\ turn' < Len(log')
  BY <1>2, <1>3, Bounds
<1>5. server' \in {"RUNNING", "WAIT_INPUT", "IDLE", "FAILED"} /\ (server' = "WAIT_INPUT" => t \in Ask)
  BY <1>1 DEF Ask
<1>6. StreamTyped' /\ AskedLast'
  BY <1>2, <1>3, <1>4, <1>5 DEF SInv, StreamTyped, AskedLast
<1>7. \A w \in Worker : Good(stream'[w], log')
  BY <1>1, <1>2, GoodGrows DEF SInv, StreamTyped
<1>. QED
  BY <1>6, <1>7 DEF SInv

\* A message is taken, or may have been lost.
LEMMA AcceptStreams ==
    ASSUME SInv, Accept \/ UNCHANGED <<server, turn>>, UNCHANGED log,
           drops' \in 0..MaxDrops, stream' \in [Worker -> StreamType], \A w \in Worker : Good(stream'[w], log')
    PROVE  SInv'
<1>1. log \in Seq(Emits) /\ Len(log) \in Nat /\ turn \in 0..Len(log)
  BY DEF SInv, StreamTyped
<1>2. server' \in {"none", "RUNNING", "WAIT_INPUT", "IDLE", "FAILED"} /\ turn' \in 0..Len(log')
  BY <1>1 DEF SInv, StreamTyped, Accept
<1>3. AskedLast'
  BY DEF SInv, AskedLast, Accept
<1>. QED
  BY <1>1, <1>2, <1>3 DEF SInv, StreamTyped

LEMMA PhaseGood ==
    ASSUME NEW s \in StreamType, NEW l \in Seq(Emits), Good(s, l),
           NEW p \in {"off", "connecting", "open", "finished", "closed", "raised"},
           p \in {"connecting", "open"} => s.retries <= MaxRetries
    PROVE  /\ [s EXCEPT !.phase = p] \in StreamType /\ Good([s EXCEPT !.phase = p], l)
           /\ [s EXCEPT !.phase = p].phase = p /\ [s EXCEPT !.phase = p].attach = s.attach
<1>. DEFINE h == [s EXCEPT !.phase = p]
<1>1. h \in StreamType
  BY DEF StreamType
<1>2. /\ h.phase = p /\ h.attach = s.attach /\ h.from = s.from /\ h.ck = s.ck /\ h.pos = s.pos
      /\ h.retries = s.retries /\ h.confirm = s.confirm /\ h.seen = s.seen /\ h.twice = s.twice
  BY DEF StreamType
<1>. HIDE DEF h
<1>3. Good(h, l)
  BY <1>2 DEF Good
<1>. QED
  BY <1>1, <1>2, <1>3 DEF h

\* A connection begins at the checkpoint, or where the server chooses when there is none.
LEMMA ConnectGood ==
    ASSUME NEW s \in StreamType, NEW l \in Seq(Emits), Good(s, l), s.phase = "connecting",
           NEW p \in 0..MaxEvents, p <= Len(l), s.ck # NoCheckpoint => p = s.ck
    PROVE  /\ [s EXCEPT !.pos = p] \in StreamType /\ Good([s EXCEPT !.pos = p], l)
           /\ [s EXCEPT !.pos = p].retries = s.retries /\ [s EXCEPT !.pos = p].attach = s.attach
<1>. DEFINE h == [s EXCEPT !.pos = p]
<1>1. h \in StreamType
  BY DEF StreamType
<1>2. /\ h.phase = s.phase /\ h.attach = s.attach /\ h.from = s.from /\ h.ck = s.ck /\ h.pos = p
      /\ h.retries = s.retries /\ h.confirm = s.confirm /\ h.seen = s.seen /\ h.twice = s.twice
  BY DEF StreamType
<1>3. s.seen \subseteq 1..Len(l) /\ Len(l) \in Nat /\ s.pos \in Nat /\ s.ck \in Int /\ p \in Nat
  BY Bounds DEF StreamType, Good, NoCheckpoint
<1>. HIDE DEF h
<1>4. CASE s.ck = NoCheckpoint
  <2>1. s.from = NoCheckpoint /\ \A k \in s.seen : l[k] \in Unnumbered
    BY <1>3, <1>4 DEF Good, NoCheckpoint
  <2>2. s.ck <= p
    BY <1>3, <1>4 DEF NoCheckpoint
  <2>. QED
    BY <1>1, <1>2, <2>1, <2>2 DEF Good, h
<1>5. CASE s.ck # NoCheckpoint
  <2>1. p = s.ck /\ p <= s.pos
    BY <1>5 DEF Good
  <2>2. \A j \in 1..p : j \in 1..s.pos
    BY <1>3, <2>1
  <2>3. \A j \in 1..p : l[j] \notin Unnumbered /\ j \notin s.seen =>
          j <= s.from \/ (s.from = NoCheckpoint /\ \A k \in s.seen : l[k] \notin Unnumbered => j < k)
    BY <2>2 DEF Good
  <2>. QED
    BY <1>1, <1>2, <1>3, <2>1, <2>3 DEF Good, h
<1>. QED
  BY <1>4, <1>5

LEMMA RetryGood ==
    ASSUME NEW s \in StreamType, NEW l \in Seq(Emits), Good(s, l), s.phase \in {"connecting", "open"}
    PROVE  LET p == IF s.retries >= MaxRetries THEN "raised" ELSE "connecting"
               h == [s EXCEPT !.retries = @ + 1, !.phase = p]
           IN  h \in StreamType /\ Good(h, l) /\ h.attach = s.attach /\ h.phase # "finished"
<1>. DEFINE p == IF s.retries >= MaxRetries THEN "raised" ELSE "connecting"
            g == [s EXCEPT !.phase = p]
            h == [s EXCEPT !.retries = @ + 1, !.phase = p]
<1>1. /\ s.retries \in 0..(MaxRetries + 1) /\ s.retries <= MaxRetries
  BY DEF StreamType, Good
<1>2. /\ s.retries + 1 \in 0..(MaxRetries + 1) /\ p \in {"raised", "connecting"}
      /\ p = "connecting" => s.retries + 1 <= MaxRetries
  BY <1>1, Bounds
<1>3. g \in StreamType /\ Good(g, l) /\ g.phase = p /\ g.attach = s.attach /\ g.retries = s.retries
  <2>1. g.retries = s.retries
    BY DEF StreamType
  <2>2. /\ p \in {"off", "connecting", "open", "finished", "closed", "raised"}
        /\ p \in {"connecting", "open"} => s.retries <= MaxRetries
    BY <1>1
  <2>. HIDE DEF p
  <2>. QED
    BY <2>1, <2>2, PhaseGood
<1>4. h = [g EXCEPT !.retries = s.retries + 1]
  BY DEF StreamType
<1>. HIDE DEF g, p
<1>5. h \in StreamType
  BY <1>2, <1>3, <1>4 DEF StreamType
<1>6. /\ h.phase = p /\ h.attach = g.attach /\ h.from = g.from /\ h.ck = g.ck /\ h.pos = g.pos
      /\ h.retries = s.retries + 1 /\ h.confirm = g.confirm /\ h.seen = g.seen /\ h.twice = g.twice
  BY <1>3, <1>4 DEF StreamType
<1>. HIDE DEF h
<1>7. Good(h, l)
  BY <1>2, <1>3, <1>6 DEF Good
<1>. QED
  BY <1>2, <1>3, <1>5, <1>6, <1>7 DEF h, p

LEMMA ConfirmAfterIs ==
    ASSUME NEW confirm \in BOOLEAN, NEW attach \in BOOLEAN, NEW t \in EventType
    PROVE  /\ ConfirmAfter(confirm, attach, t) \in BOOLEAN
           /\ ~attach /\ (t \in Ask \/ confirm) => ConfirmAfter(confirm, attach, t)
<1>1. CASE t = "report_offer"
  BY <1>1 DEF ConfirmAfter, Ask
<1>2. CASE t \in Ask /\ ~attach
  BY <1>2 DEF ConfirmAfter, Ask
<1>3. CASE t \in Ask \ {"ask_sql"} /\ attach
  BY <1>3 DEF ConfirmAfter, Ask
<1>4. CASE t # "report_offer" /\ ~(t \in Ask /\ ~attach) /\ ~(t \in Ask \ {"ask_sql"} /\ attach)
  BY <1>4 DEF ConfirmAfter
<1>. QED
  BY <1>1, <1>2, <1>3, <1>4

\* The next event is handled.
LEMMA HandledGood ==
    ASSUME NEW s \in StreamType, Good(s, log), s.phase = "open", s.pos < Len(log),
           log \in Seq(Emits), Len(log) <= MaxEvents
    PROVE  LET h == Handled(s, s.pos + 1)
           IN  h \in StreamType /\ Good(h, log) /\ h.attach = s.attach /\ h.phase = "open"
<1>. DEFINE i == s.pos + 1
            h == Handled(s, i)
            c == ConfirmAfter(s.confirm, s.attach, log[i])
<1>1. /\ s.pos \in 0..MaxEvents /\ s.ck \in NoCheckpoint..MaxEvents /\ s.seen \subseteq 1..Len(log)
      /\ s.retries \in 0..(MaxRetries + 1) /\ s.confirm \in BOOLEAN /\ s.attach \in BOOLEAN
      /\ s.failed \in BOOLEAN /\ s.twice \in BOOLEAN /\ Len(log) \in Nat
  BY DEF StreamType, Good
<1>2. i \in 1..Len(log) /\ i \in 1..MaxEvents /\ i \in 0..MaxEvents /\ i \in NoCheckpoint..MaxEvents
  BY <1>1, Bounds DEF NoCheckpoint
<1>3. log[i] \in EventType
  BY <1>2, StreamAssumption
<1>4. c \in BOOLEAN /\ (~s.attach /\ (log[i] \in Ask \/ s.confirm) => c)
  BY <1>1, <1>3, ConfirmAfterIs
<1>5. /\ h.phase = s.phase /\ h.attach = s.attach /\ h.from = s.from /\ h.retries = s.retries
      /\ h.pos = i /\ h.ck = CheckpointAfter(s.ck, i) /\ h.confirm = c
      /\ h.seen = s.seen \cup {i} /\ h.twice = (s.twice \/ (i \in s.seen /\ Numbered(i)))
  BY DEF Handled, StreamType
<1>6. h \in StreamType
  <2>1. CheckpointAfter(s.ck, i) \in NoCheckpoint..MaxEvents
    BY <1>1, <1>2 DEF CheckpointAfter
  <2>2. s.seen \cup {i} \in SUBSET (1..MaxEvents)
    BY <1>2 DEF StreamType
  <2>3. (s.failed \/ log[i] = "task_failed") \in BOOLEAN /\ (s.twice \/ (i \in s.seen /\ Numbered(i))) \in BOOLEAN
    OBVIOUS
  <2>. QED
    BY <1>2, <1>4, <2>1, <2>2, <2>3 DEF Handled, StreamType
<1>7. CheckpointAfter(s.ck, i) = IF log[i] \notin Unnumbered THEN i ELSE s.ck
  BY DEF CheckpointAfter, Numbered
<1>8. i = s.pos + 1 /\ s.pos \in Nat /\ s.ck \in Int /\ s.ck <= s.pos
  BY <1>1, Bounds DEF NoCheckpoint, Good
<1>. HIDE DEF h, c, i
<1>9. /\ h.pos <= Len(log) /\ h.ck <= h.pos /\ h.seen \subseteq 1..Len(log)
      /\ h.ck = NoCheckpoint => h.from = NoCheckpoint
  BY <1>1, <1>2, <1>5, <1>7, <1>8 DEF Good, NoCheckpoint
<1>10. \A k \in h.seen : log[k] \notin Unnumbered => k <= h.ck
  BY <1>1, <1>5, <1>7, <1>8 DEF Good
<1>11. ~h.twice
  <2>1. ~(i \in s.seen /\ Numbered(i))
    BY <1>8 DEF Good, Numbered
  <2>. QED
    BY <1>5, <2>1 DEF Good
<1>12. \A j \in 1..h.pos : log[j] \notin Unnumbered /\ j \notin h.seen =>
          j <= h.from \/ (h.from = NoCheckpoint /\ \A k \in h.seen : log[k] \notin Unnumbered => j < k)
  <2>. SUFFICES ASSUME NEW j \in 1..h.pos, log[j] \notin Unnumbered, j \notin h.seen
                PROVE  j <= h.from \/ (h.from = NoCheckpoint /\ \A k \in h.seen : log[k] \notin Unnumbered => j < k)
    OBVIOUS
  <2>1. j \in 1..s.pos /\ j \notin s.seen /\ j < i
    BY <1>5, <1>8
  <2>2. j <= s.from \/ (s.from = NoCheckpoint /\ \A k \in s.seen : log[k] \notin Unnumbered => j < k)
    BY <2>1 DEF Good
  <2>. QED
    BY <1>5, <2>1, <2>2
<1>13. ~h.attach => \A k \in h.seen : log[k] \in Ask => h.confirm
  BY <1>4, <1>5 DEF Good
<1>14. h.phase \in {"connecting", "open"} => h.retries <= MaxRetries
  BY <1>5 DEF Good
<1>15. Good(h, log)
  BY <1>9, <1>10, <1>11, <1>12, <1>13, <1>14 DEF Good
<1>. QED
  BY <1>5, <1>6, <1>15 DEF h, i

\* A step of a stream: it stays what it is for.
Streams(w) == Read(w) \/ CleanEnd(w) \/ Break(w) \/ Rejected(w)

LEMMA StreamSteps ==
    ASSUME SInv, NEW w \in Worker, Streams(w)
    PROVE  /\ SInv' /\ UNCHANGED <<server, log, turn>>
           /\ \A v \in Worker \ {w} : stream'[v] = stream[v]
           /\ stream'[w].attach = stream[w].attach /\ stream[w].phase \in {"connecting", "open"}
<1>. DEFINE s == stream[w]
<1>1. /\ s \in StreamType /\ Good(s, log) /\ stream \in [Worker -> StreamType]
      /\ log \in Seq(Emits) /\ Len(log) <= MaxEvents /\ Len(log) \in Nat /\ turn \in 0..Len(log)
  BY DEF SInv, StreamTyped
<1>2. UNCHANGED <<server, log, turn>>
  BY DEF Streams, Read, Connect, Receive, Finish, ReadTimeout, CleanEnd, Break, Rejected
<1>3. drops' \in 0..MaxDrops
  BY Bounds DEF Streams, Read, Connect, Receive, Finish, ReadTimeout, CleanEnd, Break, Rejected, SInv, StreamTyped
<1>4. ASSUME NEW h \in StreamType, Good(h, log), h.attach = s.attach, stream' = [stream EXCEPT ![w] = h],
             s.phase \in {"connecting", "open"}
      PROVE  /\ SInv' /\ \A v \in Worker \ {w} : stream'[v] = stream[v]
             /\ stream'[w].attach = stream[w].attach /\ stream[w].phase \in {"connecting", "open"}
  <2>1. stream' \in [Worker -> StreamType] /\ \A v \in Worker : Good(stream'[v], log')
    BY <1>2, <1>4, StreamPut
  <2>2. SInv'
    BY <1>2, <1>3, <2>1 DEF SInv, StreamTyped, AskedLast
  <2>3. stream'[w] = h /\ \A v \in Worker \ {w} : stream'[v] = stream[v]
    BY <1>1, <1>4
  <2>. QED
    BY <1>4, <2>2, <2>3
<1>5. ASSUME NEW p \in {"finished", "closed", "raised"}, stream' = [stream EXCEPT ![w].phase = p],
             s.phase \in {"connecting", "open"}
      PROVE  \E h \in StreamType : Good(h, log) /\ h.attach = s.attach /\ stream' = [stream EXCEPT ![w] = h]
  <2>. DEFINE h == [s EXCEPT !.phase = p]
  <2>1. stream' = [stream EXCEPT ![w] = h]
    BY <1>5
  <2>2. p \in {"off", "connecting", "open", "finished", "closed", "raised"} /\ p \notin {"connecting", "open"}
    OBVIOUS
  <2>. HIDE DEF s
  <2>3. h \in StreamType /\ Good(h, log) /\ h.phase = p /\ h.attach = s.attach
    BY <1>1, <2>2, PhaseGood
  <2>. HIDE DEF h
  <2>. QED
    BY <1>5, <2>1, <2>3
<1>6. CASE Connect(w)
  <2>1. PICK p \in IF s.ck = NoCheckpoint THEN turn..Len(log) ELSE {s.ck} :
          stream' = [stream EXCEPT ![w].phase = "open", ![w].pos = p]
    BY <1>6 DEF Connect
  <2>2. s.phase = "connecting"
    BY <1>6 DEF Connect
  <2>3. p \in 0..MaxEvents /\ p <= Len(log) /\ (s.ck # NoCheckpoint => p = s.ck)
    <3>1. CASE s.ck = NoCheckpoint
      BY <1>1, <2>1, <3>1, Bounds
    <3>2. CASE s.ck # NoCheckpoint
      <4>1. p = s.ck /\ s.ck \in NoCheckpoint..MaxEvents /\ s.ck <= s.pos /\ s.pos <= Len(log)
        BY <1>1, <2>1, <3>2 DEF StreamType, Good
      <4>. QED
        BY <1>1, <3>2, <4>1, Bounds DEF NoCheckpoint, StreamType
    <3>. QED
      BY <3>1, <3>2
  <2>. DEFINE g == [s EXCEPT !.pos = p]
              h == [g EXCEPT !.phase = "open"]
  <2>4. g \in StreamType /\ Good(g, log) /\ g.retries = s.retries /\ g.attach = s.attach
    BY <1>1, <2>2, <2>3, ConnectGood
  <2>5. stream' = [stream EXCEPT ![w] = h]
    BY <1>1, <2>1 DEF StreamType
  <2>6. s.retries <= MaxRetries
    BY <1>1, <2>2 DEF Good
  <2>. HIDE DEF g
  <2>7. h \in StreamType /\ Good(h, log) /\ h.phase = "open" /\ h.attach = s.attach
    BY <1>1, <2>4, <2>6, PhaseGood
  <2>. HIDE DEF h
  <2>. QED
    BY <1>2, <1>4, <2>2, <2>5, <2>7
<1>7. CASE Receive(w)
  <2>. DEFINE h == Handled(s, s.pos + 1)
  <2>1. s.phase = "open" /\ s.pos < Len(log) /\ stream' = [stream EXCEPT ![w] = h]
    BY <1>1, <1>7 DEF Receive
  <2>2. h \in StreamType /\ Good(h, log) /\ h.attach = s.attach /\ h.phase = "open"
    BY <1>1, <2>1, HandledGood
  <2>. HIDE DEF h
  <2>. QED
    BY <1>2, <1>4, <2>1, <2>2
<1>8. CASE Finish(w)
  BY <1>2, <1>4, <1>5, <1>8 DEF Finish, Phase
<1>9. CASE CleanEnd(w)
  BY <1>2, <1>4, <1>5, <1>9 DEF CleanEnd, Phase
<1>10. CASE Rejected(w)
  BY <1>2, <1>4, <1>5, <1>10 DEF Rejected, Phase
<1>11. CASE ReadTimeout(w) \/ Break(w)
  <2>. DEFINE p == IF s.retries >= MaxRetries THEN "raised" ELSE "connecting"
              h == [s EXCEPT !.retries = @ + 1, !.phase = p]
  <2>1. s.phase \in {"connecting", "open"} /\ stream' = [stream EXCEPT ![w] = h]
    BY <1>1, <1>11 DEF ReadTimeout, Break, Retry, StreamType
  <2>2. h \in StreamType /\ Good(h, log) /\ h.attach = s.attach /\ h.phase # "finished"
    BY <1>1, <2>1, RetryGood
  <2>. HIDE DEF h
  <2>. QED
    BY <1>2, <1>4, <2>1, <2>2
<1>. QED
  BY <1>6, <1>7, <1>8, <1>9, <1>10, <1>11 DEF Streams, Read

-----------------------------------------------------------------------------
(* The types of the other variables.                                       *)

ParentPlace == {"idle", "check", "unlink", "announce", "popen", "open", "write", "done", "refused", "killed", "torn"}

WorkerPlace == {"none", "open", "write", "connect", "send", "read", "look", "status", "result", "release",
                "unlink", "exit", "gone", "killed"}

RunTyped ==
    /\ parent \in [Worker -> ParentPlace] /\ worker \in [Worker -> WorkerPlace] /\ job \in [Worker -> JobType]

FilesTyped ==
    /\ lock \in File \cup {none} /\ opened \in [Writer -> Writer \cup {none}]
    /\ status \in Report \cup {"none", "running"} /\ result \in Report \cup {"none"}
    /\ latest \in Worker \cup {none} /\ raced \in BOOLEAN /\ kills \in 0..MaxKills

LEMMA TypeParts == TypeOK <=> StreamTyped /\ RunTyped /\ FilesTyped
BY DEF TypeOK, StreamTyped, RunTyped, FilesTyped, ParentPlace, WorkerPlace

LEMMA NoJobTyped == NoJob \in JobType
<1>1. 0 \in 0..1 /\ 0 \in 0..MaxFollowUps /\ 0 \in 0..MaxRetries
  BY Bounds, WorkerAssumption
<1>. QED
  BY <1>1 DEF NoJob, JobType

LEMMA TriesPut ==
    ASSUME NEW j \in JobType, NEW n \in 0..MaxRetries
    PROVE  /\ [j EXCEPT !.tries = n] \in JobType /\ [j EXCEPT !.tries = n].kind = j.kind
           /\ [j EXCEPT !.tries = n].tries = n
BY DEF JobType

\* One job changes.
LEMMA JobPut ==
    ASSUME RunTyped, NEW w \in Worker, NEW j \in JobType, job' = [job EXCEPT ![w] = j]
    PROVE  job' \in [Worker -> JobType] /\ job'[w] = j /\ \A v \in Worker \ {w} : job'[v] = job[v]
BY DEF RunTyped

LEMMA ParentPut ==
    ASSUME RunTyped, NEW w \in Worker, NEW p \in ParentPlace, ParentAt(w, p)
    PROVE  /\ parent' \in [Worker -> ParentPlace] /\ parent'[w] = p
           /\ \A v \in Worker \ {w} : parent'[v] = parent[v]
BY DEF RunTyped, ParentAt

LEMMA WorkerPut ==
    ASSUME RunTyped, NEW w \in Worker, NEW p \in WorkerPlace, WorkerAt(w, p)
    PROVE  /\ worker' \in [Worker -> WorkerPlace] /\ worker'[w] = p
           /\ \A v \in Worker \ {w} : worker'[v] = worker[v]
BY DEF RunTyped, WorkerAt

\* What a conclusion makes of a run.
Concluded(w, j, o) ==
    /\ job'[w] \in JobType /\ job'[w].outcome = o /\ job'[w].kind = j.kind
    /\ job'[w].cut = j.cut /\ worker'[w] = "status" /\ stream'[w] = NoStream

Others(w) ==
    \A v \in Worker \ {w} : /\ parent'[v] = parent[v] /\ worker'[v] = worker[v]
                            /\ job'[v] = job[v] /\ stream'[v] = stream[v]

LEMMA Conclusion ==
    ASSUME SInv, RunTyped, NEW w \in Worker, NEW j \in JobType, NEW o \in Report, Concludes(w, j, o),
           UNCHANGED <<log, parent>>
    PROVE  /\ RunTyped' /\ Concluded(w, j, o) /\ Others(w)
           /\ stream' \in [Worker -> StreamType] /\ \A v \in Worker : Good(stream'[v], log')
<1>. DEFINE k == [NoJob EXCEPT !.kind = j.kind, !.outcome = o, !.cut = j.cut]
<1>1. k \in JobType /\ k.outcome = o /\ k.kind = j.kind /\ k.cut = j.cut
  <2>1. NoJob \in JobType /\ j.kind \in Jobs \cup {none} /\ j.cut \in BOOLEAN
    BY NoJobTyped DEF JobType
  <2>. QED
    BY <2>1 DEF JobType
<1>2. job' = [job EXCEPT ![w] = k] /\ stream' = [stream EXCEPT ![w] = NoStream] /\ WorkerAt(w, "status")
  BY DEF Concludes
<1>. HIDE DEF k
<1>3. job' \in [Worker -> JobType] /\ job'[w] = k /\ \A v \in Worker \ {w} : job'[v] = job[v]
  BY <1>1, <1>2, JobPut
<1>4. /\ worker' \in [Worker -> WorkerPlace] /\ worker'[w] = "status"
      /\ \A v \in Worker \ {w} : worker'[v] = worker[v]
  BY <1>2, WorkerPut DEF WorkerPlace
<1>5. stream' \in [Worker -> StreamType] /\ \A v \in Worker : Good(stream'[v], log')
  BY <1>2, NoStreamGood, StreamPut DEF SInv, StreamTyped
<1>6. stream'[w] = NoStream /\ \A v \in Worker \ {w} : stream'[v] = stream[v]
  BY <1>2 DEF SInv, StreamTyped
<1>. QED
  BY <1>1, <1>3, <1>4, <1>5, <1>6 DEF RunTyped, Concluded, Others, k

\* What opening a stream makes of a run.
LEMMA Opening ==
    ASSUME SInv, RunTyped, NEW w \in Worker, NEW from \in NoCheckpoint..Len(log), NEW attach \in BOOLEAN,
           Opens(w, from, attach), UNCHANGED log
    PROVE  /\ worker' \in [Worker -> WorkerPlace] /\ worker'[w] = "read"
           /\ stream'[w].attach = attach /\ stream'[w].phase = "connecting"
           /\ \A v \in Worker \ {w} : worker'[v] = worker[v] /\ stream'[v] = stream[v]
           /\ stream' \in [Worker -> StreamType] /\ \A v \in Worker : Good(stream'[v], log')
<1>. DEFINE s == Opened(from, attach)
<1>1. s \in StreamType /\ Good(s, log) /\ s.attach = attach /\ s.phase = "connecting"
  BY OpenedGood DEF SInv, StreamTyped
<1>2. stream' = [stream EXCEPT ![w] = s] /\ WorkerAt(w, "read")
  BY DEF Opens
<1>. HIDE DEF s
<1>3. /\ worker' \in [Worker -> WorkerPlace] /\ worker'[w] = "read"
      /\ \A v \in Worker \ {w} : worker'[v] = worker[v]
  BY <1>2, WorkerPut DEF WorkerPlace
<1>4. stream' \in [Worker -> StreamType] /\ \A v \in Worker : Good(stream'[v], log')
  BY <1>1, <1>2, StreamPut
<1>5. stream'[w] = s /\ \A v \in Worker \ {w} : stream'[v] = stream[v]
  BY <1>2 DEF SInv, StreamTyped
<1>. QED
  BY <1>1, <1>3, <1>4, <1>5

\* What a run has learnt from a stream that is over.
LEMMA LearntIs ==
    ASSUME SInv, RunTyped, NEW w \in Worker
    PROVE  /\ Learnt(w) \in JobType /\ Learnt(w).kind = job[w].kind /\ Learnt(w).outcome = job[w].outcome
           /\ Learnt(w).left = job[w].left
           /\ ~Learnt(w).cut => /\ server # "RUNNING" /\ stream[w].phase = "finished"
                                /\ (turn + 1)..Len(log) \subseteq stream[w].seen
<1>. DEFINE j == job[w]
            c == \/ stream[w].phase # "finished" \/ server = "RUNNING"
                 \/ ~(((turn + 1)..Len(log)) \subseteq stream[w].seen)
<1>1. Learnt(w) = [j EXCEPT !.cut = c]
  BY DEF Learnt
<1>2. j \in JobType /\ c \in BOOLEAN
  BY DEF RunTyped, JobType
<1>3. [j EXCEPT !.cut = c] \in JobType
  <2>. HIDE DEF c, j
  <2>. QED
    BY <1>2 DEF JobType
<1>4. /\ Learnt(w).kind = j.kind /\ Learnt(w).outcome = j.outcome /\ Learnt(w).left = j.left
      /\ Learnt(w).cut = c
  <2>. HIDE DEF c, j
  <2>. QED
    BY <1>1, <1>2 DEF JobType
<1>. QED
  BY <1>1, <1>3, <1>4

-----------------------------------------------------------------------------
(* The runs.                                                               *)

\* From the lock that a worker holds until it has removed it.
Holding == {"connect", "send", "read", "look", "status", "result", "release", "unlink"}
Running == {"open", "write"} \cup Holding

\* A run that launches, or works on files that another would write too.
Active(w) == InLaunch(w) \/ worker[w] \in Running

\* A command that has not come to start its worker has none.
Paired(w) == parent[w] \in {"idle", "check", "unlink", "announce", "popen", "refused"} => worker[w] = "none"

Names(w) == lock # none /\ lock.pid = w

\* Once a run has written the lock file it names that run, unless its command is about to
\* write it again; and whoever is about to write it has the present one open.
LockOf(w) ==
    /\ worker[w] \in Holding /\ parent[w] \notin {"write", "torn"} => Names(w)
    /\ worker[w] = "open" /\ parent[w] = "done" => Names(w)
    /\ worker[w] = "write" => lock # none /\ lock.by = opened[<<"worker", w>>]
    /\ parent[w] = "write" /\ worker[w] \in Running => lock # none /\ lock.by = opened[<<"parent", w>>]

\* The run at work is the one announced last.
Last(w) == parent[w] \in {"popen", "open", "write"} \/ worker[w] \in Running => latest = w

\* What the last run has reported stands.
Reported(w) ==
    latest = w =>
        /\ worker[w] \in {"result", "release", "unlink", "exit", "gone"} => status = job[w].outcome
        /\ worker[w] \in {"release", "unlink", "exit", "gone"} => result = job[w].outcome

\* What a run knows of the server where it has learnt what its last turn came to.
Heeds(w) ==
    /\ worker[w] = "read" /\ job[w].kind = "db" => ~stream[w].attach
    /\ worker[w] = "send" /\ job[w].kind = "db" /\ job[w].tries = 0 /\ ~job[w].cut => server \in {"IDLE", "FAILED"}
    /\ worker[w] = "look" => job[w].kind # "db"
    /\ worker[w] = "status" /\ job[w].outcome = "completed" /\ job[w].kind \in {"db", "query"} /\ ~job[w].cut =>
          server \in {"IDLE", "FAILED"}

Orderly(w) == LockOf(w) /\ Last(w) /\ Reported(w) /\ Heeds(w)

\* The last message came from a command that had begun.
Spoken == \A w \in Worker : parent[w] # "idle" => server # "none"

Exclusive == \A v, w \in Worker : Active(v) /\ Active(w) => v = w

RInv ==
    /\ \A w \in Worker : Paired(w)
    /\ Spoken
    /\ ~raced => Exclusive /\ \A w \in Worker : Orderly(w)

IInv == SInv /\ RunTyped /\ FilesTyped /\ RInv

\* The files another run has open stay so.
Elsewhere(w) ==
    \A v \in Worker \ {w} : /\ opened'[<<"worker", v>>] = opened[<<"worker", v>>]
                            /\ opened'[<<"parent", v>>] = opened[<<"parent", v>>]

\* A step of the run that is active, or becomes so while no other is.
LEMMA OwnStep ==
    ASSUME IInv, NEW w \in Worker, Others(w), raced \in BOOLEAN, raced => raced',
           Paired(w)', parent'[w] # "idle" => server' # "none", server' # server => server' # "none",
           ~raced' => /\ \A v \in Worker \ {w} : ~Active(v)
                      /\ (status' = status /\ result' = result) \/ latest' = w
                      /\ latest' \in {latest, w}
                      /\ Orderly(w)'
    PROVE  RInv'
<1>1. \A v \in Worker \ {w} : /\ parent'[v] = parent[v] /\ worker'[v] = worker[v]
                              /\ job'[v] = job[v] /\ stream'[v] = stream[v]
  BY DEF Others
<1>2. \A v \in Worker : Paired(v)'
  BY <1>1 DEF IInv, RInv, Paired
<1>3. Spoken'
  BY <1>1 DEF IInv, RInv, Spoken
<1>4. ASSUME ~raced'
      PROVE  Exclusive' /\ \A v \in Worker : Orderly(v)'
  <2>1. \A v \in Worker \ {w} : ~Active(v)'
    BY <1>1, <1>4 DEF Active, InLaunch, Launching, Alive
  <2>2. Exclusive'
    BY <2>1 DEF Exclusive
  <2>3. ASSUME NEW v \in Worker \ {w}
        PROVE  Orderly(v)'
    <3>1. worker'[v] \notin Running /\ parent'[v] \notin {"popen", "open", "write"}
      BY <2>1 DEF Active, InLaunch, Launching
    <3>2. LockOf(v)' /\ Last(v)' /\ Heeds(v)'
      BY <3>1 DEF LockOf, Last, Heeds, Running, Holding
    <3>3. Reported(v)
      BY <1>4 DEF IInv, RInv, Orderly
    <3>4. Reported(v)'
      BY <1>1, <1>4, <3>3 DEF Reported
    <3>. QED
      BY <3>2, <3>4 DEF Orderly
  <2>. QED
    BY <1>4, <2>2, <2>3
<1>. QED
  BY <1>2, <1>3, <1>4 DEF RInv

\* While a run is active no other is, unless a launch was raced.
LEMMA Alone ==
    ASSUME IInv, NEW w \in Worker, Active(w), ~raced
    PROVE  (\A v \in Worker \ {w} : ~Active(v)) /\ Orderly(w)
BY DEF IInv, RInv, Exclusive

\* A step that changes neither the files nor the server, and makes no run active.
LEMMA QuietStep ==
    ASSUME IInv, NEW w \in Worker, Others(w), Elsewhere(w), raced' = raced,
           UNCHANGED <<server, lock, status, result, latest>>,
           Paired(w)', parent'[w] # "idle" => parent[w] # "idle",
           Active(w)' => Active(w), ~raced /\ Orderly(w) => Orderly(w)'
    PROVE  RInv'
<1>1. \A v \in Worker \ {w} : /\ parent'[v] = parent[v] /\ worker'[v] = worker[v]
                              /\ job'[v] = job[v] /\ stream'[v] = stream[v]
  BY DEF Others
<1>2. \A v \in Worker : Paired(v)'
  BY <1>1 DEF IInv, RInv, Paired
<1>3. Spoken'
  BY <1>1 DEF IInv, RInv, Spoken
<1>4. ASSUME ~raced
      PROVE  Exclusive' /\ \A v \in Worker : Orderly(v)'
  <2>1. \A v \in Worker \ {w} : Active(v)' => Active(v)
    BY <1>1 DEF Active, InLaunch, Launching, Alive
  <2>2. Exclusive'
    BY <1>4, <2>1 DEF Exclusive, IInv, RInv
  <2>3. ASSUME NEW v \in Worker \ {w}
        PROVE  Orderly(v)'
    <3>1. Orderly(v)
      BY <1>4 DEF IInv, RInv
    <3>. QED
      BY <1>1, <3>1 DEF Orderly, LockOf, Names, Last, Reported, Heeds, Elsewhere
  <2>. QED
    BY <1>4, <2>2, <2>3 DEF IInv, RInv
<1>. QED
  BY <1>2, <1>3, <1>4 DEF RInv

LEMMA InitIInv == Init => IInv
<1>. SUFFICES ASSUME Init PROVE IInv
  OBVIOUS
<1>1. SInv
  <2>1. log = <<>> /\ Len(log) = 0 /\ log \in Seq(Emits) /\ turn = 0 /\ drops = 0 /\ server = "none"
    BY DEF Init
  <2>2. NoStream \in StreamType /\ Good(NoStream, log)
    BY <2>1, NoStreamGood
  <2>. QED
    BY <2>1, <2>2, Bounds DEF Init, SInv, StreamTyped, AskedLast
<1>2. RunTyped
  BY NoJobTyped DEF Init, RunTyped, ParentPlace, WorkerPlace
<1>3. FilesTyped
  <2>1. 0 \in 0..MaxKills
    BY WorkerAssumption
  <2>2. opened \in [Writer -> Writer \cup {none}]
    BY DEF Init
  <2>. QED
    BY <2>1, <2>2 DEF Init, FilesTyped
<1>4. \A w \in Worker : parent[w] = "idle" /\ worker[w] = "none" /\ ~Active(w)
  BY DEF Init, Active, InLaunch, Launching, Alive, Running, Holding
<1>5. RInv
  BY <1>4 DEF RInv, Paired, Spoken, Exclusive, Orderly, LockOf, Last, Reported, Heeds, Running, Holding
<1>. QED
  BY <1>1, <1>2, <1>3, <1>5 DEF IInv

-----------------------------------------------------------------------------
(* The steps of the command.                                               *)

LEMMA BeginStep == ASSUME IInv, NEW w \in Worker, Begin(w) PROVE IInv'
<1>1. PICK k \in Jobs, n \in 0..MaxFollowUps :
        /\ (k = "db") = (server = "none")
        /\ job' = [job EXCEPT ![w] = [NoJob EXCEPT !.kind = k, !.left = n]]
        /\ IF k = "db" THEN Accept ELSE UNCHANGED <<server, turn>>
  BY DEF Begin
<1>2. /\ parent[w] = "idle" /\ ParentAt(w, "check")
      /\ UNCHANGED <<log, stream, drops, worker, dirVars, histVars>>
  BY DEF Begin
<1>. DEFINE j == [NoJob EXCEPT !.kind = k, !.left = n]
<1>3. j \in JobType
  BY NoJobTyped DEF JobType
<1>4. job' = [job EXCEPT ![w] = j]
  BY <1>1
<1>. HIDE DEF j
<1>5. job' \in [Worker -> JobType] /\ \A v \in Worker \ {w} : job'[v] = job[v]
  BY <1>3, <1>4, JobPut DEF IInv
<1>6. /\ parent' \in [Worker -> ParentPlace] /\ parent'[w] = "check"
      /\ \A v \in Worker \ {w} : parent'[v] = parent[v]
  BY <1>2, ParentPut DEF IInv, ParentPlace
<1>7. RunTyped' /\ FilesTyped'
  BY <1>2, <1>5, <1>6 DEF IInv, RunTyped, FilesTyped, dirVars, histVars
<1>8. SInv'
  <2>1. Accept \/ UNCHANGED <<server, turn>>
    BY <1>1
  <2>2. UNCHANGED <<log, stream, drops>>
    BY <1>2
  <2>. QED
    BY <2>1, <2>2, AcceptStreams DEF IInv, SInv, StreamTyped
<1>9. worker[w] = "none" /\ worker'[w] = "none"
  BY <1>2 DEF IInv, RInv, Paired
<1>10. server' # "none" /\ (server' = server \/ \A v \in Worker : parent[v] = "idle" /\ worker[v] = "none")
  BY <1>1, <1>2 DEF Accept, IInv, RInv, Spoken, Paired
<1>11. \A v \in Worker : Active(v)' => Active(v)
  BY <1>2, <1>6, <1>9 DEF Active, InLaunch, Launching, Alive, Running, Holding
<1>12. \A v \in Worker : Orderly(v) => Orderly(v)'
  <2>. SUFFICES ASSUME NEW v \in Worker, Orderly(v) PROVE Orderly(v)'
    OBVIOUS
  <2>1. LockOf(v)' /\ Last(v)' /\ Reported(v)'
    BY <1>2, <1>5, <1>6, <1>9 DEF Orderly, LockOf, Names, Last, Reported, Running, Holding, dirVars, histVars
  <2>2. Heeds(v)'
    BY <1>2, <1>5, <1>9, <1>10 DEF Orderly, Heeds
  <2>. QED
    BY <2>1, <2>2 DEF Orderly
<1>13. RInv'
  BY <1>2, <1>6, <1>9, <1>10, <1>11, <1>12 DEF IInv, RInv, Paired, Spoken, Exclusive, histVars
<1>. QED
  BY <1>7, <1>8, <1>13 DEF IInv

\* Nobody finds the lock free or stale while another run is at work.
LEMMA LockExcludes ==
    ASSUME IInv, ~raced, NEW v \in Worker, Active(v), ~InLaunch(v)
    PROVE  lock # none /\ ~Stale
<1>1. worker[v] \in Running /\ parent[v] \in ParentPlace
  BY DEF Active, IInv, RunTyped
<1>2. Orderly(v) /\ Paired(v) /\ Alive(v)
  BY <1>1 DEF IInv, RInv, Alive, Running, Holding
<1>3. Names(v)
  BY <1>1, <1>2 DEF InLaunch, Launching, Paired, Orderly, LockOf, ParentPlace, Running, Holding, Alive
<1>. QED
  BY <1>2, <1>3 DEF Names, Stale

LEMMA CheckLockStep == ASSUME IInv, NEW w \in Worker, CheckLock(w) PROVE IInv'
<1>1. /\ parent[w] = "check" /\ worker[w] = "none"
      /\ UNCHANGED <<streamVars, worker, job, dirVars, latest, kills>>
      /\ raced' = (raced \/ \E v \in Worker \ {w} : InLaunch(v))
  BY DEF CheckLock, IInv, RInv, Paired
<1>2. PICK p \in {"announce", "unlink", "refused"} :
        ParentAt(w, p) /\ (p # "refused" => lock = none \/ Stale)
  BY DEF CheckLock
<1>3. /\ parent' \in [Worker -> ParentPlace] /\ parent'[w] = p
      /\ \A v \in Worker \ {w} : parent'[v] = parent[v]
  BY <1>2, ParentPut DEF IInv, ParentPlace
<1>4. RunTyped' /\ FilesTyped' /\ SInv'
  BY <1>1, <1>3 DEF IInv, RunTyped, FilesTyped, SInv, StreamTyped, AskedLast, streamVars, dirVars
<1>5. Others(w) /\ Elsewhere(w) /\ UNCHANGED <<server, lock, status, result, latest>>
  BY <1>1, <1>3 DEF Others, Elsewhere, streamVars, dirVars
<1>6. Paired(w)' /\ Orderly(w)'
  <2>1. worker'[w] = "none" /\ parent'[w] \notin {"popen", "open", "write"}
    BY <1>1, <1>3
  <2>. QED
    BY <2>1 DEF Paired, Orderly, LockOf, Last, Reported, Heeds, Running, Holding
<1>7. CASE p = "refused"
  <2>1. ~Active(w)'
    BY <1>1, <1>3, <1>7 DEF Active, InLaunch, Launching, Running, Holding
  <2>2. ~raced' => ~raced
    BY <1>1
  <2>3. RInv'
    <3>1. CASE raced' = raced
      BY <1>3, <1>5, <1>6, <1>1, <2>1, <3>1, QuietStep
    <3>2. CASE raced' # raced
      <4>1. raced' /\ \A v \in Worker : Paired(v)'
        BY <1>1, <1>3, <1>6, <3>2 DEF IInv, FilesTyped, RInv, Paired
      <4>2. Spoken'
        BY <1>1, <1>3, <1>5 DEF IInv, RInv, Spoken
      <4>. QED
        BY <4>1, <4>2 DEF RInv
    <3>. QED
      BY <3>1, <3>2
  <2>. QED
    BY <1>4, <2>3 DEF IInv
<1>8. CASE p # "refused"
  <2>1. ASSUME ~raced', NEW v \in Worker \ {w}
        PROVE  ~Active(v)
    BY <1>1, <1>2, <1>8, <2>1, LockExcludes
  <2>2. raced \in BOOLEAN /\ (raced => raced')
    BY <1>1 DEF IInv, FilesTyped
  <2>3. server' # "none" /\ latest' \in {latest, w} /\ status' = status /\ result' = result
    BY <1>1, <1>5 DEF IInv, RInv, Spoken
  <2>4. RInv'
    BY <1>5, <1>6, <2>1, <2>2, <2>3, OwnStep
  <2>. QED
    BY <1>4, <2>4 DEF IInv
<1>. QED
  BY <1>7, <1>8

\* A step of a run that is active already.
LEMMA ActiveStep ==
    ASSUME IInv, NEW w \in Worker, Active(w), Others(w), raced' = raced,
           Paired(w)', parent'[w] # "idle", server' # "none",
           ~raced /\ Orderly(w) => /\ (status' = status /\ result' = result) \/ latest' = w
                                   /\ latest' \in {latest, w}
                                   /\ Orderly(w)'
    PROVE  RInv'
<1>1. ~raced => (\A v \in Worker \ {w} : ~Active(v)) /\ Orderly(w)
  BY Alone
<1>2. raced \in BOOLEAN
  BY DEF IInv, FilesTyped
<1>. QED
  BY <1>1, <1>2, OwnStep

\* What is known of a command that launches.
LEMMA Launches ==
    ASSUME IInv, NEW w \in Worker, Launching(w)
    PROVE  Active(w) /\ server # "none" /\ parent[w] # "idle"
BY DEF Launching, Active, InLaunch, IInv, RInv, Spoken

LEMMA CheckUnlinkStep == ASSUME IInv, NEW w \in Worker, CheckUnlink(w) PROVE IInv'
<1>1. /\ parent[w] = "unlink" /\ lock' = none /\ ParentAt(w, "announce")
      /\ UNCHANGED <<streamVars, worker, job, opened, status, result, histVars>>
  BY DEF CheckUnlink, Remove
<1>2. /\ parent' \in [Worker -> ParentPlace] /\ parent'[w] = "announce"
      /\ \A v \in Worker \ {w} : parent'[v] = parent[v]
  BY <1>1, ParentPut DEF IInv, ParentPlace
<1>3. RunTyped' /\ FilesTyped' /\ SInv'
  BY <1>1, <1>2 DEF IInv, RunTyped, FilesTyped, SInv, StreamTyped, AskedLast, streamVars, histVars
<1>4. Others(w)
  BY <1>1, <1>2 DEF Others, streamVars
<1>5. worker[w] = "none" /\ worker' = worker
  BY <1>1 DEF IInv, RInv, Paired
<1>6. Paired(w)' /\ Orderly(w)'
  BY <1>2, <1>5 DEF Paired, Orderly, LockOf, Last, Reported, Heeds, Running, Holding
<1>7. Active(w) /\ server # "none"
  BY <1>1, Launches DEF Launching
<1>8. RInv'
  BY <1>1, <1>2, <1>4, <1>6, <1>7, ActiveStep DEF streamVars, histVars
<1>. QED
  BY <1>3, <1>8 DEF IInv

LEMMA AnnounceStep == ASSUME IInv, NEW w \in Worker, Announce(w) PROVE IInv'
<1>1. /\ parent[w] = "announce" /\ status' = "running" /\ latest' = w /\ ParentAt(w, "popen")
      /\ UNCHANGED <<streamVars, worker, job, lock, opened, result, raced, kills>>
  BY DEF Announce
<1>2. /\ parent' \in [Worker -> ParentPlace] /\ parent'[w] = "popen"
      /\ \A v \in Worker \ {w} : parent'[v] = parent[v]
  BY <1>1, ParentPut DEF IInv, ParentPlace
<1>3. RunTyped' /\ FilesTyped' /\ SInv'
  BY <1>1, <1>2 DEF IInv, RunTyped, FilesTyped, SInv, StreamTyped, AskedLast, streamVars
<1>4. Others(w)
  BY <1>1, <1>2 DEF Others, streamVars
<1>5. worker[w] = "none" /\ worker' = worker
  BY <1>1 DEF IInv, RInv, Paired
<1>6. Paired(w)' /\ Orderly(w)'
  BY <1>1, <1>2, <1>5 DEF Paired, Orderly, LockOf, Last, Reported, Heeds, Running, Holding
<1>7. Active(w) /\ server # "none"
  BY <1>1, Launches DEF Launching
<1>8. RInv'
  BY <1>1, <1>2, <1>4, <1>6, <1>7, ActiveStep DEF streamVars
<1>. QED
  BY <1>3, <1>8 DEF IInv

LEMMA PopenStep == ASSUME IInv, NEW w \in Worker, Popen(w) PROVE IInv'
<1>1. /\ parent[w] = "popen" /\ WorkerAt(w, "open") /\ ParentAt(w, "open")
      /\ UNCHANGED <<streamVars, job, dirVars, histVars>>
  BY DEF Popen
<1>2. /\ parent' \in [Worker -> ParentPlace] /\ parent'[w] = "open"
      /\ \A v \in Worker \ {w} : parent'[v] = parent[v]
  BY <1>1, ParentPut DEF IInv, ParentPlace
<1>3. /\ worker' \in [Worker -> WorkerPlace] /\ worker'[w] = "open"
      /\ \A v \in Worker \ {w} : worker'[v] = worker[v]
  BY <1>1, WorkerPut DEF IInv, WorkerPlace
<1>4. RunTyped' /\ FilesTyped' /\ SInv'
  BY <1>1, <1>2, <1>3 DEF IInv, RunTyped, FilesTyped, SInv, StreamTyped, AskedLast, streamVars, dirVars, histVars
<1>5. Others(w)
  BY <1>1, <1>2, <1>3 DEF Others, streamVars
<1>6. ~raced /\ Orderly(w) => latest = w
  BY <1>1 DEF Orderly, Last
<1>7. Paired(w)' /\ (~raced /\ Orderly(w) => Orderly(w)')
  BY <1>1, <1>2, <1>3, <1>6 DEF Paired, Orderly, LockOf, Last, Reported, Heeds, Running, Holding, histVars
<1>8. Active(w) /\ server # "none"
  BY <1>1, Launches DEF Launching
<1>9. RInv'
  BY <1>1, <1>2, <1>5, <1>7, <1>8, ActiveStep DEF streamVars, dirVars, histVars
<1>. QED
  BY <1>4, <1>9 DEF IInv

\* A file is truncated by the run x belongs to.
LEMMA Truncated ==
    ASSUME FilesTyped, NEW x \in Writer, Truncate(x)
    PROVE  /\ lock' \in File \cup {none} /\ opened' \in [Writer -> Writer \cup {none}]
           /\ lock' # none /\ lock'.pid = none /\ opened'[x] = lock'.by
           /\ lock # none => lock'.by = lock.by
           /\ \A y \in Writer \ {x} : opened'[y] = opened[y]
<1>. DEFINE file == IF lock = none THEN x ELSE lock.by
<1>1. file \in Writer
  BY DEF FilesTyped, File
<1>2. lock' = [by |-> file, pid |-> none] /\ opened' = [opened EXCEPT ![x] = file]
  BY DEF Truncate
<1>3. lock # none => file = lock.by
  OBVIOUS
<1>. HIDE DEF file
<1>4. lock' \in File
  BY <1>1, <1>2 DEF File
<1>. QED
  BY <1>1, <1>2, <1>3, <1>4, WorkerAssumption DEF FilesTyped

\* The text is written to the file that was opened.
LEMMA Written ==
    ASSUME FilesTyped, NEW x \in Writer, NEW w \in Worker, WriteText(x, w)
    PROVE  /\ lock' \in File \cup {none} /\ opened' \in [Writer -> Writer \cup {none}]
           /\ \A y \in Writer \ {x} : opened'[y] = opened[y]
           /\ lock # none => lock' # none /\ lock'.by = lock.by
           /\ lock # none /\ lock.by = opened[x] => lock'.pid = w
           /\ Names(w) => Names(w)'
<1>1. opened' \in [Writer -> Writer \cup {none}] /\ \A y \in Writer \ {x} : opened'[y] = opened[y]
  BY DEF WriteText, FilesTyped
<1>2. CASE lock # none /\ lock.by = opened[x]
  <2>1. lock \in File
    BY <1>2 DEF FilesTyped
  <2>2. lock' = [lock EXCEPT !.pid = w]
    BY <1>2 DEF WriteText
  <2>3. lock' \in File /\ lock'.pid = w /\ lock'.by = lock.by
    BY <2>1, <2>2 DEF File
  <2>. QED
    BY <1>1, <1>2, <2>3, WorkerAssumption DEF Names
<1>3. CASE ~(lock # none /\ lock.by = opened[x])
  <2>1. lock' = lock
    BY <1>3 DEF WriteText
  <2>. QED
    BY <1>1, <1>3, <2>1 DEF FilesTyped, Names
<1>. QED
  BY <1>2, <1>3

LEMMA Writers ==
    ASSUME NEW w \in Worker
    PROVE  <<"parent", w>> \in Writer /\ <<"worker", w>> \in Writer /\ <<"parent", w>> # <<"worker", w>>
BY DEF Writer

LEMMA ParentLockStep == ASSUME IInv, NEW w \in Worker, ParentLock(w) PROVE IInv'
<1>. DEFINE x == <<"parent", w>>
            y == <<"worker", w>>
<1>1. x \in Writer /\ y \in Writer /\ x # y
  BY Writers
<1>2. UNCHANGED <<streamVars, worker, job, status, result, histVars>>
  BY DEF ParentLock
<1>3. Active(w) /\ server # "none"
  BY Launches DEF ParentLock, Launching
<1>. HIDE DEF x, y
<1>4. CASE parent[w] = "open" /\ Truncate(x) /\ ParentAt(w, "write")
  <2>1. /\ parent' \in [Worker -> ParentPlace] /\ parent'[w] = "write"
        /\ \A v \in Worker \ {w} : parent'[v] = parent[v]
    BY <1>4, ParentPut DEF IInv, ParentPlace
  <2>2. /\ lock' \in File \cup {none} /\ opened' \in [Writer -> Writer \cup {none}]
        /\ lock' # none /\ lock'.pid = none /\ opened'[x] = lock'.by
        /\ lock # none => lock'.by = lock.by
        /\ opened'[y] = opened[y]
    BY <1>1, <1>4, Truncated DEF IInv
  <2>3. RunTyped' /\ FilesTyped' /\ SInv'
    BY <1>2, <2>1, <2>2 DEF IInv, RunTyped, FilesTyped, SInv, StreamTyped, AskedLast, streamVars, histVars
  <2>4. Others(w)
    BY <1>2, <2>1 DEF Others, streamVars
  <2>5. ASSUME Orderly(w)
        PROVE  Orderly(w)'
    <3>1. LockOf(w)'
      BY <1>2, <2>1, <2>2, <2>5 DEF Orderly, LockOf, x, y
    <3>2. Last(w)' /\ Reported(w)' /\ Heeds(w)'
      BY <1>2, <1>4, <2>1, <2>5 DEF Orderly, Last, Reported, Heeds, streamVars, histVars
    <3>. QED
      BY <3>1, <3>2 DEF Orderly
  <2>6. RInv'
    BY <1>2, <1>3, <2>1, <2>4, <2>5, ActiveStep DEF Paired, streamVars, histVars
  <2>. QED
    BY <2>3, <2>6 DEF IInv
<1>5. CASE parent[w] = "write" /\ WriteText(x, w) /\ ParentAt(w, "done")
  <2>1. /\ parent' \in [Worker -> ParentPlace] /\ parent'[w] = "done"
        /\ \A v \in Worker \ {w} : parent'[v] = parent[v]
    BY <1>5, ParentPut DEF IInv, ParentPlace
  <2>2. /\ lock' \in File \cup {none} /\ opened' \in [Writer -> Writer \cup {none}]
        /\ lock # none => lock' # none /\ lock'.by = lock.by
        /\ lock # none /\ lock.by = opened[x] => lock'.pid = w
        /\ opened'[y] = opened[y]
    BY <1>1, <1>5, Written DEF IInv
  <2>3. RunTyped' /\ FilesTyped' /\ SInv'
    BY <1>2, <2>1, <2>2 DEF IInv, RunTyped, FilesTyped, SInv, StreamTyped, AskedLast, streamVars, histVars
  <2>4. Others(w)
    BY <1>2, <2>1 DEF Others, streamVars
  <2>5. ASSUME Orderly(w)
        PROVE  Orderly(w)'
    <3>1. LockOf(w)'
      BY <1>2, <1>5, <2>1, <2>2, <2>5 DEF Orderly, LockOf, Names, Running, x, y
    <3>2. Last(w)' /\ Reported(w)' /\ Heeds(w)'
      BY <1>2, <1>5, <2>1, <2>5 DEF Orderly, Last, Reported, Heeds, streamVars, histVars
    <3>. QED
      BY <3>1, <3>2 DEF Orderly
  <2>6. RInv'
    BY <1>2, <1>3, <2>1, <2>4, <2>5, ActiveStep DEF Paired, streamVars, histVars
  <2>. QED
    BY <2>3, <2>6 DEF IInv
<1>. QED
  BY <1>4, <1>5 DEF ParentLock, x

-----------------------------------------------------------------------------
(* The steps of the worker.                                                *)

\* What is known of a worker that runs.
LEMMA Runs ==
    ASSUME IInv, NEW w \in Worker, worker[w] \in Running
    PROVE  /\ Active(w) /\ server # "none"
           /\ parent[w] \notin {"idle", "check", "unlink", "announce", "popen", "refused"}
BY DEF Running, Holding, Active, IInv, RInv, Spoken, Paired

LEMMA AcquireStep == ASSUME IInv, NEW w \in Worker, Acquire(w) PROVE IInv'
<1>. DEFINE x == <<"worker", w>>
            y == <<"parent", w>>
<1>1. x \in Writer /\ y \in Writer /\ x # y
  BY Writers
<1>2. UNCHANGED <<streamVars, parent, job, status, result, histVars>>
  BY DEF Acquire
<1>3. Active(w) /\ server # "none" /\ parent[w] \notin {"idle", "check", "unlink", "announce", "popen", "refused"}
  BY Runs DEF Acquire, Running
<1>. HIDE DEF x, y
<1>4. CASE worker[w] = "open" /\ Truncate(x) /\ WorkerAt(w, "write")
  <2>1. /\ worker' \in [Worker -> WorkerPlace] /\ worker'[w] = "write"
        /\ \A v \in Worker \ {w} : worker'[v] = worker[v]
    BY <1>4, WorkerPut DEF IInv, WorkerPlace
  <2>2. /\ lock' \in File \cup {none} /\ opened' \in [Writer -> Writer \cup {none}]
        /\ lock' # none /\ opened'[x] = lock'.by
        /\ lock # none => lock'.by = lock.by
        /\ opened'[y] = opened[y]
    BY <1>1, <1>4, Truncated DEF IInv
  <2>3. RunTyped' /\ FilesTyped' /\ SInv'
    BY <1>2, <2>1, <2>2 DEF IInv, RunTyped, FilesTyped, SInv, StreamTyped, AskedLast, streamVars, histVars
  <2>4. Others(w)
    BY <1>2, <2>1 DEF Others, streamVars
  <2>5. ASSUME Orderly(w)
        PROVE  Orderly(w)'
    <3>1. LockOf(w)'
      BY <1>2, <1>4, <2>1, <2>2, <2>5 DEF Orderly, LockOf, Running, Holding, x, y
    <3>2. Last(w)' /\ Reported(w)' /\ Heeds(w)'
      BY <1>2, <1>4, <2>1, <2>5 DEF Orderly, Last, Reported, Heeds, Running, streamVars, histVars
    <3>. QED
      BY <3>1, <3>2 DEF Orderly
  <2>6. RInv'
    BY <1>2, <1>3, <2>1, <2>4, <2>5, ActiveStep DEF Paired, streamVars, histVars
  <2>. QED
    BY <2>3, <2>6 DEF IInv
<1>5. CASE worker[w] = "write" /\ WriteText(x, w) /\ WorkerAt(w, "connect")
  <2>1. /\ worker' \in [Worker -> WorkerPlace] /\ worker'[w] = "connect"
        /\ \A v \in Worker \ {w} : worker'[v] = worker[v]
    BY <1>5, WorkerPut DEF IInv, WorkerPlace
  <2>2. /\ lock' \in File \cup {none} /\ opened' \in [Writer -> Writer \cup {none}]
        /\ lock # none => lock' # none /\ lock'.by = lock.by
        /\ lock # none /\ lock.by = opened[x] => lock'.pid = w
        /\ opened'[y] = opened[y]
    BY <1>1, <1>5, Written DEF IInv
  <2>3. RunTyped' /\ FilesTyped' /\ SInv'
    BY <1>2, <2>1, <2>2 DEF IInv, RunTyped, FilesTyped, SInv, StreamTyped, AskedLast, streamVars, histVars
  <2>4. Others(w)
    BY <1>2, <2>1 DEF Others, streamVars
  <2>5. ASSUME Orderly(w)
        PROVE  Orderly(w)'
    <3>1. LockOf(w)'
      BY <1>2, <1>5, <2>1, <2>2, <2>5 DEF Orderly, LockOf, Names, Running, Holding, x, y
    <3>2. Last(w)' /\ Reported(w)' /\ Heeds(w)'
      BY <1>2, <1>5, <2>1, <2>5 DEF Orderly, Last, Reported, Heeds, Running, streamVars, histVars
    <3>. QED
      BY <3>1, <3>2 DEF Orderly
  <2>6. RInv'
    BY <1>2, <1>3, <2>1, <2>4, <2>5, ActiveStep DEF Paired, streamVars, histVars
  <2>. QED
    BY <2>3, <2>6 DEF IInv
<1>. QED
  BY <1>4, <1>5 DEF Acquire, x

\* A step of a worker that holds the lock and keeps it.
LEMMA WorkStep ==
    ASSUME IInv, NEW w \in Worker, worker[w] \in Holding, worker'[w] \in Holding,
           SInv', RunTyped', FilesTyped', Others(w), UNCHANGED <<parent, lock, opened, latest, raced>>,
           server' # "none", ~raced /\ Orderly(w) => Reported(w)' /\ Heeds(w)'
    PROVE  IInv'
<1>1. worker[w] \in Running /\ worker'[w] \in Running
  BY DEF Running
<1>2. Active(w) /\ parent[w] \notin {"idle", "check", "unlink", "announce", "popen", "refused"}
  BY <1>1, Runs
<1>3. ASSUME ~raced, Orderly(w)
      PROVE  latest' = w /\ Orderly(w)'
  <2>1. latest = w
    BY <1>1, <1>3 DEF Orderly, Last
  <2>2. worker'[w] \notin {"open", "write"} /\ worker[w] \notin {"open", "write"}
    BY DEF Holding
  <2>3. LockOf(w)' /\ Last(w)'
    BY <1>1, <1>3, <2>1, <2>2 DEF Orderly, LockOf, Names, Last
  <2>. QED
    BY <1>3, <2>1, <2>3 DEF Orderly
<1>4. RInv'
  BY <1>2, <1>3, ActiveStep DEF Paired
<1>. QED
  BY <1>4 DEF IInv

LEMMA ConcludesStep ==
    ASSUME IInv, NEW w \in Worker, worker[w] \in Holding, NEW j \in JobType, NEW o \in Report,
           Concludes(w, j, o), UNCHANGED <<log, parent, dirVars, histVars>>,
           Accept \/ UNCHANGED <<server, turn>>, drops' \in 0..MaxDrops,
           ~raced /\ Orderly(w) /\ o = "completed" /\ j.kind \in {"db", "query"} /\ ~j.cut
              => server' \in {"IDLE", "FAILED"}
    PROVE  IInv'
<1>1. /\ RunTyped' /\ Concluded(w, j, o) /\ Others(w)
      /\ stream' \in [Worker -> StreamType] /\ \A v \in Worker : Good(stream'[v], log')
  BY Conclusion DEF IInv
<1>2. SInv'
  BY <1>1, AcceptStreams DEF IInv
<1>3. FilesTyped'
  BY DEF IInv, FilesTyped, dirVars, histVars
<1>4. server' # "none"
  BY Runs DEF Running, Accept
<1>5. Reported(w)' /\ (~raced /\ Orderly(w) => Heeds(w)')
  BY <1>1 DEF Concluded, Reported, Heeds
<1>6. worker'[w] \in Holding
  BY <1>1 DEF Concluded, Holding
<1>7. UNCHANGED <<parent, lock, opened, latest, raced>>
  BY DEF dirVars, histVars
<1>. HIDE DEF Concluded
<1>. QED
  BY <1>1, <1>2, <1>3, <1>4, <1>5, <1>6, <1>7, WorkStep

LEMMA OpensStep ==
    ASSUME IInv, NEW w \in Worker, worker[w] \in Holding, NEW from \in NoCheckpoint..Len(log), NEW attach \in BOOLEAN,
           Opens(w, from, attach), UNCHANGED <<log, parent, dirVars, histVars>>, drops' \in 0..MaxDrops,
           job' \in [Worker -> JobType], \A v \in Worker \ {w} : job'[v] = job[v],
           Accept \/ UNCHANGED <<server, turn>>,
           ~raced /\ Orderly(w) /\ job'[w].kind = "db" => ~attach
    PROVE  IInv'
<1>1. /\ worker' \in [Worker -> WorkerPlace] /\ worker'[w] = "read"
      /\ stream'[w].attach = attach /\ stream'[w].phase = "connecting"
      /\ \A v \in Worker \ {w} : worker'[v] = worker[v] /\ stream'[v] = stream[v]
      /\ stream' \in [Worker -> StreamType] /\ \A v \in Worker : Good(stream'[v], log')
  BY Opening DEF IInv
<1>2. RunTyped' /\ Others(w)
  BY <1>1 DEF IInv, RunTyped, Others
<1>3. SInv'
  BY <1>1, AcceptStreams DEF IInv, SInv, StreamTyped
<1>4. FilesTyped'
  BY DEF IInv, FilesTyped, dirVars, histVars
<1>5. server' # "none"
  BY Runs DEF Running, Accept
<1>6. Reported(w)' /\ (~raced /\ Orderly(w) => Heeds(w)')
  BY <1>1 DEF Reported, Heeds
<1>7. worker'[w] \in Holding
  BY <1>1 DEF Holding
<1>8. UNCHANGED <<parent, lock, opened, latest, raced>>
  BY DEF dirVars, histVars
<1>. QED
  BY <1>2, <1>3, <1>4, <1>5, <1>6, <1>7, <1>8, WorkStep

\* The worker goes on to another place, and leaves the server alone if it is a new one.
LEMMA GoesOn ==
    ASSUME IInv, NEW w \in Worker, worker[w] \in Holding, NEW p \in {"send", "look"},
           WorkerAt(w, p),
           UNCHANGED <<log, stream, parent, dirVars, histVars>>,
           Accept \/ UNCHANGED <<server, turn>>, drops' \in 0..MaxDrops,
           job' \in [Worker -> JobType], \A v \in Worker \ {w} : job'[v] = job[v],
           p = "look" => job'[w].kind # "db",
           ~raced /\ Orderly(w) /\ ~job'[w].cut /\ p = "send" /\ job'[w].kind = "db" /\ job'[w].tries = 0 =>
              server' \in {"IDLE", "FAILED"}
    PROVE  IInv'
<1>1. /\ worker' \in [Worker -> WorkerPlace] /\ worker'[w] = p
      /\ \A v \in Worker \ {w} : worker'[v] = worker[v]
  BY WorkerPut DEF IInv, WorkerPlace
<1>2. RunTyped' /\ Others(w) /\ FilesTyped'
  BY <1>1 DEF IInv, RunTyped, Others, FilesTyped, dirVars, histVars
<1>3. SInv'
  BY AcceptStreams DEF IInv, SInv, StreamTyped
<1>4. server' # "none"
  BY Runs DEF Running, Accept
<1>5. Reported(w)' /\ (~raced /\ Orderly(w) => Heeds(w)')
  BY <1>1 DEF Reported, Heeds
<1>6. worker'[w] \in Holding
  BY <1>1 DEF Holding
<1>7. UNCHANGED <<parent, lock, opened, latest, raced>>
  BY DEF dirVars, histVars
<1>. QED
  BY <1>2, <1>3, <1>4, <1>5, <1>6, <1>7, WorkStep

LEMMA ConnectSessionStep == ASSUME IInv, NEW w \in Worker, ConnectSession(w) PROVE IInv'
<1>1. /\ worker[w] = "connect" /\ worker[w] \in Holding
      /\ UNCHANGED <<server, log, turn, parent, dirVars, histVars>>
  BY DEF ConnectSession, Holding
<1>2. job \in [Worker -> JobType] /\ job[w] \in JobType /\ drops \in 0..MaxDrops
  BY DEF IInv, RunTyped, SInv, StreamTyped
<1>3. {NoCheckpoint, 0} \cup 1..Len(log) \subseteq NoCheckpoint..Len(log)
  BY DEF IInv, SInv, StreamTyped, NoCheckpoint
<1>4. CASE job[w].kind = "db" /\ Opens(w, 0, FALSE) /\ UNCHANGED <<drops, job>>
  BY <1>1, <1>2, <1>4, <1>3, OpensStep
<1>5. CASE job[w].kind = "query" /\ WorkerAt(w, "send") /\ UNCHANGED <<stream, drops, job>>
  BY <1>1, <1>2, <1>5, GoesOn
<1>6. CASE /\ job[w].kind = "watch" /\ UNCHANGED <<drops, job>>
           /\ \E from \in {NoCheckpoint, 0} \cup {i \in 1..Len(log) : Numbered(i)} : Opens(w, from, TRUE)
  <2>1. PICK from \in NoCheckpoint..Len(log) : Opens(w, from, TRUE)
    BY <1>6, <1>3
  <2>. QED
    BY <1>1, <1>2, <1>6, <2>1, OpensStep
<1>7. CASE drops < MaxDrops /\ drops' = drops + 1 /\ Concludes(w, job[w], "failed")
  <2>1. "failed" \in Report /\ drops' \in 0..MaxDrops
    BY <1>2, <1>7, Bounds DEF Report
  <2>. QED
    BY <1>1, <1>2, <1>7, <2>1, ConcludesStep
<1>. QED
  BY <1>4, <1>5, <1>6, <1>7 DEF ConnectSession

LEMMA SendQueryStep == ASSUME IInv, NEW w \in Worker, SendQuery(w) PROVE IInv'
<1>1. worker[w] = "send" /\ worker[w] \in Holding /\ UNCHANGED <<log, parent, dirVars, histVars>>
  BY DEF SendQuery, SendOnce, SendRetry, SendFailed, Holding
<1>2. job \in [Worker -> JobType] /\ job[w] \in JobType /\ drops \in 0..MaxDrops
  BY DEF IInv, RunTyped, SInv, StreamTyped
<1>3. CASE SendOnce(w)
  <2>. DEFINE j == [job[w] EXCEPT !.tries = 0]
  <2>1. j \in JobType /\ j.kind = job[w].kind
    BY <1>2, Bounds, TriesPut
  <2>2. job' = [job EXCEPT ![w] = j]
    BY <1>3 DEF SendOnce
  <2>. HIDE DEF j
  <2>3. job' \in [Worker -> JobType] /\ job'[w] = j /\ \A v \in Worker \ {w} : job'[v] = job[v]
    BY <2>1, <2>2, JobPut DEF IInv
  <2>4. NoCheckpoint \in NoCheckpoint..Len(log)
    BY DEF IInv, SInv, StreamTyped, NoCheckpoint
  <2>5. /\ Opens(w, NoCheckpoint, job[w].kind = "query") /\ (job[w].kind = "query") \in BOOLEAN
        /\ job'[w].kind = "db" => ~(job[w].kind = "query")
    BY <1>3, <2>1, <2>3 DEF SendOnce
  <2>6. drops' \in 0..MaxDrops /\ (Accept \/ UNCHANGED <<server, turn>>)
    BY <1>2, <1>3, Bounds DEF SendOnce
  <2>. QED
    BY <1>1, <2>3, <2>4, <2>5, <2>6, OpensStep
<1>4. CASE SendRetry(w)
  <2>. DEFINE j == [job[w] EXCEPT !.tries = job[w].tries + 1]
  <2>1. job[w].tries + 1 \in 0..MaxRetries /\ job[w].tries \in 0..MaxRetries
    BY <1>2, <1>4, Bounds DEF SendRetry, JobType
  <2>2. j \in JobType /\ j.tries = job[w].tries + 1
    BY <1>2, <2>1, TriesPut
  <2>3. job' = [job EXCEPT ![w] = j]
    BY <1>4 DEF SendRetry
  <2>. HIDE DEF j
  <2>4. job' \in [Worker -> JobType] /\ job'[w] = j /\ \A v \in Worker \ {w} : job'[v] = job[v]
    BY <2>2, <2>3, JobPut DEF IInv
  <2>5. job'[w].tries # 0
    BY <2>1, <2>2, <2>4, Bounds
  <2>6. drops' \in 0..MaxDrops /\ (Accept \/ UNCHANGED <<server, turn>>)
    BY <1>2, <1>4, Bounds DEF SendRetry, LoseCall
  <2>7. WorkerAt(w, "send") /\ UNCHANGED stream
    BY <1>1, <1>4 DEF SendRetry, WorkerAt, IInv, RunTyped
  <2>. QED
    BY <1>1, <2>4, <2>5, <2>6, <2>7, GoesOn
<1>5. CASE SendFailed(w)
  <2>1. "failed" \in Report /\ drops' \in 0..MaxDrops /\ (Accept \/ UNCHANGED <<server, turn>>)
    BY <1>2, <1>5, Bounds DEF Report, SendFailed, LoseCall
  <2>. QED
    BY <1>1, <1>2, <1>5, <2>1, ConcludesStep DEF SendFailed
<1>. QED
  BY <1>3, <1>4, <1>5 DEF SendQuery

\* A batch whose stream has shown the turn to its end, and no ask: the server waits for none.
LEMMA NoAskLeft ==
    ASSUME IInv, NEW w \in Worker, ~raced, Orderly(w), worker[w] = "read", job[w].kind = "db",
           ~Learnt(w).cut, ~stream[w].confirm
    PROVE  server \in {"IDLE", "FAILED"}
<1>1. stream[w].phase = "finished" /\ (turn + 1)..Len(log) \subseteq stream[w].seen
  BY LearntIs DEF IInv
<1>2. ~stream[w].attach /\ server # "RUNNING"
  BY LearntIs DEF IInv, Orderly, Heeds
<1>3. server # "none"
  BY Runs DEF Running, Holding
<1>4. server # "WAIT_INPUT"
  <2>. SUFFICES ASSUME server = "WAIT_INPUT" PROVE FALSE
    OBVIOUS
  <2>1. turn < Len(log) /\ log[Len(log)] \in Ask /\ turn \in Nat /\ Len(log) \in Nat
    BY DEF IInv, SInv, StreamTyped, AskedLast
  <2>2. Len(log) \in stream[w].seen
    BY <1>1, <2>1
  <2>3. Good(stream[w], log)
    BY DEF IInv, SInv
  <2>. QED
    BY <1>2, <2>1, <2>2, <2>3 DEF Good
<1>. QED
  BY <1>2, <1>3, <1>4 DEF IInv, SInv, StreamTyped

LEMMA DbReadStep ==
    ASSUME IInv, NEW w \in Worker, worker[w] = "read", Over(w), job[w].kind = "db", DbRead(w),
           UNCHANGED <<server, log, turn, drops, parent, dirVars, histVars>>
    PROVE  IInv'
<1>. DEFINE s == stream[w]
<1>1. /\ worker[w] \in Holding /\ drops' \in 0..MaxDrops /\ Report = {"completed", "waiting_input", "failed"}
  BY DEF Holding, IInv, SInv, StreamTyped, Report
<1>2. /\ Learnt(w) \in JobType /\ Learnt(w).kind = "db" /\ Learnt(w).left = job[w].left
      /\ job[w].left \in 0..MaxFollowUps
  BY LearntIs DEF IInv, RunTyped, JobType
<1>3. CASE (s.phase = "raised" \/ s.failed) /\ Concludes(w, Learnt(w), "failed")
  BY <1>1, <1>2, <1>3, ConcludesStep
<1>4. CASE s.phase # "raised" /\ ~s.failed /\ s.confirm /\ Concludes(w, Learnt(w), "waiting_input")
  BY <1>1, <1>2, <1>4, ConcludesStep
<1>5. CASE /\ s.phase # "raised" /\ ~s.failed /\ ~s.confirm /\ job[w].left > 0
           /\ job' = [job EXCEPT ![w] = [Learnt(w) EXCEPT !.left = @ - 1]]
           /\ WorkerAt(w, "send") /\ UNCHANGED stream
  <2>. DEFINE l == Learnt(w)
              j == [l EXCEPT !.left = l.left - 1]
  <2>1. l.left - 1 \in 0..MaxFollowUps /\ job' = [job EXCEPT ![w] = j]
    BY <1>2, <1>5, WorkerAssumption
  <2>2. j \in JobType /\ j.cut = l.cut
    <3>. HIDE DEF l
    <3>. QED
      BY <1>2, <2>1 DEF JobType, l
  <2>3. ~raced /\ Orderly(w) /\ ~l.cut => server \in {"IDLE", "FAILED"}
    BY <1>5, NoAskLeft
  <2>. HIDE DEF j, l
  <2>4. job' \in [Worker -> JobType] /\ job'[w] = j /\ \A v \in Worker \ {w} : job'[v] = job[v]
    BY <2>1, <2>2, JobPut DEF IInv
  <2>. QED
    BY <1>1, <1>5, <2>2, <2>3, <2>4, GoesOn
<1>6. CASE s.phase # "raised" /\ ~s.failed /\ ~s.confirm /\ job[w].left = 0 /\ Concludes(w, Learnt(w), "completed")
  <2>1. ~raced /\ Orderly(w) /\ ~Learnt(w).cut => server' \in {"IDLE", "FAILED"}
    BY <1>6, NoAskLeft
  <2>. QED
    BY <1>1, <1>2, <1>6, <2>1, ConcludesStep
<1>. QED
  BY <1>3, <1>4, <1>5, <1>6 DEF DbRead

LEMMA QueryReadStep ==
    ASSUME IInv, NEW w \in Worker, worker[w] = "read", job[w].kind = "query", QueryRead(w),
           UNCHANGED <<server, log, turn, drops, parent, dirVars, histVars>>
    PROVE  IInv'
<1>. DEFINE s == stream[w]
            g == job[w]
<1>1. /\ worker[w] \in Holding /\ drops' \in 0..MaxDrops /\ Report = {"completed", "waiting_input", "failed"}
  BY DEF Holding, IInv, SInv, StreamTyped, Report
<1>2. g \in JobType /\ g.kind = "query"
  BY DEF IInv, RunTyped
<1>. HIDE DEF g
<1>3. CASE Concludes(w, g, "failed")
  BY <1>1, <1>2, <1>3, ConcludesStep
<1>4. ASSUME NEW c \in BOOLEAN, job' = [job EXCEPT ![w].confirm = c], WorkerAt(w, "look"), UNCHANGED stream
      PROVE  IInv'
  <2>. DEFINE j == [g EXCEPT !.confirm = c]
  <2>1. j \in JobType /\ j.kind = "query"
    BY <1>2 DEF JobType
  <2>2. job' = [job EXCEPT ![w] = j]
    BY <1>4 DEF g
  <2>. HIDE DEF j
  <2>3. job' \in [Worker -> JobType] /\ job'[w] = j /\ \A v \in Worker \ {w} : job'[v] = job[v]
    BY <2>1, <2>2, JobPut DEF IInv
  <2>. QED
    BY <1>1, <1>4, <2>1, <2>3, GoesOn
<1>5. CASE WorkerAt(w, "look") /\ UNCHANGED <<job, stream>>
  <2>1. job' \in [Worker -> JobType] /\ job'[w].kind = "query" /\ \A v \in Worker \ {w} : job'[v] = job[v]
    BY <1>5 DEF IInv, RunTyped
  <2>. QED
    BY <1>1, <1>5, <2>1, GoesOn
<1>6. s.confirm \in BOOLEAN
  BY DEF IInv, SInv, StreamTyped, StreamType
<1>. QED
  BY <1>3, <1>4, <1>5, <1>6 DEF QueryRead, g

LEMMA StreamOverStep == ASSUME IInv, NEW w \in Worker, StreamOver(w) PROVE IInv'
<1>1. /\ worker[w] = "read" /\ Over(w) /\ worker[w] \in Holding
      /\ UNCHANGED <<server, log, turn, drops, parent, dirVars, histVars>>
  BY DEF StreamOver, Holding
<1>2. CASE job[w].kind = "db" /\ DbRead(w)
  BY <1>1, <1>2, DbReadStep
<1>3. CASE job[w].kind = "query" /\ QueryRead(w)
  BY <1>1, <1>3, QueryReadStep
<1>4. CASE job[w].kind = "watch" /\ WatchRead(w)
  <2>1. PICK o \in {"failed", "completed"} : Concludes(w, job[w], o)
    BY <1>4 DEF WatchRead
  <2>2. job[w] \in JobType /\ job[w].kind = "watch" /\ o \in Report /\ drops' \in 0..MaxDrops
    BY <1>1, <1>4 DEF IInv, RunTyped, Report, SInv, StreamTyped
  <2>. QED
    BY <1>1, <2>1, <2>2, ConcludesStep
<1>. QED
  BY <1>2, <1>3, <1>4 DEF StreamOver

LEMMA LookStep == ASSUME IInv, NEW w \in Worker, Look(w) PROVE IInv'
<1>1. /\ worker[w] = "look" /\ worker[w] \in Holding
      /\ UNCHANGED <<server, log, turn, parent, dirVars, histVars>>
  BY DEF Look, Holding
<1>2. /\ job \in [Worker -> JobType] /\ job[w] \in JobType /\ drops \in 0..MaxDrops
      /\ "waiting_input" \in Report /\ "failed" \in Report /\ "completed" \in Report
      /\ NoCheckpoint \in NoCheckpoint..Len(log)
  BY DEF IInv, RunTyped, SInv, StreamTyped, Report, NoCheckpoint
<1>3. CASE server \in {"WAIT_INPUT", "FAILED"} /\ UNCHANGED drops /\ \E o \in {"waiting_input", "failed"} : Concludes(w, job[w], o)
  <2>1. PICK o \in {"waiting_input", "failed"} : Concludes(w, job[w], o)
    BY <1>3
  <2>. QED
    BY <1>1, <1>2, <1>3, <2>1, ConcludesStep
<1>4. CASE /\ server = "RUNNING" /\ Opens(w, NoCheckpoint, TRUE) /\ UNCHANGED drops
           /\ job' = [job EXCEPT ![w].looks = 1]
  <2>. DEFINE g == job[w]
              j == [g EXCEPT !.looks = 1]
  <2>1. g \in JobType /\ job' = [job EXCEPT ![w] = j] /\ (~raced /\ Orderly(w) => g.kind # "db")
    BY <1>1, <1>2, <1>4 DEF Orderly, Heeds
  <2>2. j \in JobType /\ j.kind = g.kind
    <3>. HIDE DEF g
    <3>. QED
      BY <2>1 DEF JobType
  <2>. HIDE DEF j, g
  <2>3. job' \in [Worker -> JobType] /\ job'[w] = j /\ \A v \in Worker \ {w} : job'[v] = job[v]
    BY <2>1, <2>2, JobPut DEF IInv
  <2>. QED
    BY <1>1, <1>2, <1>4, <2>1, <2>2, <2>3, OpensStep
<1>5. CASE /\ server \in {"IDLE", "RUNNING"} /\ UNCHANGED drops
           /\ \E o \in {"waiting_input", "completed"} : Concludes(w, [job[w] EXCEPT !.cut = server = "RUNNING"], o)
  <2>. DEFINE g == job[w]
              c == server = "RUNNING"
              j == [g EXCEPT !.cut = c]
  <2>1. PICK o \in {"waiting_input", "completed"} : Concludes(w, j, o)
    BY <1>5
  <2>2. g \in JobType /\ c \in BOOLEAN
    BY <1>2
  <2>3. j \in JobType /\ j.cut = c
    <3>. HIDE DEF g, c
    <3>. QED
      BY <2>2 DEF JobType
  <2>4. ~j.cut => server' \in {"IDLE", "FAILED"}
    BY <1>1, <1>5, <2>3
  <2>. HIDE DEF j
  <2>. QED
    BY <1>1, <1>2, <1>5, <2>1, <2>3, <2>4, ConcludesStep
<1>6. CASE /\ drops < MaxDrops /\ drops' = drops + 1
           /\ \E o \in {"waiting_input", "completed"} : Concludes(w, [job[w] EXCEPT !.cut = TRUE], o)
  <2>. DEFINE g == job[w]
              j == [g EXCEPT !.cut = TRUE]
  <2>1. PICK o \in {"waiting_input", "completed"} : Concludes(w, j, o)
    BY <1>6
  <2>2. j \in JobType /\ j.cut = TRUE
    <3>1. g \in JobType
      BY <1>2
    <3>. HIDE DEF g
    <3>. QED
      BY <3>1 DEF JobType
  <2>3. drops' \in 0..MaxDrops
    BY <1>2, <1>6, Bounds
  <2>. HIDE DEF j
  <2>. QED
    BY <1>1, <1>2, <2>1, <2>2, <2>3, ConcludesStep
<1>. QED
  BY <1>1, <1>3, <1>4, <1>5, <1>6 DEF Look

\* A report is written when the result is known.
Decided == \A w \in Worker : worker[w] \in {"status", "result"} => job[w].outcome \in Report

LEMMA DecidedPut ==
    ASSUME Decided, NEW w \in Worker,
           \A v \in Worker \ {w} : worker'[v] = worker[v] /\ job'[v] = job[v],
           worker'[w] \in {"status", "result"} => job'[w].outcome \in Report
    PROVE  Decided'
BY DEF Decided

LEMMA DecidedSame == Decided /\ UNCHANGED <<worker, job>> => Decided'
BY DEF Decided

LEMMA DecidedAt ==
    ASSUME RunTyped, Decided, NEW w \in Worker, NEW p \in WorkerPlace, WorkerAt(w, p),
           \A v \in Worker \ {w} : job'[v] = job[v],
           p \in {"status", "result"} => job'[w].outcome \in Report
    PROVE  Decided'
BY WorkerPut, DecidedPut

LEMMA DecidedConcludes ==
    ASSUME RunTyped, Decided, NEW w \in Worker, NEW j \in JobType, NEW o \in Report, Concludes(w, j, o)
    PROVE  Decided'
<1>. DEFINE k == [NoJob EXCEPT !.kind = j.kind, !.outcome = o, !.cut = j.cut]
<1>1. k \in JobType /\ k.outcome = o
  <2>1. NoJob \in JobType /\ j.kind \in Jobs \cup {none} /\ j.cut \in BOOLEAN
    BY NoJobTyped DEF JobType
  <2>. QED
    BY <2>1 DEF JobType
<1>2. job' = [job EXCEPT ![w] = k] /\ WorkerAt(w, "status")
  BY DEF Concludes
<1>. HIDE DEF k
<1>3. job'[w] = k /\ \A v \in Worker \ {w} : job'[v] = job[v]
  BY <1>1, <1>2, JobPut
<1>. QED
  BY <1>1, <1>2, <1>3, DecidedAt DEF WorkerPlace

\* A step of a worker that does not conclude.
LEMMA DecidedOn ==
    ASSUME RunTyped, Decided, NEW w \in Worker, NEW p \in {"send", "look", "read"}, WorkerAt(w, p),
           \/ UNCHANGED job
           \/ \E j \in JobType : job' = [job EXCEPT ![w] = j]
    PROVE  Decided'
<1>1. \A v \in Worker \ {w} : job'[v] = job[v]
  BY DEF RunTyped
<1>. QED
  BY <1>1, DecidedAt DEF WorkerPlace

LEMMA DecidedRead ==
    ASSUME SInv, RunTyped, Decided, NEW w \in Worker, StreamOver(w)
    PROVE  Decided'
<1>. DEFINE s == stream[w]
            l == Learnt(w)
<1>1. l \in JobType /\ "failed" \in Report /\ "waiting_input" \in Report /\ "completed" \in Report
  BY LearntIs DEF Report
<1>2. s.confirm \in BOOLEAN
  BY DEF SInv, StreamTyped, StreamType
<1>3. CASE DbRead(w)
  <2>1. CASE \E o \in Report : Concludes(w, l, o)
    BY <1>1, <2>1, DecidedConcludes
  <2>2. CASE job[w].left > 0 /\ job' = [job EXCEPT ![w] = [l EXCEPT !.left = @ - 1]] /\ WorkerAt(w, "send")
    <3>1. l.left - 1 \in 0..MaxFollowUps
      BY <2>2, LearntIs, WorkerAssumption DEF RunTyped, JobType
    <3>. DEFINE j == [l EXCEPT !.left = l.left - 1]
    <3>2. job' = [job EXCEPT ![w] = j]
      BY <2>2
    <3>3. j \in JobType
      <4>. HIDE DEF l
      <4>. QED
        BY <1>1, <3>1 DEF JobType
    <3>. HIDE DEF j
    <3>. QED
      BY <2>2, <3>2, <3>3, DecidedOn
  <2>. QED
    BY <1>1, <1>3, <2>1, <2>2 DEF DbRead
<1>4. CASE QueryRead(w)
  <2>. DEFINE g == job[w]
  <2>0. g \in JobType
    BY DEF RunTyped
  <2>1. CASE \E o \in Report : Concludes(w, g, o)
    BY <2>0, <2>1, DecidedConcludes
  <2>2. ASSUME NEW c \in BOOLEAN, job' = [job EXCEPT ![w].confirm = c], WorkerAt(w, "look")
        PROVE  Decided'
    <3>. DEFINE j == [g EXCEPT !.confirm = c]
    <3>1. j \in JobType
      <4>. HIDE DEF g
      <4>. QED
        BY <2>0 DEF JobType
    <3>2. job' = [job EXCEPT ![w] = j]
      BY <2>2
    <3>. HIDE DEF j
    <3>. QED
      BY <2>2, <3>1, <3>2, DecidedOn
  <2>3. CASE UNCHANGED job /\ WorkerAt(w, "look")
    BY <2>3, DecidedOn
  <2>. QED
    BY <1>1, <1>2, <1>4, <2>1, <2>2, <2>3 DEF QueryRead
<1>5. CASE WatchRead(w)
  <2>1. PICK o \in {"failed", "completed"} : Concludes(w, job[w], o)
    BY <1>5 DEF WatchRead
  <2>2. job[w] \in JobType
    BY DEF RunTyped
  <2>. QED
    BY <1>1, <2>1, <2>2, DecidedConcludes
<1>. QED
  BY <1>3, <1>4, <1>5 DEF StreamOver

LEMMA DecidedLook ==
    ASSUME RunTyped, Decided, NEW w \in Worker, Look(w)
    PROVE  Decided'
<1>. DEFINE g == job[w]
<1>1. g \in JobType /\ "waiting_input" \in Report /\ "failed" \in Report /\ "completed" \in Report
  BY DEF RunTyped, Report
<1>2. CASE \E o \in Report : Concludes(w, g, o)
  BY <1>1, <1>2, DecidedConcludes
<1>3. ASSUME NEW c \in BOOLEAN, NEW o \in Report, Concludes(w, [g EXCEPT !.cut = c], o)
      PROVE  Decided'
  <2>1. [g EXCEPT !.cut = c] \in JobType
    <3>. HIDE DEF g
    <3>. QED
      BY <1>1 DEF JobType
  <2>. QED
    BY <1>3, <2>1, DecidedConcludes
<1>4. CASE Opens(w, NoCheckpoint, TRUE) /\ job' = [job EXCEPT ![w].looks = 1]
  <2>1. job' = [job EXCEPT ![w] = [g EXCEPT !.looks = 1]] /\ WorkerAt(w, "read")
    BY <1>4 DEF Opens
  <2>2. [g EXCEPT !.looks = 1] \in JobType
    <3>. HIDE DEF g
    <3>. QED
      BY <1>1 DEF JobType
  <2>. QED
    BY <2>1, <2>2, DecidedOn
<1>. QED
  BY <1>1, <1>2, <1>3, <1>4, (server = "RUNNING") \in BOOLEAN DEF Look

\* No step writes a report of a run that has no result.
LEMMA DecidedNext == SInv /\ RunTyped /\ (\A w \in Worker : Paired(w)) /\ Decided /\ [Next]_vars => Decided'
<1>. SUFFICES ASSUME SInv, RunTyped, \A w \in Worker : Paired(w), Decided, [Next]_vars PROVE Decided'
  OBVIOUS
<1>1. CASE UNCHANGED <<worker, job>>
  BY <1>1, DecidedSame
<1>2. CASE \E w \in Worker : Begin(w) \/ Popen(w)
  <2>1. PICK w \in Worker : Begin(w) \/ Popen(w)
    BY <1>2
  <2>2. CASE Begin(w)
    <3>1. worker' = worker /\ worker[w] = "none" /\ \A v \in Worker \ {w} : job'[v] = job[v]
      BY <2>2 DEF Begin, Paired, RunTyped
    <3>. QED
      BY <3>1, DecidedPut
  <2>3. CASE Popen(w)
    BY <2>3, DecidedAt DEF Popen, WorkerPlace
  <2>. QED
    BY <2>1, <2>2, <2>3
<1>3. CASE \E w \in Worker : Acquire(w) \/ ReleaseLock(w) \/ Exit(w)
  <2>1. PICK w \in Worker, p \in {"write", "connect", "unlink", "exit", "gone"} : WorkerAt(w, p) /\ UNCHANGED job
    BY <1>3 DEF Acquire, ReleaseLock, Exit
  <2>. QED
    BY <2>1, DecidedAt DEF WorkerPlace
<1>4. CASE \E w \in Worker : ConnectSession(w) \/ SendQuery(w)
  <2>1. PICK w \in Worker : ConnectSession(w) \/ SendQuery(w)
    BY <1>4
  <2>2. "failed" \in Report /\ job[w] \in JobType /\ 0 \in 0..MaxRetries
    BY Bounds DEF Report, RunTyped
  <2>3. CASE Concludes(w, job[w], "failed")
    BY <2>2, <2>3, DecidedConcludes
  <2>4. CASE \E p \in {"send", "read"} : WorkerAt(w, p) /\ UNCHANGED job
    BY <2>4, DecidedOn
  <2>5. CASE SendOnce(w)
    <3>1. WorkerAt(w, "read") /\ job' = [job EXCEPT ![w] = [job[w] EXCEPT !.tries = 0]]
      BY <2>5 DEF SendOnce, Opens
    <3>. QED
      BY <2>2, <3>1, TriesPut, DecidedOn
  <2>6. CASE SendRetry(w)
    <3>1. worker[w] = "send" /\ worker' = worker /\ \A v \in Worker \ {w} : job'[v] = job[v]
      BY <2>6 DEF SendRetry, RunTyped
    <3>. QED
      BY <3>1, DecidedPut
  <2>. QED
    BY <2>1, <2>3, <2>4, <2>5, <2>6 DEF ConnectSession, SendQuery, SendFailed, Opens
<1>5. CASE \E w \in Worker : StreamOver(w) \/ Look(w)
  BY <1>5, DecidedRead, DecidedLook
<1>6. CASE \E w \in Worker : WriteReport(w)
  <2>1. PICK w \in Worker, p \in {"result", "release"} :
          worker[w] \in {"status", "result"} /\ WorkerAt(w, p) /\ UNCHANGED job
    BY <1>6 DEF WriteReport
  <2>2. job[w].outcome \in Report
    BY <2>1 DEF Decided
  <2>. QED
    BY <2>1, <2>2, DecidedAt DEF WorkerPlace
<1>7. CASE \E w \in Worker : Kill(w)
  <2>1. PICK w \in Worker : \/ UNCHANGED <<worker, job>>
                            \/ WorkerAt(w, "killed") /\ \A v \in Worker \ {w} : job'[v] = job[v]
    BY <1>7 DEF Kill, RunTyped
  <2>. QED
    BY <2>1, DecidedSame, DecidedAt DEF WorkerPlace
<1>8. CASE \E w \in Worker : CheckLock(w) \/ CheckUnlink(w) \/ Announce(w) \/ ParentLock(w) \/ ReadStream(w)
  BY <1>1, <1>8 DEF CheckLock, CheckUnlink, Announce, ParentLock, ReadStream
<1>. QED
  BY <1>1, <1>2, <1>3, <1>4, <1>5, <1>6, <1>7, <1>8 DEF Next, vars, ServerStep, Launch, Work

LEMMA WriteReportStep == ASSUME IInv, Decided, NEW w \in Worker, WriteReport(w) PROVE IInv'
<1>1. /\ worker[w] \in {"status", "result"} /\ worker[w] \in Holding
      /\ UNCHANGED <<streamVars, parent, job, lock, opened, histVars>>
  BY DEF WriteReport, Holding
<1>2. job[w].outcome \in Report
  BY <1>1 DEF Decided
<1>3. PICK p \in {"result", "release"} :
        /\ WorkerAt(w, p)
        /\ p = "result" => worker[w] = "status" /\ status' = job[w].outcome /\ result' = result
        /\ p = "release" => worker[w] = "result" /\ result' = job[w].outcome /\ status' = status
  BY DEF WriteReport
<1>4. /\ worker' \in [Worker -> WorkerPlace] /\ worker'[w] = p /\ worker'[w] \in Holding
      /\ \A v \in Worker \ {w} : worker'[v] = worker[v]
  BY <1>3, WorkerPut DEF IInv, WorkerPlace, Holding
<1>5. RunTyped' /\ SInv' /\ Others(w) /\ FilesTyped'
  BY <1>1, <1>2, <1>3, <1>4
     DEF IInv, RunTyped, FilesTyped, Others, SInv, StreamTyped, AskedLast, streamVars, histVars
<1>6. server # "none" /\ server' = server
  BY <1>1, Runs DEF Running, streamVars
<1>7. ASSUME Orderly(w)
      PROVE  Reported(w)' /\ Heeds(w)'
  <2>1. Reported(w)'
    BY <1>1, <1>3, <1>4, <1>7 DEF Orderly, Reported, histVars
  <2>2. Heeds(w)'
    BY <1>4 DEF Heeds
  <2>. QED
    BY <2>1, <2>2
<1>. QED
  BY <1>1, <1>4, <1>5, <1>6, <1>7, WorkStep DEF histVars

LEMMA ReleaseLockStep == ASSUME IInv, NEW w \in Worker, ReleaseLock(w) PROVE IInv'
<1>1. /\ worker[w] \in {"release", "unlink"} /\ worker[w] \in Running
      /\ UNCHANGED <<streamVars, parent, job, status, result, histVars>>
  BY DEF ReleaseLock, Running, Holding
<1>2. PICK p \in {"unlink", "exit"} :
        /\ WorkerAt(w, p)
        /\ p = "unlink" => UNCHANGED lock
        /\ UNCHANGED opened /\ lock' \in {lock, none}
  BY DEF ReleaseLock, Remove
<1>3. /\ worker' \in [Worker -> WorkerPlace] /\ worker'[w] = p
      /\ \A v \in Worker \ {w} : worker'[v] = worker[v]
  BY <1>2, WorkerPut DEF IInv, WorkerPlace
<1>4. RunTyped' /\ SInv' /\ Others(w) /\ FilesTyped'
  BY <1>1, <1>2, <1>3
     DEF IInv, RunTyped, FilesTyped, Others, SInv, StreamTyped, AskedLast, streamVars, histVars
<1>5. Active(w) /\ server # "none" /\ parent[w] \notin {"idle", "check", "unlink", "announce", "popen", "refused"}
  BY <1>1, Runs
<1>6. ASSUME Orderly(w)
      PROVE  latest = w /\ Orderly(w)'
  <2>1. latest = w
    BY <1>1, <1>6 DEF Orderly, Last
  <2>2. LockOf(w)' /\ Last(w)'
    BY <1>1, <1>2, <1>3, <1>6, <2>1 DEF Orderly, LockOf, Names, Last, Running, Holding, histVars
  <2>3. Reported(w)' /\ Heeds(w)'
    BY <1>1, <1>3, <1>6 DEF Orderly, Reported, Heeds, histVars
  <2>. QED
    BY <2>1, <2>2, <2>3 DEF Orderly
<1>7. RInv'
  BY <1>1, <1>3, <1>4, <1>5, <1>6, ActiveStep DEF Paired, streamVars, histVars
<1>. QED
  BY <1>4, <1>7 DEF IInv

LEMMA ExitStep == ASSUME IInv, NEW w \in Worker, Exit(w) PROVE IInv'
<1>1. worker[w] = "exit" /\ WorkerAt(w, "gone") /\ UNCHANGED <<streamVars, parent, job, dirVars, histVars>>
  BY DEF Exit
<1>2. /\ worker' \in [Worker -> WorkerPlace] /\ worker'[w] = "gone"
      /\ \A v \in Worker \ {w} : worker'[v] = worker[v]
  BY <1>1, WorkerPut DEF IInv, WorkerPlace
<1>3. RunTyped' /\ SInv' /\ Others(w) /\ FilesTyped' /\ Elsewhere(w)
  BY <1>1, <1>2
     DEF IInv, RunTyped, FilesTyped, Others, Elsewhere, SInv, StreamTyped, AskedLast, streamVars, dirVars, histVars
<1>4. parent[w] \notin {"idle", "check", "unlink", "announce", "popen", "refused"}
  BY <1>1 DEF IInv, RInv, Paired
<1>5. Active(w)' => Active(w)
  BY <1>1, <1>2 DEF Active, InLaunch, Launching, Alive, Running, Holding
<1>6. ASSUME Orderly(w)
      PROVE  Orderly(w)'
  <2>1. LockOf(w)' /\ Last(w)'
    BY <1>1, <1>2, <1>6 DEF Orderly, LockOf, Last, Running, Holding, histVars
  <2>2. Reported(w)' /\ Heeds(w)'
    BY <1>1, <1>2, <1>6 DEF Orderly, Reported, Heeds, dirVars, histVars
  <2>. QED
    BY <2>1, <2>2 DEF Orderly
<1>7. RInv'
  BY <1>1, <1>3, <1>4, <1>5, <1>6, QuietStep DEF Paired, streamVars, dirVars, histVars
<1>. QED
  BY <1>3, <1>7 DEF IInv

LEMMA KillWorkerStep ==
    ASSUME IInv, NEW w \in Worker, Alive(w), WorkerAt(w, "killed"),
           stream' = [stream EXCEPT ![w] = NoStream], job' = [job EXCEPT ![w] = NoJob],
           opened' = [opened EXCEPT ![<<"worker", w>>] = none],
           kills' \in 0..MaxKills, UNCHANGED <<parent, server, log, turn, drops, lock, status, result, latest, raced>>
    PROVE  IInv'
<1>1. /\ worker' \in [Worker -> WorkerPlace] /\ worker'[w] = "killed"
      /\ \A v \in Worker \ {w} : worker'[v] = worker[v]
  BY WorkerPut DEF IInv, WorkerPlace
<1>2. job' \in [Worker -> JobType] /\ \A v \in Worker \ {w} : job'[v] = job[v]
  BY NoJobTyped, JobPut DEF IInv
<1>3. stream' \in [Worker -> StreamType] /\ \A v \in Worker : Good(stream'[v], log')
  BY NoStreamGood, StreamPut DEF IInv, SInv, StreamTyped
<1>4. \A v \in Worker \ {w} : stream'[v] = stream[v]
  BY DEF IInv, SInv, StreamTyped
<1>5. opened' \in [Writer -> Writer \cup {none}] /\ \A x \in Writer \ {<<"worker", w>>} : opened'[x] = opened[x]
  BY DEF IInv, FilesTyped
<1>6. SInv' /\ RunTyped' /\ FilesTyped'
  BY <1>1, <1>2, <1>3, <1>5 DEF IInv, SInv, StreamTyped, AskedLast, RunTyped, FilesTyped
<1>7. Others(w) /\ Elsewhere(w)
  BY <1>1, <1>2, <1>4, <1>5, Writers DEF Others, Elsewhere, Writer
<1>8. Paired(w)' /\ (parent'[w] # "idle" => parent[w] # "idle")
  BY <1>1 DEF IInv, RInv, Paired, Alive
<1>9. Active(w)' => Active(w)
  BY <1>1 DEF Active, InLaunch, Launching, Alive, Running, Holding
<1>10. Orderly(w) => Orderly(w)'
  BY <1>1 DEF Orderly, LockOf, Last, Reported, Heeds, Running, Holding
<1>11. RInv'
  BY <1>7, <1>8, <1>9, <1>10, QuietStep
<1>. QED
  BY <1>6, <1>11 DEF IInv

LEMMA KillParentStep ==
    ASSUME IInv, NEW w \in Worker, Launching(w) \/ parent[w] = "check", NEW p \in {"torn", "killed"},
           p = "torn" <=> parent[w] = "write", ParentAt(w, p),
           opened' = [opened EXCEPT ![<<"parent", w>>] = none],
           kills' \in 0..MaxKills,
           UNCHANGED <<worker, stream, job, server, log, turn, drops, lock, status, result, latest, raced>>
    PROVE  IInv'
<1>1. /\ parent' \in [Worker -> ParentPlace] /\ parent'[w] = p
      /\ \A v \in Worker \ {w} : parent'[v] = parent[v]
  BY ParentPut DEF IInv, ParentPlace
<1>2. opened' \in [Writer -> Writer \cup {none}] /\ \A x \in Writer \ {<<"parent", w>>} : opened'[x] = opened[x]
  BY DEF IInv, FilesTyped
<1>3. SInv' /\ RunTyped' /\ FilesTyped'
  BY <1>1, <1>2 DEF IInv, SInv, StreamTyped, AskedLast, RunTyped, FilesTyped
<1>4. Others(w) /\ Elsewhere(w) /\ opened'[<<"worker", w>>] = opened[<<"worker", w>>]
  BY <1>1, <1>2, Writers DEF Others, Elsewhere, Writer
<1>5. Paired(w)' /\ parent[w] # "idle"
  BY <1>1 DEF Paired, Launching
<1>6. Active(w)' => Active(w)
  BY <1>1 DEF IInv, RInv, Paired, Active, InLaunch, Launching, Alive, Running, Holding
<1>7. ASSUME Orderly(w)
      PROVE  Orderly(w)'
  <2>1. LockOf(w)'
    BY <1>1, <1>4, <1>7 DEF Orderly, LockOf, Names, Launching
  <2>2. Last(w)' /\ Reported(w)' /\ Heeds(w)'
    BY <1>1, <1>7 DEF Orderly, Last, Reported, Heeds
  <2>. QED
    BY <2>1, <2>2 DEF Orderly
<1>8. RInv'
  BY <1>4, <1>5, <1>6, <1>7, QuietStep
<1>. QED
  BY <1>3, <1>8 DEF IInv

LEMMA KillStep == ASSUME IInv, NEW w \in Worker, Kill(w) PROVE IInv'
<1>1. kills' \in 0..MaxKills
  BY WorkerAssumption DEF Kill, IInv, FilesTyped
<1>. QED
  BY <1>1, KillWorkerStep, KillParentStep DEF Kill

-----------------------------------------------------------------------------
(* The steps of the server and of the streams.                             *)

LEMMA EmitStep == ASSUME IInv, ServerStep PROVE IInv'
<1>1. /\ Emit /\ server = "RUNNING" /\ UNCHANGED <<turn, stream, drops>>
      /\ UNCHANGED <<parent, worker, job, dirVars, histVars>>
  BY DEF ServerStep, Emit
<1>2. SInv' /\ RunTyped' /\ FilesTyped'
  BY <1>1, EmitStreams DEF IInv, RunTyped, FilesTyped, dirVars, histVars
<1>3. server' # "none"
  BY <1>1 DEF Emit, Ask
<1>4. ASSUME NEW w \in Worker, Orderly(w)
      PROVE  Orderly(w)'
  <2>1. LockOf(w)' /\ Last(w)' /\ Reported(w)'
    BY <1>1, <1>4 DEF Orderly, LockOf, Names, Last, Reported, dirVars, histVars
  <2>2. Heeds(w)'
    BY <1>1, <1>4 DEF Orderly, Heeds
  <2>. QED
    BY <2>1, <2>2 DEF Orderly
<1>5. \A w \in Worker : Paired(w)' /\ (Active(w)' <=> Active(w))
  BY <1>1 DEF IInv, RInv, Paired, Active, InLaunch, Launching, Alive
<1>6. RInv'
  BY <1>1, <1>3, <1>4, <1>5 DEF IInv, RInv, Spoken, Exclusive, histVars
<1>. QED
  BY <1>2, <1>6 DEF IInv

LEMMA ReadStreamStep == ASSUME IInv, NEW w \in Worker, ReadStream(w) PROVE IInv'
<1>1. Streams(w) /\ UNCHANGED <<parent, worker, job, dirVars, histVars>>
  BY DEF ReadStream, Streams
<1>2. /\ SInv' /\ UNCHANGED <<server, log, turn>>
      /\ \A v \in Worker \ {w} : stream'[v] = stream[v]
      /\ stream'[w].attach = stream[w].attach
  BY <1>1, StreamSteps DEF IInv
<1>3. RunTyped' /\ FilesTyped' /\ Others(w) /\ Elsewhere(w)
  BY <1>1, <1>2 DEF IInv, RunTyped, FilesTyped, Others, Elsewhere, dirVars, histVars
<1>4. Paired(w)' /\ (Active(w)' => Active(w))
  BY <1>1 DEF IInv, RInv, Paired, Active, InLaunch, Launching, Alive
<1>5. ASSUME Orderly(w)
      PROVE  Orderly(w)'
  <2>1. LockOf(w)' /\ Last(w)' /\ Reported(w)'
    BY <1>1, <1>5 DEF Orderly, LockOf, Names, Last, Reported, dirVars, histVars
  <2>2. Heeds(w)'
    BY <1>1, <1>2, <1>5 DEF Orderly, Heeds
  <2>. QED
    BY <2>1, <2>2 DEF Orderly
<1>6. RInv'
  BY <1>1, <1>2, <1>3, <1>4, <1>5, QuietStep DEF dirVars, histVars
<1>. QED
  BY <1>2, <1>3, <1>6 DEF IInv

-----------------------------------------------------------------------------
(* The theorems.                                                           *)

LEMMA NextIInv == IInv /\ Decided /\ [Next]_vars => IInv' /\ Decided'
<1>. SUFFICES ASSUME IInv, Decided, [Next]_vars PROVE IInv'
  BY DecidedNext DEF IInv, RInv
<1>1. CASE UNCHANGED vars
  <2>1. SInv' /\ RunTyped' /\ FilesTyped'
    BY <1>1 DEF IInv, SInv, StreamTyped, AskedLast, RunTyped, FilesTyped, vars, streamVars, dirVars, histVars
  <2>2. \A w \in Worker : Paired(w)' /\ (Active(w)' <=> Active(w))
    BY <1>1 DEF IInv, RInv, Paired, Active, InLaunch, Launching, Alive, vars
  <2>. USE <1>1 DEF vars, streamVars, dirVars, histVars
  <2>3. \A w \in Worker : (LockOf(w) => LockOf(w)') /\ (Last(w) => Last(w)')
    BY DEF LockOf, Names, Last
  <2>4. \A w \in Worker : (Reported(w) => Reported(w)') /\ (Heeds(w) => Heeds(w)')
    BY DEF Reported, Heeds
  <2>5. RInv'
    BY <2>2, <2>3, <2>4 DEF IInv, RInv, Spoken, Exclusive, Orderly
  <2>. QED
    BY <2>1, <2>5 DEF IInv
<1>2. CASE ServerStep
  BY <1>2, EmitStep
<1>3. ASSUME NEW w \in Worker, Begin(w)
      PROVE  IInv'
  BY <1>3, BeginStep
<1>4. ASSUME NEW w \in Worker, Launch(w)
      PROVE  IInv'
  BY <1>4, CheckLockStep, CheckUnlinkStep, AnnounceStep, PopenStep, ParentLockStep DEF Launch
<1>5. ASSUME NEW w \in Worker, Work(w)
      PROVE  IInv'
  BY <1>5, AcquireStep, ConnectSessionStep, SendQueryStep, StreamOverStep, LookStep, WriteReportStep,
     ReleaseLockStep, ExitStep DEF Work
<1>6. ASSUME NEW w \in Worker, ReadStream(w)
      PROVE  IInv'
  BY <1>6, ReadStreamStep
<1>7. ASSUME NEW w \in Worker, Kill(w)
      PROVE  IInv'
  BY <1>7, KillStep
<1>. QED
  BY <1>1, <1>2, <1>3, <1>4, <1>5, <1>6, <1>7 DEF Next

\* In every behaviour the streams are where their connections have brought them, the lock
\* file is held by one run at a time unless a launch was raced, and a run has the result it
\* is about to report (worker_lock.py, async_executor.py and stream_chat_content).
THEOREM Invariance == Spec => [](IInv /\ Decided)
<1>1. Init => IInv /\ Decided
  BY InitIInv DEF Init, Decided
<1>. QED
  BY <1>1, NextIInv, PTL DEF Spec

\* The variables have their types, whatever the runs, the bounds and the kinds of jobs.
THEOREM TypeCorrect == Spec => []TypeOK
<1>1. IInv => TypeOK
  BY TypeParts DEF IInv, SInv
<1>. QED
  BY <1>1, Invariance, PTL

\* A stream handles each numbered event at most once and skips none its connections were to
\* deliver, for any number of retries and drops: the checkpoint it resumes from is that of
\* the last event handled (stream_chat_content).
THEOREM EventsAreDeliveredOnce == Spec => []ExactlyOnce
<1>1. IInv => ExactlyOnce
  <2>. SUFFICES ASSUME IInv, NEW w \in Worker
                PROVE  /\ ~stream[w].twice
                       /\ \A j \in 1..stream[w].pos : Numbered(j) /\ j \notin stream[w].seen =>
                             \/ j <= stream[w].from
                             \/ /\ stream[w].from = NoCheckpoint
                                /\ \A k \in {i \in stream[w].seen : Numbered(i)} : j < k
    BY DEF ExactlyOnce
  <2>1. Good(stream[w], log)
    BY DEF IInv, SInv
  <2>. QED
    BY <2>1 DEF Good, Numbered
<1>. QED
  BY <1>1, Invariance, PTL

\* Two workers of a session never work at the same time unless a lock was checked in the
\* middle of another launch: for any number of runs and of processes killed (worker_lock.py).
THEOREM OneRunWorks == Spec => []OneRunUnlessRaced
<1>1. IInv => OneRunUnlessRaced
  <2>. SUFFICES ASSUME IInv, ~raced, NEW v \in Worker, NEW w \in Worker, Busy(v), Busy(w)
                PROVE  v = w
    BY DEF OneRunUnlessRaced
  <2>1. Active(v) /\ Active(w)
    BY DEF IInv, RunTyped, WorkerPlace, Busy, Alive, Active, Running, Holding
  <2>. QED
    BY <2>1 DEF IInv, RInv, Exclusive
<1>. QED
  BY <1>1, Invariance, PTL

\* What the last run has reported stands in both files once its worker has released the
\* lock: no command and no earlier run overwrites it (handle_worker_completion).
THEOREM ReportsStand == Spec => []ReportStands
<1>1. IInv => ReportStands
  BY DEF IInv, RInv, Orderly, Reported, ReportStands
<1>. QED
  BY <1>1, Invariance, PTL

\* An ask the server waits on stops a run that has learnt what its last turn came to, from a
\* stream that has shown all of it or from a look at a session that does not run: it makes
\* no first attempt at a further query of its batch, and does not report that it is completed.
THEOREM AsksStopRuns == Spec => []AskStopsRun
<1>1. IInv => AskStopsRun
  BY DEF IInv, RInv, Orderly, Heeds, AskStopsRun
<1>. QED
  BY <1>1, Invariance, PTL

=============================================================================
