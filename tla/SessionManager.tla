--------------------------- MODULE SessionManager ---------------------------
(***************************************************************************)
(* The manager of one analysis session (server/internal/session/manager.go *)
(* and housekeeping.go): the tool calls that create, watch, answer, stop   *)
(* and wait for it, the restoration at start, the housekeeping, and the    *)
(* shutdown, with the watcher goroutines they start and join.              *)
(*                                                                         *)
(* The lock of the session is modelled as the code builds it: an object in *)
(* a map, counted by holders and waiters and deleted with the last one.    *)
(* An operation between two locks, a remote call or a join is a point      *)
(* where the others run.                                                   *)
(*                                                                         *)
(* A watcher is named by the order in which it was made; several may exist *)
(* for the session, one after another.  Of the session's record this module*)
(* keeps what the manager looks at; how events and replies change it is    *)
(* the subject of SessionWatcher.                                          *)
(***************************************************************************)
EXTENDS Integers, FiniteSets

CONSTANTS
    Caller,           \* concurrent tool calls
    boot, hk,         \* the goroutine that restores, the housekeeping
    Object,           \* the lock objects that can exist at once
    none,
    Kinds,            \* the tool calls of this instance
    MaxWatchers,      \* bound: how many watchers are ever made
    MaxAccepted,      \* bound: how many messages the remote takes
    MaxOps            \* bound: how many operations are ever begun

Actor == Caller \cup {boot, hk}

ASSUME ManagerAssumption ==
    /\ boot # hk /\ {boot, hk, none} \cap Caller = {} /\ none \notin {boot, hk} \cup Object
    /\ "run" \notin Actor \cup {none}     \* who may hold opmu
    /\ IsFiniteSet(Caller) /\ IsFiniteSet(Object)
    /\ Cardinality(Object) >= Cardinality(Actor)
    /\ Kinds \subseteq {"create", "watch", "send", "stop", "wait"}
    /\ {MaxWatchers, MaxAccepted, MaxOps} \subseteq Nat

VARIABLES
    closed, rootOpen, work,            \* closed and ctx, store.root, work
    slot, refs, holder,                \* operations[id], and the lock objects
    entry, made,                       \* watchers[id]; how many were made
    st, run, exited, cancelled, opmu,  \* the watchers
    disk,                              \* the snapshot
    act, woken,                        \* the operations
    remote, turns, inbox,              \* the remote service
    clean, sentSince, followUp, ops    \* history, and the spent budget

lifeVars    == <<closed, rootOpen, work>>
lockVars    == <<slot, refs, holder>>
watcherVars == <<made, st, run, exited, cancelled, opmu>>
remoteVars  == <<remote, turns, inbox>>
ghostVars   == <<clean, sentSince, followUp, ops>>
vars == <<lifeVars, lockVars, entry, watcherVars, disk, act, woken, remoteVars, ghostVars>>

Watcher  == 1..MaxWatchers
Terminal == {"completed", "error", "canceled"}

\* waiting_input for an open ask, for a report on offer, because a delivery is in
\* doubt, or because the remote says so and nothing is known of the reason.
Waiting == {"waiting", "report", "doubt", "coarse"}
Status  == Terminal \cup Waiting \cup {"running"}

Record     == [status : Status \cup {"absent"}, awaiting : BOOLEAN, sending : BOOLEAN, turn : Nat]
NoSnapshot == [status |-> "absent", awaiting |-> FALSE, sending |-> FALSE, turn |-> 0]
NewRecord  == [NoSnapshot EXCEPT !.status = "running"]

\* stateFromSnapshot: a send under way is in doubt.
Restored(s) == IF s.sending THEN [s EXCEPT !.status = "doubt", !.sending = FALSE] ELSE s

PC == {"idle", "queue", "locked", "opmu", "join", "revive", "wire", "release", "creating", "stopping",
       "describe", "ending", "removing", "grab", "read", "select", "sleep"}

Idle == [kind |-> "none", pc |-> "idle", obj |-> none, w |-> 0]

\* Every variable keeps its type; the counts of work and of references never
\* fall below zero.
TypeOK ==
    /\ closed \in BOOLEAN /\ rootOpen \in BOOLEAN /\ work \in Nat
    /\ slot \in Object \cup {none} /\ refs \in [Object -> Nat]
    /\ holder \in [Object -> Actor \cup {none}]
    /\ entry \in Watcher \cup {0} /\ made \in 0..MaxWatchers
    /\ st \in [Watcher -> Record] /\ run \in [Watcher -> {"new", "live", "done"}]
    /\ exited \in [Watcher -> BOOLEAN] /\ cancelled \in [Watcher -> BOOLEAN]
    /\ opmu \in [Watcher -> Actor \cup {none, "run"}]
    /\ disk \in Record
    /\ act \in [Actor -> [kind : Kinds \cup {"none", "restore", "reconcile", "remove"}, pc : PC,
                          obj : Object \cup {none}, w : Watcher \cup {0}]]
    /\ woken \in [Caller -> BOOLEAN]
    /\ remote \in {"working", "asked", "ended", "offered"} /\ turns \in Nat /\ inbox \in Nat
    /\ clean \in BOOLEAN /\ sentSince \in BOOLEAN /\ followUp \in BOOLEAN /\ ops \in Nat

Init ==
    /\ closed = FALSE /\ rootOpen = TRUE /\ work = 1
    /\ slot = none /\ refs = [o \in Object |-> 0] /\ holder = [o \in Object |-> none]
    /\ entry = 0 /\ made = 0
    /\ st = [w \in Watcher |-> NewRecord] /\ run = [w \in Watcher |-> "new"]
    /\ exited = [w \in Watcher |-> FALSE] /\ cancelled = exited
    /\ opmu = [w \in Watcher |-> none]
    \* a server that never saw the session, or one that kept it
    /\ disk \in {NoSnapshot, NewRecord, [NewRecord EXCEPT !.status = "completed"]}
    \* RestoreSessions begins when the manager has been made
    /\ act = [[a \in Actor |-> Idle] EXCEPT ![boot] = [Idle EXCEPT !.kind = "restore", !.pc = "queue"]]
    /\ woken = [c \in Caller |-> FALSE]
    /\ remote \in {"working", "ended"} /\ turns = 0 /\ inbox = 0
    /\ clean = FALSE /\ sentSince = FALSE /\ followUp = FALSE /\ ops = 0

\* GetStatus and the other readers: the watcher's record, or the snapshot.
Visible == IF entry # 0 THEN st[entry] ELSE disk

\* resultReason # "".
HasResult(s) == s.status \notin {"running", "coarse", "absent"}

Goto(a, pc) == act' = [act EXCEPT ![a].pc = pc]

\* Mutant: the channel is taken after the record has been read.
NotifySleepers(w) ==
    woken' = [c \in Caller |-> woken[c] \/ (act[c].kind = "wait" /\ act[c].w = w /\ act[c].pc = "sleep")]

\* notify: whoever has taken the channel of w since the last call wakes up.
Notify(w) ==
    woken' = [c \in Caller |-> woken[c] \/ (act[c].kind = "wait" /\ act[c].w = w
                                            /\ act[c].pc \in {"read", "select", "sleep"})]

\* The record of w changes: UpdatedAt moves.
Touch(w) == clean' = (clean /\ act[hk].w # w)

-----------------------------------------------------------------------------
(* The life of an operation, and the lock of the session.                  *)

\* Mutant: an operation may begin after the shutdown has.
BeginLate(a, kind, pc, w) ==
    /\ act[a].pc = "idle" /\ ops < MaxOps
    /\ act' = [act EXCEPT ![a] = [kind |-> kind, pc |-> pc, obj |-> none, w |-> w]]
    /\ work' = work + 1 /\ ops' = ops + 1

\* begin, as the first thing an operation does.
Begin(a, kind, pc, w) ==
    /\ act[a].pc = "idle" /\ ~closed /\ ops < MaxOps
    /\ act' = [act EXCEPT ![a] = [kind |-> kind, pc |-> pc, obj |-> none, w |-> w]]
    /\ work' = work + 1 /\ ops' = ops + 1

CallBegins(c) ==
    /\ \E kind \in Kinds \ {"wait"} : Begin(c, kind, "queue", 0)
    /\ UNCHANGED <<closed, rootOpen, lockVars, entry, watcherVars, disk, woken, remoteVars,
                   clean, sentSince, followUp>>

\* lockSessionOperation finds the object of the session or makes one, and pins it ...
Pin(a) ==
    /\ act[a].pc = "queue" /\ act[a].obj = none
    /\ \E o \in Object :
         /\ IF slot # none THEN o = slot ELSE refs[o] = 0
         /\ slot' = o
         /\ refs' = [refs EXCEPT ![o] = @ + 1]
         /\ act' = [act EXCEPT ![a].obj = o]
    /\ UNCHANGED <<lifeVars, holder, entry, watcherVars, disk, woken, remoteVars, ghostVars>>

\* ... and then waits for it.
Acquire(a) ==
    /\ act[a].pc = "queue" /\ act[a].obj # none /\ holder[act[a].obj] = none
    /\ holder' = [holder EXCEPT ![act[a].obj] = a]
    /\ Goto(a, "locked")
    /\ UNCHANGED <<lifeVars, slot, refs, entry, watcherVars, disk, woken, remoteVars, ghostVars>>

\* Mutant: the lock is forgotten by whoever is done with it.
ReleaseForgets(a) ==
    IF act[a].obj = none THEN UNCHANGED lockVars
    ELSE /\ holder' = [holder EXCEPT ![act[a].obj] = none]
         /\ refs' = [refs EXCEPT ![act[a].obj] = @ - 1]
         /\ slot' = none

\* The unlock function: the last holder or waiter deletes the object.
Release(a) ==
    IF act[a].obj = none THEN UNCHANGED lockVars
    ELSE /\ holder' = [holder EXCEPT ![act[a].obj] = none]
         /\ refs' = [refs EXCEPT ![act[a].obj] = @ - 1]
         /\ slot' = IF refs[act[a].obj] = 1 THEN none ELSE slot

\* The operation returns; started is 1 when it has started a watcher.
Return(a, started) ==
    /\ Release(a)
    /\ act' = [act EXCEPT ![a] = Idle]
    /\ work' = work - 1 + started
    /\ UNCHANGED <<closed, rootOpen>>

\* Mutant: a watcher is not counted as work.
StartUncounted(a, w) ==
    IF closed THEN Return(a, 0) /\ UNCHANGED <<entry, run>>
    ELSE /\ entry' = w /\ run' = [run EXCEPT ![w] = "live"]
         /\ Return(a, 0)

\* startWatcher, in an operation that returns with it.
StartAndReturn(a, w) ==
    IF closed THEN Return(a, 0) /\ UNCHANGED <<entry, run>>
    ELSE /\ entry' = w /\ run' = [run EXCEPT ![w] = "live"]
         /\ Return(a, 1)

\* A watcher is made for record s.
Make(s) ==
    /\ made < MaxWatchers /\ made' = made + 1
    /\ st' = [st EXCEPT ![made + 1] = s]

\* The request is cancelled, the remote cannot be asked, or what was asked for
\* is refused: the operation returns without effect.
Abandon(a) ==
    /\ act[a].pc = "locked" /\ act[a].kind \in {"create", "watch", "send", "restore"}
    /\ Return(a, 0)
    /\ UNCHANGED <<entry, watcherVars, disk, woken, remoteVars, ghostVars>>

-----------------------------------------------------------------------------
(* CreateSession, WatchSession and RestoreSessions.                        *)

\* The intent of the first message is on disk before it is sent; a session that
\* is known already is refused.
Create(c) ==
    /\ act[c].pc = "locked" /\ act[c].kind = "create" /\ ~closed
    /\ disk = NoSnapshot
    /\ disk' = [NewRecord EXCEPT !.sending = TRUE]
    /\ Goto(c, "creating")
    /\ UNCHANGED <<lifeVars, lockVars, entry, watcherVars, woken, remoteVars, ghostVars>>

\* The message is taken, refused, or its delivery is in doubt; the write of the
\* outcome may fail.
CreateSent(c) ==
    /\ act[c].pc = "creating"
    /\ \/ \E status \in {"running", "doubt"} :
            LET s == [NewRecord EXCEPT !.status = status]
            IN  /\ \/ inbox + turns < MaxAccepted /\ inbox' = inbox + 1
                   \/ status = "doubt" /\ inbox' = inbox
                /\ Make(s) /\ StartAndReturn(c, made + 1)
                /\ disk' \in {disk, s}
       \/ /\ disk' \in {disk, NewRecord}
          /\ Return(c, 0) /\ UNCHANGED <<entry, run, made, st, inbox>>
    /\ UNCHANGED <<exited, cancelled, opmu, woken, remote, turns, ghostVars>>

\* What DescribeSession can say of the remote, and statusFromSessionInfo of that.
Info == CASE remote = "working"              -> {"RUNNING"}
          [] remote = "asked"                -> {"WAIT_INPUT", "IDLE"}
          [] remote \in {"ended", "offered"} -> {"IDLE", "FINISHED", "FAILED", "CANCELED"}

StatusOf(info) == CASE info = "RUNNING"              -> "running"
                    [] info = "WAIT_INPUT"           -> "coarse"
                    [] info \in {"IDLE", "FINISHED"} -> "completed"
                    [] info = "FAILED"               -> "error"
                    [] OTHER                         -> "canceled"

\* What WatchSession makes of the saved record: a coarse status cannot resolve
\* an ask that is open or a reply that is in doubt.
Merged(info) ==
    LET s == Restored(disk)
    IN  IF s = NoSnapshot THEN [NewRecord EXCEPT !.status = StatusOf(info)]
        ELSE IF s.status \in {"waiting", "report", "doubt"} /\ info \in {"RUNNING", "WAIT_INPUT", "IDLE"}
        THEN s
        ELSE [s EXCEPT !.status = StatusOf(info)]

Watch(c) ==
    /\ act[c].pc = "locked" /\ act[c].kind = "watch" /\ ~closed
    /\ IF entry # 0 THEN Return(c, 0) /\ UNCHANGED <<entry, run, made, st, disk>>
       ELSE \E info \in Info :
              LET s == Merged(info)
              IN  /\ disk' = s
                  /\ IF s.status \in Terminal
                     THEN Return(c, 0) /\ UNCHANGED <<entry, run, made, st>>
                     ELSE Make(s) /\ StartAndReturn(c, made + 1)
    /\ UNCHANGED <<exited, cancelled, opmu, woken, remoteVars, ghostVars>>

\* Mutant: restoration does not look whether the session is watched already.
RestoreAnyway ==
    /\ act[boot].pc = "locked" /\ ~closed
    /\ IF Restored(disk).status \in Terminal \cup {"absent"}
       THEN Return(boot, 0) /\ UNCHANGED <<entry, run, made, st>>
       ELSE Make(Restored(disk)) /\ StartAndReturn(boot, made + 1)
    /\ UNCHANGED <<exited, cancelled, opmu, disk, woken, remoteVars, ghostVars>>

Restore ==
    /\ act[boot].pc = "locked" /\ ~closed
    /\ IF entry # 0 \/ Restored(disk).status \in Terminal \cup {"absent"}
       THEN Return(boot, 0) /\ UNCHANGED <<entry, run, made, st>>
       ELSE Make(Restored(disk)) /\ StartAndReturn(boot, made + 1)
    /\ UNCHANGED <<exited, cancelled, opmu, disk, woken, remoteVars, ghostVars>>

-----------------------------------------------------------------------------
(* SendMessage.                                                            *)

\* A live watcher is asked to send.  One whose session has ended is cancelled,
\* joined and replaced.
Send(c) ==
    /\ act[c].pc = "locked" /\ act[c].kind = "send" /\ ~closed
    /\ IF entry = 0 THEN Goto(c, "revive") /\ UNCHANGED cancelled
       ELSE /\ act' = [act EXCEPT ![c].w = entry,
                                  ![c].pc = IF st[entry].status \in Terminal THEN "join" ELSE "opmu"]
            /\ cancelled' = IF st[entry].status \in Terminal
                            THEN [cancelled EXCEPT ![entry] = TRUE] ELSE cancelled
    /\ UNCHANGED <<lifeVars, lockVars, entry, made, st, run, exited, opmu, disk, woken, remoteVars, ghostVars>>

\* SetSendStatus(SendSending): a message to a session that has ended, or the
\* acceptance of a report, awaits a turn of its own; any other message to a
\* session that waits for no answer awaits none.
Sending(s) == [s EXCEPT !.sending = TRUE,
                        !.awaiting = IF s.status = "waiting" THEN @ ELSE s.status \in Terminal \cup {"report"}]

\* The intent is announced and written, under opMu of watcher w.  What is in
\* doubt is not sent again.
Intend(c, w, s) ==
    /\ s.status # "doubt"
    /\ opmu' = [opmu EXCEPT ![w] = c]
    /\ st' = [st EXCEPT ![w] = Sending(s)] /\ disk' = Sending(s)
    /\ followUp' = (followUp /\ Sending(s).awaiting)
    /\ act' = [act EXCEPT ![c].pc = "wire", ![c].w = w]
    /\ Touch(w)

\* A watcher that has exited is replaced.  The message may be refused, or the
\* intent not be written: the send has failed.
EnterOpMu(c) ==
    LET w == act[c].w
        s == st[w]
    IN  /\ act[c].pc = "opmu" /\ opmu[w] = none
        /\ \/ /\ exited[w]
              /\ cancelled' = [cancelled EXCEPT ![w] = TRUE]
              /\ Goto(c, "join")
              /\ UNCHANGED <<lifeVars, lockVars, st, opmu, disk, clean, followUp>>
           \/ /\ ~exited[w]
              /\ Return(c, 0)
              /\ \/ UNCHANGED <<st, clean, followUp>>
                 \/ /\ s.status # "doubt" /\ Touch(w)
                    /\ followUp' = (followUp /\ Sending(s).awaiting)
                    /\ st' = [st EXCEPT ![w] = [Sending(s) EXCEPT !.sending = FALSE]]
              /\ UNCHANGED <<cancelled, opmu, disk>>
           \/ /\ ~exited[w]
              /\ Intend(c, w, s)
              /\ UNCHANGED <<lifeVars, lockVars, cancelled>>
        /\ UNCHANGED <<entry, made, run, exited, woken, remoteVars, sentSince, ops>>

\* Mutant: the old watcher is forgotten before it has ended.
JoinEarly(c) ==
    /\ act[c].pc = "join"
    /\ entry' = 0
    /\ Goto(c, "revive")
    /\ UNCHANGED <<lifeVars, lockVars, watcherVars, disk, woken, remoteVars, ghostVars>>

\* cancelAndWait, then the entry is deleted.
Join(c) ==
    /\ act[c].pc = "join" /\ run[act[c].w] = "done"
    /\ entry' = 0
    /\ Goto(c, "revive")
    /\ UNCHANGED <<lifeVars, lockVars, watcherVars, disk, woken, remoteVars, ghostVars>>

\* A watcher that has something to observe although its send was not made.
Observes(s) == s.status \in {"running", "doubt"}

\* reviveAndSend with an unpublished watcher.
Revive(c) ==
    /\ act[c].pc = "revive"
    /\ \/ /\ disk = NoSnapshot
          /\ Return(c, 0)
          /\ UNCHANGED <<entry, run, made, st, opmu, disk, clean, followUp>>
       \/ /\ disk # NoSnapshot                \* refused, or the intent is not written
          /\ Make(Restored(disk))
          /\ IF Observes(Restored(disk)) THEN StartAndReturn(c, made + 1)
             ELSE Return(c, 0) /\ UNCHANGED <<entry, run>>
          /\ UNCHANGED <<opmu, disk, clean, followUp>>
       \/ /\ disk # NoSnapshot /\ made < MaxWatchers
          /\ made' = made + 1
          /\ Intend(c, made + 1, Restored(disk))
          /\ UNCHANGED <<lifeVars, lockVars, entry, run>>
    /\ UNCHANGED <<exited, cancelled, woken, remoteVars, sentSince, ops>>

\* The message is taken and acknowledged, refused, or its delivery is unknown.
\* The intent was announced before it left.
Wire(c) ==
    LET w == act[c].w
    IN  /\ act[c].pc = "wire"
        /\ \/ /\ inbox + turns < MaxAccepted
              /\ inbox' = inbox + 1
              /\ \E status \in {"running", "doubt"} :
                   st' = [st EXCEPT ![w].status = status, ![w].sending = FALSE]
              /\ sentSince' = TRUE
              /\ followUp' = (followUp \/ (/\ st[w].awaiting /\ remote \in {"ended", "offered"}
                                           /\ inbox = 0 /\ st[w].turn = turns))
           \/ /\ \E status \in {"doubt", st[w].status} :
                   st' = [st EXCEPT ![w].status = status, ![w].sending = FALSE]
              /\ UNCHANGED <<inbox, sentSince, followUp>>
        /\ Notify(w)
        /\ Touch(w)
        /\ Goto(c, "release")
        /\ UNCHANGED <<lifeVars, lockVars, entry, made, run, exited, cancelled, opmu, disk, remote, turns, ops>>

\* The outcome is announced and written down; a revived session is observed
\* unless it is certain that nothing was sent.
SendReturns(c) ==
    LET w == act[c].w
    IN  /\ act[c].pc = "release"
        /\ Notify(w)
        /\ disk' \in {disk, st[w]}
        /\ opmu' = [opmu EXCEPT ![w] = none]
        /\ IF run[w] = "new" /\ Observes(st[w])
           THEN StartAndReturn(c, w)
           ELSE Return(c, 0) /\ UNCHANGED <<entry, run>>
        /\ UNCHANGED <<made, st, exited, cancelled, remoteVars, ghostVars>>

-----------------------------------------------------------------------------
(* StopSession.                                                            *)

Stop(c) ==
    /\ act[c].pc = "locked" /\ act[c].kind = "stop"
    /\ IF entry = 0 THEN Return(c, 0) /\ UNCHANGED <<entry, cancelled>>
       ELSE /\ entry' = 0
            /\ cancelled' = [cancelled EXCEPT ![entry] = TRUE]
            /\ act' = [act EXCEPT ![c].pc = "stopping", ![c].w = entry]
            /\ UNCHANGED <<lifeVars, lockVars>>
    /\ UNCHANGED <<made, st, run, exited, opmu, disk, woken, remoteVars, ghostVars>>

Stopped(c) ==
    /\ act[c].pc = "stopping" /\ run[act[c].w] = "done"
    /\ Return(c, 0)
    /\ UNCHANGED <<entry, watcherVars, disk, woken, remoteVars, ghostVars>>

-----------------------------------------------------------------------------
(* WaitForResult and WaitForChange.                                        *)

\* Without a watcher the snapshot is returned at once.
WaitBegins(c) ==
    /\ "wait" \in Kinds
    /\ entry # 0 /\ Begin(c, "wait", "grab", entry)
    /\ UNCHANGED <<closed, rootOpen, lockVars, entry, watcherVars, disk, woken, remoteVars,
                   clean, sentSince, followUp>>

\* The channel of the watcher found at the beginning is taken before the
\* record is read.
Grab(c) ==
    /\ act[c].pc = "grab"
    /\ woken' = [woken EXCEPT ![c] = FALSE]
    /\ Goto(c, "read")
    /\ UNCHANGED <<lifeVars, lockVars, entry, watcherVars, disk, remoteVars, ghostVars>>

ReadStatus(c) ==
    /\ act[c].pc = "read"
    /\ IF closed \/ HasResult(Visible)
       THEN Return(c, 0)
       ELSE Goto(c, "select") /\ UNCHANGED <<lifeVars, lockVars>>
    /\ UNCHANGED <<entry, watcherVars, disk, woken, remoteVars, ghostVars>>

Select(c) ==
    /\ act[c].pc = "select"
    /\ Goto(c, "sleep")
    /\ UNCHANGED <<lifeVars, lockVars, entry, watcherVars, disk, woken, remoteVars, ghostVars>>

WaitWakes(c) ==
    /\ act[c].pc = "sleep"
    /\ \/ closed /\ Return(c, 0)
       \/ woken[c] /\ Goto(c, "grab") /\ UNCHANGED <<lifeVars, lockVars>>
    /\ UNCHANGED <<entry, watcherVars, disk, woken, remoteVars, ghostVars>>

\* The wait cap, or the client goes.
WaitTimesOut(c) ==
    /\ act[c].pc = "sleep"
    /\ Return(c, 0)
    /\ UNCHANGED <<entry, watcherVars, disk, woken, remoteVars, ghostVars>>

-----------------------------------------------------------------------------
(* Housekeeping.                                                           *)

\* reconcileWithServer of the entry found in the map: the record, ...
ReconcileBegins ==
    /\ entry # 0 /\ st[entry].status \notin Terminal
    /\ Begin(hk, "reconcile", "describe", entry)
    /\ clean' = TRUE /\ sentSince' = FALSE
    /\ UNCHANGED <<closed, rootOpen, lockVars, entry, watcherVars, disk, woken, remoteVars, followUp>>

\* ... then the remote; only an explicit end counts.
Describe ==
    /\ act[hk].pc = "describe"
    /\ \/ remote \in {"ended", "offered"} /\ Goto(hk, "queue") /\ UNCHANGED <<lifeVars, lockVars>>
       \/ Return(hk, 0)
    /\ UNCHANGED <<entry, watcherVars, disk, woken, remoteVars, ghostVars>>

\* Mutants: the record is not compared; a follow-up is not respected.
MayEndStale(w) == st[w].status \in {"running", "waiting", "doubt", "coarse"} /\ ~st[w].awaiting
MayEndFollowUp(w) == clean /\ st[w].status \in {"running", "waiting", "doubt", "coarse"}

MayEnd(w) == /\ clean
             /\ st[w].status \in {"running", "waiting", "doubt", "coarse"} /\ ~st[w].awaiting

\* With both locks: nothing has changed since, and no turn is awaited.
Reconcile ==
    LET w == act[hk].w
    IN  /\ act[hk].pc = "locked" /\ act[hk].kind = "reconcile"
        /\ IF entry = w
           THEN /\ opmu[w] = none
                /\ IF MayEnd(w)
                   THEN /\ st' = [st EXCEPT ![w].status = "completed"]
                        /\ opmu' = [opmu EXCEPT ![w] = hk]
                        /\ Touch(w)
                        /\ Goto(hk, "release")
                        /\ UNCHANGED <<lifeVars, lockVars>>
                   ELSE Return(hk, 0) /\ UNCHANGED <<st, opmu, clean>>
           ELSE Return(hk, 0) /\ UNCHANGED <<st, opmu, clean>>
        /\ UNCHANGED <<entry, made, run, exited, cancelled, disk, woken, remoteVars, sentSince, followUp, ops>>

\* Mutant: opMu is kept while the watcher is joined.
ReconcileKeepsOpMu ==
    LET w == act[hk].w
    IN  /\ act[hk].pc = "release"
        /\ Notify(w)
        /\ disk' \in {disk, st[w]}
        /\ exited' = [exited EXCEPT ![w] = TRUE]
        /\ cancelled' = [cancelled EXCEPT ![w] = TRUE]
        /\ Goto(hk, "ending")
        /\ UNCHANGED <<lifeVars, lockVars, entry, made, st, run, opmu, remoteVars, ghostVars>>

\* The end is announced and written down, the watcher is cancelled, and opMu
\* is released before the watcher is joined.
ReconcileReleases ==
    LET w == act[hk].w
    IN  /\ act[hk].pc = "release"
        /\ Notify(w)
        /\ disk' \in {disk, st[w]}
        /\ opmu' = [opmu EXCEPT ![w] = none]
        /\ exited' = [exited EXCEPT ![w] = TRUE]
        /\ cancelled' = [cancelled EXCEPT ![w] = TRUE]
        /\ Goto(hk, "ending")
        /\ UNCHANGED <<lifeVars, lockVars, entry, made, st, run, remoteVars, ghostVars>>

ReconcileEnds ==
    /\ act[hk].pc = "ending" /\ run[act[hk].w] = "done"
    /\ Return(hk, 0)
    /\ UNCHANGED <<entry, watcherVars, disk, woken, remoteVars, ghostVars>>

\* removeEntry of a session that looked stale.
RemoveBegins ==
    /\ entry # 0 /\ st[entry].status \in {"completed", "error"}
    /\ Begin(hk, "remove", "queue", 0)
    /\ UNCHANGED <<closed, rootOpen, lockVars, entry, watcherVars, disk, woken, remoteVars,
                   clean, sentSince, followUp>>

\* Mutant: what was stale when housekeeping began is removed.
RemoveAnyway ==
    /\ act[hk].pc = "locked" /\ act[hk].kind = "remove"
    /\ IF entry # 0
       THEN /\ cancelled' = [cancelled EXCEPT ![entry] = TRUE]
            /\ act' = [act EXCEPT ![hk].pc = "removing", ![hk].w = entry]
            /\ UNCHANGED <<lifeVars, lockVars>>
       ELSE Return(hk, 0) /\ UNCHANGED cancelled
    /\ UNCHANGED <<entry, made, st, run, exited, opmu, disk, woken, remoteVars, ghostVars>>

\* The entry may have been replaced, or used again, since.
Remove ==
    /\ act[hk].pc = "locked" /\ act[hk].kind = "remove"
    /\ \/ /\ entry # 0 /\ st[entry].status \in {"completed", "error"}
          /\ cancelled' = [cancelled EXCEPT ![entry] = TRUE]
          /\ act' = [act EXCEPT ![hk].pc = "removing", ![hk].w = entry]
          /\ UNCHANGED <<lifeVars, lockVars>>
       \/ Return(hk, 0) /\ UNCHANGED cancelled
    /\ UNCHANGED <<entry, made, st, run, exited, opmu, disk, woken, remoteVars, ghostVars>>

Removed ==
    /\ act[hk].pc = "removing" /\ run[act[hk].w] = "done"
    /\ entry' = 0
    /\ Return(hk, 0)
    /\ UNCHANGED <<watcherVars, disk, woken, remoteVars, ghostVars>>

-----------------------------------------------------------------------------
(* A watcher goroutine: it applies what the remote says under opMu.        *)

Listening(w) == run[w] = "live" /\ ~exited[w] /\ ~cancelled[w] /\ ~closed /\ opmu[w] = none

\* The beginning of a turn, an ask or the end of the turn, or the end of Run's
\* patience.
Apply(w) ==
    /\ Listening(w)
    /\ LET s == st[w]
       IN  \/ /\ s.turn < turns
              /\ st' = [st EXCEPT ![w] = [NewRecord EXCEPT !.turn = s.turn + 1]]
           \/ /\ s.turn = turns /\ ~s.awaiting /\ s.status \in {"running", "coarse"}
              /\ \/ remote = "asked" /\ st' = [st EXCEPT ![w].status = "waiting"]
                 \/ remote = "offered" /\ st' = [st EXCEPT ![w].status = "report"]
           \/ /\ ~s.awaiting /\ (s.turn < turns \/ remote = "ended")
              /\ \E status \in Terminal : st' = [st EXCEPT ![w].status = status]
           \/ /\ s.status \in {"running", "coarse"}
              /\ st' = [st EXCEPT ![w].status = "error"]
    /\ opmu' = [opmu EXCEPT ![w] = "run"]
    /\ Touch(w)
    /\ UNCHANGED <<lifeVars, lockVars, entry, made, run, exited, cancelled, disk, act, woken, remoteVars,
                   sentSince, followUp, ops>>

\* ... is announced and written down.
Applied(w) ==
    /\ opmu[w] = "run"
    /\ Notify(w)
    /\ disk' \in {disk, st[w]}
    /\ opmu' = [opmu EXCEPT ![w] = none]
    /\ exited' = [exited EXCEPT ![w] = st[w].status \in Terminal]
    /\ UNCHANGED <<lifeVars, lockVars, entry, made, st, run, cancelled, act, remoteVars, ghostVars>>

\* Run returns after a terminal event, or when it is cancelled.
RunReturns(w) ==
    /\ run[w] = "live" /\ opmu[w] = none
    /\ exited[w] \/ cancelled[w] \/ closed
    /\ run' = [run EXCEPT ![w] = "done"]
    /\ exited' = [exited EXCEPT ![w] = TRUE]
    /\ work' = work - 1
    /\ UNCHANGED <<closed, rootOpen, lockVars, entry, made, st, cancelled, opmu, disk, act, woken,
                   remoteVars, ghostVars>>

-----------------------------------------------------------------------------
(* The remote, and the shutdown.                                           *)

Remote ==
    /\ \/ /\ inbox > 0 /\ remote \in {"ended", "offered"}
          /\ remote' = "working" /\ turns' = turns + 1 /\ inbox' = inbox - 1
          /\ followUp' = FALSE
       \/ /\ inbox > 0 /\ remote = "asked"
          /\ remote' = "working" /\ inbox' = inbox - 1 /\ turns' = turns
          /\ UNCHANGED followUp
       \/ /\ remote = "working" /\ remote' \in {"asked", "ended", "offered"}
          /\ UNCHANGED <<turns, inbox, followUp>>
    /\ UNCHANGED <<lifeVars, lockVars, entry, watcherVars, disk, act, woken, clean, sentSince, ops>>

CloseBegins ==
    /\ ~closed /\ closed' = TRUE
    /\ UNCHANGED <<rootOpen, work, lockVars, entry, watcherVars, disk, act, woken, remoteVars, ghostVars>>

\* All work has ended: the watchers are forgotten and the root is closed.
CloseEnds ==
    /\ closed /\ rootOpen /\ work = 0
    /\ rootOpen' = FALSE /\ entry' = 0
    /\ UNCHANGED <<closed, work, lockVars, watcherVars, disk, act, woken, remoteVars, ghostVars>>

-----------------------------------------------------------------------------
Locks(a) == Pin(a) \/ Acquire(a) \/ Abandon(a)

Call(c) == \/ Create(c) \/ CreateSent(c) \/ Watch(c) \/ Send(c) \/ EnterOpMu(c) \/ Join(c)
           \/ Revive(c) \/ Wire(c) \/ SendReturns(c) \/ Stop(c) \/ Stopped(c)
           \/ Grab(c) \/ ReadStatus(c) \/ Select(c) \/ WaitWakes(c)

Housekeep == Describe \/ Reconcile \/ ReconcileReleases \/ ReconcileEnds \/ Remove \/ Removed

Run(w) == Apply(w) \/ Applied(w) \/ RunReturns(w)

Next == \/ \E c \in Caller : CallBegins(c) \/ WaitBegins(c) \/ Call(c) \/ WaitTimesOut(c)
        \/ \E a \in Actor : Locks(a)
        \/ Restore
        \/ ReconcileBegins \/ RemoveBegins \/ Housekeep
        \/ \E w \in Watcher : Run(w)
        \/ Remote \/ CloseBegins \/ CloseEnds

Spec == Init /\ [][Next]_vars

\* The goroutines of the process are scheduled, and a remote call ends.  Nothing
\* is assumed of the events of the remote, of time-outs or of new calls.
Fairness ==
    /\ \A a \in Actor : WF_vars(Locks(a))
    /\ \A c \in Caller : WF_vars(Call(c))
    /\ WF_vars(Restore) /\ WF_vars(Housekeep)
    /\ \A w \in Watcher : WF_vars(Applied(w)) /\ WF_vars(RunReturns(w))
    /\ WF_vars(CloseEnds)

FairSpec == Spec /\ Fairness

-----------------------------------------------------------------------------
(* Properties.                                                             *)

\* Between the lock of the session and its release there is one operation at a
\* time, although the lock object comes and goes (lockSessionOperation).
Inside(a) == act[a].pc \in PC \ {"idle", "queue", "describe", "grab", "read", "select", "sleep"}

LockExclusive == \A a, b \in Actor : Inside(a) /\ Inside(b) => a = b

\* A session has at most one watcher goroutine, however often it is revived,
\* restored, watched, stopped or removed, and none is left behind: the one that runs
\* is in the map or has been cancelled (Manager.watchers).
OneWatcher ==
    \A v \in Watcher : run[v] = "live" =>
        /\ \A w \in Watcher : run[w] = "live" => v = w
        /\ entry = v \/ cancelled[v] \/ closed

\* The storage root outlives everything that may use it (begin and Close).
RootOutlivesWork ==
    ~rootOpen => (\A a \in Actor : act[a].pc = "idle") /\ (\A w \in Watcher : run[w] # "live")

\* Housekeeping ends no session to which a message was delivered since it asked
\* the remote.  Nor does it end one whose follow-up, sent when all earlier turns
\* had been seen, was taken by the remote and not begun, unless a later message
\* was taken to belong to the turn that runs (reconcileWithServer, AwaitingTurn).
HousekeepingRespectsSends ==
    [][(act[hk].pc = "locked" /\ act'[hk].pc = "release") => ~sentSince /\ ~followUp]_vars

\* Housekeeping removes only a session that has ended, also when the session was
\* revived while it waited for the lock.
OnlyEndedRemoved ==
    [][(act[hk].kind = "remove" /\ act'[hk].pc = "idle" /\ entry' # entry)
         => st[entry].status \in {"completed", "error"}]_vars

\* A waiting call is woken by the result of the watcher it found, whenever the
\* result comes between its two reads.
ResultWakes ==
    \A c \in Caller :
        (act[c].pc = "sleep" /\ act[c].w = entry /\ HasResult(st[act[c].w]))
            ~> (act[c].pc # "sleep" \/ act[c].w # entry \/ ~HasResult(st[act[c].w]))

\* What WaitForResult promises of every state change ("wakes up immediately
\* rather than polling"), also when the watcher has been replaced meanwhile.
ResultAlwaysWakes ==
    \A c \in Caller :
        (act[c].pc = "sleep" /\ HasResult(Visible)) ~> (act[c].pc # "sleep" \/ ~HasResult(Visible))

\* The shutdown ends: nothing waits for ever on a lock, a watcher or the remote.
CloseReturns == closed ~> ~rootOpen
=============================================================================
