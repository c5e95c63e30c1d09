---------------------------- MODULE SkillWorker ----------------------------
(***************************************************************************)
(* Background runs of one session of the skill: a command checks the lock  *)
(* file of the session directory, notes that the session is running,       *)
(* starts a worker process and writes its process ID into the lock file;   *)
(* the worker writes it again, sends and reads what its command asked for, *)
(* reports the result in status.txt and result.json and removes the lock   *)
(* file.  Nothing but these files ties the processes together, and each    *)
(* may be killed between any two steps.                                    *)
(*                                                                         *)
(* w is a run: the command (parent) and the worker process it starts.  A   *)
(* write of a file truncates it first; what was removed in between is      *)
(* written to no file.                                                     *)
(***************************************************************************)
EXTENDS SkillStream, FiniteSets

CONSTANTS
    Jobs,           \* what commands ask for: "db", "query", "watch"
    MaxFollowUps,   \* bound: queries of a batch after the first (file has two presets)
    MaxKills,       \* bound: processes killed
    none            \* no file, no run

Writer == {"parent", "worker"} \X Worker
File == [by : Writer, pid : Worker \cup {none}]

ASSUME WorkerAssumption ==
    /\ Jobs \subseteq {"db", "query", "watch"} /\ {MaxFollowUps, MaxKills} \subseteq Nat
    /\ none \notin Worker \cup File

Report == {"completed", "waiting_input", "failed"}

VARIABLES
    parent,         \* where the command is
    worker,         \* where the worker process is
    job,            \* what the run is to do, and what it has learnt
    lock,           \* worker.pid: who created this file, the process ID in it
    opened,         \* the file a process has truncated and is about to write
    status,         \* status.txt
    result,         \* result.json
    latest,         \* history: the run that was announced last
    raced,          \* history: a lock was checked in the middle of another launch
    kills           \* processes killed

dirVars == <<lock, opened, status, result>>
histVars == <<latest, raced, kills>>
vars == <<streamVars, parent, worker, job, dirVars, histVars>>

JobType ==
    [kind    : Jobs \cup {none},
     left    : 0..MaxFollowUps,             \* queries of the batch still to send
     tries   : 0..MaxRetries,               \* attempts at the next one that were answered "busy"
     confirm : BOOLEAN, looks : 0..1,       \* of attach: the stream has asked, the session was looked at
     outcome : Report \cup {none},
     cut     : BOOLEAN]                     \* history: it has not learnt what the turn came to

NoJob == [kind |-> none, left |-> 0, tries |-> 0, confirm |-> FALSE, looks |-> 0,
          outcome |-> none, cut |-> FALSE]

Init ==
    /\ server = "none" /\ log = <<>> /\ turn = 0 /\ drops = 0
    /\ stream = [w \in Worker |-> NoStream]
    /\ parent = [w \in Worker |-> "idle"]
    /\ worker = [w \in Worker |-> "none"]
    /\ job = [w \in Worker |-> NoJob]
    /\ lock = none /\ opened = [x \in Writer |-> none] /\ status = "none" /\ result = "none"
    /\ latest = none /\ raced = FALSE /\ kills = 0

Alive(w) == worker[w] \notin {"none", "gone", "killed"}

\* A run is under way from the start of its process until it has reported.
Busy(w) == Alive(w) /\ worker[w] \notin {"release", "unlink", "exit"}

ParentAt(w, p) == parent' = [parent EXCEPT ![w] = p]
WorkerAt(w, p) == worker' = [worker EXCEPT ![w] = p]

-----------------------------------------------------------------------------
(* worker.pid                                                              *)

\* open("w"): an existing file is emptied, a missing one is created.
Truncate(x) ==
    LET file == IF lock = none THEN x ELSE lock.by
    IN  /\ lock' = [by |-> file, pid |-> none]
        /\ opened' = [opened EXCEPT ![x] = file]

\* The text goes to the file that was opened, which may have been removed.  A
\* process opens the file once, so the creator tells files apart.
WriteText(x, w) ==
    /\ lock' = IF lock # none /\ lock.by = opened[x] THEN [lock EXCEPT !.pid = w] ELSE lock
    /\ opened' = [opened EXCEPT ![x] = none]

Remove == lock' = none /\ UNCHANGED opened

-----------------------------------------------------------------------------
(* The command: setup_async_worker and what precedes it.                   *)

Launching(w) == parent[w] \in {"unlink", "announce", "popen", "open", "write"}

\* A launch is open to races until the lock file names its process: also when the
\* command was killed before it had written it, or in the middle of it.
InLaunch(w) == \/ Launching(w) \/ worker[w] = "write"
               \/ parent[w] = "killed" /\ worker[w] = "open"
               \/ parent[w] = "torn" /\ Alive(w)

\* db and file create the session with their first message, attach joins it.
Begin(w) ==
    /\ parent[w] = "idle"
    /\ \E k \in Jobs, n \in 0..MaxFollowUps :
        /\ (k = "db") = (server = "none") /\ (k # "db" => n = 0)
        /\ job' = [job EXCEPT ![w] = [NoJob EXCEPT !.kind = k, !.left = n]]
        /\ IF k = "db" THEN Accept ELSE UNCHANGED <<server, turn>>
    /\ ParentAt(w, "check")
    /\ UNCHANGED <<log, stream, drops, worker, dirVars, histVars>>

\* BUG: a lock is stale as soon as it can be read.
StaleAlways == lock # none

\* A file that does not hold the ID of a living process (of the same user: that of
\* another counts as dead, _is_pid_alive).
Stale == lock # none /\ lock.pid \notin {v \in Worker : Alive(v)}

\* check_worker_lock up to the removal.
CheckLock(w) ==
    /\ parent[w] = "check"
    /\ \/ lock = none /\ ParentAt(w, "announce")
       \/ Stale /\ ParentAt(w, "unlink")
       \/ lock # none /\ ~Stale /\ ParentAt(w, "refused")
    /\ raced' = (raced \/ \E v \in Worker \ {w} : InLaunch(v))
    /\ UNCHANGED <<streamVars, worker, job, dirVars, latest, kills>>

CheckUnlink(w) ==
    /\ parent[w] = "unlink"
    /\ Remove
    /\ ParentAt(w, "announce")
    /\ UNCHANGED <<streamVars, worker, job, status, result, histVars>>

Announce(w) ==
    /\ parent[w] = "announce"
    /\ status' = "running" /\ latest' = w
    /\ ParentAt(w, "popen")
    /\ UNCHANGED <<streamVars, worker, job, lock, opened, result, raced, kills>>

\* BUG: the status is written when the process has been started.
PopenBeforeStatus(w) ==
    \/ /\ parent[w] = "announce" /\ worker[w] = "none"
       /\ WorkerAt(w, "open") /\ latest' = w
       /\ UNCHANGED <<streamVars, parent, job, dirVars, raced, kills>>
    \/ /\ parent[w] = "popen"
       /\ ParentAt(w, "open")
       /\ UNCHANGED <<streamVars, worker, job, dirVars, histVars>>

Popen(w) ==
    /\ parent[w] = "popen"
    /\ WorkerAt(w, "open")
    /\ ParentAt(w, "open")
    /\ UNCHANGED <<streamVars, job, dirVars, histVars>>

\* write_worker_pid
ParentLock(w) ==
    /\ \/ parent[w] = "open" /\ Truncate(<<"parent", w>>) /\ ParentAt(w, "write")
       \/ parent[w] = "write" /\ WriteText(<<"parent", w>>, w) /\ ParentAt(w, "done")
    /\ UNCHANGED <<streamVars, worker, job, status, result, histVars>>

Launch(w) == CheckLock(w) \/ CheckUnlink(w) \/ Announce(w) \/ Popen(w) \/ ParentLock(w)

-----------------------------------------------------------------------------
(* The worker: run_worker_with_handler and the executors of the commands.  *)

\* acquire_worker_lock
Acquire(w) ==
    /\ \/ worker[w] = "open" /\ Truncate(<<"worker", w>>) /\ WorkerAt(w, "write")
       \/ worker[w] = "write" /\ WriteText(<<"worker", w>>, w) /\ WorkerAt(w, "connect")
    /\ UNCHANGED <<streamVars, parent, job, status, result, histVars>>

Opens(w, from, attach) ==
    /\ stream' = [stream EXCEPT ![w] = Opened(from, attach)]
    /\ WorkerAt(w, "read")

\* The result is known; the stream is of no more use, nor what is left of the job.
Concludes(w, j, o) ==
    /\ job' = [job EXCEPT ![w] = [NoJob EXCEPT !.kind = j.kind, !.outcome = o, !.cut = j.cut]]
    /\ stream' = [stream EXCEPT ![w] = NoStream]
    /\ WorkerAt(w, "status")

\* create_or_reuse, then the executor begins: db and file read the answer to
\* the message their command has sent.
ConnectSession(w) ==
    /\ worker[w] = "connect"
    /\ \/ job[w].kind = "db" /\ Opens(w, 0, FALSE) /\ UNCHANGED <<drops, job>>
       \/ job[w].kind = "query" /\ WorkerAt(w, "send") /\ UNCHANGED <<stream, drops, job>>
       \/ /\ job[w].kind = "watch" /\ UNCHANGED <<drops, job>>
          /\ \E from \in {NoCheckpoint, 0} \cup {i \in 1..Len(log) : Numbered(i)} : Opens(w, from, TRUE)
       \/ drops < MaxDrops /\ drops' = drops + 1 /\ Concludes(w, job[w], "failed")
    /\ UNCHANGED <<server, log, turn, parent, dirVars, histVars>>

\* stream_events: send, then read without a checkpoint, also if the answer has an
\* error in its body.
SendOnce(w) ==
    /\ worker[w] = "send"
    /\ \/ Accept /\ UNCHANGED drops
       \/ drops < MaxDrops /\ drops' = drops + 1 /\ UNCHANGED <<server, turn>>
    /\ Opens(w, NoCheckpoint, job[w].kind = "query")
    /\ job' = [job EXCEPT ![w].tries = 0]
    /\ UNCHANGED <<log, parent, dirVars, histVars>>

\* retry_on_error: Throttling or ServiceUnavailable is answered, and after a while
\* the message is sent again, whatever the session has come to; it has no ClientToken.
SendRetry(w) ==
    /\ worker[w] = "send"
    /\ LoseCall /\ job[w].tries < MaxRetries
    /\ job' = [job EXCEPT ![w].tries = @ + 1]
    /\ UNCHANGED <<log, stream, worker, parent, dirVars, histVars>>

\* The last attempt, one with an API key, or another error.
SendFailed(w) ==
    /\ worker[w] = "send"
    /\ LoseCall /\ Concludes(w, job[w], "failed")
    /\ UNCHANGED <<log, parent, dirVars, histVars>>

SendQuery(w) == SendOnce(w) \/ SendRetry(w) \/ SendFailed(w)

\* The job when a stream has ended, and whether that was not the end of the turn, or
\* a part of the turn was missed.
Learnt(w) ==
    [job[w] EXCEPT !.cut = \/ stream[w].phase # "finished" \/ server = "RUNNING"
                           \/ ~(((turn + 1)..Len(log)) \subseteq stream[w].seen)]

\* db_query_executor, file_query_executor: an ask or a failure ends the batch.
DbRead(w) ==
    LET s == stream[w]
    IN  \/ (s.phase = "raised" \/ s.failed) /\ Concludes(w, Learnt(w), "failed")
        \/ s.phase # "raised" /\ ~s.failed /\ s.confirm /\ Concludes(w, Learnt(w), "waiting_input")
        \/ /\ s.phase # "raised" /\ ~s.failed /\ ~s.confirm /\ job[w].left > 0
           /\ job' = [job EXCEPT ![w] = [Learnt(w) EXCEPT !.left = @ - 1]]
           /\ WorkerAt(w, "send") /\ UNCHANGED stream
        \/ /\ s.phase # "raised" /\ ~s.failed /\ ~s.confirm /\ job[w].left = 0
           /\ Concludes(w, Learnt(w), "completed")

\* attach_query_executor with a query: unless it failed, the session is looked at.
QueryRead(w) ==
    LET s == stream[w]
    IN  \/ /\ job[w].looks = 0
           /\ \/ (s.phase = "raised" \/ s.failed) /\ Concludes(w, job[w], "failed")
              \/ /\ s.phase # "raised" /\ ~s.failed
                 /\ job' = [job EXCEPT ![w].confirm = s.confirm]
                 /\ WorkerAt(w, "look") /\ UNCHANGED stream
        \/ /\ job[w].looks = 1                   \* _db_attach swallows exceptions
           /\ \/ s.phase # "raised" /\ s.failed /\ Concludes(w, job[w], "failed")
              \/ (s.phase = "raised" \/ ~s.failed) /\ WorkerAt(w, "look") /\ UNCHANGED <<job, stream>>

\* attach_query_executor without a query: only a failure that was read counts.
WatchRead(w) ==
    LET s == stream[w]
    IN  Concludes(w, job[w], IF s.phase # "raised" /\ s.failed THEN "failed" ELSE "completed")

StreamOver(w) ==
    /\ worker[w] = "read" /\ Over(w)
    /\ \/ job[w].kind = "db" /\ DbRead(w)
       \/ job[w].kind = "query" /\ QueryRead(w)
       \/ job[w].kind = "watch" /\ WatchRead(w)
    /\ UNCHANGED <<server, log, turn, drops, parent, dirVars, histVars>>

\* _post_query_state: a session that is still running is read on, once; then it is
\* over, or taken for over.
Look(w) ==
    /\ worker[w] = "look"
    /\ \/ server = "WAIT_INPUT" /\ Concludes(w, job[w], "waiting_input") /\ UNCHANGED drops
       \/ server = "FAILED" /\ Concludes(w, job[w], "failed") /\ UNCHANGED drops
       \/ /\ server = "RUNNING" /\ job[w].looks = 0
          /\ Opens(w, NoCheckpoint, TRUE)
          /\ job' = [job EXCEPT ![w].looks = 1]
          /\ UNCHANGED drops
       \/ /\ server = "IDLE" \/ (server = "RUNNING" /\ job[w].looks = 1)
          /\ Concludes(w, [job[w] EXCEPT !.cut = server = "RUNNING"],
                       IF job[w].confirm THEN "waiting_input" ELSE "completed")
          /\ UNCHANGED drops
       \/ /\ drops < MaxDrops /\ drops' = drops + 1     \* the call fails
          /\ Concludes(w, [job[w] EXCEPT !.cut = TRUE],
                       IF job[w].confirm THEN "waiting_input" ELSE "completed")
    /\ UNCHANGED <<server, log, turn, parent, dirVars, histVars>>

\* handle_worker_completion
WriteReport(w) ==
    /\ \/ /\ worker[w] = "status"
          /\ status' = job[w].outcome /\ WorkerAt(w, "result") /\ UNCHANGED result
       \/ /\ worker[w] = "result"
          /\ result' = job[w].outcome /\ WorkerAt(w, "release") /\ UNCHANGED status
    /\ UNCHANGED <<streamVars, parent, job, lock, opened, histVars>>

\* release_worker_lock: the worker's own lock, or a file that holds no number.
ReleaseLock(w) ==
    /\ \/ /\ worker[w] = "release" /\ UNCHANGED <<lock, opened>>
          /\ IF lock # none /\ lock.pid \in {w, none} THEN WorkerAt(w, "unlink") ELSE WorkerAt(w, "exit")
       \/ worker[w] = "unlink" /\ Remove /\ WorkerAt(w, "exit")
    /\ UNCHANGED <<streamVars, parent, job, status, result, histVars>>

Exit(w) ==
    /\ worker[w] = "exit"
    /\ WorkerAt(w, "gone")
    /\ UNCHANGED <<streamVars, parent, job, dirVars, histVars>>

Work(w) == \/ Acquire(w) \/ ConnectSession(w) \/ SendQuery(w) \/ StreamOver(w) \/ Look(w)
           \/ WriteReport(w) \/ ReleaseLock(w) \/ Exit(w)

\* What the worker's stream does, and the faults it meets.
ReadStream(w) == (Read(w) \/ CleanEnd(w) \/ Break(w) \/ Rejected(w))
                 /\ UNCHANGED <<parent, worker, job, dirVars, histVars>>

\* A process is killed, or a worker does not even get to its lock: it is
\* configured anew and may exit.
Kill(w) ==
    /\ kills < MaxKills /\ kills' = kills + 1
    /\ \/ /\ Alive(w) /\ WorkerAt(w, "killed")
          /\ stream' = [stream EXCEPT ![w] = NoStream]
          /\ job' = [job EXCEPT ![w] = NoJob]
          /\ opened' = [opened EXCEPT ![<<"worker", w>>] = none]
          /\ UNCHANGED parent
       \/ /\ Launching(w) \/ parent[w] = "check"
          /\ ParentAt(w, IF parent[w] = "write" THEN "torn" ELSE "killed")
          /\ opened' = [opened EXCEPT ![<<"parent", w>>] = none]
          /\ UNCHANGED <<worker, stream, job>>
    /\ UNCHANGED <<server, log, turn, drops, lock, status, result, latest, raced>>

ServerStep == Emit /\ UNCHANGED <<parent, worker, job, dirVars, histVars>>

Next ==
    \/ ServerStep
    \/ \E w \in Worker : Begin(w) \/ Launch(w) \/ Work(w) \/ ReadStream(w) \/ Kill(w)

Spec == Init /\ [][Next]_vars

-----------------------------------------------------------------------------
(* Properties.                                                             *)

\* The variables have their types.
TypeOK ==
    /\ server \in {"none", "RUNNING", "WAIT_INPUT", "IDLE", "FAILED"}
    /\ log \in Seq(Emits) /\ Len(log) <= MaxEvents /\ turn \in 0..Len(log)
    /\ stream \in [Worker -> StreamType] /\ drops \in 0..MaxDrops
    /\ parent \in [Worker -> {"idle", "check", "unlink", "announce", "popen", "open", "write",
                              "done", "refused", "killed", "torn"}]
    /\ worker \in [Worker -> {"none", "open", "write", "connect", "send", "read", "look", "status",
                              "result", "release", "unlink", "exit", "gone", "killed"}]
    /\ job \in [Worker -> JobType]
    /\ lock \in File \cup {none} /\ opened \in [Writer -> Writer \cup {none}]
    /\ status \in Report \cup {"none", "running"} /\ result \in Report \cup {"none"}
    /\ latest \in Worker \cup {none} /\ raced \in BOOLEAN /\ kills \in 0..MaxKills

\* Two workers of one session never work at the same time unless a command has
\* looked at the lock in the middle of another's launch: a lock left by a process
\* that was killed lets the next one in, and no lock is given up before its
\* process has reported (worker_lock.py).
OneRunUnlessRaced ==
    ~raced => \A v, w \in Worker : Busy(v) /\ Busy(w) => v = w

\* What the last run has reported stands in both files once its worker has released
\* the lock, and is not overwritten by its command or by an earlier run.
ReportStands ==
    \A w \in Worker :
        (~raced /\ latest = w /\ worker[w] \in {"release", "unlink", "exit", "gone"})
            => status = job[w].outcome /\ result = job[w].outcome

\* A run that has learnt what its last turn came to is stopped by an ask: a batch does
\* not go on to its next query over it, and neither a batch nor attach reports that it
\* is completed (_db_batch, _post_query_state).  A batch learns it from a stream that
\* has shown the turn to its end; attach from a look at a session that does not run.
\* Of a repeated attempt (tries) nothing is claimed: the first may have led to the ask.
AskStopsRun ==
    \A w \in Worker :
        (~raced /\ job[w].kind \in {"db", "query"} /\ ~job[w].cut /\ server = "WAIT_INPUT")
            => /\ ~(worker[w] = "send" /\ job[w].kind = "db" /\ job[w].tries = 0)
               /\ ~(worker[w] = "status" /\ job[w].outcome = "completed")
=============================================================================
