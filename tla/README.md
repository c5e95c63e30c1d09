# TLA+ models of Data Agent Skill

This directory holds a formal model of the programs in this repository: TLA+
modules translated from the source, TLC configurations that check them on small
instances, and proofs, checked by TLAPS, for every value of the constants.

- [The system](#the-system): components, state, interactions, what is hard
- [The modules](#the-modules): how each corresponds to the code
- [The runs](#the-runs): what is checked, within which bounds, under which fairness
- [The proofs](#the-proofs): what is proved and along which argument
- [Divergences](#divergences-between-the-code-and-its-documentation)
- [Not modelled](#not-modelled) and [the plan](#the-plan)

Paths below are relative to the repository; `session/`, `mcp/`, `tenant/`,
`dataagent/` and `event/` are packages of `src/server/internal/`.

## The system

Three programs live in the repository. The **MCP server** (`src/server`, Go)
offers an AI assistant tools that start, watch, answer and stop long-running
analyses of a remote *Data Agent* service. It runs locally over stdio with one
user, or remotely over Streamable HTTP or SSE with many. The **skill**
(`src/alibabacloud-data-agent-skill`, Python) is a command line with background
workers for the same remote service. The **arcvis templates**
(`src/data-agent-arcvis-skill`) are static files with scripts that validate them.

The server is the part where several goroutines, a remote service, a disk and
concurrent clients meet, and it keeps promises to its users about not sending
things twice. The models begin there, and continue with the skill: its background
processes, which meet only in the files of a directory, and its client library and
foreground commands, which retry, wait and report over a service that may be slow or silent.

| component | state it keeps | operations | works with |
| --- | --- | --- | --- |
| session record, `session/state.go` | one `State` per analysis: status, ledger of asks and of replies sent to them, status of the last free-form message, applied events, resume checkpoint, answers, turn counters | `RegisterAsk`, `SetSendStatus`, `MarkEventApplied`, `StartTurn`, `SetCheckpoint`, `SetCompleted/Error/Canceled`, `stateFromSnapshot`, ... | written by watcher and manager, saved by storage, read by tools |
| watcher, `session/watcher.go` | one goroutine per running analysis: connection, error count, `opMu` | `Run`, `streamOnce` and its handlers, `SendMessage`, automatic confirmation | reads the event stream, sends replies, changes the record |
| manager, `session/manager.go` | map of watchers, lock per session with reference counts, work group, closed flag | create, watch, send, stop, wait, restore, `Close` | starts and joins watchers, called by tools, owned by a tenant |
| housekeeping, `session/housekeeping.go` | none of its own | reconcile with the remote, remove stale entries | manager, watcher, remote |
| session storage, `session/storage.go` | one directory per session | read, atomic write, images | record, manager |
| event parser, `event/` | fallback mode of one stream | `Parse` | watcher |
| remote client, `dataagent/` | cached workspace, credentials | requests with retries, event stream, gateway calls | watcher, manager, tools |
| protocol sessions, `mcp/http_sessions.go` | table of MCP sessions, capacity counters, drained flag | reserve, acquire, begin, commit, finish, revoke, delete, sweep, close | HTTP transport |
| HTTP transport, `mcp/http_transport.go` | one request per goroutine | `ServeHTTP`, `close` | protocol sessions, MCP server |
| tools and server, `mcp/tools.go`, `mcp/server.go`, `mcp/waits.go` | waits in progress | some twenty tools | manager, tenant registry, client |
| tenant registry, `tenant/registry.go` | tenants, initializations in flight, restoration slots, closed flag | `Authenticate`, `Resolve`, `initialize`, `runTenant`, `Close` | makes a manager, storage root and client per principal |
| tenant storage, `tenant/storage.go` | one marked directory per principal | `openTenantRoot`, `verifyOwner` | registry |
| configuration, `config/`, `main.go`, `cmd/dacli` | read at start | | everything |
| skill client library, `data_agent/client.py` (Python) | credentials in use, unit and workspace with their caches, shared by the tasks of a process | some twenty operations, each wrapped by `retry_on_error` | remote service |
| skill event stream, `data_agent/sse_client.py`, `message.py` | stream cursor, retry count | send, stream with reconnection | remote service |
| skill session managers, `data_agent/session.py` | `_active_sessions` | create or reuse, wait, refresh, remove | client library |
| skill file managers, `data_agent/file_manager.py` | none | upload, list, download, delete | client library, object store |
| skill foreground commands, `cli/cmd_*.py` | poll counters, flags of one stream, exit code | send, db, file, attach, cancel, agent, import, ls, workspace, status, reports, upload, runtime-release | all of the above |
| skill background workers, `cli/streaming.py`, `worker_*.py` | session directory with `worker.pid`, `status.txt`, `result.json` | the background runs of db, file, attach | event stream, other processes through the directory |

A remote call travels through HTTP transport → protocol session → tenant registry
→ tool → manager → watcher → client. Events travel back through client → parser →
watcher → record → storage, and wake waiting tools over the record's channel.

What is hard, and what makes each part correct:

- **Delivery.** A reply is sent over a connection that may lose the answer, from a
  process that may die, while the stream replays old events. The remote has no
  idempotency key. Correct: the ledger knows, in memory and on disk, of every reply
  the remote may have taken; no ask is answered twice; a message in doubt is not
  followed by another.
- **Turns.** A finished analysis can be continued, and the end of the turn before is
  replayed. Correct: only the end of its own turn ends the follow-up.
- **Cursor.** Streamed answers are assembled from fragments; a connection may break in
  the middle. Correct: the saved cursor never passes an answer that was not kept.
- **Locks that come and go.** The manager's lock of a session exists only while somebody
  holds or awaits it. Correct: exclusion, one watcher, no goroutine left behind.
- **Housekeeping** describes the remote without a lock and acts on the answer later.
  Correct: it never ends a session that has been written to since, and removes none
  that has been revived.
- **Capacity.** A protocol session can be revoked by its owner, its lease, the sweeper or
  the shutdown while requests still use it. Correct: counters equal what is under way,
  limits hold, capacity is neither lost nor given away early.
- **Uninterruptible work.** A build of a tenant calls an SDK that cannot be cancelled and
  outlives its caller and its timeout. Correct: one owner per directory, limits count what
  is abandoned, a late build is not published, nothing is closed twice or never.
- **Processes that share a directory.** A command of the skill starts a worker and goes; a
  second command, a kill, or a worker faster than its parent may come between any two of
  their file operations. Correct: one worker at a time for a session, and the report that
  stands is the last run's.
- **Flags assembled from events.** What a run reports, and whether it sends its next query,
  depends on flags that events of many kinds set and reset. Correct: an open ask stops it.
- **Retries without a key.** A request whose answer is lost, or is an error that does not say
  whether it was carried out, may have acted; the library tries again by itself. Correct: one
  token for all attempts, no retry of what has no token and must not be repeated.
- **Errors in an HTTP 200.** With an API key the service reports failures in the body of a
  successful answer. Correct: what a command reports as done has been confirmed.
- **Shared clients.** The tasks of an asynchronous program run the methods of one client in
  threads and share one session manager. Correct: the caches of units stay true, and a session
  is handed out only to somebody who was told that it is ready.
- **Waiting.** Sessions take minutes to get ready, or never do. Correct: every command ends.
- **Shutdown** at every level joins what it started. Correct: it ends, and nothing uses
  what it has released.

`PROJECT.json` lists these hazards one by one with the line where each bites.

## The modules

One module per component; a `...Proofs` module extends it with theorems; an `MC...`
module gives TLC symmetry, a constraint, or the programs to run. Comments that begin with `BUG` or `Mutant` mark operators with a plausible
bug, defined before the operator they would replace: they are not part of any
specification, and each one makes a property fail.

**`SessionState`** is the record, a TLA+ record with one operator for each method of
`State`. `ask` numbers are positions in the remote's log, `req[k]` is the ledger entry
(`ConfirmationRequest`), `msg` is `MessageStatus`, `cp` the checkpoint, `applied` the
fingerprints. `MaySend` is the chain of refusals at the head of `sendMessage`,
`FromSnapshot` is `stateFromSnapshot` (every "sending" becomes "unknown").

**`SessionWatcher`** extends it with the goroutine, the calls and the remote. `mem` is the
record in memory, `disk` the snapshot. A write that the code ignores when it fails may or
may not reach the disk (`PersistIgnoringError`). `run` is the place in `Run`, `stream` the
connection with the next position to read, `send` the `sendMessage` under way: intent
written (`SendIntent`), on the wire (`Wire`), answered or lost (`SendResult`), with a
crash possible between any two. `caller[c]` follows `Manager.SendMessage` from its check
before the lock through the lock, `opMu` and, for a finished session, the revival. The
remote (`log`, `remote`, `inbox`) is external: it emits events, takes messages, asks, ends
turns. The stream restarts at the checkpoint, so everything after it is replayed.
`accepted`, `fence`, `renewed`, `doubt`, `skipped` are history variables that no action
reads.

**`SessionManager`** models one session as its manager sees it. The session lock is built
as the code builds it: `slot` is `operations[id]`, `refs` counts holders and waiters,
`holder` is the mutex; the object is deleted with the last reference. Watchers are
numbered, so that a retired one and its successor exist side by side. `act[a]` is the
operation an actor is in: each tool call, the restoration (`boot`) and the housekeeping
(`hk`); each lock, remote call and join is a place where others run. Of the record it keeps
status, awaiting turn, sending and a turn count. It stands beside `SessionWatcher` rather
than above it: the two share the record and the methods they call on it, and each
abstracts what the other details.

**`ProtocolSessions`** models `protocolSessions` method by method (each holds the mutex
throughout and is one action) and `ServeHTTP` from `Arrive` to `Leave`, whose steps
between two methods interleave with other requests, `Expire`, `Sweep`, `Cancel` and
`Close`. The constant `SSE` chooses the transport.

**`TenantRegistry`** models `Resolve`, `initialize` with the steps of `buildTenant`,
`runTenant` and `Close`. A *job* is an initialization, the tenant it builds and that
tenant's runner. `stage` follows the goroutine through the build and the two critical
sections of `initialize`, `late` says that the timer has fired, `handle` is the tenant's
root and manager, `storage` the principal's directory: empty, unmarked (the temporary file
exists) or owned. `Crash` empties the process and leaves `storage`.

**`SkillStream`** is `stream_chat_content` of the Python client as one process uses it,
between the service (`server`, `log`, external) and the handlers of `cli/streaming.py`.
`stream[w]` holds the generator's `current_checkpoint` and `retry_count`, what the present
connection has delivered, and the two flags of `StreamState` that decide the result
(`confirm`, `failed`). `Handled` is the dispatch of one event, `ConfirmAfter` what all
handlers together do to `need_user_confirm`. `ask_plan` stands for the `chat_finish`,
the `data` and, outside attach, the `tool_call_response` form of it. `Retry` counts up and never
down, as the code does. `seen` and `twice` are history.

**`SkillWorker`** extends it with the background runs of one session. A run `w` is the
command (`parent[w]`: check, unlink, status, `Popen`, lock) and its worker (`worker[w]`: lock,
connect, send and read in turn, look at the session, report, release). `Path.write_text`
is two steps, since the file is empty in between, and a file that was removed while open
is written to no purpose (`opened`, `File.by`). `job[w].kind` is the executor: `db` and
`file` read the answer to the message the command has sent and then send what is left of
their queries, `query` is attach with `-q` and looks at the session afterwards, `watch` is
attach without, from any checkpoint. A message is sent again after a transient error
(`SendRetry`), whatever the session has come to meanwhile; `Learnt` is whether a stream has shown
the turn to its end, which it need not: `SSE_FINISH` may come while the session runs. `Kill` ends a command or a worker anywhere; a worker that exits on its
configuration before it takes the lock is the same. Process IDs are not reused.
`raced` and `latest` are history.

**`RemoteCall`** is the abstract specification of a call over an unreliable network: a call
that is made once acts at most once, one whose success is confirmed has acted by then, and one
that failed may have acted and may still act.

**`SkillClient`** is `client.py`. An operation is a record of what the wrapper and the service
make of it: whether it acts, has a token, is retried, is confirmed, needs the unit or the
workspace. `call[p]` follows it through `retry_on_error` (`Begin`, `Retriable`, `TryAgain`),
`_resolve_dms_unit` (`UnitConfigured` to `StoreUnit`, attribute by attribute),
`_resolve_workspace_id` (`Workspace`), the request (`Serve`, with the network and the service,
external) and its answer (`Receive`). Answers are good, an error in a body, a transient error
(after which the request may have been carried out), a rejection, or lost, with the request
arriving now, later (`Arrive`) or never. `status` are the sessions of the service, which go on by
themselves (`Evolve`), `told[p]` what a process was last told of one.

**`SkillSessions`** and **`SkillFiles`** extend it with the managers of sessions and files. A program is a
record `prog[p]` with the place where it stands; it waits at a place until its call is over.
`Ask`, `Checked`, `Validated`, `ValidatedAsync`, `NewSession` and `Waited` are `create_or_reuse` of both
managers, cut at their awaits; `Upload` to `Uploaded` is `upload_file`, whose object store is `stored`; the ID it returns
is that of the registration or, if that failed, the directory of the upload.

**`SkillCommands`** extends them with the commands. Those that send one request after the other are
scripts (`Script`), in which a request is `must` (an exception ends the command) or `tried`. `Send`,
`Prepared`, `Messaged` and `Poll` are `cmd_send`, also the first message of `db` and `file`; `Stream`,
`After`, `FollowUp` and `Complete` the foreground runs of those two; `Attach`, `Confirmed`,
`Watch` and `Query` are `cmd_attach`. A stream is only when (`Reading`, if ever) and what it ends with (`Outcome`), which
`SkillStream` has in detail. `Remote` maps a call to `RemoteCall`: its stage to the phase, its
operation to whether it may act twice. `sent`, `seen`, `told` and `acts` are history.

## The runs

Every passing run explores its whole state space; `SK` stops at the states where launches have raced. Deadlock checking is off where the
bounded instance stops of itself (budgets of calls and events spent, shutdown complete).

| run | what it shows |
| --- | --- |
| `SW_auto` | two senders and the automatic answer compete for asks, finished sessions are continued, with a broken stream, replays, lost answers and a crash: `DeliveryRecorded`, `AtMostOneReply`, `PendingConsistent`, `NoResendInDoubt`, `FollowUpKeepsItsTurn` |
| `SW_live` | streamed answers, asks and a report offer, cut off: `CheckpointCovers`, `ReportAfterAnalysis`; asks and ends of turns reach the session: `AskReachesUser`, `TurnEndReachesSession` |
| `SM_tools` | all tool calls but wait, two at a time, with restoration, housekeeping, shutdown: `LockExclusive`, `OneWatcher`, `RootOutlivesWork`, `HousekeepingRespectsSends`, `OnlyEndedRemoved` |
| `SM_live` | `ResultWakes`, `CloseReturns` |
| `PS_http` | Streamable HTTP, three requests, two owners, two sessions: `CapacityExact` (counters exact, limits kept, what is in use keeps its share, the end announced when it is), `NoAbandonedSession` |
| `PS_live` | SSE, three overlapping requests on one session: `SingleInitialization`, `RevokedIsCollected`, `ShutdownDrains` |
| `TR` | two principals, two authorizations, builds that fail, time out and are abandoned, shutdown, crashes: `AbandonedCounts` (one owner per directory, limits), `GrantsMatch`, `ClosedOnce`, `CallReturns`, `CloseReturns` |
| `SK` | two background runs of the skill on one session, with torn lock files, a kill at any place, a broken stream, one that ends early, and repeated messages: `ExactlyOnce`, `OneRunUnlessRaced`, `ReportStands`, `AskStopsRun` |
| `SL` | every foreground command alone, and two tasks that share a client or a session manager: `CallsImplementRemoteCall` (the refinement), `HandedOutReady`, `UnitCacheKeyed`, `FileIdNamesObject`, `ForegroundHonest`, `DoneMeansDone`, `CommandEnds` |
| `SW_finding_hidden_ask`, `SW_finding_early_report`, `SM_finding_lost_wake` | end in a counterexample, see [below](#divergences-between-the-code-and-its-documentation) |

**Bounds.** `MaxEvents` bounds the remote's log, `MaxCalls` and `MaxOps` what users do,
`MaxDrops` and `MaxCrashes` the accidents, `MaxErrors` is the code's
`maxConsecutiveErrors`, made small so that giving up happens. `MaxReplay` is how far before its
checkpoint a stream can begin: anywhere in the runs that pass, at the checkpoint itself in
`SW_finding_early_report`, which needs no more. Three events are a turn, an
ask and its end, two asks, or a turn, its end and the beginning of the follow-up; four
leave room for the end of the follow-up too, and for an answer or the offer of a report before the
turn ends. Two concurrent calls are enough for every race between calls, since the
lock admits one and the other is before it or after it; a third actor is the automatic
answer, the housekeeping or the restoration. One crash suffices for what a crash can
lose: the disk afterwards is a state the run also reaches by failed writes, and the
invariants proved hold for any number. `MaxWatchers` lets a watcher be replaced
(two in `SM_tools`) and replaced again (three in `SM_live`), `MaxAccepted` lets the remote take one message.
`MaxJobs` 2 lets an abandoned build meet a new one or a second principal within
`MaxTenants` 2 and `InitLimit` 1, where both limits refuse calls; the process may crash
any number of times. `PS_http` has every limit at one or two so that all of them refuse.

In `SK`, two runs are the least that can meet and enough to meet: while a third waits for
the lock it does nothing. Three events let a run read an ask or a failure after the answer to a
message before. `MaxFollowUps` 1 gives `db` a first message and a follow-up (the presets of
`cmd_file.py:32` have two; the theorems hold for any number). One fault of the network and the time-outs, which need none, together break a
stream more often than `MaxRetries` 1 (the code's default is 3) forgives. One kill hits the
command or the worker at each of their places. The constraint `NotRaced` ends the search where
a command has looked at the lock in the middle of another launch: there two workers may run
and nothing is claimed of them beyond `ExactlyOnce`, which concerns each stream by itself.

In `SL`, a command is alone in its process, and commands meet only in the service, where the one
sees of the other that sessions change: `Evolve` does that for any of them. Two tasks meet
in what they share, the attributes of a client (`Regions`: two imports for two regions) or a
session manager (`Managers`: one creates a session that the other asks for, refreshes or
removes). Two sessions are one that is asked for and one that is created. `MaxRetries` 1 (the
code has 3) and `MaxFaults` 2 (1 for the pairs) let an operation fail after its last retry and meet a fault of another kind before;
`MaxPolls` 2 lets a session be asked for again and the time run out. A request that is late is
forgotten when its process begins another call, and a thread that reads the unit it has just
stored is one step.

Symmetry (`SW_auto`, `SM_tools`, `PS_http`, `SK`) is declared for calls, lock objects, requests,
bindings and runs only, in runs without liveness; no action tells their members apart.

**Fairness.** Goroutines that can run do: weak fairness of the actions of watcher, calls
past their lock, housekeeping and shutdown. Requests to the remote return because the
client gives each a timeout (`dataagent/client.go:163`). The event stream has none
(`dataagent/sse.go:37`): there the remote is assumed to deliver what it has emitted and to
close a stream that has nothing more to say. Nothing is assumed of users (`Call`, `Resolve`, `Arrive`), of
the remote's willingness to work, of crashes or of breaks, which are bounded by budgets
instead. For the skill's programs (`SL`): they go on, and a request is answered or given up, since
each has a timeout (`client.py:546`, `:604`); nothing is assumed of the sessions: `CommandEnds` holds although
a session may be created for ever. Nor is anything assumed of streams: `stream_chat_content` has a
timeout for each read and no deadline, so that a service that goes on delivering holds a command as
long as it likes. `Reading` is therefore not fair, and `CommandEnds` says that a program ends or
comes to read a stream for ever. `SW_live` breaks the stream less often in a row than makes `Run` give up, and its
properties say so. In `SessionManager` locks are weakly fair for each actor (a
`sync.Mutex` hands over to a waiter that starves). In `TenantRegistry` timers fire and
goroutines run, but no step of a build is fair: `CallReturns` holds although a build may
hang for ever, and `CloseReturns` states its condition, that builds return, in its own
premise, as the comment on `Registry.Close` does.

## The proofs

All are checked by `tlapm`; no step is left out. The constants are arbitrary: any number
of events, calls, crashes, sessions, requests, principals, jobs, runs and any limits, under
the named assumptions in the modules: bounds are natural numbers, sets of bindings and
requests are finite, actors are distinct, and a model value that means "nothing" is none of
the values it is told apart from. Every invariant and every action property that a passing
run checks is also a theorem; `PROJECT.json` pairs them.

- **`SessionStateProofs`**: lemmas about the methods of `State` (what each preserves of the
  type and of the ledger, and which fields it leaves alone).
- **`SessionWatcherProofs`**, in four layers: each is inductive with the help of those before it.
  - `IInv` for `TypeOK`, `DeliveryRecorded`, `AtMostOneReply`, `PendingConsistent`. A reply is
    sent only when the ledger shows it unsent, so at-most-once needs to know that the ledger
    shows what was sent, on disk too, because a crash makes the disk the memory
    (`Knows(mem)`, `Knows(disk)`); that needs to know which ledgers can be reached at all
    (`Sound`), what a send under way has written already (`SendInv`), and that whoever is
    inside `sendMessage` holds the locks (`LockInv`).
  - `DoubtInv` for `NoResendInDoubt`: while a message is in doubt both copies of the record say
    so, and the two clauses that could lose it, a failed write and `stateFromSnapshot`, do not.
  - `StreamInv` for `CheckpointCovers` and `ReportAfterAnalysis`: between two events the
    answer that is being assembled begins after the cursor (`Reading`), so a break of the
    stream loses nothing that the cursor has passed (`Faithful`, of memory and of disk, which also
    says that a report is ready only when its turn's completion was applied); a report that is
    being asked for is ready (`ReportInv`).
  - `TurnInv` for `FollowUpKeepsItsTurn`: the turns before the last follow-up are in both
    copies of the record, so that a restart does not take one of them for its own (`FenceInv`),
    and what is over on disk is over in memory and no longer read (`EndInv`).
- **`SessionManagerProofs`**: `TypeOK`, `LockExclusive`, `OneWatcher`, `RootOutlivesWork`,
  `HousekeepingRespectsSends` and `OnlyEndedRemoved`. That the lock excludes rests on the count
  of references: whoever queues for a lock object or holds it has pinned the one in the map,
  since it is deleted only with its last reference (`LockInv`). Inside the lock an operation is
  alone, so what it has found (`WatcherInv`: which watchers run, which are cancelled, which is
  in the map) stays until it acts on it. `WorkInv` counts the work group for `Close`.
  `ReconcileInv` and `FollowInv` relate what housekeeping has read without the lock to what the
  record says when it has it.
- **`ProtocolSessionsProofs`**: `TypeOK`, `Accounting`, `WithinLimits`, `CapacityHeld`
  and `DrainedIsDrained`, together `CapacityExact`. A counter that never falls below zero is a
  statement about cardinalities: `Accounting` equates each counter with the set of requests and
  bindings it counts, and `IInv` adds which places in `ServeHTTP` hold what (a request that
  dispatches has a target in the table, a stream has one request). `SetupInv` adds what a request
  that has reserved a session still owes it (`FreshInv`), for `NoAbandonedSession` and
  `SingleInitialization`.
- **`TenantRegistryProofs`**: `TypeOK`, `OneOwner`, `GrantsMatch`, `ClosedOnce` from the
  invariant `IInv` (`JobInv` ties each stage to the maps, the handles and the runner;
  `MapInv` says that the maps name a job at most once and under its own key; `CallInv`
  that a waiting call's job has its authorization). `WithinLimits` needs `LimitInv` as well:
  the *keys* in the two maps are within the limit, and since each job in use owns a key,
  the jobs inject into the keys (`FS_Injection`).
- **`SkillCommandsProofs`**, in two halves.
  - `CallsImplementRemoteCall`, the refinement, and `UnitCacheKeyed`, for
    any programs, sessions, processes, retries and faults; the argument needs nothing of what the
    programs do but that they begin a call when the last one is over (`Begins`, proved program by
    program), and of the operations only what they have in common (`WellFormed`, proved for each).
    That a call made once does not act again is not inductive: `ActsInv` bounds how often it has
    acted by the number of its attempt, less one while the request is unsent or late, and, for
    a call with a token, ties what has acted to the tokens the service has seen; a call without a
    token is at its first attempt. `CallStep` says what a step makes of one call, one lemma per
    handler; `CallStepRemote` maps it to a step of `RemoteCall` or a stutter. The service is the
    model's, not the code's: that it honours a token is assumed (`Fresh`).
  - `PInv`, of the programs: `TypeOK`, `HandedOutReady`, `FileIdNamesObject`, `ForegroundHonest`,
    `DoneMeansDone`. Each program has its own places, and at each place what it remembers fits
    what it was told and what its call has found out (`Fits`). A step is one of the program itself,
    one of its call, or one of another program, which changes nothing that `Fits` speaks of.
- **`SkillWorkerProofs`**: `TypeOK`, `ExactlyOnce`, `OneRunUnlessRaced`, `ReportStands`,
  `AskStopsRun`, for any numbers of runs, events, retries and follow-ups. `Good` relates one stream to the log: what it has handled, where the next
  connection will begin, and that a numbered event it has handled lies at or before its
  checkpoint, so that none is handled twice. That one run works is not inductive, since it says
  nothing of the files: `Exclusive` widens it to runs that launch or give the lock back
  (`Active`), and `LockOf` says whose ID is in the lock file, or who has it open and is about
  to write it, so that a command that finds the lock free or stale knows that nobody is active
  (`LockExcludes`). Then nobody writes the two report files or speaks to the server while a
  run is at work (`Reported`, `Heeds`); `AskedLast` and `Good` carry the ask from the log to the
  flag. `TypeOK` needs in addition that a run that reports has a result (`Decided`).
- **`RemoteCallProofs`**: `RemoteCall` keeps its `Promise`, so every implementation does.

Only model-checked, because TLAPS does not reason about fairness: `AskReachesUser`,
`TurnEndReachesSession`, `ResultWakes`, `CloseReturns` (of the manager and of the registry),
`RevokedIsCollected`, `ShutdownDrains`, `CallReturns`, `CommandEnds`. The three properties of the
`finding` runs do not hold.

## Divergences between the code and its documentation

Shown by a run each, quoted in `PROJECT.json`:

1. *Hidden ask* (`watcher.go:394`, `manager.go:697`). A plan ask that was saved before its
   automatic answer, followed by a crash, is hidden from waiting calls on the ground that
   the answer is coming, and nothing sends it.
2. *Lost wake* (`manager.go:629`). `WaitForResult` keeps the channel of the entry it found
   first; when that watcher is replaced it sleeps until its time-out.

3. *Early report* (`watcher.go:314`, comment at `watcher.go:340`, test `confirmation_test.go:420`, "report
   sent before analysis was drained"). While a follow-up awaits its turn, the completion of the turn
   before is passed over without being marked as applied. An unfinished answer keeps the resume
   cursor before it; when the connection breaks after the new turn has begun and has offered its
   report, the completion is replayed, taken for the end of the new analysis, and the report is sent.
   `ReportAfterAnalysis` excepts exactly this (`OldEndApplied`).

Met while modelling, visible in the models, without a run of their own:

4. *Wrong ask* (`watcher.go:144`, comment at `watcher.go:160`, "bind replies to one ask"). A reply
   is bound to the ask that is open when `Watcher.SendMessage` reads the state, which may be newer
   than the one the user saw and `Manager.SendMessage` compared.
5. *Resend* (`watcher.go:110`, `state.go:278`). The user is told not to resend until the
   remote is verified; when `Run` gives up, the doubt is forgotten (`GiveUp`).
6. *Second follow-up* (`state.go:269`, test `confirmation_test.go:176`). A second message
   before the new turn begins clears `AwaitingTurn`, and the replayed end of the old turn
   ends the session. `FollowUpKeepsItsTurn` excepts it (`renewed`).
7. *IDLE* (`manager.go:952`, comment at `manager.go:289`). `WatchSession` of a session
   unknown to the server takes a coarse IDLE for the end although the remote may be asking.
8. *Half-marked directory* (`tenant/storage.go:168`). After a crash between temporary file
   and rename the directory is neither empty nor marked and stays refused (`Crash` at
   `Mark`). The installation guide has unmarked directories rejected, so this is by design,
   but nothing tells this case from tampering.
9. *Concurrent workers* (`cli/worker_lock.py:1`, "preventing concurrent workers per session").
   The lock is checked by the command and taken later; two commands that check before either
   has written start two workers, and a lock file read between `open` and `write` is taken for
   corrupt and removed (line 40). `OneRunUnlessRaced` excepts just these cases (`raced`); it and
   `AskStopsRun` and `ReportStands` claim nothing once launches have raced. A living worker of another
   user counts as dead (line 22); the model's runs are of one user (`Stale`).
10. *Completed, still running* (`cli/cmd_attach.py:35`, "the server status is the honest source").
   `_db_attach` returns `None` when its stream raises (`cli/cmd_db.py:140`), and after its
   second look `_post_query_state` takes a session that is still `RUNNING` for completed (`Look`,
   `WatchRead`), although it is to be "monitored to its next settle point first" (line 37): the one
   stream it reads meanwhile may end before that. A look that fails is printed and passed over.
   `db` and `file` do not look at all: a stream that ended while the session ran, or was read in part,
   counts as the whole answer, and the next query goes over an ask that comes later. `AskStopsRun`
   speaks of runs that have learnt what their last turn came to (`cut`).
11. *Raw output.* With `--output raw`, `_print_event` returns before the dispatch
    (`cli/streaming.py:350`), so no flag is ever set: an ask or a failure is reported as
    completed, and a `db` run sends its next query. The model describes the other modes.
12. *Failures that are not failures.* A stream that ends with `SSE_FAILURE`, with
    `chat_canceled`, or without `SSE_FINISH` (`sse_client.py:439`) leaves the flags unset, and
    `db` and `file` report `completed` (`DbRead`).
13. *Running for ever.* A worker that is killed, or exits before it takes the lock, leaves
    `status.txt` at "running" (`Kill`); only the next run of the session changes it.
14. *Two consecutive IDLE polls* (`cli/cmd_send.py:58`). A description that fails repeats the last
    status and counts as the second (`Poll`); `DoneMeansDone` claims only that the last thing heard
    of the session was that it is idle.
15. *Completed, asked* (`cli/cmd_db.py:372`). Whether a follow-up ended with an ask is
    dropped, and the foreground run of `db` reports completed (`DbResult`). `cli/cmd_file.py:245` swallows the
    exception of a follow-up, so that a stream that broke after it had shown a failure ends as
    completed too (`After`).
16. *Deleted* (`data_agent/file_manager.py:299`, "True if deletion was successful"). An error in the body of an
    HTTP 200 is not looked at; nor is it by `publish`, `update`, `import`, follow-ups and queries, which
    print success (`Fails`).
17. *Retries.* `create_session` is wrapped but converts its errors inside the wrapper and is never
    retried; `list_databases` and the `list_file_databases` it calls are both wrapped, 16 attempts in
    all (`Nested`); a message has no token, so a transient error after it was taken sends it twice,
   the second time perhaps over the ask the first has led to (`SendRetry`). `AskStopsRun` therefore
   speaks of first attempts, and `ForegroundHonest` of what the commands decide to send.
18. *Unit of a region* (`data_agent/client.py:165`). A hit of the process cache sets the unit of the client
    without its region (`UnitCached`), so the unit of another region can be taken for it later; the
    cache itself stays true (`UnitCacheKeyed`).
19. *Another session* (`data_agent/session.py:322`). The asynchronous manager creates a new session when the one it
    was asked for cannot be described (`ValidatedAsync`); the synchronous one raises.
    `refresh_session` stores its answer although the session was removed meanwhile.

## Not modelled

Signatures, token validation, identity mapping and configuration are pure functions of
text. Formatting of tool answers and logging change no state. The platform gateway passes
calls through. Image files and poll counters are data no property looks at. The arcvis
scripts check static files. Of the skill, the parser, the layout of output, the paged reading
of DMS metadata, downloads, notifications and the texts put together from fragments are left
out: they keep no state, or none that another part reads. What is left out but has behaviour
worth checking is in the plan. Data in the models is abstract: an event is its class and position, an ask its
position, a payload nothing; two different events with equal text, which the code
would take for one (`eventKey`), are therefore not confused here.

## The plan

Done: the delivery core (`SessionState`, `SessionWatcher`), its manager, the protocol
sessions, the tenant registry, the skill's stream and background runs, its client library and
foreground commands with the refinement of `RemoteCall`, and the proofs above, which cover
every safety property the runs check.

Next, in this order:

1. *Abstract specifications.* `Delivery` (each ask: open, in doubt, answered; at most one
   answer), implemented by `SessionWatcher`; `Ownership` (each directory: free or owned by one
   job), implemented by `TenantRegistry`. Refinements checked by TLC and proved.
2. *Storage.* `session/storage.go`: temporary file, rename, sync and crash, as the disk
   that `SessionWatcher` takes as atomic; images and the record that names them.
3. *Events.* `event/parser.go` and `eventKey`: parsing with its fallback mode as operators,
   checked against a reference over bounded inputs; which events collide.
4. *Client.* Retries, the workspace cache and the event stream reader
   (`dataagent/client.go`, `dataagent/sse.go`), composed with the watcher's reconnects.
5. *Wait registry* (`mcp/waits.go`) and the tools that combine several calls of the manager.
6. *Skill.* Texts assembled from fragments; on an instance with one worker, that every run that
   is not killed comes to its report.
7. *Proofs.* The refinements of item 1; the invariants of the modules of items 2 to 5 as
   they are written.

Runs of small components are combined so that the whole stays quick to check.
