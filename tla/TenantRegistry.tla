--------------------------- MODULE TenantRegistry ---------------------------
(***************************************************************************)
(* The registry of tenants: remote calls (Resolve) find or start the one   *)
(* initialization of their principal and wait for it; the initialization   *)
(* builds credentials, storage root and session manager and publishes the  *)
(* tenant; a runner restores its sessions and keeps house; Close cancels   *)
(* and joins everything.  Builds cannot be interrupted, so an              *)
(* initialization outlives its timeout and keeps its slot until it has     *)
(* cleaned up.                                                             *)
(*                                                                         *)
(* A job stands for an initialization, the tenant it builds and that       *)
(* tenant's runner.  handle is the tenant's storage root and manager.      *)
(* storage is the principal's directory and survives a crash.              *)
(***************************************************************************)
EXTENDS Naturals, FiniteSets

CONSTANTS
    Key,            \* principals
    Grant,          \* what the configuration maps a caller to: group, role, defaults
    Caller,         \* concurrent calls of Resolve
    none,           \* no job
    MaxTenants,     \* Identity.MaxTenants
    InitLimit,      \* maxInitializations (8)
    MaxRestores,    \* maxRestores (4)
    MaxJobs         \* bound: initializations ever begun by one process

ASSUME RegistryAssumption ==
    /\ {MaxTenants, InitLimit, MaxRestores, MaxJobs} \subseteq Nat
    /\ none \notin Nat

Job == 1..MaxJobs

VARIABLES
    phase,          \* of the registry: open, canceled (baseCtx), closing, closed
    tenants,        \* Registry.tenants
    inflight,       \* Registry.inflight
    who,            \* the principal and authorization of a job
    stage,          \* how far initialize has come
    late,           \* the job's timer has fired
    result,         \* the error of a job, or "ok"
    handle,         \* root and manager of the tenant
    closes,         \* history: how often closeTenant began with these handles
    runner,         \* runTenant
    caller,         \* the calls
    storage         \* the principal's directory

mapVars  == <<phase, tenants, inflight>>
jobVars  == <<who, stage, late, result>>
tenantVars == <<handle, closes, runner>>
vars == <<mapVars, jobVars, tenantVars, caller, storage>>

Building == {"provider", "root", "mark", "manager"}
Stage    == {"free", "built", "cleanup", "deregister", "done"} \cup Building
Result   == {"none", "ok", "failed", "timeout"}

CallType == [pc : {"idle", "waiting"}, job : Job \cup {none}, key : Key \cup {none},
             grant : Grant \cup {none}, got : BOOLEAN]

\* got says whether the last call ended with a tenant, the one of job.
NoCall == [pc |-> "idle", job |-> none, key |-> none, grant |-> none, got |-> FALSE]

\* A fresh process: an empty registry over whatever the disk holds.
Boot ==
    /\ phase' = "open"
    /\ tenants' = [k \in Key |-> none] /\ inflight' = [k \in Key |-> none]
    /\ who' = [j \in Job |-> none] /\ stage' = [j \in Job |-> "free"]
    /\ late' = [j \in Job |-> FALSE] /\ result' = [j \in Job |-> "none"]
    /\ handle' = [j \in Job |-> "none"] /\ closes' = [j \in Job |-> 0]
    /\ runner' = [j \in Job |-> "none"]
    /\ caller' = [c \in Caller |-> NoCall]

Init ==
    /\ phase = "open"
    /\ tenants = [k \in Key |-> none] /\ inflight = [k \in Key |-> none]
    /\ who = [j \in Job |-> none] /\ stage = [j \in Job |-> "free"]
    /\ late = [j \in Job |-> FALSE] /\ result = [j \in Job |-> "none"]
    /\ handle = [j \in Job |-> "none"] /\ closes = [j \in Job |-> 0]
    /\ runner = [j \in Job |-> "none"]
    /\ caller = [c \in Caller |-> NoCall]
    /\ storage = [k \in Key |-> "empty"]

Stopped    == phase # "open"                     \* baseCtx.Err() # nil
Closed     == phase \in {"closing", "closed"}    \* Registry.closed
Expired(j) == late[j] \/ Stopped                 \* job.ctx.Err() # nil
Live(m)    == {k \in Key : m[k] # none}

-----------------------------------------------------------------------------
(* Resolve: calls wait for the initialization of their principal.          *)

Call(pc, k, g, j, got) == [pc |-> pc, job |-> j, key |-> k, grant |-> g, got |-> got]

Give(c, k, g, j)  == caller' = [caller EXCEPT ![c] = Call("idle", k, g, j, TRUE)]
Refuse(c)         == caller' = [caller EXCEPT ![c] = NoCall]
Await(c, k, g, j) == caller' = [caller EXCEPT ![c] = Call("waiting", k, g, j, FALSE)]

NoSlot ==
    \/ Cardinality(Live(tenants)) + Cardinality(Live(inflight)) >= MaxTenants
    \/ Cardinality(Live(inflight)) >= InitLimit

\* BUG: samePending is not asked.
JoinAnyone(c, k, g) ==
    /\ inflight[k] # none
    /\ Await(c, k, g, inflight[k])
    /\ UNCHANGED <<inflight, jobVars>>

\* The part of tenant() under the mutex that finds no reason to refuse or answer.
Join(c, k, g) ==
    /\ inflight[k] # none /\ who[inflight[k]].grant = g
    /\ Await(c, k, g, inflight[k])
    /\ UNCHANGED <<inflight, jobVars>>

Start(c, k, g) ==
    /\ inflight[k] = none /\ ~NoSlot
    /\ \E j \in Job :
        /\ stage[j] = "free" /\ \A i \in 1..(j - 1) : stage[i] # "free"
        /\ inflight' = [inflight EXCEPT ![k] = j]
        /\ who' = [who EXCEPT ![j] = [key |-> k, grant |-> g]]
        /\ stage' = [stage EXCEPT ![j] = "provider"]
        /\ Await(c, k, g, j)
    /\ UNCHANGED <<late, result>>

\* Registry.tenant up to the wait: refuse, hand out the tenant there is, or wait for
\* an initialization.
Resolve(c) ==
    \E k \in Key, g \in Grant :
        /\ caller[c].pc = "idle"
        /\ \/ /\ Stopped /\ Refuse(c)                               \* errClosed
              /\ UNCHANGED <<inflight, jobVars>>
           \/ /\ ~Stopped /\ tenants[k] # none
              /\ IF who[tenants[k]].grant = g
                 THEN Give(c, k, g, tenants[k])
                 ELSE Refuse(c)                                     \* errMappingChanged
              /\ UNCHANGED <<inflight, jobVars>>
           \/ /\ ~Stopped /\ tenants[k] = none
              /\ \/ Join(c, k, g) \/ Start(c, k, g)
                 \/ /\ inflight[k] # none /\ who[inflight[k]].grant # g
                    /\ Refuse(c)                                    \* errMappingChanged
                    /\ UNCHANGED <<inflight, jobVars>>
                 \/ /\ inflight[k] = none /\ NoSlot
                    /\ Refuse(c)                                    \* errBusy
                    /\ UNCHANGED <<inflight, jobVars>>
        /\ UNCHANGED <<phase, tenants, tenantVars, storage>>

\* The context of the waiting call ends first.
Leave(c) ==
    /\ caller[c].pc = "waiting" /\ Refuse(c)
    /\ UNCHANGED <<mapVars, jobVars, tenantVars, storage>>

\* BUG: only the end of the job ends the wait.
WaitEndsWhenDone(c) ==
    /\ caller[c].pc = "waiting"
    /\ LET j == caller[c].job IN
       \/ stage[j] = "done" /\ Refuse(c)
       \/ /\ stage[j] = "done" /\ result[j] = "ok"
          /\ Give(c, caller[c].key, caller[c].grant, j)
    /\ UNCHANGED <<mapVars, jobVars, tenantVars, storage>>

\* The wait ends with the context of the job (errClosed, or errInitTimeout unless the
\* job is done) or with the job: its error, or its tenant unless the token of the
\* call has expired meanwhile.
WaitEnds(c) ==
    /\ caller[c].pc = "waiting"
    /\ LET j == caller[c].job IN
       \/ (Expired(j) \/ stage[j] = "done") /\ Refuse(c)
       \/ /\ stage[j] = "done" /\ result[j] = "ok"
          /\ Give(c, caller[c].key, caller[c].grant, j)
    /\ UNCHANGED <<mapVars, jobVars, tenantVars, storage>>

-----------------------------------------------------------------------------
(* initialize and buildTenant.                                             *)

JobFrame == UNCHANGED <<phase, closes, runner, caller>>

\* The timer of job.ctx fires.
Timeout(j) ==
    /\ stage[j] \notin {"free", "done"} /\ ~late[j] /\ ~Stopped
    /\ late' = [late EXCEPT ![j] = TRUE]
    /\ UNCHANGED <<tenants, inflight, who, stage, result, handle, storage>> /\ JobFrame

\* buildTenant returns.
Return(j, r) ==
    /\ stage' = [stage EXCEPT ![j] = "built"] /\ result' = [result EXCEPT ![j] = r]

Advance(j, next) ==
    stage' = [stage EXCEPT ![j] = next] /\ UNCHANGED result

BuildFrame == UNCHANGED <<tenants, inflight, who, late>> /\ JobFrame

\* newProviderFn and the first use of the credentials, either of which may fail; the
\* context is asked before and after them.
Provider(j) ==
    /\ stage[j] = "provider"
    /\ \/ ~Expired(j) /\ Advance(j, "root")
       \/ Expired(j) /\ Return(j, "timeout")
       \/ Return(j, "failed")
    /\ UNCHANGED <<handle, storage>> /\ BuildFrame

\* openTenantRoot, begun in time: a marked directory is opened, an empty one is marked
\* first, any other is refused.
OpenRoot(j) ==
    LET k == who[j].key IN
    /\ stage[j] = "root"
    /\ \/ /\ storage[k] = "owned" /\ Advance(j, "manager")
          /\ handle' = [handle EXCEPT ![j] = "open"] /\ UNCHANGED storage
       \/ /\ storage[k] = "empty" /\ Advance(j, "mark")
          /\ storage' = [storage EXCEPT ![k] = "unmarked"] /\ UNCHANGED handle
       \/ /\ Return(j, "failed") /\ UNCHANGED <<handle, storage>>
    /\ BuildFrame

\* verifyOwner, with its temporary file written: renamed, or removed again.  The
\* directory may fail to be synced after the rename.
Mark(j) ==
    LET k == who[j].key IN
    /\ stage[j] = "mark"
    /\ \/ /\ Advance(j, "manager")
          /\ storage' = [storage EXCEPT ![k] = "owned"]
          /\ handle' = [handle EXCEPT ![j] = "open"]
       \/ /\ Return(j, "failed")
          /\ storage' \in {[storage EXCEPT ![k] = "owned"], [storage EXCEPT ![k] = "empty"]}
          /\ UNCHANGED handle
    /\ BuildFrame

NewManager(j) ==
    /\ stage[j] = "manager"
    /\ \/ Expired(j) /\ Return(j, "timeout")
       \/ ~Expired(j) /\ (Return(j, "ok") \/ Return(j, "failed"))
    /\ UNCHANGED <<handle, storage>> /\ BuildFrame

\* BUG: whatever was built in time for the caller to wait is published, even if the
\* registry has been closed since.
PublishAnyway(j) ==
    /\ stage[j] = "built"
    /\ IF result[j] = "ok"
       THEN /\ tenants' = [tenants EXCEPT ![who[j].key] = j]
            /\ runner' = [runner EXCEPT ![j] = "queued"]
            /\ Advance(j, "deregister")
       ELSE /\ stage' = [stage EXCEPT ![j] = "cleanup"]
            /\ UNCHANGED <<result, tenants, runner>>
    /\ UNCHANGED <<phase, inflight, who, late, handle, closes, caller, storage>>

\* BUG: the slot is given back at once, not when the cleanup has ended.
PublishReleasing(j) ==
    /\ stage[j] = "built"
    /\ inflight' = [inflight EXCEPT ![who[j].key] = none]
    /\ IF result[j] = "ok" /\ ~Expired(j)
       THEN /\ tenants' = [tenants EXCEPT ![who[j].key] = j]
            /\ runner' = [runner EXCEPT ![j] = "queued"]
            /\ Advance(j, "deregister")
       ELSE /\ stage' = [stage EXCEPT ![j] = "cleanup"]
            /\ result' = [result EXCEPT ![j] = IF @ = "ok" THEN "timeout" ELSE @]
            /\ UNCHANGED <<tenants, runner>>
    /\ UNCHANGED <<phase, who, late, handle, closes, caller, storage>>

\* The first critical section of initialize: a tenant built in time is published,
\* and its runner started.
Publish(j) ==
    /\ stage[j] = "built"
    /\ IF result[j] = "ok" /\ ~Expired(j)
       THEN /\ tenants' = [tenants EXCEPT ![who[j].key] = j]
            /\ runner' = [runner EXCEPT ![j] = "queued"]
            /\ Advance(j, "deregister")
       ELSE /\ stage' = [stage EXCEPT ![j] = "cleanup"]
            /\ result' = [result EXCEPT ![j] = IF @ = "ok" THEN "timeout" ELSE @]
            /\ UNCHANGED <<tenants, runner>>
    /\ UNCHANGED <<phase, inflight, who, late, handle, closes, caller, storage>>

\* closeTenant of what was built and not published.
Cleanup(j) ==
    /\ stage[j] = "cleanup" /\ Advance(j, "deregister")
    /\ IF handle[j] = "open"
       THEN /\ handle' = [handle EXCEPT ![j] = "closed"]
            /\ closes' = [closes EXCEPT ![j] = @ + 1]
       ELSE UNCHANGED <<handle, closes>>
    /\ UNCHANGED <<mapVars, who, late, runner, caller, storage>>

\* BUG: a closed registry needs no bookkeeping any more.
DeregisterWhileOpen(j) ==
    /\ ~Closed
    /\ stage[j] = "deregister" /\ Advance(j, "done")
    /\ inflight' = [inflight EXCEPT ![who[j].key] = none]
    /\ UNCHANGED <<phase, tenants, who, late, tenantVars, caller, storage>>

\* The second critical section: the slot is free, the waiting calls are woken.
Deregister(j) ==
    /\ stage[j] = "deregister" /\ Advance(j, "done")
    /\ inflight' = [inflight EXCEPT ![who[j].key] = none]
    /\ UNCHANGED <<phase, tenants, who, late, tenantVars, caller, storage>>

Build(j) == Provider(j) \/ OpenRoot(j) \/ Mark(j) \/ NewManager(j)

-----------------------------------------------------------------------------
(* runTenant.                                                              *)

Restoring == {j \in Job : runner[j] = "restoring"}

RunnerFrame == UNCHANGED <<mapVars, jobVars, handle, closes, caller, storage>>

RunTo(j, pc) == runner' = [runner EXCEPT ![j] = pc]

\* A place among the restorations, or the end of the process.  A manager that is
\* being closed begins nothing.
Acquire(j) ==
    /\ runner[j] = "queued"
    /\ \/ Stopped /\ RunTo(j, "done")
       \/ /\ ~Stopped /\ Cardinality(Restoring) < MaxRestores
          /\ RunTo(j, "restoring")
    /\ RunnerFrame

\* The place is given back; housekeeping runs until baseCtx is canceled.
RestoreEnds(j) ==
    /\ runner[j] = "restoring"
    /\ RunTo(j, IF Stopped THEN "done" ELSE "housekeeping")
    /\ RunnerFrame

HousekeepingEnds(j) ==
    /\ runner[j] = "housekeeping" /\ Stopped /\ RunTo(j, "done") /\ RunnerFrame

Run(j) == Acquire(j) \/ RestoreEnds(j) \/ HousekeepingEnds(j)

-----------------------------------------------------------------------------
(* Shutdown and crash.                                                     *)

\* The process is told to stop: baseCtx is canceled before Close is called.
Cancel ==
    /\ phase = "open" /\ phase' = "canceled"
    /\ UNCHANGED <<tenants, inflight, jobVars, tenantVars, caller, storage>>

Published == {j \in Job : \E k \in Key : tenants[k] = j}

\* Close up to the waits: cancel everything and begin to close what is published.
Close ==
    /\ phase \in {"open", "canceled"} /\ phase' = "closing"
    /\ handle' = [j \in Job |-> IF j \in Published THEN "closing" ELSE handle[j]]
    /\ closes' = [j \in Job |-> IF j \in Published THEN closes[j] + 1 ELSE closes[j]]
    /\ UNCHANGED <<tenants, inflight, jobVars, runner, caller, storage>>

\* Manager.Close has joined the manager's own work, and the root is closed.
TenantCloses(j) ==
    /\ handle[j] = "closing" /\ runner[j] \notin {"restoring", "housekeeping"}
    /\ handle' = [handle EXCEPT ![j] = "closed"]
    /\ UNCHANGED <<mapVars, jobVars, closes, runner, caller, storage>>

\* wg and closing are at zero.
CloseEnds ==
    /\ phase = "closing" /\ phase' = "closed"
    /\ \A j \in Job : /\ stage[j] \in {"free", "done"} /\ runner[j] \in {"none", "done"}
                      /\ handle[j] # "closing"
    /\ tenants' = [k \in Key |-> none]
    /\ UNCHANGED <<inflight, jobVars, tenantVars, caller, storage>>

Crash == Boot /\ UNCHANGED storage

Next ==
    \/ \E c \in Caller : Resolve(c) \/ Leave(c) \/ WaitEnds(c)
    \/ \E j \in Job : \/ Timeout(j) \/ Build(j) \/ Publish(j) \/ Cleanup(j)
                      \/ Deregister(j) \/ Run(j) \/ TenantCloses(j)
    \/ Cancel \/ Close \/ CloseEnds \/ Crash

Spec == Init /\ [][Next]_vars

\* Goroutines that can run do, and timers fire.  A build is at the mercy of the
\* credential service and the disk: nothing is assumed of it.
Fairness ==
    /\ \A c \in Caller : WF_vars(WaitEnds(c))
    /\ \A j \in Job : /\ WF_vars(Timeout(j)) /\ WF_vars(Publish(j)) /\ WF_vars(Cleanup(j))
                      /\ WF_vars(Deregister(j)) /\ WF_vars(Run(j)) /\ WF_vars(TenantCloses(j))
    /\ WF_vars(CloseEnds)

FairSpec == Spec /\ Fairness

-----------------------------------------------------------------------------
(* Properties.                                                             *)

\* Every variable keeps its type, and a call that waits has something to wait for.
TypeOK ==
    /\ phase \in {"open", "canceled", "closing", "closed"}
    /\ tenants \in [Key -> Job \cup {none}] /\ inflight \in [Key -> Job \cup {none}]
    /\ who \in [Job -> [key : Key, grant : Grant] \cup {none}]
    /\ stage \in [Job -> Stage] /\ late \in [Job -> BOOLEAN] /\ result \in [Job -> Result]
    /\ handle \in [Job -> {"none", "open", "closing", "closed"}] /\ closes \in [Job -> Nat]
    /\ runner \in [Job -> {"none", "queued", "restoring", "housekeeping", "done"}]
    /\ caller \in [Caller -> CallType]
    /\ \A c \in Caller : caller[c].pc = "waiting" => caller[c].job \in Job
    /\ storage \in [Key -> {"empty", "unmarked", "owned"}]

InUse(j) == stage[j] \in {"root", "mark", "manager"} \/ handle[j] \in {"open", "closing"}

\* A principal's directory is never in the hands of two initializations or tenants,
\* even when a build has outlived its timeout and the principal calls again: "Only
\* this registry initializes a principal at a time" (storage.go).
OneOwner ==
    \A i, j \in Job : InUse(i) /\ InUse(j) /\ who[i].key = who[j].key => i = j

\* Builds that nobody waits for any more still count: the open tenants, the builds
\* and the restorations stay within their limits.
WithinLimits ==
    /\ Cardinality({j \in Job : InUse(j)}) <= MaxTenants
    /\ Cardinality({j \in Job : stage[j] \in Building \cup {"built", "cleanup"}}) <= InitLimit
    /\ Cardinality(Restoring) <= MaxRestores

\* A build that has outlived its caller and its timeout keeps its directory and its
\* slot until it really ends: no other gets either meanwhile (initialize).
AbandonedCounts == OneOwner /\ WithinLimits

\* A call is only ever given the tenant of its own principal and with its own
\* authorization, however many calls shared the initialization, and a tenant that
\* has not been closed behind its back.
GrantsMatch ==
    \A c \in Caller : caller[c].got =>
        LET j == caller[c].job IN
        /\ who[j] = [key |-> caller[c].key, grant |-> caller[c].grant]
        /\ handle[j] = "open" \/ Closed

\* Root and manager of a tenant are closed once: by its initialization or by Close,
\* never by both, and when Close returns nothing is left open or running.
ClosedOnce ==
    /\ \A j \in Job : closes[j] <= 1 /\ (handle[j] \in {"closing", "closed"} => closes[j] = 1)
    /\ phase = "closed" => \A j \in Job : /\ handle[j] \in {"none", "closed"}
                                          /\ stage[j] \in {"free", "done"}

\* A call that waits returns, even if the build it waits for never does.
CallReturns == \A c \in Caller : caller[c].pc = "waiting" ~> caller[c].pc # "waiting"

\* If every build returns some day, then so does Close.
CloseReturns ==
    (\A j \in Job : []<>(stage[j] \notin Building)) =>
        (phase = "closing" ~> phase # "closing")
=============================================================================
