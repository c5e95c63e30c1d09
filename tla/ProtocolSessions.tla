-------------------------- MODULE ProtocolSessions --------------------------
(***************************************************************************)
(* The protocol sessions of the remote MCP transports                      *)
(* (server/internal/mcp/http_sessions.go) and the HTTP requests that use   *)
(* them (remoteTransport.ServeHTTP in http_transport.go).                  *)
(*                                                                         *)
(* A binding is the record of one protocol session.  A request is a slot   *)
(* of the HTTP server that serves one request after another; pc says where *)
(* in ServeHTTP it is.  Every method of protocolSessions holds its mutex   *)
(* for its whole body and is one action here; what ServeHTTP does between  *)
(* two methods is a point where other requests, the sweeper and the        *)
(* shutdown interleave.                                                    *)
(*                                                                         *)
(* A binding is never used twice: the code issues a new random ID for      *)
(* every session, so Binding stands for all the sessions of a run.         *)
(***************************************************************************)
EXTENDS Integers, FiniteSets

CONSTANTS
    Binding,              \* the sessions that are ever issued
    Request,              \* concurrent HTTP requests
    Principal,            \* authenticated owners
    none,                 \* the target of a request that has no binding
    SSE,                  \* transport kind: TRUE "sse", FALSE "http"
    MaxSessions, MaxSessionsPerPrincipal,
    MaxInflightRequests, MaxInflightPerSession

ASSUME SessionAssumption ==
    /\ IsFiniteSet(Binding) /\ IsFiniteSet(Request)
    /\ Principal # {} /\ none \notin Binding
    /\ SSE \in BOOLEAN

ASSUME LimitAssumption ==
    {MaxSessions, MaxSessionsPerPrincipal, MaxInflightRequests, MaxInflightPerSession}
        \subseteq Nat \ {0}

VARIABLES
    all,            \* all: the bindings that hold capacity
    ids,            \* ids: the bindings whose ID is issued
    owners,         \* owners: bindings held per principal
    total,          \* inflight: dispatches under way in all sessions
    ctxDone,        \* ctx: the context of the transport is cancelled
    closed, drained,
    owner,          \* the fields of a binding ...
    ready, initializing, closing, stream, inflight,
    expired,        \* its authentication lease has run out
    used,           \* history: bindings that were ever reserved
    pc, target, caller, fresh     \* the request in each slot

tableVars   == <<all, ids, owners, total, ctxDone, closed, drained>>
bindingVars == <<owner, ready, initializing, closing, stream, inflight, expired, used>>
requestVars == <<pc, target, caller, fresh>>
vars == <<tableVars, bindingVars, requestVars>>

PC == {"idle", "arrived", "reserved", "got_stream", "streaming", "end_stream",
       "got_call", "initialize", "serving", "answered", "leaving"}

\* Every variable keeps its type; in particular no counter falls below zero
\* (owners, inflight).
TypeOK ==
    /\ all \subseteq Binding /\ ids \subseteq Binding /\ used \subseteq Binding
    /\ owners \in [Principal -> Nat] /\ total \in Nat
    /\ ctxDone \in BOOLEAN /\ closed \in BOOLEAN /\ drained \in BOOLEAN
    /\ owner \in [Binding -> Principal]
    /\ ready \in [Binding -> BOOLEAN] /\ initializing \in [Binding -> BOOLEAN]
    /\ closing \in [Binding -> BOOLEAN] /\ stream \in [Binding -> BOOLEAN]
    /\ expired \in [Binding -> BOOLEAN]
    /\ inflight \in [Binding -> Nat]
    /\ pc \in [Request -> PC]
    /\ target \in [Request -> Binding \cup {none}]
    /\ caller \in [Request -> Principal]
    /\ fresh \in [Request -> BOOLEAN]

Init ==
    /\ all = {} /\ ids = {} /\ used = {}
    /\ owners = [p \in Principal |-> 0] /\ total = 0
    /\ ctxDone = FALSE /\ closed = FALSE /\ drained = FALSE
    /\ owner = [b \in Binding |-> CHOOSE p \in Principal : TRUE]
    /\ ready = [b \in Binding |-> FALSE]
    /\ initializing = ready /\ closing = ready /\ stream = ready /\ expired = ready
    /\ inflight = [b \in Binding |-> 0]
    /\ pc = [r \in Request |-> "idle"]
    /\ target = [r \in Request |-> none]
    /\ caller = [r \in Request |-> CHOOSE p \in Principal : TRUE]
    /\ fresh = [r \in Request |-> FALSE]

\* liveLocked, for a binding of this store; its context ends with its store's.
Live(b) == ~ctxDone /\ ~closed /\ ~closing[b] /\ ~expired[b]

Goto(r, label) == pc' = [pc EXCEPT ![r] = label]

\* Mutant: collectLocked looks at the dispatches only.
CollectIgnoresStream(b, s, n) ==
    IF n = 0 /\ b \in all
    THEN /\ all' = all \ {b} /\ ids' = ids \ {b}
         /\ owners' = [owners EXCEPT ![owner[b]] = @ - 1]
         /\ drained' = (drained \/ (closed /\ all \ {b} = {}))
    ELSE UNCHANGED <<all, ids, owners, drained>>

\* collectLocked of a binding that is being closed, after its stream and
\* dispatches have become s and n: it gives its capacity back when neither is
\* left, and the last one to go after the close wakes the shutdown.
CollectWhenUnused(b, s, n) ==
    IF ~s /\ n = 0 /\ b \in all
    THEN /\ all' = all \ {b} /\ ids' = ids \ {b}
         /\ owners' = [owners EXCEPT ![owner[b]] = @ - 1]
         /\ drained' = (drained \/ (closed /\ all \ {b} = {}))
    ELSE UNCHANGED <<all, ids, owners, drained>>

\* revokeLocked, which also cancels the context of the binding.
RevokeLocked(b) ==
    /\ closing' = [closing EXCEPT ![b] = TRUE]
    /\ CollectWhenUnused(b, stream[b], inflight[b])

-----------------------------------------------------------------------------
(* A request arrives, authenticated as p.                                  *)

Arrive(r) ==
    /\ pc[r] = "idle"
    /\ \E p \in Principal :
         /\ caller' = [caller EXCEPT ![r] = p]
         /\ \/ \E b \in used :                  \* names a session
                 /\ target' = [target EXCEPT ![r] = b]
                 /\ fresh' = [fresh EXCEPT ![r] = FALSE]
            \/ /\ target' = [target EXCEPT ![r] = none]
               /\ fresh' = [fresh EXCEPT ![r] = TRUE]
    /\ Goto(r, "arrived")
    /\ UNCHANGED <<tableVars, bindingVars>>

\* rejectHTTP, before anything was reserved.
Reject(r) == /\ Goto(r, "idle")
             /\ target' = [target EXCEPT ![r] = none]
             /\ fresh' = [fresh EXCEPT ![r] = FALSE]

\* No further session for this principal.
SessionsExhausted(p) ==
    Cardinality(all) >= MaxSessions \/ owners[p] >= MaxSessionsPerPrincipal

\* A first POST, or the GET of the SSE transport, asks for a new session.
Reserve(r) ==
    /\ pc[r] = "arrived" /\ fresh[r]
    /\ IF closed \/ ctxDone \/ SessionsExhausted(caller[r])
       THEN Reject(r) /\ UNCHANGED <<tableVars, bindingVars, caller>>
       ELSE \E b \in Binding \ used :
              /\ all' = all \cup {b} /\ used' = used \cup {b}
              /\ owners' = [owners EXCEPT ![caller[r]] = @ + 1]
              /\ owner' = [owner EXCEPT ![b] = caller[r]]
              /\ target' = [target EXCEPT ![r] = b]
              /\ Goto(r, "reserved")
              /\ UNCHANGED <<ids, total, ctxDone, closed, drained, ready, initializing, closing, stream,
                             inflight, expired, caller, fresh>>

\* acquire: ownership, readiness and limits, in one step.
Acquirable(r, wantStream) ==
    LET b == target[r]
    IN  /\ IF fresh[r] THEN pc[r] = "reserved"
           ELSE pc[r] = "arrived" /\ b \in ids
        /\ Live(b) /\ owner[b] = caller[r]
        /\ ~fresh[r] /\ ~ready[b] => SSE /\ ~wantStream /\ ~initializing[b]

AcquireStream(r) ==
    LET b == target[r]
    IN  /\ Acquirable(r, TRUE)
        /\ SSE = fresh[r]                       \* an SSE GET never names an ID
        /\ ~stream[b]
        /\ stream' = [stream EXCEPT ![b] = TRUE]
        /\ Goto(r, "got_stream")
        /\ UNCHANGED <<tableVars, owner, ready, initializing, closing, inflight, expired, used,
                       target, caller, fresh>>

DispatchFree(b) == total < MaxInflightRequests /\ inflight[b] < MaxInflightPerSession

AcquireCall(r) ==
    LET b == target[r]
    IN  /\ Acquirable(r, FALSE)
        /\ fresh[r] => ~SSE
        /\ DispatchFree(b)
        /\ inflight' = [inflight EXCEPT ![b] = @ + 1]
        /\ total' = total + 1
        /\ Goto(r, "got_call")
        /\ UNCHANGED <<all, ids, owners, ctxDone, closed, drained, owner, ready, initializing, closing,
                       stream, expired, used, target, caller, fresh>>

\* acquire refuses (not found, conflict, too many requests), or a request that
\* names a session is refused before that.  A session that was reserved for the
\* request is given up.
AcquireRefused(r) ==
    LET b == target[r]
    IN  /\ \/ pc[r] = "reserved" /\ (~Live(b) \/ (~SSE /\ ~DispatchFree(b)))
           \/ pc[r] = "arrived" /\ ~fresh[r]
        /\ IF fresh[r] THEN RevokeLocked(b)
           ELSE UNCHANGED <<all, ids, owners, drained, closing>>
        /\ Reject(r)
        /\ UNCHANGED <<total, ctxDone, closed, owner, ready, initializing, stream, inflight, expired,
                       used, caller>>

\* DELETE of a session by its owner: no dispatch slot is needed.
Delete(r) ==
    LET b == target[r]
    IN  /\ pc[r] = "arrived" /\ ~fresh[r] /\ ~SSE
        /\ b \in ids /\ Live(b) /\ ready[b] /\ owner[b] = caller[r]
        /\ RevokeLocked(b)
        /\ Reject(r)
        /\ UNCHANGED <<total, ctxDone, closed, owner, ready, initializing, stream, inflight, expired,
                       used, caller>>

-----------------------------------------------------------------------------
(* A stream (GET).                                                         *)

\* The register hook binds the ID of an SSE stream, or revokes the session
\* when it has died meanwhile; an HTTP stream has its ID already.
RegisterStream(r) ==
    LET b == target[r]
    IN  /\ pc[r] = "got_stream"
        /\ IF ~fresh[r] THEN UNCHANGED <<all, ids, owners, drained, closing>>
           ELSE IF Live(b)
           THEN ids' = ids \cup {b} /\ UNCHANGED <<all, owners, drained, closing>>
           ELSE RevokeLocked(b)
        /\ Goto(r, "streaming")
        /\ UNCHANGED <<total, ctxDone, closed, owner, ready, initializing, stream, inflight, expired,
                       used, target, caller, fresh>>

\* The client goes, or the context is cancelled; the end of an SSE stream
\* revokes its session (the unregister hook and ServeHTTP both do).
StreamReturns(r) ==
    /\ pc[r] = "streaming"
    /\ IF SSE THEN RevokeLocked(target[r])
       ELSE UNCHANGED <<all, ids, owners, drained, closing>>
    /\ Goto(r, "end_stream")
    /\ UNCHANGED <<total, ctxDone, closed, owner, ready, initializing, stream, inflight, expired, used,
                   target, caller, fresh>>

\* Mutant: a stream ends without collecting the session it was the last user of.
FinishStreamOnly(r) ==
    /\ pc[r] = "end_stream"
    /\ stream' = [stream EXCEPT ![target[r]] = FALSE]
    /\ Goto(r, "leaving")
    /\ UNCHANGED <<tableVars, owner, ready, initializing, closing, inflight, expired,
                   used, target, caller, fresh>>

\* requestLease.finish of a stream.
FinishStream(r) ==
    LET b == target[r]
    IN  /\ pc[r] = "end_stream"
        /\ stream' = [stream EXCEPT ![b] = FALSE]
        /\ IF closing[b] THEN CollectWhenUnused(b, FALSE, inflight[b])
           ELSE UNCHANGED <<all, ids, owners, drained>>
        /\ Goto(r, "leaving")
        /\ UNCHANGED <<total, ctxDone, closed, owner, ready, initializing, closing, inflight, expired,
                       used, target, caller, fresh>>

-----------------------------------------------------------------------------
(* A message (POST).                                                       *)

\* Mutant: initialize looks at ready only.
BeginUnclaimed(r) ==
    LET b == target[r]
    IN  /\ pc[r] = "got_call" /\ Live(b)
        /\ \/ /\ SSE \/ fresh[r]
              /\ ~ready[b]
              /\ initializing' = [initializing EXCEPT ![b] = TRUE]
              /\ Goto(r, "initialize")
           \/ /\ ~fresh[r] /\ ready[b]
              /\ Goto(r, "serving")
              /\ UNCHANGED initializing
        /\ UNCHANGED <<tableVars, owner, ready, closing, stream, inflight, expired, used,
                       target, caller, fresh>>

\* begin: an initialize request claims the session, anything else needs it
\* ready.  Only a first POST initializes an HTTP session, and only that.
Begin(r) ==
    LET b == target[r]
    IN  /\ pc[r] = "got_call"
        /\ Live(b)
        /\ \/ /\ SSE \/ fresh[r]
              /\ ~ready[b] /\ ~initializing[b] /\ inflight[b] = 1
              /\ initializing' = [initializing EXCEPT ![b] = TRUE]
              /\ Goto(r, "initialize")
           \/ /\ ~fresh[r] /\ ready[b]
              /\ Goto(r, "serving")
              /\ UNCHANGED initializing
        /\ UNCHANGED <<tableVars, owner, ready, closing, stream, inflight, expired, used,
                       target, caller, fresh>>

\* The body is not readable or not acceptable, or the session has died.
BeginRefused(r) ==
    /\ pc[r] = "got_call"
    /\ Goto(r, "answered")
    /\ UNCHANGED <<tableVars, bindingVars, target, caller, fresh>>

\* The HTTP context callback gives a new session its ID, inside the dispatch.
BindId(r) ==
    LET b == target[r]
    IN  /\ pc[r] = "initialize" /\ ~SSE /\ b \notin ids /\ ~closing[b]
        /\ IF Live(b)
           THEN ids' = ids \cup {b} /\ UNCHANGED <<all, owners, drained, closing>>
           ELSE RevokeLocked(b)
        /\ UNCHANGED <<total, ctxDone, closed, owner, ready, initializing, stream, inflight, expired,
                       used, requestVars>>

\* commit after the initialize answer was written.
Commit(r) ==
    LET b == target[r]
    IN  /\ pc[r] = "initialize"
        /\ Live(b) /\ initializing[b] /\ b \in ids
        /\ ready' = [ready EXCEPT ![b] = TRUE]
        /\ initializing' = [initializing EXCEPT ![b] = FALSE]
        /\ Goto(r, "answered")
        /\ UNCHANGED <<tableVars, owner, closing, stream, inflight, expired, used,
                       target, caller, fresh>>

\* The dispatch failed, the answer was not written, or the session has died.
InitializeFails(r) ==
    /\ pc[r] = "initialize"
    /\ RevokeLocked(target[r])
    /\ Goto(r, "answered")
    /\ UNCHANGED <<total, ctxDone, closed, owner, ready, initializing, stream, inflight, expired, used,
                   target, caller, fresh>>

\* The handler returns.  On SSE a panic, or an answer that cannot be queued on
\* the stream, revokes the session.
HandlerReturns(r) ==
    /\ pc[r] = "serving"
    /\ \/ UNCHANGED <<all, ids, owners, drained, closing>>
       \/ SSE /\ RevokeLocked(target[r])
    /\ Goto(r, "answered")
    /\ UNCHANGED <<total, ctxDone, closed, owner, ready, initializing, stream, inflight, expired, used,
                   target, caller, fresh>>

\* requestLease.check fails before the dispatch: the deadline of this lease has
\* passed, or the session has died.  Nothing is revoked here.
CheckFails(r) ==
    /\ pc[r] \in {"initialize", "serving"}
    /\ Goto(r, "answered")
    /\ UNCHANGED <<tableVars, bindingVars, target, caller, fresh>>

\* requestLease.finish of a dispatch.
FinishCall(r) ==
    LET b == target[r]
    IN  /\ pc[r] = "answered"
        /\ inflight' = [inflight EXCEPT ![b] = @ - 1]
        /\ total' = total - 1
        /\ IF closing[b] THEN CollectWhenUnused(b, stream[b], inflight[b] - 1)
           ELSE UNCHANGED <<all, ids, owners, drained>>
        /\ Goto(r, "leaving")
        /\ UNCHANGED <<ctxDone, closed, owner, ready, initializing, closing, stream, expired, used,
                       target, caller, fresh>>

\* Mutant: a session whose initialization was refused stays in the table.
LeaveUnused(r) ==
    /\ pc[r] = "leaving"
    /\ Reject(r)
    /\ UNCHANGED <<tableVars, bindingVars, caller>>

\* ServeHTTP returns; a session reserved here that never became ready is revoked.
Leave(r) ==
    LET b == target[r]
    IN  /\ pc[r] = "leaving"
        /\ IF fresh[r] /\ ~ready[b] THEN RevokeLocked(b)
           ELSE UNCHANGED <<all, ids, owners, drained, closing>>
        /\ Reject(r)
        /\ UNCHANGED <<total, ctxDone, closed, owner, ready, initializing, stream, inflight, expired,
                       used, caller>>

-----------------------------------------------------------------------------
(* Time, the sweeper and the shutdown.                                     *)

\* The authentication lease of a session runs out; a request renews it only
\* before that.
Expire(b) ==
    /\ b \in all /\ ~expired[b]
    /\ expired' = [expired EXCEPT ![b] = TRUE]
    /\ UNCHANGED <<tableVars, owner, ready, initializing, closing, stream, inflight, used,
                   requestVars>>

\* sweep visits each session: expired, or unused for the idle timeout.
Sweep(b) ==
    /\ b \in all
    /\ expired[b] \/ (~stream[b] /\ inflight[b] = 0)
    /\ RevokeLocked(b)
    /\ UNCHANGED <<total, ctxDone, closed, owner, ready, initializing, stream, inflight, expired, used,
                   requestVars>>

\* The shutdown cancels the context first ...
Cancel ==
    /\ ~ctxDone /\ ctxDone' = TRUE
    /\ UNCHANGED <<all, ids, owners, total, closed, drained, bindingVars, requestVars>>

\* Mutant: close leaves it to the last user to wake the shutdown.
CloseWakesNobody ==
    /\ ctxDone /\ ~closed
    /\ closed' = TRUE
    /\ LET unused == {b \in all : ~stream[b] /\ inflight[b] = 0}
       IN  /\ closing' = [b \in Binding |-> closing[b] \/ b \in all]
           /\ all' = all \ unused /\ ids' = ids \ unused
           /\ owners' = [p \in Principal |->
                            owners[p] - Cardinality({b \in unused : owner[b] = p})]
    /\ UNCHANGED <<total, ctxDone, drained, owner, ready, initializing, stream, inflight,
                   expired, used, requestVars>>

\* ... and close revokes every session under one lock.
Close ==
    /\ ctxDone /\ ~closed
    /\ closed' = TRUE
    /\ LET unused == {b \in all : ~stream[b] /\ inflight[b] = 0}
       IN  /\ closing' = [b \in Binding |-> closing[b] \/ b \in all]
           /\ all' = all \ unused /\ ids' = ids \ unused
           /\ owners' = [p \in Principal |->
                            owners[p] - Cardinality({b \in unused : owner[b] = p})]
           /\ drained' = (drained \/ all \subseteq unused)
    /\ UNCHANGED <<total, ctxDone, owner, ready, initializing, stream, inflight, expired, used,
                   requestVars>>

-----------------------------------------------------------------------------
Serve(r) ==
    \/ Reserve(r) \/ AcquireStream(r) \/ AcquireCall(r) \/ AcquireRefused(r) \/ Delete(r)
    \/ RegisterStream(r) \/ StreamReturns(r) \/ FinishStream(r)
    \/ Begin(r) \/ BeginRefused(r) \/ BindId(r) \/ Commit(r) \/ InitializeFails(r)
    \/ CheckFails(r) \/ HandlerReturns(r) \/ FinishCall(r) \/ Leave(r)

Next ==
    \/ \E r \in Request : Arrive(r) \/ Serve(r)
    \/ \E b \in Binding : Expire(b) \/ Sweep(b)
    \/ Cancel \/ Close

Spec == Init /\ [][Next]_vars

\* Requests that were accepted run to their end: a handler returns, a stream is
\* cancelled by its own deadline or by the revocation of its session.  A process
\* that is told to stop calls close.
FairSpec == Spec /\ (\A r \in Request : WF_vars(Serve(r))) /\ WF_vars(Close)

-----------------------------------------------------------------------------
(* Properties.                                                             *)

StreamPC == {"got_stream", "streaming", "end_stream"}
CallPC   == {"got_call", "initialize", "serving", "answered"}

StreamsOf(b) == {r \in Request : pc[r] \in StreamPC /\ target[r] = b}
CallsOf(b)   == {r \in Request : pc[r] \in CallPC /\ target[r] = b}
CallsUnderWay == {r \in Request : pc[r] \in CallPC}
SessionsOf(p) == {b \in all : owner[b] = p}

\* The counters are what they count, at every moment, whatever is revoked,
\* expires or closes meanwhile: the dispatches in all and in each session and the
\* one stream of a session (inflight, stream) ...
LeasesCounted ==
    /\ total = Cardinality(CallsUnderWay)
    /\ \A b \in Binding :
         /\ inflight[b] = Cardinality(CallsOf(b))
         /\ stream[b] <=> StreamsOf(b) # {}
         /\ \A r1, r2 \in StreamsOf(b) : r1 = r2

\* ... and the sessions of each owner (owners).
OwnersCounted == \A p \in Principal : owners[p] = Cardinality(SessionsOf(p))

\* Both: no request, revocation or shutdown leaks or double-counts capacity.
Accounting == LeasesCounted /\ OwnersCounted

\* No limit of the configuration is ever exceeded by what is really running.
WithinLimits ==
    /\ Cardinality(all) <= MaxSessions
    /\ \A p \in Principal : Cardinality(SessionsOf(p)) <= MaxSessionsPerPrincipal
    /\ Cardinality(CallsUnderWay) <= MaxInflightRequests
    /\ \A b \in Binding : Cardinality(CallsOf(b)) <= MaxInflightPerSession

\* "Closing records keep their capacity until their last real dispatch and
\* connection have exited": a session that a request still uses is in the table,
\* however it was revoked.
CapacityHeld ==
    \A r \in Request : pc[r] \in StreamPC \cup CallPC => target[r] \in all

\* A session that holds capacity and is neither ready nor closing is still the
\* business of the request that reserved it, which will revoke it: a failed or
\* abandoned initialization leaks nothing.
NoAbandonedSession ==
    \A b \in all : ~ready[b] /\ ~closing[b] =>
        \E r \in Request : fresh[r] /\ target[r] = b

\* A session is initialized by one request at a time, and not again once it is
\* ready; no other request is served before (begin, commit).
SingleInitialization ==
    \A r \in Request :
        /\ pc[r] = "initialize" =>
             /\ initializing[target[r]] /\ ~ready[target[r]]
             /\ \A q \in Request : pc[q] = "initialize" /\ target[q] = target[r] => q = r
        /\ pc[r] = "serving" => ready[target[r]]

\* The shutdown is told that everything has exited exactly when it has: no
\* request still holds a session, and none gets one afterwards (drained).
DrainedIsDrained ==
    /\ drained <=> (closed /\ all = {})
    /\ drained => \A r \in Request : pc[r] \notin StreamPC \cup CallPC

\* Capacity is accounted for to the end: its counters are exact, its limits are kept,
\* what is in use keeps its share, and the shutdown is told when all has been given
\* back (http_sessions.go).
CapacityExact == Accounting /\ WithinLimits /\ CapacityHeld /\ DrainedIsDrained

\* A revoked session gives its capacity back.
RevokedIsCollected == \A b \in Binding : closing[b] ~> b \notin all

\* A shutdown is never left waiting for drained (remoteTransport.close).
ShutdownDrains == ctxDone ~> drained
=============================================================================
