---------------------- MODULE ProtocolSessionsProofs ----------------------
(***************************************************************************)
(* What ProtocolSessions guarantees for every number of sessions, requests *)
(* and principals, for both transports and for all limits: the types, the  *)
(* accounting, the limits, that a session in use keeps its capacity, and   *)
(* that drained is signalled exactly when everything has exited.           *)
(*                                                                         *)
(* A step of the system has an effect on the leases (which requests hold   *)
(* which session) and one on the table (which sessions hold capacity).     *)
(* The actions are mapped to these effects once; the invariants are proved *)
(* of the effects.                                                         *)
(*                                                                         *)
(* How sessions are set up is proved on top of that (SetupInv): no session *)
(* is abandoned, and one request at a time initializes it.                 *)
(***************************************************************************)
EXTENDS ProtocolSessions, FiniteSetTheorems, TLAPS

Holding == StreamPC \cup CallPC

\* IDs are issued to sessions of the table only, and a session leaves the
\* table by being closed.
TableInv ==
    /\ ids \subseteq all /\ all \subseteq used
    /\ \A b \in used : b \in all \/ closing[b]

\* A request that is past its arrival has a session.
TargetInv ==
    \A r \in Request : \/ pc[r] = "idle"
                       \/ pc[r] = "arrived" /\ fresh[r]
                       \/ target[r] \in used

LimitInv ==
    /\ Cardinality(all) <= MaxSessions
    /\ \A p \in Principal : owners[p] <= MaxSessionsPerPrincipal
    /\ total <= MaxInflightRequests
    /\ \A b \in Binding : inflight[b] <= MaxInflightPerSession

DrainInv == drained <=> (closed /\ all = {})

IInv == /\ TypeOK /\ TableInv /\ TargetInv /\ LimitInv /\ DrainInv
        /\ LeasesCounted /\ OwnersCounted /\ CapacityHeld

-----------------------------------------------------------------------------
(* The effects of a step.                                                  *)

Others(r) == \A q \in Request \ {r} : pc'[q] = pc[q] /\ target'[q] = target[q]

SameLeases ==
    /\ UNCHANGED <<stream, inflight, total>>
    /\ \A q \in Request : /\ pc'[q] \in StreamPC <=> pc[q] \in StreamPC
                          /\ pc'[q] \in CallPC <=> pc[q] \in CallPC
                          /\ pc[q] \in Holding => target'[q] = target[q]

GainStream(r, b) ==
    /\ pc[r] \notin Holding /\ pc'[r] \in StreamPC /\ target'[r] = b /\ Others(r)
    /\ b \in all /\ ~stream[b]
    /\ stream' = [stream EXCEPT ![b] = TRUE] /\ UNCHANGED <<inflight, total>>

LoseStream(r, b) ==
    /\ pc[r] \in StreamPC /\ target[r] = b /\ pc'[r] \notin Holding /\ Others(r)
    /\ stream' = [stream EXCEPT ![b] = FALSE] /\ UNCHANGED <<inflight, total>>

GainCall(r, b) ==
    /\ pc[r] \notin Holding /\ pc'[r] \in CallPC /\ target'[r] = b /\ Others(r)
    /\ b \in all /\ DispatchFree(b)
    /\ inflight' = [inflight EXCEPT ![b] = @ + 1] /\ total' = total + 1
    /\ UNCHANGED stream

LoseCall(r, b) ==
    /\ pc[r] \in CallPC /\ target[r] = b /\ pc'[r] \notin Holding /\ Others(r)
    /\ inflight' = [inflight EXCEPT ![b] = @ - 1] /\ total' = total - 1
    /\ UNCHANGED stream

LeaseEffect ==
    \/ SameLeases
    \/ \E r \in Request, b \in Binding :
         GainStream(r, b) \/ LoseStream(r, b) \/ GainCall(r, b) \/ LoseCall(r, b)

ClosingGrows == \A b \in Binding : closing[b] => closing'[b]

SameTable ==
    /\ UNCHANGED <<all, owners, owner, drained, closed, used>>
    /\ ids' \subseteq all

Grow(b, p) ==
    /\ b \notin used /\ ~closed /\ ~SessionsExhausted(p)
    /\ all' = all \cup {b} /\ used' = used \cup {b}
    /\ owners' = [owners EXCEPT ![p] = @ + 1]
    /\ owner' = [owner EXCEPT ![b] = p]
    /\ UNCHANGED <<ids, drained, closed>>

Collect(b) ==
    /\ b \in all /\ closing'[b] /\ ~stream'[b] /\ inflight'[b] = 0
    /\ all' = all \ {b} /\ ids' = ids \ {b}
    /\ owners' = [owners EXCEPT ![owner[b]] = @ - 1]
    /\ drained' = (drained \/ (closed /\ all \ {b} = {}))
    /\ UNCHANGED <<owner, closed, used>>

TableEffect ==
    /\ ClosingGrows
    /\ \/ SameTable
       \/ \E b \in Binding, p \in Principal : Grow(b, p)
       \/ \E b \in Binding : Collect(b)
       \/ Close

-----------------------------------------------------------------------------
(* Facts about the counted sets.                                           *)

\* The counted sets are finite, so their cardinalities are natural numbers.
LEMMA Finite ==
    ASSUME TypeOK
    PROVE  /\ IsFiniteSet(all) /\ IsFiniteSet(CallsUnderWay)
           /\ \A b \in Binding : IsFiniteSet(CallsOf(b))
           /\ \A p \in Principal : IsFiniteSet(SessionsOf(p))
<1>1. IsFiniteSet(all)
  BY FS_Subset, SessionAssumption DEF TypeOK
<1>2. IsFiniteSet(CallsUnderWay)
  BY FS_Subset, SessionAssumption DEF CallsUnderWay
<1>3. \A b \in Binding : IsFiniteSet(CallsOf(b))
  BY FS_Subset, SessionAssumption DEF CallsOf
<1>4. \A p \in Principal : IsFiniteSet(SessionsOf(p))
  BY <1>1, FS_Subset DEF SessionsOf
<1>5. QED
  BY <1>1, <1>2, <1>3, <1>4

\* A dispatch that is under way is counted.
LEMMA DispatchCounted ==
    ASSUME TypeOK, LeasesCounted, NEW r \in Request, pc[r] \in CallPC, target[r] \in Binding
    PROVE  total > 0 /\ inflight[target[r]] > 0
<1>1. r \in CallsUnderWay /\ r \in CallsOf(target[r])
  BY DEF CallsUnderWay, CallsOf
<1>2. Cardinality(CallsUnderWay) # 0 /\ Cardinality(CallsOf(target[r])) # 0
  BY <1>1, Finite, FS_EmptySet
<1>3. QED
  BY <1>2 DEF TypeOK, LeasesCounted

\* A session of the table is counted for its owner.
LEMMA SessionCounted ==
    ASSUME TypeOK, OwnersCounted, NEW b \in all
    PROVE  owner[b] \in Principal /\ owners[owner[b]] > 0
<1>1. b \in SessionsOf(owner[b]) /\ owner[b] \in Principal
  BY DEF SessionsOf, TypeOK
<1>2. Cardinality(SessionsOf(owner[b])) # 0
  BY <1>1, Finite, FS_EmptySet
<1>3. QED
  BY <1>1, <1>2 DEF TypeOK, OwnersCounted

-----------------------------------------------------------------------------
(* The effects preserve the invariants.                                    *)

\* The counts of dispatches and streams follow every effect on the leases.
LEMMA LeaseStep ==
    ASSUME IInv, LeaseEffect
    PROVE  LeasesCounted'
<1> USE DEF IInv
<1>1. CASE SameLeases
  <2>1. CallsUnderWay' = CallsUnderWay
    BY <1>1 DEF SameLeases, CallsUnderWay
  <2>2. \A b \in Binding : CallsOf(b)' = CallsOf(b) /\ StreamsOf(b)' = StreamsOf(b)
    BY <1>1 DEF SameLeases, CallsOf, StreamsOf, Holding
  <2>3. QED
    BY <1>1, <2>1, <2>2 DEF SameLeases, LeasesCounted
<1>2. ASSUME NEW r \in Request, NEW b \in Binding, GainStream(r, b)
      PROVE  LeasesCounted'
  <2>1. pc'[r] \notin CallPC /\ pc[r] \notin CallPC
    BY <1>2 DEF GainStream, Holding, StreamPC, CallPC
  <2>2. CallsUnderWay' = CallsUnderWay /\ \A c \in Binding : CallsOf(c)' = CallsOf(c)
    BY <1>2, <2>1 DEF GainStream, Others, CallsUnderWay, CallsOf
  <2>3. StreamsOf(b) = {}
    BY <1>2 DEF GainStream, LeasesCounted
  <2>4. StreamsOf(b)' = {r} /\ \A c \in Binding \ {b} : StreamsOf(c)' = StreamsOf(c)
    BY <1>2, <2>3 DEF GainStream, Others, StreamsOf, Holding
  <2>5. stream'[b] /\ \A c \in Binding \ {b} : stream'[c] = stream[c]
    BY <1>2 DEF GainStream, TypeOK
  <2>6. QED
    BY <1>2, <2>2, <2>4, <2>5 DEF GainStream, LeasesCounted
<1>3. ASSUME NEW r \in Request, NEW b \in Binding, LoseStream(r, b)
      PROVE  LeasesCounted'
  <2>1. pc'[r] \notin CallPC /\ pc[r] \notin CallPC
    BY <1>3 DEF LoseStream, Holding, StreamPC, CallPC
  <2>2. CallsUnderWay' = CallsUnderWay /\ \A c \in Binding : CallsOf(c)' = CallsOf(c)
    BY <1>3, <2>1 DEF LoseStream, Others, CallsUnderWay, CallsOf
  <2>3. StreamsOf(b) = {r}
    <3>1. r \in StreamsOf(b)
      BY <1>3 DEF LoseStream, StreamsOf
    <3>2. QED
      BY <3>1 DEF LeasesCounted
  <2>4. StreamsOf(b)' = {} /\ \A c \in Binding \ {b} : StreamsOf(c)' = StreamsOf(c)
    BY <1>3, <2>3 DEF LoseStream, Others, StreamsOf, Holding
  <2>5. ~stream'[b] /\ \A c \in Binding \ {b} : stream'[c] = stream[c]
    BY <1>3 DEF LoseStream, TypeOK
  <2>6. QED
    BY <1>3, <2>2, <2>4, <2>5 DEF LoseStream, LeasesCounted
<1>4. ASSUME NEW r \in Request, NEW b \in Binding, GainCall(r, b)
      PROVE  LeasesCounted'
  <2>1. pc'[r] \notin StreamPC /\ pc[r] \notin StreamPC /\ pc[r] \notin CallPC
    BY <1>4 DEF GainCall, Holding, StreamPC, CallPC
  <2>2. \A c \in Binding : StreamsOf(c)' = StreamsOf(c)
    BY <1>4, <2>1 DEF GainCall, Others, StreamsOf
  <2>3. CallsUnderWay' = CallsUnderWay \cup {r} /\ r \notin CallsUnderWay
    BY <1>4, <2>1 DEF GainCall, Others, CallsUnderWay
  <2>4. CallsOf(b)' = CallsOf(b) \cup {r} /\ r \notin CallsOf(b)
    BY <1>4, <2>1 DEF GainCall, Others, CallsOf
  <2>5. \A c \in Binding \ {b} : CallsOf(c)' = CallsOf(c)
    BY <1>4, <2>1 DEF GainCall, Others, CallsOf
  <2>6. total' = Cardinality(CallsUnderWay')
    BY <1>4, <2>3, Finite, FS_AddElement DEF GainCall, LeasesCounted
  <2>7. inflight'[b] = Cardinality(CallsOf(b)')
    <3>1. Cardinality(CallsOf(b)') = Cardinality(CallsOf(b)) + 1
      BY <2>4, Finite, FS_AddElement
    <3>2. inflight'[b] = inflight[b] + 1
      BY <1>4 DEF GainCall, TypeOK
    <3>3. QED
      BY <3>1, <3>2 DEF LeasesCounted
  <2>8. \A c \in Binding \ {b} : inflight'[c] = Cardinality(CallsOf(c)')
    BY <1>4, <2>5 DEF GainCall, LeasesCounted, TypeOK
  <2>9. QED
    BY <1>4, <2>2, <2>6, <2>7, <2>8 DEF GainCall, LeasesCounted
<1>5. ASSUME NEW r \in Request, NEW b \in Binding, LoseCall(r, b)
      PROVE  LeasesCounted'
  <2>1. pc'[r] \notin StreamPC /\ pc[r] \notin StreamPC /\ pc'[r] \notin CallPC
    BY <1>5 DEF LoseCall, Holding, StreamPC, CallPC
  <2>2. \A c \in Binding : StreamsOf(c)' = StreamsOf(c)
    BY <1>5, <2>1 DEF LoseCall, Others, StreamsOf
  <2>3. CallsUnderWay' = CallsUnderWay \ {r} /\ r \in CallsUnderWay
    BY <1>5, <2>1 DEF LoseCall, Others, CallsUnderWay
  <2>4. CallsOf(b)' = CallsOf(b) \ {r} /\ r \in CallsOf(b)
    BY <1>5, <2>1 DEF LoseCall, Others, CallsOf
  <2>5. \A c \in Binding \ {b} : CallsOf(c)' = CallsOf(c)
    BY <1>5, <2>1 DEF LoseCall, Others, CallsOf
  <2>6. total' = Cardinality(CallsUnderWay')
    BY <1>5, <2>3, Finite, FS_RemoveElement DEF LoseCall, LeasesCounted
  <2>7. inflight'[b] = Cardinality(CallsOf(b)')
    <3>1. Cardinality(CallsOf(b)') = Cardinality(CallsOf(b)) - 1
      BY <2>4, Finite, FS_RemoveElement
    <3>2. inflight'[b] = inflight[b] - 1
      BY <1>5 DEF LoseCall, TypeOK
    <3>3. QED
      BY <3>1, <3>2 DEF LeasesCounted
  <2>8. \A c \in Binding \ {b} : inflight'[c] = Cardinality(CallsOf(c)')
    BY <1>5, <2>5 DEF LoseCall, LeasesCounted, TypeOK
  <2>9. QED
    BY <1>5, <2>2, <2>6, <2>7, <2>8 DEF LoseCall, LeasesCounted
<1>6. QED
  BY <1>1, <1>2, <1>3, <1>4, <1>5 DEF LeaseEffect

\* The owners' shares follow every effect on the table.
LEMMA TableStep ==
    ASSUME IInv, TableEffect
    PROVE  OwnersCounted'
<1> USE DEF IInv
<1>1. CASE SameTable
  BY <1>1 DEF SameTable, OwnersCounted, SessionsOf
<1>2. ASSUME NEW b \in Binding, NEW p \in Principal, Grow(b, p)
      PROVE  OwnersCounted'
  <2>1. b \notin all /\ owner'[b] = p /\ \A c \in all : owner'[c] = owner[c]
    BY <1>2 DEF Grow, TableInv, TypeOK
  <2>2. SessionsOf(p)' = SessionsOf(p) \cup {b} /\ b \notin SessionsOf(p)
    BY <1>2, <2>1 DEF Grow, SessionsOf
  <2>3. \A q \in Principal \ {p} : SessionsOf(q)' = SessionsOf(q)
    BY <1>2, <2>1 DEF Grow, SessionsOf
  <2>4. owners'[p] = Cardinality(SessionsOf(p)')
    <3>1. Cardinality(SessionsOf(p)') = Cardinality(SessionsOf(p)) + 1
      BY <2>2, Finite, FS_AddElement
    <3>2. owners'[p] = owners[p] + 1
      BY <1>2 DEF Grow, TypeOK
    <3>3. QED
      BY <3>1, <3>2 DEF OwnersCounted
  <2>5. \A q \in Principal \ {p} : owners'[q] = Cardinality(SessionsOf(q)')
    BY <1>2, <2>3 DEF Grow, OwnersCounted, TypeOK
  <2>6. QED
    BY <2>4, <2>5 DEF OwnersCounted
<1>3. ASSUME NEW b \in Binding, Collect(b)
      PROVE  OwnersCounted'
  <2> DEFINE p == owner[b]
  <2>1. p \in Principal /\ b \in all /\ owner' = owner
    BY <1>3 DEF Collect, TypeOK
  <2>2. SessionsOf(p)' = SessionsOf(p) \ {b} /\ b \in SessionsOf(p)
    BY <1>3, <2>1 DEF Collect, SessionsOf
  <2>3. \A q \in Principal \ {p} : SessionsOf(q)' = SessionsOf(q)
    BY <1>3, <2>1 DEF Collect, SessionsOf
  <2>4. owners'[p] = Cardinality(SessionsOf(p)')
    <3>1. Cardinality(SessionsOf(p)') = Cardinality(SessionsOf(p)) - 1
      BY <2>1, <2>2, Finite, FS_RemoveElement
    <3>2. owners'[p] = owners[p] - 1
      BY <1>3, <2>1 DEF Collect, TypeOK
    <3>3. QED
      BY <2>1, <3>1, <3>2 DEF OwnersCounted
  <2>5. \A q \in Principal \ {p} : owners'[q] = Cardinality(SessionsOf(q)')
    BY <1>3, <2>1, <2>3 DEF Collect, OwnersCounted, TypeOK
  <2>6. QED
    BY <2>1, <2>4, <2>5 DEF OwnersCounted
<1>4. CASE Close
  <2> DEFINE unused == {b \in all : ~stream[b] /\ inflight[b] = 0}
             gone(p) == {b \in unused : owner[b] = p}
  <2>1. SUFFICES ASSUME NEW p \in Principal
                 PROVE  owners'[p] = Cardinality(SessionsOf(p)')
    BY DEF OwnersCounted
  <2>2. SessionsOf(p)' = SessionsOf(p) \ gone(p) /\ gone(p) \subseteq SessionsOf(p)
    BY <1>4 DEF Close, SessionsOf
  <2>3. IsFiniteSet(SessionsOf(p)) /\ IsFiniteSet(gone(p))
    BY <2>2, Finite, FS_Subset
  <2>4. Cardinality(SessionsOf(p) \ gone(p)) = Cardinality(SessionsOf(p)) - Cardinality(gone(p))
    <3> HIDE DEF gone
    <3>1. SessionsOf(p) \cap gone(p) = gone(p)
      BY <2>2
    <3>2. QED
      BY <2>3, <3>1, FS_Difference
  <2>5. owners'[p] = owners[p] - Cardinality(gone(p))
    BY <1>4 DEF Close
  <2>6. QED
    BY <2>2, <2>4, <2>5 DEF OwnersCounted
<1>5. QED
  BY <1>1, <1>2, <1>3, <1>4 DEF TableEffect

-----------------------------------------------------------------------------
(* Types.                                                                  *)

TableTypes ==
    /\ all \subseteq Binding /\ ids \subseteq Binding /\ used \subseteq Binding
    /\ owners \in [Principal -> Nat] /\ owner \in [Binding -> Principal]
    /\ closed \in BOOLEAN /\ drained \in BOOLEAN

LeaseTypes ==
    total \in Nat /\ inflight \in [Binding -> Nat] /\ stream \in [Binding -> BOOLEAN]

FieldTypes ==
    /\ ctxDone \in BOOLEAN
    /\ ready \in [Binding -> BOOLEAN] /\ initializing \in [Binding -> BOOLEAN]
    /\ closing \in [Binding -> BOOLEAN] /\ expired \in [Binding -> BOOLEAN]
    /\ pc \in [Request -> PC]
    /\ target \in [Request -> Binding \cup {none}]
    /\ caller \in [Request -> Principal]
    /\ fresh \in [Request -> BOOLEAN]

\* No owner's share falls below zero.
LEMMA TableTyped ==
    ASSUME IInv, TableEffect
    PROVE  TableTypes'
<1> USE DEF IInv
<1>1. CASE SameTable
  BY <1>1 DEF SameTable, TableTypes, TypeOK, TableInv
<1>2. ASSUME NEW b \in Binding, NEW p \in Principal, Grow(b, p)
      PROVE  TableTypes'
  BY <1>2 DEF Grow, TableTypes, TypeOK
<1>3. ASSUME NEW b \in Binding, Collect(b)
      PROVE  TableTypes'
  <2>1. owner[b] \in Principal /\ owners[owner[b]] - 1 \in Nat
    BY <1>3, SessionCounted DEF Collect, TypeOK
  <2>2. owners' \in [Principal -> Nat]
    BY <1>3, <2>1 DEF Collect, TypeOK
  <2>3. QED
    BY <1>3, <2>2 DEF Collect, TableTypes, TypeOK
<1>4. CASE Close
  <2> DEFINE gone(p) == {b \in {c \in all : ~stream[c] /\ inflight[c] = 0} : owner[b] = p}
  <2>1. ASSUME NEW p \in Principal
        PROVE  owners[p] - Cardinality(gone(p)) \in Nat
    <3>1. gone(p) \subseteq SessionsOf(p) /\ IsFiniteSet(SessionsOf(p))
      BY Finite DEF SessionsOf
    <3>2. IsFiniteSet(gone(p)) /\ Cardinality(gone(p)) <= Cardinality(SessionsOf(p))
      BY <3>1, FS_Subset
    <3>3. Cardinality(gone(p)) \in Nat
      BY <3>2, FS_CardinalityType
    <3>4. QED
      BY <3>2, <3>3 DEF OwnersCounted, TypeOK
  <2>2. owners' = [p \in Principal |-> owners[p] - Cardinality(gone(p))]
    BY <1>4 DEF Close
  <2>3. owners' \in [Principal -> Nat]
    BY <2>1, <2>2
  <2>4. QED
    BY <1>4, <2>3 DEF Close, TableTypes, TypeOK, requestVars
<1>5. QED
  BY <1>1, <1>2, <1>3, <1>4 DEF TableEffect

\* No count of dispatches falls below zero.
LEMMA LeaseTyped ==
    ASSUME IInv, LeaseEffect
    PROVE  LeaseTypes'
<1> USE DEF IInv
<1>1. CASE SameLeases
  BY <1>1 DEF SameLeases, LeaseTypes, TypeOK
<1>2. ASSUME NEW r \in Request, NEW b \in Binding, GainStream(r, b) \/ LoseStream(r, b)
      PROVE  LeaseTypes'
  BY <1>2 DEF GainStream, LoseStream, LeaseTypes, TypeOK
<1>3. ASSUME NEW r \in Request, NEW b \in Binding, GainCall(r, b)
      PROVE  LeaseTypes'
  BY <1>3 DEF GainCall, LeaseTypes, TypeOK
<1>4. ASSUME NEW r \in Request, NEW b \in Binding, LoseCall(r, b)
      PROVE  LeaseTypes'
  <2>1. total > 0 /\ inflight[b] > 0
    BY <1>4, DispatchCounted DEF LoseCall
  <2>2. QED
    BY <1>4, <2>1 DEF LoseCall, LeaseTypes, TypeOK
<1>5. QED
  BY <1>1, <1>2, <1>3, <1>4 DEF LeaseEffect

-----------------------------------------------------------------------------
(* Every action has such effects.                                          *)

Effect == TypeOK' /\ TargetInv' /\ LeaseEffect /\ TableEffect

LEMMA EffectTyped ==
    ASSUME IInv, LeaseEffect, TableEffect, FieldTypes'
    PROVE  TypeOK'
BY LeaseTyped, TableTyped DEF TypeOK, LeaseTypes, TableTypes, FieldTypes

\* What a request does in ServeHTTP.
LEMMA RequestStep ==
    ASSUME IInv, NEW r \in Request, Arrive(r) \/ Serve(r)
    PROVE  Effect
<1> USE DEF IInv
<1>a. pc[r] \notin {"idle", "arrived"} => target[r] \in Binding
  BY DEF TargetInv, TypeOK
<1>c. pc[r] \notin {"idle", "arrived"} /\ Live(target[r]) => target[r] \in all
  BY DEF TargetInv, TableInv, Live
<1>b. pc[r] = "arrived" /\ ~fresh[r] => target[r] \in Binding
  BY DEF TargetInv, TypeOK
<1>1. ASSUME Arrive(r) PROVE Effect
  <2>2. LeaseEffect
    BY <1>1 DEF Arrive, Goto, LeaseEffect, SameLeases, Holding, StreamPC, CallPC, TypeOK, tableVars, bindingVars, requestVars
  <2>5. TableEffect
    BY <1>1 DEF Arrive, Goto, TypeOK, TableInv, TableEffect, SameTable, ClosingGrows, tableVars, bindingVars, requestVars
  <2>6. FieldTypes'
    BY ZenonT(60), <1>1 DEF Arrive, Goto, TypeOK, FieldTypes, PC, tableVars, bindingVars, requestVars
  <2>7. TargetInv'
    BY <1>1 DEF Arrive, Goto, TypeOK, TargetInv, TableInv, tableVars, bindingVars, requestVars
  <2>8. QED
    BY <2>2, <2>5, <2>6, <2>7, EffectTyped DEF Effect
<1>2. ASSUME Reserve(r) PROVE Effect
  <2>2. LeaseEffect
    BY <1>2 DEF Reserve, Goto, Reject, LeaseEffect, SameLeases, Holding, StreamPC, CallPC, TypeOK, tableVars, bindingVars, requestVars
  <2>3. SameTable \/ \E b \in Binding : Grow(b, caller[r])
    BY <1>2 DEF Reserve, Goto, Reject, TableInv, SameTable, Grow, tableVars, bindingVars, requestVars
  <2>4. ClosingGrows /\ caller[r] \in Principal
    BY <1>2 DEF Reserve, Goto, Reject, TypeOK, ClosingGrows, tableVars, bindingVars, requestVars
  <2>5. TableEffect
    BY <2>3, <2>4 DEF TableEffect
  <2>6. FieldTypes'
    BY ZenonT(60), <1>2 DEF Reserve, Goto, Reject, TypeOK, FieldTypes, PC, tableVars, bindingVars, requestVars
  <2>7. TargetInv'
    BY <1>2 DEF Reserve, Goto, Reject, TypeOK, TargetInv, TableInv, tableVars, bindingVars, requestVars
  <2>8. QED
    BY <2>2, <2>5, <2>6, <2>7, EffectTyped DEF Effect
<1>3. ASSUME AcquireStream(r) PROVE Effect
  <2>1. GainStream(r, target[r])
    BY <1>3, <1>a, <1>b DEF AcquireStream, Goto, Acquirable, Live, GainStream, Others, Holding, StreamPC, CallPC, TypeOK, TargetInv, TableInv, tableVars, bindingVars, requestVars
  <2>2. LeaseEffect
    BY <1>3, <1>a, <1>b, <2>1 DEF AcquireStream, Goto, Acquirable, Live, LeaseEffect
  <2>5. TableEffect
    BY <1>3 DEF AcquireStream, Goto, Acquirable, Live, TypeOK, TableInv, TableEffect, SameTable, ClosingGrows, tableVars, bindingVars, requestVars
  <2>6. FieldTypes'
    BY <1>3 DEF AcquireStream, Goto, Acquirable, Live, TypeOK, FieldTypes, PC, tableVars, bindingVars, requestVars
  <2>7. TargetInv'
    BY <1>3 DEF AcquireStream, Goto, Acquirable, Live, TypeOK, TargetInv, TableInv, tableVars, bindingVars, requestVars
  <2>8. QED
    BY <2>2, <2>5, <2>6, <2>7, EffectTyped DEF Effect
<1>4. ASSUME AcquireCall(r) PROVE Effect
  <2>1. GainCall(r, target[r])
    BY <1>4, <1>a, <1>b DEF AcquireCall, Goto, Acquirable, Live, GainCall, Others, Holding, StreamPC, CallPC, TypeOK, TargetInv, TableInv, tableVars, bindingVars, requestVars
  <2>2. LeaseEffect
    BY <1>4, <1>a, <1>b, <2>1 DEF AcquireCall, Goto, Acquirable, Live, LeaseEffect
  <2>5. TableEffect
    BY <1>4 DEF AcquireCall, Goto, Acquirable, Live, TypeOK, TableInv, TableEffect, SameTable, ClosingGrows, tableVars, bindingVars, requestVars
  <2>6. FieldTypes'
    BY <1>4 DEF AcquireCall, Goto, Acquirable, Live, TypeOK, FieldTypes, PC, tableVars, bindingVars, requestVars
  <2>7. TargetInv'
    BY <1>4 DEF AcquireCall, Goto, Acquirable, Live, TypeOK, TargetInv, TableInv, tableVars, bindingVars, requestVars
  <2>8. QED
    BY <2>2, <2>5, <2>6, <2>7, EffectTyped DEF Effect
<1>5. ASSUME AcquireRefused(r) PROVE Effect
  <2>2. LeaseEffect
    BY <1>5 DEF AcquireRefused, Goto, Reject, LeaseEffect, SameLeases, Holding, StreamPC, CallPC, TypeOK, tableVars, bindingVars, requestVars
  <2>3. SameTable \/ Collect(target[r])
    BY <1>5, <1>a, <1>b DEF AcquireRefused, Goto, Reject, RevokeLocked, CollectWhenUnused, TypeOK, TableInv, SameTable, Collect, tableVars, bindingVars, requestVars
  <2>4. ClosingGrows
    BY <1>5 DEF AcquireRefused, Goto, Reject, RevokeLocked, CollectWhenUnused, TypeOK, ClosingGrows, tableVars, bindingVars, requestVars
  <2>5. TableEffect
    BY <1>5, <1>a, <1>b, <2>3, <2>4 DEF AcquireRefused, Goto, Reject, TableEffect
  <2>6. FieldTypes'
    BY <1>5 DEF AcquireRefused, Goto, Reject, RevokeLocked, TypeOK, FieldTypes, PC, tableVars, bindingVars, requestVars
  <2>7. TargetInv'
    BY <1>5 DEF AcquireRefused, Goto, Reject, TypeOK, TargetInv, TableInv, tableVars, bindingVars, requestVars
  <2>8. QED
    BY <2>2, <2>5, <2>6, <2>7, EffectTyped DEF Effect
<1>6. ASSUME Delete(r) PROVE Effect
  <2>2. LeaseEffect
    BY <1>6 DEF Delete, Goto, Reject, LeaseEffect, SameLeases, Holding, StreamPC, CallPC, TypeOK, tableVars, bindingVars, requestVars
  <2>3. SameTable \/ Collect(target[r])
    BY <1>6, <1>a, <1>b DEF Delete, Goto, Reject, RevokeLocked, CollectWhenUnused, TypeOK, TableInv, SameTable, Collect, tableVars, bindingVars, requestVars
  <2>4. ClosingGrows
    BY <1>6 DEF Delete, Goto, Reject, RevokeLocked, CollectWhenUnused, TypeOK, ClosingGrows, tableVars, bindingVars, requestVars
  <2>5. TableEffect
    BY <1>6, <1>a, <1>b, <2>3, <2>4 DEF Delete, Goto, Reject, TableEffect
  <2>6. FieldTypes'
    BY <1>6 DEF Delete, Goto, Reject, RevokeLocked, TypeOK, FieldTypes, PC, tableVars, bindingVars, requestVars
  <2>7. TargetInv'
    BY <1>6 DEF Delete, Goto, Reject, TypeOK, TargetInv, TableInv, tableVars, bindingVars, requestVars
  <2>8. QED
    BY <2>2, <2>5, <2>6, <2>7, EffectTyped DEF Effect
<1>7. ASSUME RegisterStream(r) PROVE Effect
  <2>2. LeaseEffect
    BY <1>7 DEF RegisterStream, Goto, LeaseEffect, SameLeases, Holding, StreamPC, CallPC, TypeOK, tableVars, bindingVars, requestVars
  <2>3. SameTable \/ Collect(target[r])
    BY <1>7, <1>a, <1>b, <1>c DEF RegisterStream, Goto, RevokeLocked, CollectWhenUnused, TypeOK, TableInv, SameTable, Collect, tableVars, bindingVars, requestVars
  <2>4. ClosingGrows
    BY <1>7 DEF RegisterStream, Goto, RevokeLocked, CollectWhenUnused, TypeOK, ClosingGrows, tableVars, bindingVars, requestVars
  <2>5. TableEffect
    BY <1>7, <1>a, <1>b, <2>3, <2>4 DEF RegisterStream, Goto, TableEffect
  <2>6. FieldTypes'
    BY <1>7 DEF RegisterStream, Goto, RevokeLocked, TypeOK, FieldTypes, PC, tableVars, bindingVars, requestVars
  <2>7. TargetInv'
    BY <1>7 DEF RegisterStream, Goto, TypeOK, TargetInv, TableInv, tableVars, bindingVars, requestVars
  <2>8. QED
    BY <2>2, <2>5, <2>6, <2>7, EffectTyped DEF Effect
<1>8. ASSUME StreamReturns(r) PROVE Effect
  <2>2. LeaseEffect
    BY <1>8 DEF StreamReturns, Goto, LeaseEffect, SameLeases, Holding, StreamPC, CallPC, TypeOK, tableVars, bindingVars, requestVars
  <2>3. SameTable \/ Collect(target[r])
    BY <1>8, <1>a, <1>b DEF StreamReturns, Goto, RevokeLocked, CollectWhenUnused, TypeOK, TableInv, SameTable, Collect, tableVars, bindingVars, requestVars
  <2>4. ClosingGrows
    BY <1>8 DEF StreamReturns, Goto, RevokeLocked, CollectWhenUnused, TypeOK, ClosingGrows, tableVars, bindingVars, requestVars
  <2>5. TableEffect
    BY <1>8, <1>a, <1>b, <2>3, <2>4 DEF StreamReturns, Goto, TableEffect
  <2>6. FieldTypes'
    BY <1>8 DEF StreamReturns, Goto, RevokeLocked, TypeOK, FieldTypes, PC, tableVars, bindingVars, requestVars
  <2>7. TargetInv'
    BY <1>8 DEF StreamReturns, Goto, TypeOK, TargetInv, TableInv, tableVars, bindingVars, requestVars
  <2>8. QED
    BY <2>2, <2>5, <2>6, <2>7, EffectTyped DEF Effect
<1>9. ASSUME FinishStream(r) PROVE Effect
  <2>1. LoseStream(r, target[r])
    BY <1>9, <1>a, <1>b DEF FinishStream, Goto, LoseStream, Others, Holding, StreamPC, CallPC, TypeOK, TargetInv, TableInv, tableVars, bindingVars, requestVars
  <2>2. LeaseEffect
    BY <1>9, <1>a, <1>b, <2>1 DEF FinishStream, Goto, LeaseEffect
  <2>3. SameTable \/ Collect(target[r])
    BY <1>9, <1>a, <1>b DEF FinishStream, Goto, RevokeLocked, CollectWhenUnused, TypeOK, TableInv, SameTable, Collect, tableVars, bindingVars, requestVars
  <2>4. ClosingGrows
    BY <1>9 DEF FinishStream, Goto, RevokeLocked, CollectWhenUnused, TypeOK, ClosingGrows, tableVars, bindingVars, requestVars
  <2>5. TableEffect
    BY <1>9, <1>a, <1>b, <2>3, <2>4 DEF FinishStream, Goto, TableEffect
  <2>6. FieldTypes'
    BY <1>9 DEF FinishStream, Goto, RevokeLocked, TypeOK, FieldTypes, PC, tableVars, bindingVars, requestVars
  <2>7. TargetInv'
    BY <1>9 DEF FinishStream, Goto, TypeOK, TargetInv, TableInv, tableVars, bindingVars, requestVars
  <2>8. QED
    BY <2>2, <2>5, <2>6, <2>7, EffectTyped DEF Effect
<1>10. ASSUME Begin(r) PROVE Effect
  <2>2. LeaseEffect
    BY <1>10 DEF Begin, Goto, LeaseEffect, SameLeases, Holding, StreamPC, CallPC, TypeOK, tableVars, bindingVars, requestVars
  <2>5. TableEffect
    BY <1>10 DEF Begin, Goto, TypeOK, TableInv, TableEffect, SameTable, ClosingGrows, tableVars, bindingVars, requestVars
  <2>6. FieldTypes'
    BY <1>10 DEF Begin, Goto, TypeOK, FieldTypes, PC, tableVars, bindingVars, requestVars
  <2>7. TargetInv'
    BY <1>10 DEF Begin, Goto, TypeOK, TargetInv, TableInv, tableVars, bindingVars, requestVars
  <2>8. QED
    BY <2>2, <2>5, <2>6, <2>7, EffectTyped DEF Effect
<1>11. ASSUME BeginRefused(r) PROVE Effect
  <2>2. LeaseEffect
    BY <1>11 DEF BeginRefused, Goto, LeaseEffect, SameLeases, Holding, StreamPC, CallPC, TypeOK, tableVars, bindingVars, requestVars
  <2>5. TableEffect
    BY <1>11 DEF BeginRefused, Goto, TypeOK, TableInv, TableEffect, SameTable, ClosingGrows, tableVars, bindingVars, requestVars
  <2>6. FieldTypes'
    BY <1>11 DEF BeginRefused, Goto, TypeOK, FieldTypes, PC, tableVars, bindingVars, requestVars
  <2>7. TargetInv'
    BY <1>11 DEF BeginRefused, Goto, TypeOK, TargetInv, TableInv, tableVars, bindingVars, requestVars
  <2>8. QED
    BY <2>2, <2>5, <2>6, <2>7, EffectTyped DEF Effect
<1>12. ASSUME BindId(r) PROVE Effect
  <2>2. LeaseEffect
    BY <1>12 DEF BindId, Goto, LeaseEffect, SameLeases, Holding, StreamPC, CallPC, TypeOK, tableVars, bindingVars, requestVars
  <2>3. SameTable \/ Collect(target[r])
    BY <1>12, <1>a, <1>b, <1>c DEF BindId, Goto, RevokeLocked, CollectWhenUnused, TypeOK, TableInv, SameTable, Collect, tableVars, bindingVars, requestVars
  <2>4. ClosingGrows
    BY <1>12 DEF BindId, Goto, RevokeLocked, CollectWhenUnused, TypeOK, ClosingGrows, tableVars, bindingVars, requestVars
  <2>5. TableEffect
    BY <1>12, <1>a, <1>b, <2>3, <2>4 DEF BindId, Goto, TableEffect
  <2>6. FieldTypes'
    BY <1>12 DEF BindId, Goto, RevokeLocked, TypeOK, FieldTypes, PC, tableVars, bindingVars, requestVars
  <2>7. TargetInv'
    BY <1>12 DEF BindId, Goto, TypeOK, TargetInv, TableInv, tableVars, bindingVars, requestVars
  <2>8. QED
    BY <2>2, <2>5, <2>6, <2>7, EffectTyped DEF Effect
<1>13. ASSUME Commit(r) PROVE Effect
  <2>2. LeaseEffect
    BY <1>13 DEF Commit, Goto, LeaseEffect, SameLeases, Holding, StreamPC, CallPC, TypeOK, tableVars, bindingVars, requestVars
  <2>5. TableEffect
    BY <1>13 DEF Commit, Goto, TypeOK, TableInv, TableEffect, SameTable, ClosingGrows, tableVars, bindingVars, requestVars
  <2>6. FieldTypes'
    BY <1>13 DEF Commit, Goto, TypeOK, FieldTypes, PC, tableVars, bindingVars, requestVars
  <2>7. TargetInv'
    BY <1>13 DEF Commit, Goto, TypeOK, TargetInv, TableInv, tableVars, bindingVars, requestVars
  <2>8. QED
    BY <2>2, <2>5, <2>6, <2>7, EffectTyped DEF Effect
<1>14. ASSUME InitializeFails(r) PROVE Effect
  <2>2. LeaseEffect
    BY <1>14 DEF InitializeFails, Goto, LeaseEffect, SameLeases, Holding, StreamPC, CallPC, TypeOK, tableVars, bindingVars, requestVars
  <2>3. SameTable \/ Collect(target[r])
    BY <1>14, <1>a, <1>b DEF InitializeFails, Goto, RevokeLocked, CollectWhenUnused, TypeOK, TableInv, SameTable, Collect, tableVars, bindingVars, requestVars
  <2>4. ClosingGrows
    BY <1>14 DEF InitializeFails, Goto, RevokeLocked, CollectWhenUnused, TypeOK, ClosingGrows, tableVars, bindingVars, requestVars
  <2>5. TableEffect
    BY <1>14, <1>a, <1>b, <2>3, <2>4 DEF InitializeFails, Goto, TableEffect
  <2>6. FieldTypes'
    BY <1>14 DEF InitializeFails, Goto, RevokeLocked, TypeOK, FieldTypes, PC, tableVars, bindingVars, requestVars
  <2>7. TargetInv'
    BY <1>14 DEF InitializeFails, Goto, TypeOK, TargetInv, TableInv, tableVars, bindingVars, requestVars
  <2>8. QED
    BY <2>2, <2>5, <2>6, <2>7, EffectTyped DEF Effect
<1>15. ASSUME CheckFails(r) PROVE Effect
  <2>2. LeaseEffect
    BY <1>15 DEF CheckFails, Goto, LeaseEffect, SameLeases, Holding, StreamPC, CallPC, TypeOK, tableVars, bindingVars, requestVars
  <2>5. TableEffect
    BY <1>15 DEF CheckFails, Goto, TypeOK, TableInv, TableEffect, SameTable, ClosingGrows, tableVars, bindingVars, requestVars
  <2>6. FieldTypes'
    BY <1>15 DEF CheckFails, Goto, TypeOK, FieldTypes, PC, tableVars, bindingVars, requestVars
  <2>7. TargetInv'
    BY <1>15 DEF CheckFails, Goto, TypeOK, TargetInv, TableInv, tableVars, bindingVars, requestVars
  <2>8. QED
    BY <2>2, <2>5, <2>6, <2>7, EffectTyped DEF Effect
<1>16. ASSUME HandlerReturns(r) PROVE Effect
  <2>2. LeaseEffect
    BY <1>16 DEF HandlerReturns, Goto, LeaseEffect, SameLeases, Holding, StreamPC, CallPC, TypeOK, tableVars, bindingVars, requestVars
  <2>3. SameTable \/ Collect(target[r])
    BY <1>16, <1>a, <1>b DEF HandlerReturns, Goto, RevokeLocked, CollectWhenUnused, TypeOK, TableInv, SameTable, Collect, tableVars, bindingVars, requestVars
  <2>4. ClosingGrows
    BY <1>16 DEF HandlerReturns, Goto, RevokeLocked, CollectWhenUnused, TypeOK, ClosingGrows, tableVars, bindingVars, requestVars
  <2>5. TableEffect
    BY <1>16, <1>a, <1>b, <2>3, <2>4 DEF HandlerReturns, Goto, TableEffect
  <2>6. FieldTypes'
    BY <1>16 DEF HandlerReturns, Goto, RevokeLocked, TypeOK, FieldTypes, PC, tableVars, bindingVars, requestVars
  <2>7. TargetInv'
    BY <1>16 DEF HandlerReturns, Goto, TypeOK, TargetInv, TableInv, tableVars, bindingVars, requestVars
  <2>8. QED
    BY <2>2, <2>5, <2>6, <2>7, EffectTyped DEF Effect
<1>17. ASSUME FinishCall(r) PROVE Effect
  <2>1. LoseCall(r, target[r])
    BY <1>17, <1>a, <1>b DEF FinishCall, Goto, LoseCall, Others, Holding, StreamPC, CallPC, TypeOK, TargetInv, TableInv, tableVars, bindingVars, requestVars
  <2>2. LeaseEffect
    BY <1>17, <1>a, <1>b, <2>1 DEF FinishCall, Goto, LeaseEffect
  <2>3. SameTable \/ Collect(target[r])
    BY <1>17, <1>a, <1>b DEF FinishCall, Goto, RevokeLocked, CollectWhenUnused, TypeOK, TableInv, SameTable, Collect, tableVars, bindingVars, requestVars
  <2>4. ClosingGrows
    BY <1>17 DEF FinishCall, Goto, RevokeLocked, CollectWhenUnused, TypeOK, ClosingGrows, tableVars, bindingVars, requestVars
  <2>5. TableEffect
    BY <1>17, <1>a, <1>b, <2>3, <2>4 DEF FinishCall, Goto, TableEffect
  <2>6. FieldTypes'
    BY <1>17 DEF FinishCall, Goto, RevokeLocked, TypeOK, FieldTypes, PC, tableVars, bindingVars, requestVars
  <2>7. TargetInv'
    BY <1>17 DEF FinishCall, Goto, TypeOK, TargetInv, TableInv, tableVars, bindingVars, requestVars
  <2>8. QED
    BY <2>2, <2>5, <2>6, <2>7, EffectTyped DEF Effect
<1>18. ASSUME Leave(r) PROVE Effect
  <2>2. LeaseEffect
    BY <1>18 DEF Leave, Goto, Reject, LeaseEffect, SameLeases, Holding, StreamPC, CallPC, TypeOK, tableVars, bindingVars, requestVars
  <2>3. SameTable \/ Collect(target[r])
    BY <1>18, <1>a, <1>b DEF Leave, Goto, Reject, RevokeLocked, CollectWhenUnused, TypeOK, TableInv, SameTable, Collect, tableVars, bindingVars, requestVars
  <2>4. ClosingGrows
    BY <1>18 DEF Leave, Goto, Reject, RevokeLocked, CollectWhenUnused, TypeOK, ClosingGrows, tableVars, bindingVars, requestVars
  <2>5. TableEffect
    BY <1>18, <1>a, <1>b, <2>3, <2>4 DEF Leave, Goto, Reject, TableEffect
  <2>6. FieldTypes'
    BY <1>18 DEF Leave, Goto, Reject, RevokeLocked, TypeOK, FieldTypes, PC, tableVars, bindingVars, requestVars
  <2>7. TargetInv'
    BY <1>18 DEF Leave, Goto, Reject, TypeOK, TargetInv, TableInv, tableVars, bindingVars, requestVars
  <2>8. QED
    BY <2>2, <2>5, <2>6, <2>7, EffectTyped DEF Effect
<1>19. QED
  BY <1>1, <1>2, <1>3, <1>4, <1>5, <1>6, <1>7, <1>8, <1>9, <1>10, <1>11, <1>12, <1>13, <1>14, <1>15, <1>16, <1>17, <1>18 DEF Serve

\* Time, the sweeper and the shutdown.
LEMMA ManagementStep ==
    ASSUME IInv, Cancel \/ Close \/ \E b \in Binding : Expire(b) \/ Sweep(b)
    PROVE  Effect
<1> USE DEF IInv
<1>1. ASSUME NEW b \in Binding, Expire(b) PROVE Effect
  <2>1. LeaseEffect /\ TableEffect
    BY <1>1 DEF Expire, LeaseEffect, SameLeases, TableEffect, SameTable, TableInv, ClosingGrows,
                tableVars, requestVars
  <2>2. FieldTypes' /\ TargetInv'
    BY <1>1 DEF Expire, FieldTypes, TypeOK, TargetInv, tableVars, requestVars
  <2>3. QED
    BY <2>1, <2>2, EffectTyped DEF Effect
<1>2. ASSUME NEW b \in Binding, Sweep(b) PROVE Effect
  <2>1. LeaseEffect
    BY <1>2 DEF Sweep, LeaseEffect, SameLeases, requestVars
  <2>2. SameTable \/ Collect(b)
    BY <1>2 DEF Sweep, RevokeLocked, CollectWhenUnused, SameTable, Collect, TypeOK, TableInv
  <2>3. ClosingGrows
    BY <1>2 DEF Sweep, RevokeLocked, ClosingGrows, TypeOK
  <2>4. FieldTypes' /\ TargetInv'
    BY <1>2 DEF Sweep, RevokeLocked, FieldTypes, TypeOK, TargetInv, requestVars
  <2>5. QED
    BY <2>1, <2>2, <2>3, <2>4, EffectTyped DEF Effect, TableEffect
<1>3. CASE Cancel
  <2>1. LeaseEffect /\ TableEffect
    BY <1>3 DEF Cancel, LeaseEffect, SameLeases, TableEffect, SameTable, TableInv, ClosingGrows,
                bindingVars, requestVars
  <2>2. FieldTypes' /\ TargetInv'
    BY <1>3 DEF Cancel, FieldTypes, TypeOK, TargetInv, bindingVars, requestVars
  <2>3. QED
    BY <2>1, <2>2, EffectTyped DEF Effect
<1>4. CASE Close
  <2>1. LeaseEffect /\ TableEffect
    BY <1>4 DEF Close, LeaseEffect, SameLeases, TableEffect, ClosingGrows, requestVars
  <2>2. FieldTypes' /\ TargetInv'
    BY <1>4 DEF Close, FieldTypes, TypeOK, TargetInv, requestVars
  <2>3. QED
    BY <2>1, <2>2, EffectTyped DEF Effect
<1>5. QED
  BY <1>1, <1>2, <1>3, <1>4

-----------------------------------------------------------------------------
(* The inductive invariant.                                                *)

LEMMA NextEffect ==
    ASSUME IInv, [Next]_vars
    PROVE  Effect
<1>1. CASE Next
  BY <1>1, RequestStep, ManagementStep DEF Next
<1>2. CASE UNCHANGED vars
  <2>1. LeaseEffect /\ TableEffect
    BY <1>2 DEF IInv, vars, LeaseEffect, SameLeases, TableEffect, SameTable, TableInv, ClosingGrows,
                tableVars, bindingVars, requestVars
  <2>2. FieldTypes' /\ TargetInv'
    BY <1>2 DEF IInv, vars, FieldTypes, TypeOK, TargetInv, tableVars, bindingVars, requestVars
  <2>3. QED
    BY <2>1, <2>2, EffectTyped DEF Effect
<1>3. QED
  BY <1>1, <1>2

\* A session leaves the table only when its last lease has been given back.
LEMMA HeldStep ==
    ASSUME IInv, LeaseEffect, TableEffect, TypeOK', LeasesCounted'
    PROVE  CapacityHeld'
<1> USE DEF IInv
<1>1. SUFFICES ASSUME NEW r \in Request, pc'[r] \in Holding
               PROVE  target'[r] \in all'
  BY DEF CapacityHeld, Holding
<1>2. target'[r] \in all
  <2>1. pc[r] \in Holding => target[r] \in all
    BY DEF CapacityHeld, Holding
  <2>2. CASE SameLeases
    BY <1>1, <2>1, <2>2 DEF SameLeases, Holding
  <2>3. ASSUME NEW q \in Request, NEW b \in Binding, GainStream(q, b) \/ GainCall(q, b)
        PROVE  target'[r] \in all
    BY <1>1, <2>1, <2>3 DEF GainStream, GainCall, Others
  <2>4. ASSUME NEW q \in Request, NEW b \in Binding, LoseStream(q, b) \/ LoseCall(q, b)
        PROVE  target'[r] \in all
    BY <1>1, <2>1, <2>4 DEF LoseStream, LoseCall, Others
  <2>5. QED
    BY <2>2, <2>3, <2>4 DEF LeaseEffect
<1>3. target'[r] \in Binding
  BY <1>2 DEF TypeOK
<1>4. stream'[target'[r]] \/ inflight'[target'[r]] # 0
  <2>1. CASE pc'[r] \in StreamPC
    <3>1. PICK b \in Binding : b = target'[r]
      BY <1>3
    <3>2. r \in StreamsOf(b)'
      BY <2>1, <3>1 DEF StreamsOf
    <3>3. QED
      BY <3>1, <3>2 DEF LeasesCounted
  <2>2. CASE pc'[r] \in CallPC
    <3>1. PICK b \in Binding : b = target'[r]
      BY <1>3
    <3>2. r \in CallsOf(b)'
      BY <2>2, <3>1 DEF CallsOf
    <3>3. Cardinality(CallsOf(b)') # 0
      <4>1. IsFiniteSet(CallsOf(b)')
        BY FS_Subset, SessionAssumption DEF CallsOf
      <4>2. QED
        BY <3>2, <4>1, FS_EmptySet
    <3>4. QED
      BY <3>1, <3>3 DEF LeasesCounted
  <2>3. QED
    BY <1>1, <2>1, <2>2 DEF Holding
<1>5. CASE SameTable
  BY <1>2, <1>5 DEF SameTable
<1>6. ASSUME NEW b \in Binding, NEW p \in Principal, Grow(b, p)
      PROVE  target'[r] \in all'
  BY <1>2, <1>6 DEF Grow
<1>7. ASSUME NEW b \in Binding, Collect(b)
      PROVE  target'[r] \in all'
  BY <1>2, <1>4, <1>7 DEF Collect
<1>8. CASE Close
  BY <1>2, <1>4, <1>8 DEF Close
<1>9. QED
  BY <1>5, <1>6, <1>7, <1>8 DEF TableEffect

\* Capacity is taken below the limits only.
LEMMA LimitStep ==
    ASSUME IInv, LeaseEffect, TableEffect
    PROVE  LimitInv'
<1> USE DEF IInv
<1>1. total' <= MaxInflightRequests /\ \A b \in Binding : inflight'[b] <= MaxInflightPerSession
  BY LimitAssumption DEF LeaseEffect, SameLeases, GainStream, LoseStream, GainCall, LoseCall,
                         DispatchFree, LimitInv, TypeOK
<1>2. CASE SameTable
  BY <1>1, <1>2 DEF SameTable, LimitInv
<1>3. ASSUME NEW b \in Binding, NEW p \in Principal, Grow(b, p)
      PROVE  LimitInv'
  <2>1. Cardinality(all') = Cardinality(all) + 1
    BY <1>3, Finite, FS_AddElement DEF Grow, TableInv
  <2>2. Cardinality(all') <= MaxSessions
    BY <1>3, <2>1, Finite, FS_CardinalityType, LimitAssumption DEF Grow, SessionsExhausted
  <2>3. \A q \in Principal : owners'[q] <= MaxSessionsPerPrincipal
    BY <1>3, LimitAssumption DEF Grow, SessionsExhausted, LimitInv, TypeOK
  <2>4. QED
    BY <1>1, <2>2, <2>3 DEF LimitInv
<1>4. ASSUME NEW b \in Binding, Collect(b)
      PROVE  LimitInv'
  <2>1. Cardinality(all') <= Cardinality(all) /\ Cardinality(all') \in Nat /\ Cardinality(all) \in Nat
    BY <1>4, Finite, FS_Subset, FS_CardinalityType DEF Collect
  <2>2. Cardinality(all') <= MaxSessions
    BY <2>1, LimitAssumption DEF LimitInv
  <2>3. \A q \in Principal : owners'[q] <= MaxSessionsPerPrincipal
    BY <1>4, LimitAssumption DEF Collect, LimitInv, TypeOK
  <2>4. QED
    BY <1>1, <2>2, <2>3 DEF LimitInv
<1>5. CASE Close
  <2> DEFINE gone(p) == {b \in {c \in all : ~stream[c] /\ inflight[c] = 0} : owner[b] = p}
  <2>1. Cardinality(all') <= Cardinality(all) /\ Cardinality(all') \in Nat /\ Cardinality(all) \in Nat
    <3>1. all' \subseteq all
      BY <1>5 DEF Close
    <3>2. QED
      BY <3>1, Finite, FS_Subset, FS_CardinalityType
  <2>2. Cardinality(all') <= MaxSessions
    BY <2>1, LimitAssumption DEF LimitInv
  <2>3. ASSUME NEW p \in Principal
        PROVE  owners'[p] <= MaxSessionsPerPrincipal
    <3>1. IsFiniteSet(gone(p))
      BY Finite, FS_Subset
    <3>2. Cardinality(gone(p)) \in Nat
      BY <3>1, FS_CardinalityType
    <3>3. owners'[p] = owners[p] - Cardinality(gone(p))
      BY <1>5 DEF Close
    <3>4. QED
      BY <3>2, <3>3, LimitAssumption DEF LimitInv, TypeOK
  <2>4. QED
    BY <1>1, <2>2, <2>3 DEF LimitInv
<1>6. QED
  BY <1>2, <1>3, <1>4, <1>5 DEF TableEffect

\* Sessions leave the table closed, and drained follows the table.
LEMMA TableInvStep ==
    ASSUME IInv, TableEffect
    PROVE  TableInv' /\ DrainInv'
<1> USE DEF IInv
<1>1. CASE SameTable
  BY <1>1 DEF TableEffect, ClosingGrows, SameTable, TableInv, DrainInv, TypeOK
<1>2. ASSUME NEW b \in Binding, NEW p \in Principal, Grow(b, p)
      PROVE  TableInv' /\ DrainInv'
  BY <1>2 DEF TableEffect, ClosingGrows, Grow, TableInv, DrainInv, TypeOK
<1>3. ASSUME NEW b \in Binding, Collect(b)
      PROVE  TableInv' /\ DrainInv'
  BY <1>3 DEF TableEffect, ClosingGrows, Collect, TableInv, DrainInv, TypeOK
<1>4. CASE Close
  BY <1>4 DEF Close, TableInv, DrainInv, TypeOK
<1>5. QED
  BY <1>1, <1>2, <1>3, <1>4 DEF TableEffect

LEMMA InitIInv == Init => IInv
<1> SUFFICES ASSUME Init PROVE IInv
  OBVIOUS
<1>1. TypeOK
  BY SessionAssumption DEF Init, TypeOK, PC
<1>2. CallsUnderWay = {} /\ \A b \in Binding : CallsOf(b) = {} /\ StreamsOf(b) = {}
  BY DEF Init, CallsUnderWay, CallsOf, StreamsOf, CallPC, StreamPC
<1>3. \A p \in Principal : SessionsOf(p) = {}
  BY DEF Init, SessionsOf
<1>4. LeasesCounted /\ OwnersCounted
  BY <1>2, <1>3, FS_EmptySet DEF Init, LeasesCounted, OwnersCounted
<1>5. LimitInv
  BY FS_EmptySet, LimitAssumption DEF Init, LimitInv
<1>6. TableInv /\ TargetInv /\ DrainInv /\ CapacityHeld
  BY DEF Init, TableInv, TargetInv, DrainInv, CapacityHeld, StreamPC, CallPC
<1>7. QED
  BY <1>1, <1>4, <1>5, <1>6 DEF IInv

LEMMA NextIInv == IInv /\ [Next]_vars => IInv'
<1> SUFFICES ASSUME IInv, [Next]_vars PROVE IInv'
  OBVIOUS
<1>1. TypeOK' /\ TargetInv' /\ LeaseEffect /\ TableEffect
  BY NextEffect DEF Effect
<1>2. LeasesCounted' /\ OwnersCounted'
  BY <1>1, LeaseStep, TableStep
<1>3. CapacityHeld'
  BY <1>1, <1>2, HeldStep
<1>4. LimitInv' /\ TableInv' /\ DrainInv'
  BY <1>1, LimitStep, TableInvStep
<1>5. QED
  BY <1>1, <1>2, <1>3, <1>4 DEF IInv

-----------------------------------------------------------------------------
(* Initialization: a session and the requests that make it ready.          *)

\* A request that has yet to reserve a session has none, nor has an empty slot.
FreshInv ==
    \A r \in Request : fresh[r] /\ pc[r] \in {"idle", "arrived"} => target[r] = none

SetupInv == FreshInv /\ NoAbandonedSession /\ SingleInitialization

\* Whoever reserved a session keeps it until it is ready or closing.
OwnerEffect ==
    /\ FreshInv'
    /\ \A b \in Binding : ready[b] => ready'[b]
    /\ \A b \in all' : b \in all \/ \E r \in Request : fresh'[r] /\ target'[r] = b
    /\ \A r \in Request : fresh[r] /\ target[r] \in Binding =>
         \/ fresh'[r] /\ target'[r] = target[r]
         \/ ready'[target[r]] \/ closing'[target[r]]

\* Only begin lets a request initialize or be served, and only commit makes a
\* session ready.
SameSetup ==
    /\ UNCHANGED <<ready, initializing>>
    /\ \A q \in Request : pc'[q] \in {"initialize", "serving"} =>
         pc'[q] = pc[q] /\ target'[q] = target[q]

SetupEffect == OwnerEffect /\ (SameSetup \/ \E r \in Request : Begin(r) \/ Commit(r))

\* What a request does in ServeHTTP.
LEMMA RequestSetup ==
    ASSUME IInv, FreshInv, NEW r \in Request, Arrive(r) \/ Serve(r)
    PROVE  SetupEffect
<1> USE DEF IInv
<1>a. pc[r] \notin {"idle", "arrived"} => target[r] \in Binding
  BY DEF TargetInv, TypeOK
<1>b. pc[r] = "arrived" /\ ~fresh[r] => target[r] \in Binding
  BY DEF TargetInv, TypeOK
<1>1. ASSUME Arrive(r) PROVE SetupEffect
  <2>1. OwnerEffect
    BY <1>1, <1>a, <1>b, SessionAssumption DEF Arrive, Goto, tableVars, bindingVars,
       requestVars, OwnerEffect, FreshInv, TypeOK
  <2>2. SameSetup
    BY <1>1 DEF Arrive, Goto, tableVars, bindingVars, requestVars, SameSetup, TypeOK
  <2>3. QED
    BY <2>1, <2>2 DEF SetupEffect
<1>2. ASSUME Reserve(r) PROVE SetupEffect
  <2>1. OwnerEffect
    BY <1>2, <1>a, <1>b, SessionAssumption DEF Reserve, Goto, Reject, tableVars,
       bindingVars, requestVars, OwnerEffect, FreshInv, TypeOK
  <2>2. SameSetup
    BY <1>2 DEF Reserve, Goto, Reject, tableVars, bindingVars, requestVars,
       SameSetup, TypeOK
  <2>3. QED
    BY <2>1, <2>2 DEF SetupEffect
<1>3. ASSUME AcquireStream(r) PROVE SetupEffect
  <2>1. OwnerEffect
    BY <1>3, <1>a, <1>b DEF AcquireStream, Goto, tableVars, bindingVars, requestVars,
       OwnerEffect, FreshInv, TypeOK
  <2>2. SameSetup
    BY <1>3 DEF AcquireStream, Goto, tableVars, bindingVars, requestVars, SameSetup,
       TypeOK
  <2>3. QED
    BY <2>1, <2>2 DEF SetupEffect
<1>4. ASSUME AcquireCall(r) PROVE SetupEffect
  <2>1. OwnerEffect
    BY <1>4, <1>a, <1>b DEF AcquireCall, Goto, tableVars, bindingVars, requestVars,
       OwnerEffect, FreshInv, TypeOK
  <2>2. SameSetup
    BY <1>4 DEF AcquireCall, Goto, tableVars, bindingVars, requestVars, SameSetup,
       TypeOK
  <2>3. QED
    BY <2>1, <2>2 DEF SetupEffect
<1>5. ASSUME AcquireRefused(r) PROVE SetupEffect
  <2>1. OwnerEffect
    BY <1>5, <1>a, <1>b DEF AcquireRefused, Goto, Reject, RevokeLocked,
       CollectWhenUnused, tableVars, bindingVars, requestVars, OwnerEffect, FreshInv,
       TypeOK
  <2>2. SameSetup
    BY <1>5 DEF AcquireRefused, Goto, Reject, RevokeLocked, CollectWhenUnused,
       tableVars, bindingVars, requestVars, SameSetup, TypeOK
  <2>3. QED
    BY <2>1, <2>2 DEF SetupEffect
<1>6. ASSUME Delete(r) PROVE SetupEffect
  <2>1. OwnerEffect
    BY <1>6, <1>a, <1>b DEF Delete, Goto, Reject, RevokeLocked, CollectWhenUnused,
       tableVars, bindingVars, requestVars, OwnerEffect, FreshInv, TypeOK
  <2>2. SameSetup
    BY <1>6 DEF Delete, Goto, Reject, RevokeLocked, CollectWhenUnused, tableVars,
       bindingVars, requestVars, SameSetup, TypeOK
  <2>3. QED
    BY <2>1, <2>2 DEF SetupEffect
<1>7. ASSUME RegisterStream(r) PROVE SetupEffect
  <2>1. OwnerEffect
    BY <1>7, <1>a, <1>b DEF RegisterStream, Goto, RevokeLocked, CollectWhenUnused,
       tableVars, bindingVars, requestVars, OwnerEffect, FreshInv, TypeOK
  <2>2. SameSetup
    BY <1>7 DEF RegisterStream, Goto, RevokeLocked, CollectWhenUnused, tableVars,
       bindingVars, requestVars, SameSetup, TypeOK
  <2>3. QED
    BY <2>1, <2>2 DEF SetupEffect
<1>8. ASSUME StreamReturns(r) PROVE SetupEffect
  <2>1. OwnerEffect
    BY <1>8, <1>a, <1>b DEF StreamReturns, Goto, RevokeLocked, CollectWhenUnused,
       tableVars, bindingVars, requestVars, OwnerEffect, FreshInv, TypeOK
  <2>2. SameSetup
    BY <1>8 DEF StreamReturns, Goto, RevokeLocked, CollectWhenUnused, tableVars,
       bindingVars, requestVars, SameSetup, TypeOK
  <2>3. QED
    BY <2>1, <2>2 DEF SetupEffect
<1>9. ASSUME FinishStream(r) PROVE SetupEffect
  <2>1. OwnerEffect
    BY <1>9, <1>a, <1>b DEF FinishStream, Goto, CollectWhenUnused, tableVars,
       bindingVars, requestVars, OwnerEffect, FreshInv, TypeOK
  <2>2. SameSetup
    BY <1>9 DEF FinishStream, Goto, CollectWhenUnused, tableVars, bindingVars,
       requestVars, SameSetup, TypeOK
  <2>3. QED
    BY <2>1, <2>2 DEF SetupEffect
<1>10. ASSUME Begin(r) PROVE SetupEffect
  <2>1. OwnerEffect
    BY <1>10, <1>a, <1>b DEF Begin, Goto, tableVars, bindingVars, requestVars,
       OwnerEffect, FreshInv, TypeOK
  <2>2. QED
    BY <1>10, <2>1 DEF SetupEffect
<1>11. ASSUME BeginRefused(r) PROVE SetupEffect
  <2>1. OwnerEffect
    BY <1>11, <1>a, <1>b DEF BeginRefused, Goto, tableVars, bindingVars, requestVars,
       OwnerEffect, FreshInv, TypeOK
  <2>2. SameSetup
    BY <1>11 DEF BeginRefused, Goto, tableVars, bindingVars, requestVars, SameSetup,
       TypeOK
  <2>3. QED
    BY <2>1, <2>2 DEF SetupEffect
<1>12. ASSUME BindId(r) PROVE SetupEffect
  <2>1. OwnerEffect
    BY <1>12, <1>a, <1>b DEF BindId, RevokeLocked, CollectWhenUnused, tableVars,
       bindingVars, requestVars, OwnerEffect, FreshInv, TypeOK
  <2>2. SameSetup
    BY <1>12 DEF BindId, RevokeLocked, CollectWhenUnused, tableVars, bindingVars,
       requestVars, SameSetup, TypeOK
  <2>3. QED
    BY <2>1, <2>2 DEF SetupEffect
<1>13. ASSUME Commit(r) PROVE SetupEffect
  <2>1. OwnerEffect
    BY <1>13, <1>a, <1>b DEF Commit, Goto, tableVars, bindingVars, requestVars,
       OwnerEffect, FreshInv, TypeOK
  <2>2. QED
    BY <1>13, <2>1 DEF SetupEffect
<1>14. ASSUME InitializeFails(r) PROVE SetupEffect
  <2>1. OwnerEffect
    BY <1>14, <1>a, <1>b DEF InitializeFails, Goto, RevokeLocked, CollectWhenUnused,
       tableVars, bindingVars, requestVars, OwnerEffect, FreshInv, TypeOK
  <2>2. SameSetup
    BY <1>14 DEF InitializeFails, Goto, RevokeLocked, CollectWhenUnused, tableVars,
       bindingVars, requestVars, SameSetup, TypeOK
  <2>3. QED
    BY <2>1, <2>2 DEF SetupEffect
<1>15. ASSUME CheckFails(r) PROVE SetupEffect
  <2>1. OwnerEffect
    BY <1>15, <1>a, <1>b DEF CheckFails, Goto, tableVars, bindingVars, requestVars,
       OwnerEffect, FreshInv, TypeOK
  <2>2. SameSetup
    BY <1>15 DEF CheckFails, Goto, tableVars, bindingVars, requestVars, SameSetup,
       TypeOK
  <2>3. QED
    BY <2>1, <2>2 DEF SetupEffect
<1>16. ASSUME HandlerReturns(r) PROVE SetupEffect
  <2>1. OwnerEffect
    BY <1>16, <1>a, <1>b DEF HandlerReturns, Goto, RevokeLocked, CollectWhenUnused,
       tableVars, bindingVars, requestVars, OwnerEffect, FreshInv, TypeOK
  <2>2. SameSetup
    BY <1>16 DEF HandlerReturns, Goto, RevokeLocked, CollectWhenUnused, tableVars,
       bindingVars, requestVars, SameSetup, TypeOK
  <2>3. QED
    BY <2>1, <2>2 DEF SetupEffect
<1>17. ASSUME FinishCall(r) PROVE SetupEffect
  <2>1. OwnerEffect
    BY <1>17, <1>a, <1>b DEF FinishCall, Goto, CollectWhenUnused, tableVars,
       bindingVars, requestVars, OwnerEffect, FreshInv, TypeOK
  <2>2. SameSetup
    BY <1>17 DEF FinishCall, Goto, CollectWhenUnused, tableVars, bindingVars,
       requestVars, SameSetup, TypeOK
  <2>3. QED
    BY <2>1, <2>2 DEF SetupEffect
<1>18. ASSUME Leave(r) PROVE SetupEffect
  <2>1. OwnerEffect
    BY <1>18, <1>a, <1>b DEF Leave, Goto, Reject, RevokeLocked, CollectWhenUnused,
       tableVars, bindingVars, requestVars, OwnerEffect, FreshInv, TypeOK
  <2>2. SameSetup
    BY <1>18 DEF Leave, Goto, Reject, RevokeLocked, CollectWhenUnused, tableVars,
       bindingVars, requestVars, SameSetup, TypeOK
  <2>3. QED
    BY <2>1, <2>2 DEF SetupEffect
<1>19. QED
  BY <1>1, <1>2, <1>3, <1>4, <1>5, <1>6, <1>7, <1>8, <1>9, <1>10, <1>11, <1>12,
     <1>13, <1>14, <1>15, <1>16, <1>17, <1>18 DEF Serve

LEMMA NextSetup ==
    ASSUME IInv, FreshInv, [Next]_vars
    PROVE  SetupEffect
<1> USE DEF IInv
<1>1. ASSUME NEW r \in Request, Arrive(r) \/ Serve(r) PROVE SetupEffect
  BY <1>1, RequestSetup
<1>2. ASSUME NEW b \in Binding, Expire(b) \/ Sweep(b) PROVE SetupEffect
  <2>1. all' \subseteq all /\ UNCHANGED <<ready, initializing, requestVars>>
    BY <1>2 DEF Expire, Sweep, RevokeLocked, CollectWhenUnused, tableVars
  <2>2. QED
    BY <2>1 DEF SetupEffect, OwnerEffect, SameSetup, FreshInv, requestVars
<1>3. CASE Cancel \/ Close \/ UNCHANGED vars
  <2>1. all' \subseteq all /\ UNCHANGED <<ready, initializing, requestVars>>
    BY <1>3 DEF Cancel, Close, vars, tableVars, bindingVars
  <2>2. QED
    BY <2>1 DEF SetupEffect, OwnerEffect, SameSetup, FreshInv, requestVars
<1>4. QED
  BY <1>1, <1>2, <1>3 DEF Next

\* The request that reserved a session answers for it.
LEMMA OwnerStep ==
    ASSUME IInv, NoAbandonedSession, ClosingGrows, OwnerEffect, TypeOK'
    PROVE  NoAbandonedSession'
<1>1. SUFFICES ASSUME NEW b \in all', ~ready'[b], ~closing'[b]
               PROVE  \E r \in Request : fresh'[r] /\ target'[r] = b
  BY DEF NoAbandonedSession
<1>2. b \in Binding
  BY DEF TypeOK
<1>3. CASE b \in all
  <2>1. ~ready[b] /\ ~closing[b]
    BY <1>1, <1>2 DEF OwnerEffect, ClosingGrows
  <2>2. PICK r \in Request : fresh[r] /\ target[r] = b
    BY <1>3, <2>1 DEF NoAbandonedSession
  <2>3. fresh'[r] /\ target'[r] = b
    BY <1>1, <1>2, <2>2 DEF OwnerEffect
  <2>4. QED
    BY <2>3
<1>4. QED
  BY <1>3 DEF OwnerEffect

\* begin claims a session nobody claims, and commit lets the claim go together
\* with the only request that holds it.
LEMMA InitializeStep ==
    ASSUME IInv, SingleInitialization, SameSetup \/ \E r \in Request : Begin(r) \/ Commit(r)
    PROVE  SingleInitialization'
<1> USE DEF IInv
<1>1. CASE SameSetup
  BY <1>1 DEF SameSetup, SingleInitialization
<1>2. ASSUME NEW r \in Request, Begin(r) \/ Commit(r)
      PROVE  SingleInitialization'
  <2>1. target[r] \in Binding /\ UNCHANGED target
    BY <1>2 DEF Begin, Commit, TargetInv, TypeOK
  <2>2. CASE Begin(r)
    <3>1. /\ UNCHANGED ready
          /\ \A q \in Request \ {r} : pc'[q] = pc[q]
          /\ \A b \in Binding : initializing[b] => initializing'[b]
      BY <2>1, <2>2 DEF Begin, Goto, TypeOK
    <3>2. \/ /\ pc'[r] = "initialize" /\ ~ready[target[r]] /\ ~initializing[target[r]]
             /\ initializing'[target[r]]
          \/ pc'[r] = "serving" /\ ready[target[r]] /\ UNCHANGED initializing
      BY <2>1, <2>2 DEF Begin, Goto, TypeOK
    <3>3. \A q \in Request : pc[q] = "initialize" => target[q] \in Binding
      BY DEF TargetInv, TypeOK
    <3>4. ASSUME NEW q \in Request, pc'[q] = "initialize"
          PROVE  initializing'[target[q]] /\ ~ready[target[q]]
      BY <3>1, <3>2, <3>3, <3>4 DEF SingleInitialization
    <3>5. ASSUME NEW q \in Request, NEW p \in Request, pc'[q] = "initialize",
                 pc'[p] = "initialize", target[p] = target[q]
          PROVE  p = q
      BY <3>1, <3>2, <3>5 DEF SingleInitialization
    <3>6. \A q \in Request : pc'[q] = "serving" => ready[target[q]]
      BY <3>1, <3>2 DEF SingleInitialization
    <3>7. QED
      BY <2>1, <3>1, <3>4, <3>5, <3>6 DEF SingleInitialization
  <2>3. CASE Commit(r)
    BY <2>1, <2>3 DEF Commit, Goto, SingleInitialization, TypeOK
  <2>4. QED
    BY <1>2, <2>2, <2>3
<1>3. QED
  BY <1>1, <1>2

LEMMA InitSetup == Init => SetupInv
BY DEF Init, SetupInv, FreshInv, NoAbandonedSession, SingleInitialization

LEMMA NextSetupInv == IInv /\ SetupInv /\ [Next]_vars => SetupInv'
<1> SUFFICES ASSUME IInv, SetupInv, [Next]_vars PROVE SetupInv'
  OBVIOUS
<1>1. SetupEffect
  BY NextSetup DEF SetupInv
<1>2. ClosingGrows /\ TypeOK'
  BY NextEffect DEF Effect, TableEffect
<1>3. NoAbandonedSession'
  BY <1>1, <1>2, OwnerStep DEF SetupInv, SetupEffect
<1>4. SingleInitialization'
  BY <1>1, InitializeStep DEF SetupInv, SetupEffect
<1>5. QED
  BY <1>1, <1>3, <1>4 DEF SetupInv, SetupEffect, OwnerEffect

-----------------------------------------------------------------------------
(* The theorems.                                                           *)

\* The inductive invariant holds in every reachable state.
THEOREM Invariance == Spec => []IInv
BY InitIInv, NextIInv, PTL DEF Spec

\* Every variable keeps its type: no counter of http_sessions.go goes negative.
THEOREM TypeCorrect == Spec => []TypeOK
<1>1. IInv => TypeOK
  BY DEF IInv
<1>2. QED
  BY <1>1, Invariance, PTL

\* The counters are what they count: nothing leaks, nothing is released twice.
THEOREM AccountingIsExact == Spec => []Accounting
<1>1. IInv => Accounting
  BY DEF IInv, Accounting
<1>2. QED
  BY <1>1, Invariance, PTL

\* What really runs stays within the four limits of the configuration.
THEOREM LimitsAreKept == Spec => []WithinLimits
<1>1. IInv => WithinLimits
  BY DEF IInv, WithinLimits, LimitInv, LeasesCounted, OwnersCounted
<1>2. QED
  BY <1>1, Invariance, PTL

\* A session that a request still uses keeps its capacity, however it was revoked.
THEOREM CapacityIsHeld == Spec => []CapacityHeld
<1>1. IInv => CapacityHeld
  BY DEF IInv
<1>2. QED
  BY <1>1, Invariance, PTL

\* The shutdown is released exactly when every session and request has gone.
THEOREM DrainIsExact == Spec => []DrainedIsDrained
<1>1. IInv => DrainedIsDrained
  BY DEF IInv, DrainInv, CapacityHeld, DrainedIsDrained
<1>2. QED
  BY <1>1, Invariance, PTL

\* All four together: capacity is accounted for to the end.
THEOREM CapacityIsExact == Spec => []CapacityExact
BY AccountingIsExact, LimitsAreKept, CapacityIsHeld, DrainIsExact, PTL DEF CapacityExact

\* How sessions are set up, in every reachable state.
THEOREM SetupInvariance == Spec => []SetupInv
<1>1. Init => SetupInv
  BY InitSetup
<1>2. IInv /\ SetupInv /\ [Next]_vars => SetupInv'
  BY NextSetupInv
<1>3. QED
  BY <1>1, <1>2, Invariance, PTL DEF Spec

\* No session that holds capacity is left half set up without a request that
\* will revoke it, however its initialization fails (ServeHTTP).
THEOREM NothingIsAbandoned == Spec => []NoAbandonedSession
<1>1. SetupInv => NoAbandonedSession
  BY DEF SetupInv
<1>2. QED
  BY <1>1, SetupInvariance, PTL

\* A session is initialized by one request at a time and once, and nothing is
\* served before (begin, commit).
THEOREM InitializedOnce == Spec => []SingleInitialization
<1>1. SetupInv => SingleInitialization
  BY DEF SetupInv
<1>2. QED
  BY <1>1, SetupInvariance, PTL
=============================================================================
