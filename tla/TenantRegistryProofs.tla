----------------------- MODULE TenantRegistryProofs ------------------------
(***************************************************************************)
(* What TenantRegistry guarantees for every number of principals, calls,   *)
(* initializations and crashes and for all limits: the types, that a       *)
(* directory has one owner, that calls get what is theirs, and that every  *)
(* tenant is closed once.                                                  *)
(*                                                                         *)
(* The maps and the jobs are tied together from both sides: an entry of    *)
(* inflight or tenants belongs to a job of its principal that has come so  *)
(* far and no further (MapInv), and a job in a given stage has its entry   *)
(* and its handles (JobInv).  OneOwner follows because a directory in use  *)
(* always has an entry, and an entry has one job.                          *)
(***************************************************************************)
EXTENDS TenantRegistry, FiniteSetTheorems, TLAPS

Claim == [key : Key, grant : Grant]

Early == {"provider", "root", "mark"}
Ended == {"deregister", "done"}

\* What a job holds in each of its stages.
HandleInv(j) ==
    /\ stage[j] = "free" => handle[j] = "none" /\ runner[j] = "none"
    /\ stage[j] \in {"free"} \cup Building => result[j] = "none"
    /\ stage[j] \in Early => handle[j] = "none"
    /\ stage[j] = "manager" => handle[j] = "open"
    /\ stage[j] \in {"built", "cleanup"} => handle[j] \in {"none", "open"}
    /\ stage[j] = "built" /\ result[j] = "ok" => handle[j] = "open"
    /\ stage[j] = "cleanup" => result[j] # "ok"
    /\ stage[j] \in Ended /\ result[j] # "ok" => handle[j] \in {"none", "closed"}
    /\ stage[j] \in Ended /\ result[j] = "ok" => handle[j] \in {"open", "closing", "closed"}

\* A published tenant is open until Close, and in the map while it is open.
OpenInv(j) ==
    stage[j] \in Ended /\ result[j] = "ok" =>
        /\ handle[j] # "closed" => tenants[who[j].key] = j
        /\ handle[j] = "open" <=> ~Closed

JobInv ==
    \A j \in Job :
        /\ stage[j] # "free" => who[j] \in Claim
        /\ HandleInv(j) /\ OpenInv(j)
        /\ closes[j] = IF handle[j] \in {"closing", "closed"} THEN 1 ELSE 0
        /\ stage[j] \notin {"free", "done"} => inflight[who[j].key] = j
        /\ phase = "closed" => stage[j] \in {"free", "done"} /\ handle[j] # "closing"

MapInv ==
    \A k \in Key :
        /\ inflight[k] # none => /\ stage[inflight[k]] \notin {"free", "done"}
                                 /\ who[inflight[k]].key = k
        /\ tenants[k] # none => /\ stage[tenants[k]] \in Ended
                                /\ result[tenants[k]] = "ok"
                                /\ who[tenants[k]].key = k
        /\ inflight[k] # none /\ tenants[k] # none => inflight[k] = tenants[k]

Mine(c) == who[caller[c].job] = [key |-> caller[c].key, grant |-> caller[c].grant]

CallInv ==
    \A c \in Caller :
        /\ caller[c].pc = "waiting" =>
             caller[c].job \in Job /\ stage[caller[c].job] # "free" /\ Mine(c)
        /\ caller[c].got => /\ caller[c].job \in Job /\ Mine(c)
                            /\ stage[caller[c].job] \in Ended
                            /\ result[caller[c].job] = "ok"

IInv == TypeOK /\ JobInv /\ MapInv /\ CallInv

-----------------------------------------------------------------------------
(* One lemma for each action.                                              *)

LEMMA JobIsNotNone == \A j \in Job : j # none
  BY RegistryAssumption DEF Job

\* The steps that touch the calls only.
LEMMA CallStep ==
    ASSUME IInv, NEW c \in Caller, Leave(c) \/ WaitEnds(c)
    PROVE  IInv'
<1>1. UNCHANGED <<mapVars, jobVars, tenantVars, storage>>
  BY DEF Leave, WaitEnds
<1>2. TypeOK'
  <2>1. /\ caller[c] \in CallType /\ NoCall \in CallType
        /\ Call("idle", caller[c].key, caller[c].grant, caller[c].job, TRUE) \in CallType
    BY DEF IInv, TypeOK, CallType, Call, NoCall
  <2>2. \/ caller' = [caller EXCEPT ![c] = NoCall]
        \/ caller' = [caller EXCEPT ![c] = Call("idle", caller[c].key, caller[c].grant,
                                                caller[c].job, TRUE)]
    BY DEF Leave, WaitEnds, Refuse, Give
  <2>3. caller' \in [Caller -> CallType]
    BY <2>1, <2>2 DEF IInv, TypeOK
  <2>4. \A d \in Caller : caller'[d].pc = "waiting" => caller'[d].job \in Job
    BY <2>2 DEF IInv, TypeOK, NoCall, Call
  <2> QED  BY <1>1, <2>3, <2>4 DEF IInv, TypeOK, mapVars, jobVars, tenantVars
<1>3. JobInv' /\ MapInv'
  BY <1>1 DEF IInv, JobInv, MapInv, HandleInv, OpenInv, Closed, mapVars, jobVars, tenantVars
<1>4. CallInv'
  <2> SUFFICES ASSUME NEW d \in Caller
               PROVE  /\ caller'[d].pc = "waiting" =>
                          caller'[d].job \in Job /\ stage[caller'[d].job] # "free" /\ Mine(d)'
                      /\ caller'[d].got => /\ caller'[d].job \in Job /\ Mine(d)'
                                           /\ stage[caller'[d].job] \in Ended
                                           /\ result[caller'[d].job] = "ok"
    BY <1>1 DEF CallInv, jobVars
  <2>1. CASE d # c
    <3>1. caller'[d] = caller[d]
      BY <2>1 DEF Leave, WaitEnds, Refuse, Give, IInv, TypeOK
    <3> QED  BY <1>1, <3>1 DEF IInv, CallInv, Mine, jobVars
  <2>2. CASE d = c /\ Refuse(c)
    BY <2>2 DEF Refuse, NoCall, IInv, TypeOK
  <2>3. CASE /\ d = c /\ stage[caller[c].job] = "done" /\ result[caller[c].job] = "ok"
             /\ caller[c].pc = "waiting"
             /\ Give(c, caller[c].key, caller[c].grant, caller[c].job)
    BY <1>1, <2>3 DEF Give, Call, IInv, TypeOK, CallInv, Mine, Ended, jobVars
  <2> QED  BY <2>1, <2>2, <2>3 DEF Leave, WaitEnds
<1> QED  BY <1>2, <1>3, <1>4 DEF IInv

\* A call that is answered at once, or joins a job of its principal and authorization.
LEMMA AnswerStep ==
    ASSUME IInv, NEW c \in Caller, NEW k \in Key, NEW g \in Grant,
           UNCHANGED <<mapVars, jobVars, tenantVars, storage>>,
           \/ Refuse(c)
           \/ tenants[k] # none /\ who[tenants[k]].grant = g /\ Give(c, k, g, tenants[k])
           \/ inflight[k] # none /\ who[inflight[k]].grant = g /\ Await(c, k, g, inflight[k])
    PROVE  IInv'
<1>1. tenants[k] \in Job \cup {none} /\ inflight[k] \in Job \cup {none}
  BY DEF IInv, TypeOK
<1>2. tenants[k] # none => /\ who[tenants[k]] = [key |-> k, grant |-> who[tenants[k]].grant]
                           /\ stage[tenants[k]] \in Ended /\ result[tenants[k]] = "ok"
  BY <1>1 DEF IInv, MapInv, JobInv, Claim, Ended
<1>3. inflight[k] # none => /\ who[inflight[k]] = [key |-> k, grant |-> who[inflight[k]].grant]
                            /\ stage[inflight[k]] # "free"
  BY <1>1 DEF IInv, MapInv, JobInv, Claim
<1>4. \/ caller' = [caller EXCEPT ![c] = NoCall]
      \/ /\ tenants[k] # none /\ who[tenants[k]].grant = g
         /\ caller' = [caller EXCEPT ![c] = Call("idle", k, g, tenants[k], TRUE)]
      \/ /\ inflight[k] # none /\ who[inflight[k]].grant = g
         /\ caller' = [caller EXCEPT ![c] = Call("waiting", k, g, inflight[k], FALSE)]
  BY DEF Refuse, Give, Await
<1>5. TypeOK'
  <2>1. /\ NoCall \in CallType
        /\ tenants[k] # none => Call("idle", k, g, tenants[k], TRUE) \in CallType
        /\ inflight[k] # none => Call("waiting", k, g, inflight[k], FALSE) \in CallType
    BY <1>1 DEF CallType, Call, NoCall
  <2>2. caller' \in [Caller -> CallType]
    BY <1>4, <2>1 DEF IInv, TypeOK
  <2>3. \A d \in Caller : caller'[d].pc = "waiting" => caller'[d].job \in Job
    BY <1>1, <1>4 DEF IInv, TypeOK, NoCall, Call
  <2> QED  BY <2>2, <2>3 DEF IInv, TypeOK, mapVars, jobVars, tenantVars
<1>6. JobInv' /\ MapInv'
  BY DEF IInv, JobInv, MapInv, HandleInv, OpenInv, Closed, mapVars, jobVars, tenantVars
<1>7. CallInv'
  <2> SUFFICES ASSUME NEW d \in Caller
               PROVE  /\ caller'[d].pc = "waiting" =>
                          caller'[d].job \in Job /\ stage[caller'[d].job] # "free" /\ Mine(d)'
                      /\ caller'[d].got => /\ caller'[d].job \in Job /\ Mine(d)'
                                           /\ stage[caller'[d].job] \in Ended
                                           /\ result[caller'[d].job] = "ok"
    BY DEF CallInv, jobVars
  <2>1. CASE d # c
    <3>1. caller'[d] = caller[d]
      BY <1>4, <2>1 DEF IInv, TypeOK
    <3> QED  BY <3>1 DEF IInv, CallInv, Mine, jobVars
  <2>2. CASE d = c
    BY <1>1, <1>2, <1>3, <1>4, <2>2 DEF IInv, TypeOK, NoCall, Call, Mine, jobVars
  <2> QED  BY <2>1, <2>2
<1> QED  BY <1>5, <1>6, <1>7 DEF IInv

\* The calls are not disturbed by a job that goes on.
LEMMA CallsKept ==
    ASSUME IInv, UNCHANGED <<who, caller>>,
           \A j \in Job : stage[j] # "free" => stage'[j] # "free",
           \A j \in Job : stage[j] \in Ended => stage'[j] \in Ended /\ result'[j] = result[j]
    PROVE  CallInv'
  BY DEF IInv, CallInv, Mine

\* What a step of the build may do: change the stage of a job, its result and its
\* handle.
BuildEffect(j, s, r, h) ==
    /\ stage[j] \in Building /\ s \in Building \cup {"built"}
    /\ r \in Result /\ h \in {"none", "open"}
    /\ stage' = [stage EXCEPT ![j] = s] /\ result' = [result EXCEPT ![j] = r]
    /\ handle' = [handle EXCEPT ![j] = h]
    /\ s \in Early => h = "none"
    /\ s = "manager" \/ r = "ok" => h = "open"
    /\ s \in Building => r = "none"
    /\ UNCHANGED <<mapVars, who, late, closes, runner, caller>>
    /\ storage' \in [Key -> {"empty", "unmarked", "owned"}]

LEMMA BuildKeeps ==
    ASSUME IInv, NEW j \in Job, NEW s, NEW r, NEW h, BuildEffect(j, s, r, h)
    PROVE  IInv'
<1>1. /\ stage[j] \notin {"free", "built", "cleanup", "deregister", "done"}
      /\ s \notin {"free", "cleanup", "deregister", "done"} /\ s \in Stage
  BY DEF BuildEffect, Building, Stage
<1>2. TypeOK'
  BY <1>1 DEF IInv, TypeOK, BuildEffect, mapVars
<1>3. JobInv'
  <2> SUFFICES ASSUME NEW i \in Job
               PROVE  /\ stage'[i] # "free" => who'[i] \in Claim
                      /\ HandleInv(i)' /\ OpenInv(i)'
                      /\ closes'[i] = IF handle'[i] \in {"closing", "closed"} THEN 1 ELSE 0
                      /\ stage'[i] \notin {"free", "done"} => inflight'[who'[i].key] = i
                      /\ phase' = "closed" => stage'[i] \in {"free", "done"} /\ handle'[i] # "closing"
    BY DEF JobInv
  <2>1. CASE i # j
    <3>1. stage'[i] = stage[i] /\ result'[i] = result[i] /\ handle'[i] = handle[i]
      BY <2>1 DEF BuildEffect, IInv, TypeOK
    <3> QED  BY <3>1 DEF BuildEffect, IInv, JobInv, HandleInv, OpenInv, Closed, mapVars
  <2>2. CASE i = j
    <3>1. stage'[i] = s /\ result'[i] = r /\ handle'[i] = h
      BY <2>2 DEF BuildEffect, IInv, TypeOK
    <3>2. handle[i] \in {"none", "open"}
      BY <2>2, <1>1 DEF BuildEffect, IInv, JobInv, HandleInv, Building, Early
    <3>3. HandleInv(i)' /\ OpenInv(i)'
      BY <3>1, <1>1 DEF BuildEffect, HandleInv, OpenInv, Ended
    <3> QED  BY <2>2, <1>1, <3>1, <3>2, <3>3 DEF BuildEffect, IInv, JobInv, mapVars
  <2> QED  BY <2>1, <2>2
<1>4. MapInv'
  <2> SUFFICES ASSUME NEW k \in Key
               PROVE  /\ inflight'[k] # none => /\ stage'[inflight'[k]] \notin {"free", "done"}
                                                /\ who'[inflight'[k]].key = k
                      /\ tenants'[k] # none => /\ stage'[tenants'[k]] \in Ended
                                               /\ result'[tenants'[k]] = "ok"
                                               /\ who'[tenants'[k]].key = k
                      /\ inflight'[k] # none /\ tenants'[k] # none => inflight'[k] = tenants'[k]
    BY DEF MapInv
  <2>1. tenants[k] # none => tenants[k] # j
    BY <1>1 DEF IInv, MapInv, Ended
  <2> QED  BY <1>1, <2>1 DEF BuildEffect, IInv, TypeOK, MapInv, mapVars
<1>5. CallInv'
  BY <1>1, CallsKept DEF BuildEffect, IInv, TypeOK, Ended
<1> QED  BY <1>2, <1>3, <1>4, <1>5 DEF IInv

LEMMA BuildStep ==
    ASSUME IInv, NEW j \in Job, Build(j)
    PROVE  IInv'
<1>1. /\ stage = [stage EXCEPT ![j] = stage[j]] /\ result = [result EXCEPT ![j] = result[j]]
      /\ handle = [handle EXCEPT ![j] = handle[j]] /\ result[j] \in Result
      /\ who[j].key \in Key \/ stage[j] = "free"
  BY DEF IInv, TypeOK, JobInv, Claim
<1>2. CASE Provider(j)
  <2>1. handle[j] = "none" /\ result[j] = "none"
    BY <1>2 DEF Provider, IInv, JobInv, HandleInv, Early, Building
  <2>2. \/ BuildEffect(j, "root", "none", "none")
        \/ BuildEffect(j, "built", "timeout", "none")
        \/ BuildEffect(j, "built", "failed", "none")
    BY <1>1, <1>2, <2>1 DEF Provider, Advance, Return, BuildFrame, JobFrame,
       BuildEffect, Building, Early, Result, mapVars, IInv, TypeOK
  <2> QED  BY <2>2, BuildKeeps
<1>3. CASE OpenRoot(j)
  <2>1. handle[j] = "none" /\ result[j] = "none" /\ who[j].key \in Key
    BY <1>1, <1>3 DEF OpenRoot, IInv, JobInv, HandleInv, Early, Building
  <2>2. storage' \in [Key -> {"empty", "unmarked", "owned"}]
    BY <1>3, <2>1 DEF OpenRoot, IInv, TypeOK
  <2>3. \/ BuildEffect(j, "built", "timeout", "none")
        \/ BuildEffect(j, "manager", "none", "open")
        \/ BuildEffect(j, "mark", "none", "none")
        \/ BuildEffect(j, "built", "failed", "none")
    BY <1>1, <1>3, <2>1, <2>2 DEF OpenRoot, Advance, Return, BuildFrame, JobFrame,
       BuildEffect, Building, Early, Result, mapVars
  <2> QED  BY <2>3, BuildKeeps
<1>4. CASE Mark(j)
  <2>1. handle[j] = "none" /\ result[j] = "none" /\ who[j].key \in Key
    BY <1>1, <1>4 DEF Mark, IInv, JobInv, HandleInv, Early, Building
  <2>2. storage' \in [Key -> {"empty", "unmarked", "owned"}]
    BY <1>4, <2>1 DEF Mark, IInv, TypeOK
  <2>3. \/ BuildEffect(j, "manager", "none", "open")
        \/ BuildEffect(j, "built", "failed", "none")
    BY <1>1, <1>4, <2>1, <2>2 DEF Mark, Advance, Return, BuildFrame, JobFrame,
       BuildEffect, Building, Early, Result, mapVars
  <2> QED  BY <2>3, BuildKeeps
<1>5. CASE NewManager(j)
  <2>1. handle[j] = "open"
    BY <1>5 DEF NewManager, IInv, JobInv, HandleInv
  <2>2. \/ BuildEffect(j, "built", "timeout", "open")
        \/ BuildEffect(j, "built", "failed", "open")
        \/ BuildEffect(j, "built", "ok", "open")
    BY <1>1, <1>5, <2>1 DEF NewManager, Return, BuildFrame, JobFrame,
       BuildEffect, Building, Early, Result, mapVars, IInv, TypeOK
  <2> QED  BY <2>2, BuildKeeps
<1> QED  BY <1>2, <1>3, <1>4, <1>5 DEF Build

LEMMA StartStep ==
    ASSUME IInv, NEW c \in Caller, NEW k \in Key, NEW g \in Grant,
           ~Stopped, tenants[k] = none, Start(c, k, g),
           UNCHANGED <<phase, tenants, tenantVars, storage>>
    PROVE  IInv'
<1>1. PICK j \in Job : /\ stage[j] = "free"
                       /\ inflight' = [inflight EXCEPT ![k] = j]
                       /\ who' = [who EXCEPT ![j] = [key |-> k, grant |-> g]]
                       /\ stage' = [stage EXCEPT ![j] = "provider"]
                       /\ Await(c, k, g, j)
  BY DEF Start
<1>2. inflight[k] = none /\ UNCHANGED <<late, result>> /\ j # none
  BY JobIsNotNone DEF Start
<1>3. /\ [key |-> k, grant |-> g] \in Claim /\ [key |-> k, grant |-> g].key = k
      /\ handle[j] = "none" /\ runner[j] = "none" /\ result[j] = "none" /\ closes[j] = 0
  BY <1>1 DEF Claim, IInv, JobInv, HandleInv
<1>4. TypeOK'
  <2>1. Call("waiting", k, g, j, FALSE) \in CallType
    BY DEF Call, CallType
  <2>2. /\ caller' \in [Caller -> CallType]
        /\ \A d \in Caller : caller'[d].pc = "waiting" => caller'[d].job \in Job
    BY <1>1, <2>1 DEF Await, Call, IInv, TypeOK
  <2> QED  BY <1>1, <1>2, <1>3, <2>2 DEF IInv, TypeOK, Claim, Stage, Building, tenantVars
<1>5. JobInv'
  <2> SUFFICES ASSUME NEW i \in Job
               PROVE  /\ stage'[i] # "free" => who'[i] \in Claim
                      /\ HandleInv(i)' /\ OpenInv(i)'
                      /\ closes'[i] = IF handle'[i] \in {"closing", "closed"} THEN 1 ELSE 0
                      /\ stage'[i] \notin {"free", "done"} => inflight'[who'[i].key] = i
                      /\ phase' = "closed" => stage'[i] \in {"free", "done"} /\ handle'[i] # "closing"
    BY DEF JobInv
  <2>1. CASE i # j
    <3>1. stage'[i] = stage[i] /\ who'[i] = who[i]
      BY <1>1, <2>1 DEF IInv, TypeOK
    <3>2. stage[i] \notin {"free", "done"} => who[i].key # k
      BY <1>2, JobIsNotNone DEF IInv, JobInv
    <3> QED  BY <1>1, <1>2, <3>1, <3>2 DEF IInv, TypeOK, JobInv, HandleInv, OpenInv, Closed, Claim, tenantVars
  <2>2. CASE i = j
    <3>1. stage'[i] = "provider" /\ who'[i] = [key |-> k, grant |-> g] /\ inflight'[k] = j
      BY <1>1, <2>2 DEF IInv, TypeOK
    <3> QED  BY <1>2, <1>3, <2>2, <3>1 DEF HandleInv, OpenInv, Early, Building, Ended, Stopped, tenantVars
  <2> QED  BY <2>1, <2>2
<1>6. MapInv'
  BY <1>1, <1>2, <1>3 DEF IInv, TypeOK, MapInv, Ended
<1>7. CallInv'
  <2> SUFFICES ASSUME NEW d \in Caller
               PROVE  /\ caller'[d].pc = "waiting" =>
                          caller'[d].job \in Job /\ stage'[caller'[d].job] # "free" /\ Mine(d)'
                      /\ caller'[d].got => /\ caller'[d].job \in Job /\ Mine(d)'
                                           /\ stage'[caller'[d].job] \in Ended
                                           /\ result'[caller'[d].job] = "ok"
    BY DEF CallInv
  <2>1. CASE d # c
    <3>1. caller'[d] = caller[d]
      BY <1>1, <2>1 DEF Await, IInv, TypeOK
    <3> QED  BY <1>1, <1>2, <3>1 DEF IInv, TypeOK, CallInv, Mine, Ended
  <2>2. CASE d = c
    <3>1. caller'[d] = Call("waiting", k, g, j, FALSE)
      BY <1>1, <2>2 DEF Await, IInv, TypeOK
    <3> QED  BY <1>1, <3>1 DEF Call, Mine, IInv, TypeOK
  <2> QED  BY <2>1, <2>2
<1> QED  BY <1>4, <1>5, <1>6, <1>7 DEF IInv

LEMMA ResolveStep ==
    ASSUME IInv, NEW c \in Caller, Resolve(c)
    PROVE  IInv'
<1>1. PICK k \in Key, g \in Grant :
        \/ Start(c, k, g) /\ ~Stopped /\ tenants[k] = none
        \/ /\ UNCHANGED <<inflight, jobVars>>
           /\ \/ Refuse(c)
              \/ /\ tenants[k] # none /\ who[tenants[k]].grant = g
                 /\ Give(c, k, g, tenants[k])
              \/ Join(c, k, g)
  BY DEF Resolve, Join
<1>2. UNCHANGED <<phase, tenants, tenantVars, storage>>
  BY DEF Resolve
<1>3. CASE Start(c, k, g) /\ ~Stopped /\ tenants[k] = none
  BY <1>2, <1>3, StartStep
<1>4. CASE /\ UNCHANGED <<inflight, jobVars>>
           /\ \/ Refuse(c)
              \/ /\ tenants[k] # none /\ who[tenants[k]].grant = g
                 /\ Give(c, k, g, tenants[k])
              \/ Join(c, k, g)
  BY <1>2, <1>4, AnswerStep DEF Join, mapVars
<1> QED  BY <1>1, <1>3, <1>4

LEMMA TimeoutStep ==
    ASSUME IInv, NEW j \in Job, Timeout(j)
    PROVE  IInv'
<1>1. TypeOK'
  BY DEF Timeout, JobFrame, IInv, TypeOK
<1> QED  BY <1>1 DEF Timeout, JobFrame, IInv, JobInv, HandleInv, OpenInv, MapInv, CallInv, Mine, Closed

LEMMA PublishStep ==
    ASSUME IInv, NEW j \in Job, Publish(j)
    PROVE  IInv'
<1> DEFINE k == who[j].key
<1>1. /\ stage[j] = "built" /\ inflight[k] = j /\ k \in Key /\ j # none
      /\ handle[j] \in {"none", "open"} /\ (result[j] = "ok" => handle[j] = "open")
      /\ UNCHANGED <<phase, inflight, who, late, handle, closes, caller, storage>>
  BY JobIsNotNone DEF Publish, IInv, JobInv, HandleInv, Claim
<1>2. CASE result[j] = "ok" /\ ~Expired(j)
  <2>1. /\ tenants' = [tenants EXCEPT ![k] = j] /\ UNCHANGED result
        /\ runner' = [runner EXCEPT ![j] = "queued"]
        /\ stage' = [stage EXCEPT ![j] = "deregister"]
    BY <1>2 DEF Publish, Advance
  <2>2. ~Closed /\ handle[j] = "open" /\ phase # "closed"
    BY <1>1, <1>2 DEF Expired, Stopped, Closed
  <2>3. tenants[k] = none
    BY <1>1 DEF IInv, MapInv, Ended
  <2>4. TypeOK'
    BY <1>1, <2>1 DEF IInv, TypeOK, Stage
  <2>5. JobInv'
    <3> SUFFICES ASSUME NEW i \in Job
                 PROVE  /\ stage'[i] # "free" => who'[i] \in Claim
                        /\ HandleInv(i)' /\ OpenInv(i)'
                        /\ closes'[i] = IF handle'[i] \in {"closing", "closed"} THEN 1 ELSE 0
                        /\ stage'[i] \notin {"free", "done"} => inflight'[who'[i].key] = i
                        /\ phase' = "closed" => stage'[i] \in {"free", "done"} /\ handle'[i] # "closing"
      BY DEF JobInv
    <3>1. CASE i # j
      <4>1. stage'[i] = stage[i] /\ runner'[i] = runner[i]
        BY <2>1, <3>1 DEF IInv, TypeOK
      <4>2. stage[i] \in Ended /\ tenants[who[i].key] = i => who[i].key # k
        BY <2>3, JobIsNotNone
      <4>3. OpenInv(i)'
        BY <1>1, <2>1, <4>1, <4>2 DEF IInv, TypeOK, JobInv, OpenInv, Closed
      <4> QED  BY <1>1, <2>1, <4>1, <4>3 DEF IInv, JobInv, HandleInv
    <3>2. CASE i = j
      <4>1. stage'[i] = "deregister" /\ tenants'[k] = j
        BY <1>1, <2>1, <3>2 DEF IInv, TypeOK
      <4> QED  BY <1>1, <1>2, <2>1, <2>2, <3>2, <4>1
               DEF IInv, JobInv, HandleInv, OpenInv, Early, Building, Ended, Closed
    <3> QED  BY <3>1, <3>2
  <2>6. MapInv'
    BY <1>1, <1>2, <2>1 DEF IInv, TypeOK, MapInv, Ended
  <2>7. CallInv'
    BY <1>1, <2>1, CallsKept DEF IInv, TypeOK, Ended
  <2> QED  BY <2>4, <2>5, <2>6, <2>7 DEF IInv
<1>3. CASE ~(result[j] = "ok" /\ ~Expired(j))
  <2>1. /\ stage' = [stage EXCEPT ![j] = "cleanup"] /\ UNCHANGED <<tenants, runner>>
        /\ result' = [result EXCEPT ![j] = IF @ = "ok" THEN "timeout" ELSE @]
    BY <1>3 DEF Publish
  <2>2. TypeOK'
    BY <1>1, <2>1 DEF IInv, TypeOK, Stage, Result
  <2>3. JobInv'
    <3> SUFFICES ASSUME NEW i \in Job
                 PROVE  /\ stage'[i] # "free" => who'[i] \in Claim
                        /\ HandleInv(i)' /\ OpenInv(i)'
                        /\ closes'[i] = IF handle'[i] \in {"closing", "closed"} THEN 1 ELSE 0
                        /\ stage'[i] \notin {"free", "done"} => inflight'[who'[i].key] = i
                        /\ phase' = "closed" => stage'[i] \in {"free", "done"} /\ handle'[i] # "closing"
      BY DEF JobInv
    <3>1. CASE i # j
      <4>1. stage'[i] = stage[i] /\ result'[i] = result[i]
        BY <2>1, <3>1 DEF IInv, TypeOK
      <4> QED  BY <1>1, <2>1, <4>1 DEF IInv, JobInv, HandleInv, OpenInv, Closed
    <3>2. CASE i = j
      <4>1. stage'[i] = "cleanup" /\ result'[i] # "ok"
        BY <2>1, <3>2 DEF IInv, TypeOK
      <4> QED  BY <1>1, <2>1, <3>2, <4>1
               DEF IInv, JobInv, HandleInv, OpenInv, Early, Building, Ended
    <3> QED  BY <3>1, <3>2
  <2>4. MapInv'
    BY <1>1, <2>1 DEF IInv, TypeOK, MapInv, Ended
  <2>5. CallInv'
    BY <1>1, <2>1, CallsKept DEF IInv, TypeOK, Ended
  <2> QED  BY <2>2, <2>3, <2>4, <2>5 DEF IInv
<1> QED  BY <1>2, <1>3

LEMMA CleanupStep ==
    ASSUME IInv, NEW j \in Job, Cleanup(j)
    PROVE  IInv'
<1>1. /\ stage[j] = "cleanup" /\ result[j] # "ok" /\ handle[j] \in {"none", "open"}
      /\ stage' = [stage EXCEPT ![j] = "deregister"] /\ closes[j] = 0
      /\ UNCHANGED <<mapVars, who, late, result, runner, caller, storage>>
      /\ \/ /\ handle[j] = "open" /\ handle' = [handle EXCEPT ![j] = "closed"]
            /\ closes' = [closes EXCEPT ![j] = @ + 1]
         \/ handle[j] # "open" /\ UNCHANGED <<handle, closes>>
  BY DEF Cleanup, Advance, IInv, JobInv, HandleInv
<1>2. TypeOK'
  BY <1>1 DEF IInv, TypeOK, Stage, mapVars
<1>3. JobInv'
  BY <1>1 DEF IInv, TypeOK, JobInv, HandleInv, OpenInv, Early, Building, Ended, Closed, mapVars
<1>4. MapInv'
  BY <1>1 DEF IInv, TypeOK, MapInv, Ended, mapVars
<1>5. CallInv'
  BY <1>1, CallsKept DEF IInv, TypeOK, Ended
<1> QED  BY <1>2, <1>3, <1>4, <1>5 DEF IInv

LEMMA DeregisterStep ==
    ASSUME IInv, NEW j \in Job, Deregister(j)
    PROVE  IInv'
<1> DEFINE k == who[j].key
<1>1. /\ stage[j] = "deregister" /\ inflight[k] = j /\ k \in Key /\ phase # "closed"
      /\ stage' = [stage EXCEPT ![j] = "done"] /\ inflight' = [inflight EXCEPT ![k] = none]
      /\ UNCHANGED <<phase, tenants, who, late, result, tenantVars, caller, storage>>
  BY DEF Deregister, Advance, IInv, JobInv, Claim
<1>2. TypeOK'
  BY <1>1 DEF IInv, TypeOK, Stage, tenantVars
<1>3. JobInv'
  <2>1. \A i \in Job : i # j => stage'[i] = stage[i]
    BY <1>1 DEF IInv, TypeOK
  <2>2. stage'[j] = "done"
    BY <1>1 DEF IInv, TypeOK
  <2>3. \A i \in Job : HandleInv(i)' /\ OpenInv(i)'
    BY <1>1, <2>1, <2>2 DEF IInv, JobInv, HandleInv, OpenInv, Early, Building, Ended, Closed, tenantVars
  <2>4. \A i \in Job : stage'[i] \notin {"free", "done"} => inflight'[who'[i].key] = i
    BY <1>1, <2>1, <2>2 DEF IInv, TypeOK, JobInv, Claim
  <2> QED  BY <1>1, <2>1, <2>2, <2>3, <2>4 DEF IInv, JobInv, tenantVars
<1>4. MapInv'
  BY <1>1 DEF IInv, TypeOK, MapInv, Ended, tenantVars
<1>5. CallInv'
  BY <1>1, CallsKept DEF IInv, TypeOK, Ended
<1> QED  BY <1>2, <1>3, <1>4, <1>5 DEF IInv

LEMMA RunStep ==
    ASSUME IInv, NEW j \in Job, Run(j)
    PROVE  IInv'
<1>1. /\ runner[j] # "none" /\ UNCHANGED <<mapVars, jobVars, handle, closes, caller, storage>>
      /\ \E pc \in {"restoring", "housekeeping", "done"} : runner' = [runner EXCEPT ![j] = pc]
  BY DEF Run, Acquire, RestoreEnds, HousekeepingEnds, RunTo, RunnerFrame
<1>2. TypeOK'
  BY <1>1 DEF IInv, TypeOK, mapVars, jobVars
<1>3. stage[j] # "free"
  BY <1>1 DEF IInv, JobInv, HandleInv
<1>4. JobInv'
  BY <1>1, <1>3 DEF IInv, TypeOK, JobInv, HandleInv, OpenInv, Closed, mapVars, jobVars
<1>5. MapInv' /\ CallInv'
  BY <1>1 DEF IInv, MapInv, CallInv, Mine, mapVars, jobVars
<1> QED  BY <1>2, <1>4, <1>5 DEF IInv

LEMMA TenantClosesStep ==
    ASSUME IInv, NEW j \in Job, TenantCloses(j)
    PROVE  IInv'
<1>1. /\ handle[j] = "closing" /\ handle' = [handle EXCEPT ![j] = "closed"]
      /\ UNCHANGED <<mapVars, jobVars, closes, runner, caller, storage>>
  BY DEF TenantCloses
<1>2. TypeOK'
  BY <1>1 DEF IInv, TypeOK, mapVars, jobVars
<1>3. stage[j] \in Ended /\ result[j] = "ok"
  BY <1>1 DEF IInv, TypeOK, JobInv, HandleInv, Stage, Building, Early, Ended
<1>4. JobInv'
  BY <1>1, <1>3 DEF IInv, TypeOK, JobInv, HandleInv, OpenInv, Early, Building, Ended, Closed,
     mapVars, jobVars
<1>5. MapInv' /\ CallInv'
  BY <1>1 DEF IInv, MapInv, CallInv, Mine, mapVars, jobVars
<1> QED  BY <1>2, <1>4, <1>5 DEF IInv

LEMMA CancelStep ==
    ASSUME IInv, Cancel
    PROVE  IInv'
<1>1. TypeOK'
  BY DEF Cancel, IInv, TypeOK, jobVars, tenantVars
<1> QED  BY <1>1 DEF Cancel, IInv, JobInv, HandleInv, OpenInv, Closed, MapInv, CallInv, Mine,
         jobVars, tenantVars

LEMMA CloseStep ==
    ASSUME IInv, Close
    PROVE  IInv'
<1>1. /\ phase \notin {"closing", "closed"} /\ phase' = "closing"
      /\ UNCHANGED <<tenants, inflight, jobVars, runner, caller, storage>>
  BY DEF Close
<1>2. \A i \in Job : /\ i \in Published => handle'[i] = "closing" /\ closes'[i] = closes[i] + 1
                     /\ i \notin Published => handle'[i] = handle[i] /\ closes'[i] = closes[i]
  BY DEF Close
<1>3. \A i \in Published : /\ i \in Job /\ stage[i] \in Ended /\ result[i] = "ok"
                           /\ tenants[who[i].key] = i
  BY JobIsNotNone DEF Published, IInv, MapInv
<1>4. \A i \in Published : handle[i] = "open"
  BY <1>1, <1>3 DEF IInv, JobInv, OpenInv, Closed
<1>5. TypeOK'
  BY <1>1 DEF Close, IInv, TypeOK, jobVars
<1>6. JobInv'
  <2> SUFFICES ASSUME NEW i \in Job
               PROVE  /\ stage'[i] # "free" => who'[i] \in Claim
                      /\ HandleInv(i)' /\ OpenInv(i)'
                      /\ closes'[i] = IF handle'[i] \in {"closing", "closed"} THEN 1 ELSE 0
                      /\ stage'[i] \notin {"free", "done"} => inflight'[who'[i].key] = i
                      /\ phase' = "closed" => stage'[i] \in {"free", "done"} /\ handle'[i] # "closing"
    BY DEF JobInv
  <2>1. CASE i \in Published
    BY <1>1, <1>2, <1>3, <1>4, <2>1 DEF IInv, JobInv, HandleInv, OpenInv, Early, Building,
       Ended, Closed, jobVars
  <2>2. CASE i \notin Published
    <3>1. ~(stage[i] \in Ended /\ result[i] = "ok" /\ handle[i] # "closed")
      BY <2>2 DEF Published, IInv, JobInv, OpenInv, Claim, Ended
    <3> QED  BY <1>1, <1>2, <2>2, <3>1 DEF IInv, JobInv, HandleInv, OpenInv, Closed, jobVars
  <2> QED  BY <2>1, <2>2
<1>7. MapInv' /\ CallInv'
  BY <1>1 DEF IInv, MapInv, CallInv, Mine, jobVars
<1> QED  BY <1>5, <1>6, <1>7 DEF IInv

LEMMA CloseEndsStep ==
    ASSUME IInv, CloseEnds
    PROVE  IInv'
<1>1. /\ phase = "closing" /\ phase' = "closed" /\ tenants' = [k \in Key |-> none]
      /\ UNCHANGED <<inflight, jobVars, tenantVars, caller, storage>>
      /\ \A j \in Job : stage[j] \in {"free", "done"} /\ handle[j] # "closing"
  BY DEF CloseEnds
<1>2. TypeOK'
  BY <1>1 DEF IInv, TypeOK, jobVars, tenantVars
<1>3. \A j \in Job : stage[j] \in Ended /\ result[j] = "ok" => handle[j] = "closed"
  BY <1>1 DEF IInv, JobInv, HandleInv, OpenInv, Closed
<1>4. JobInv'
  BY <1>1, <1>3 DEF IInv, JobInv, HandleInv, OpenInv, Closed, jobVars, tenantVars
<1>5. MapInv' /\ CallInv'
  BY <1>1 DEF IInv, MapInv, CallInv, Mine, jobVars
<1> QED  BY <1>2, <1>4, <1>5 DEF IInv

\* A fresh process satisfies the invariant, whatever the disk holds.
LEMMA BootStep ==
    ASSUME IInv, Crash
    PROVE  IInv'
<1>1. NoCall \in CallType /\ NoCall.pc = "idle" /\ NoCall.got = FALSE
  BY DEF NoCall, CallType
<1>2. TypeOK'
  BY <1>1 DEF Crash, Boot, IInv, TypeOK, Stage, Result
<1>3. JobInv' /\ MapInv'
  BY DEF Crash, Boot, JobInv, MapInv, HandleInv, OpenInv, Early, Building, Ended
<1>4. CallInv'
  BY <1>1 DEF Crash, Boot, CallInv
<1> QED  BY <1>2, <1>3, <1>4 DEF IInv

LEMMA InitHolds == Init => IInv
<1> SUFFICES ASSUME Init PROVE IInv
  OBVIOUS
<1>1. NoCall \in CallType /\ NoCall.pc = "idle" /\ NoCall.got = FALSE
  BY DEF NoCall, CallType
<1>2. TypeOK
  BY <1>1 DEF Init, TypeOK, Stage, Result
<1>3. JobInv /\ MapInv
  BY DEF Init, JobInv, MapInv, HandleInv, OpenInv, Early, Building, Ended
<1>4. CallInv
  BY <1>1 DEF Init, CallInv
<1> QED  BY <1>2, <1>3, <1>4 DEF IInv

-----------------------------------------------------------------------------
(* The theorems.                                                           *)

LEMMA NextKeeps == IInv /\ [Next]_vars => IInv'
<1> SUFFICES ASSUME IInv, [Next]_vars PROVE IInv'
  OBVIOUS
<1>1. CASE \E c \in Caller : Resolve(c) \/ Leave(c) \/ WaitEnds(c)
  BY <1>1, ResolveStep, CallStep
<1>2. CASE \E j \in Job : \/ Timeout(j) \/ Build(j) \/ Publish(j) \/ Cleanup(j)
                          \/ Deregister(j) \/ Run(j) \/ TenantCloses(j)
  BY <1>2, TimeoutStep, BuildStep, PublishStep, CleanupStep, DeregisterStep, RunStep,
     TenantClosesStep
<1>3. CASE Cancel \/ Close \/ CloseEnds \/ Crash
  BY <1>3, CancelStep, CloseStep, CloseEndsStep, BootStep
<1>4. CASE UNCHANGED vars
  BY <1>4 DEF vars, mapVars, jobVars, tenantVars, IInv, TypeOK, JobInv, HandleInv, OpenInv,
     MapInv, CallInv, Mine, Closed
<1> QED  BY <1>1, <1>2, <1>3, <1>4 DEF Next

\* The inductive invariant holds in every reachable state.
THEOREM Invariance == Spec => []IInv
  BY InitHolds, NextKeeps, PTL DEF Spec

\* Every variable of the registry keeps its type, and waiting calls have a job.
THEOREM TypeCorrect == Spec => []TypeOK
<1>1. IInv => TypeOK
  BY DEF IInv
<1> QED  BY <1>1, Invariance, PTL

\* A principal's directory is in the hands of one initialization or tenant at a time.
THEOREM DirectoriesHaveOneOwner == Spec => []OneOwner
<1>1. IInv => OneOwner
  <2> SUFFICES ASSUME IInv, NEW i \in Job, NEW j \in Job, InUse(i), InUse(j),
                      who[i].key = who[j].key
               PROVE  i = j
    BY DEF OneOwner
  <2> DEFINE k == who[i].key
  <2>1. \A l \in {i, j} : /\ k \in Key
                          /\ stage[l] \notin {"free", "done"} => inflight[k] = l
                          /\ stage[l] \in Ended => tenants[k] = l
    BY DEF IInv, JobInv, HandleInv, OpenInv, InUse, Claim, Ended
  <2>2. \A l \in {i, j} : stage[l] \in Ended \/ stage[l] \notin {"free", "done"}
    BY DEF IInv, JobInv, HandleInv, InUse, Ended
  <2> QED  BY <2>1, <2>2, JobIsNotNone DEF IInv, MapInv, Ended
<1> QED  BY <1>1, Invariance, PTL

\* A call gets the tenant of its own principal and authorization, and that tenant
\* is open until the registry is closed.
THEOREM CallsGetTheirs == Spec => []GrantsMatch
<1>1. IInv => GrantsMatch
  BY DEF IInv, CallInv, Mine, JobInv, OpenInv, GrantsMatch
<1> QED  BY <1>1, Invariance, PTL

\* Every tenant is closed once, and nothing is left open when Close returns.
THEOREM TenantsAreClosedOnce == Spec => []ClosedOnce
<1>1. IInv => ClosedOnce
  BY DEF IInv, TypeOK, JobInv, HandleInv, OpenInv, Closed, ClosedOnce, Ended
<1> QED  BY <1>1, Invariance, PTL

-----------------------------------------------------------------------------
(* The limits.  They are kept for the entries of the maps; what is in use  *)
(* has an entry.                                                           *)

Slots == Live(tenants) \cup Live(inflight)

LimitInv ==
    /\ IsFiniteSet(Live(tenants)) /\ IsFiniteSet(Live(inflight))
    /\ Cardinality(Live(inflight)) <= InitLimit
    /\ Cardinality(Slots) <= MaxTenants
    /\ Cardinality(Restoring) <= MaxRestores

LEMMA LimitsAreNat ==
    /\ InitLimit \in Nat /\ MaxTenants \in Nat /\ MaxRestores \in Nat /\ MaxJobs \in Nat
    /\ IsFiniteSet(Job)
  BY RegistryAssumption, FS_Interval DEF Job

LEMMA Counted ==
    ASSUME NEW S, NEW T, IsFiniteSet(T), NEW f \in [S -> T],
           \A x, y \in S : f[x] = f[y] => x = y
    PROVE  IsFiniteSet(S) /\ Cardinality(S) <= Cardinality(T)
  BY FS_Injection DEF Injection, IsInjective

\* A step that gives slots back, or moves a principal from one map to the other.
LEMMA SlotsShrink ==
    ASSUME IInv, LimitInv,
           Live(inflight)' \subseteq Live(inflight), Slots' \subseteq Slots,
           Restoring' \subseteq Restoring
    PROVE  LimitInv'
<1>1. IsFiniteSet(Slots)
  BY FS_Union DEF LimitInv, Slots
<1>2. Live(tenants)' \subseteq Slots
  BY DEF Slots
<1>3. IsFiniteSet(Restoring)
  BY LimitsAreNat, FS_Subset DEF Restoring
<1>4. /\ IsFiniteSet(Live(inflight)') /\ IsFiniteSet(Live(tenants)')
      /\ Cardinality(Live(inflight)') <= Cardinality(Live(inflight))
      /\ Cardinality(Slots') <= Cardinality(Slots)
      /\ Cardinality(Restoring') <= Cardinality(Restoring)
  BY <1>1, <1>2, <1>3, FS_Subset DEF LimitInv
<1>5. /\ Cardinality(Live(inflight)') \in Nat /\ Cardinality(Live(inflight)) \in Nat
      /\ Cardinality(Slots') \in Nat /\ Cardinality(Slots) \in Nat
      /\ Cardinality(Restoring') \in Nat /\ Cardinality(Restoring) \in Nat
  <2>1. IsFiniteSet(Slots') /\ IsFiniteSet(Restoring')
    BY <1>1, <1>3, FS_Subset
  <2> QED  BY <1>1, <1>3, <1>4, <2>1, FS_CardinalityType DEF LimitInv
<1> QED  BY <1>4, <1>5, LimitsAreNat DEF LimitInv

LEMMA StartCounts ==
    ASSUME IInv, LimitInv, NEW c \in Caller, NEW k \in Key, NEW g \in Grant,
           Start(c, k, g), UNCHANGED <<tenants, runner>>
    PROVE  LimitInv'
<1>1. PICK j \in Job : inflight' = [inflight EXCEPT ![k] = j]
  BY DEF Start
<1>2. Live(inflight)' = Live(inflight) \cup {k} /\ k \notin Live(inflight)
  BY <1>1, JobIsNotNone DEF Start, Live, IInv, TypeOK
<1>3. Slots' = Slots \cup {k} /\ Live(tenants)' = Live(tenants) /\ Restoring' = Restoring
  BY <1>2 DEF Slots, Live, Restoring
<1>4. /\ IsFiniteSet(Live(inflight)') /\ IsFiniteSet(Slots)
      /\ Cardinality(Live(inflight)') = Cardinality(Live(inflight)) + 1
      /\ Cardinality(Slots) = Cardinality(Live(tenants)) + Cardinality(Live(inflight))
                               - Cardinality(Live(tenants) \cap Live(inflight))
  BY <1>2, FS_AddElement, FS_Union DEF LimitInv, Slots
<1>5. Cardinality(Slots') <= Cardinality(Slots) + 1
  BY SMTT(60), <1>3, <1>4, FS_AddElement, FS_CardinalityType
<1>6. /\ Cardinality(Live(tenants)) \in Nat /\ Cardinality(Live(inflight)) \in Nat
      /\ Cardinality(Live(tenants) \cap Live(inflight)) \in Nat
      /\ Cardinality(Slots) \in Nat /\ Cardinality(Slots') \in Nat
  <2>1. IsFiniteSet(Live(tenants) \cap Live(inflight)) /\ IsFiniteSet(Slots')
    BY <1>3, <1>4, FS_Subset, FS_AddElement DEF LimitInv
  <2> QED  BY <1>4, <2>1, FS_CardinalityType DEF LimitInv
<1>7. /\ Cardinality(Live(tenants)) + Cardinality(Live(inflight)) < MaxTenants
      /\ Cardinality(Live(inflight)) < InitLimit
  BY <1>6, LimitsAreNat DEF Start, NoSlot
<1> QED  BY <1>3, <1>4, <1>5, <1>6, <1>7, LimitsAreNat DEF LimitInv

LEMMA AcquireCounts ==
    ASSUME IInv, LimitInv, NEW j \in Job, Acquire(j)
    PROVE  LimitInv'
<1>1. Live(tenants)' = Live(tenants) /\ Live(inflight)' = Live(inflight) /\ Slots' = Slots
  BY DEF Acquire, RunnerFrame, mapVars, Live, Slots
<1>2. CASE Stopped /\ RunTo(j, "done")
  <2>1. Restoring' \subseteq Restoring
    BY <1>2 DEF RunTo, Restoring, IInv, TypeOK
  <2> QED  BY <1>1, <2>1, SlotsShrink
<1>3. CASE Cardinality(Restoring) < MaxRestores /\ RunTo(j, "restoring")
  <2>1. Restoring' = Restoring \cup {j}
    BY <1>3 DEF RunTo, Restoring, IInv, TypeOK
  <2>2. IsFiniteSet(Restoring)
    BY LimitsAreNat, FS_Subset DEF Restoring
  <2>3. Cardinality(Restoring) \in Nat
    BY <2>2, FS_CardinalityType
  <2>4. Cardinality(Restoring \cup {j}) \in {Cardinality(Restoring), Cardinality(Restoring) + 1}
    BY <2>2, FS_AddElement
  <2> QED  BY <1>1, <1>3, <2>1, <2>3, <2>4, LimitsAreNat DEF LimitInv
<1> QED  BY <1>2, <1>3 DEF Acquire

LEMMA NextCounts == IInv /\ LimitInv /\ [Next]_vars => LimitInv'
<1> SUFFICES ASSUME IInv, LimitInv, [Next]_vars PROVE LimitInv'
  OBVIOUS
<1> DEFINE Smaller == /\ Live(inflight)' \subseteq Live(inflight) /\ Slots' \subseteq Slots
                      /\ Restoring' \subseteq Restoring
<1>1. ASSUME UNCHANGED <<tenants, inflight, runner>> PROVE Smaller
  BY <1>1 DEF Live, Slots, Restoring
<1>2. ASSUME NEW c \in Caller, Resolve(c) PROVE LimitInv'
  <2>1. CASE UNCHANGED <<tenants, inflight, runner>>
    BY <1>1, <2>1, SlotsShrink
  <2>2. CASE \E k \in Key, g \in Grant : Start(c, k, g) /\ UNCHANGED <<tenants, runner>>
    BY <2>2, StartCounts
  <2> QED  BY <1>2, <2>1, <2>2 DEF Resolve, Join, tenantVars
<1>3. ASSUME NEW c \in Caller, Leave(c) \/ WaitEnds(c) PROVE Smaller
  BY <1>1, <1>3 DEF Leave, WaitEnds, mapVars, tenantVars
<1>4. ASSUME NEW j \in Job, Timeout(j) \/ Build(j) \/ Cleanup(j) \/ TenantCloses(j) PROVE Smaller
  BY <1>1, <1>4 DEF Timeout, Build, Provider, OpenRoot, Mark, NewManager, BuildFrame, JobFrame,
     Cleanup, TenantCloses, mapVars
<1>5. ASSUME NEW j \in Job, Publish(j) PROVE Smaller
  <2>1. who[j].key \in Key /\ inflight[who[j].key] = j /\ j # none
    BY <1>5, JobIsNotNone DEF Publish, IInv, JobInv, Claim
  <2>2. UNCHANGED tenants \/ tenants' = [tenants EXCEPT ![who[j].key] = j]
    BY <1>5 DEF Publish
  <2>3. Live(tenants)' \subseteq Live(tenants) \cup {who[j].key} /\ who[j].key \in Live(inflight)
    BY <2>1, <2>2 DEF Live, IInv, TypeOK
  <2>4. Restoring' \subseteq Restoring
    BY <1>5 DEF Publish, Restoring, IInv, TypeOK
  <2>5. Live(inflight)' = Live(inflight)
    BY <1>5 DEF Publish, Live
  <2> QED  BY <2>3, <2>4, <2>5 DEF Slots
<1>6. ASSUME NEW j \in Job, Deregister(j) PROVE Smaller
  <2>1. Live(inflight)' \subseteq Live(inflight) /\ Live(tenants)' = Live(tenants)
    BY <1>6 DEF Deregister, Live, IInv, TypeOK
  <2> QED  BY <1>6, <2>1 DEF Deregister, Slots, Restoring, tenantVars
<1>7. ASSUME NEW j \in Job, RestoreEnds(j) \/ HousekeepingEnds(j) PROVE Smaller
  <2>1. Restoring' \subseteq Restoring
    BY <1>7 DEF RestoreEnds, HousekeepingEnds, RunTo, Restoring, IInv, TypeOK
  <2> QED  BY <1>7, <2>1 DEF RestoreEnds, HousekeepingEnds, RunnerFrame, mapVars, Live, Slots
<1>8. ASSUME Cancel \/ Close PROVE Smaller
  BY <1>1, <1>8 DEF Cancel, Close, tenantVars
<1>9. ASSUME CloseEnds \/ Crash PROVE Smaller
  BY <1>9 DEF CloseEnds, Crash, Boot, Live, Slots, Restoring, tenantVars
<1>10. ASSUME UNCHANGED vars PROVE Smaller
  BY <1>1, <1>10 DEF vars, mapVars, tenantVars
<1> QED
  BY <1>2, <1>3, <1>4, <1>5, <1>6, <1>7, <1>8, <1>9, <1>10, SlotsShrink, AcquireCounts
  DEF Next, Run

LEMMA InitCounts == Init => LimitInv
<1> SUFFICES ASSUME Init PROVE LimitInv
  OBVIOUS
<1>1. Live(tenants) = {} /\ Live(inflight) = {} /\ Slots = {} /\ Restoring = {}
  BY DEF Init, Live, Slots, Restoring
<1> QED  BY <1>1, FS_EmptySet, LimitsAreNat DEF LimitInv

\* The number of open tenants, builds and restorations never exceeds its limit,
\* whatever times out, fails or is abandoned.
THEOREM LimitsAreKept == Spec => []WithinLimits
<1>1. IInv /\ LimitInv => WithinLimits
  <2> SUFFICES ASSUME IInv, LimitInv PROVE WithinLimits
    OBVIOUS
  <2> DEFINE Used  == {j \in Job : InUse(j)}
             Built == {j \in Job : stage[j] \in Building \cup {"built", "cleanup"}}
  <2>1. IsFiniteSet(Slots)
    BY FS_Union DEF LimitInv, Slots
  <2>2. IsFiniteSet(Used) /\ Cardinality(Used) <= Cardinality(Slots)
    <3>1. \A j \in Used : /\ who[j].key \in Key
                          /\ inflight[who[j].key] = j \/ tenants[who[j].key] = j
      BY DEF IInv, JobInv, HandleInv, OpenInv, InUse, Claim, Ended
    <3>2. [j \in Used |-> who[j].key] \in [Used -> Slots]
      BY <3>1, JobIsNotNone DEF Slots, Live
    <3>3. \A i, j \in Used : who[i].key = who[j].key => i = j
      BY <3>1, JobIsNotNone DEF IInv, MapInv
    <3> HIDE DEF Used
    <3> QED  BY <2>1, <3>2, <3>3, Counted
  <2>3. IsFiniteSet(Built) /\ Cardinality(Built) <= Cardinality(Live(inflight))
    <3> DEFINE Taken == Live(inflight)
               f     == [j \in Built |-> who[j].key]
    <3>1. \A j \in Built : who[j].key \in Key /\ inflight[who[j].key] = j
      BY DEF IInv, JobInv, Claim, Building
    <3>2. f \in [Built -> Taken]
      BY <3>1, JobIsNotNone DEF Live
    <3>3. \A i, j \in Built : f[i] = f[j] => i = j
      BY <3>1
    <3>4. IsFiniteSet(Taken)
      BY DEF LimitInv
    <3>5. IsFiniteSet(Built) /\ Cardinality(Built) <= Cardinality(Taken)
      <4> HIDE DEF Built, Taken, f
      <4> QED  BY <3>2, <3>3, <3>4, Counted
    <3> QED  BY <3>5
  <2>4. /\ Cardinality(Used) \in Nat /\ Cardinality(Built) \in Nat
        /\ Cardinality(Slots) \in Nat /\ Cardinality(Live(inflight)) \in Nat
    BY <2>1, <2>2, <2>3, FS_CardinalityType DEF LimitInv
  <2> QED  BY <2>2, <2>3, <2>4, LimitsAreNat DEF LimitInv, WithinLimits
<1> QED  BY <1>1, Invariance, InitCounts, NextCounts, PTL DEF Spec

\* Both together: an abandoned build keeps its directory and its slot.
THEOREM AbandonedBuildsCount == Spec => []AbandonedCounts
BY DirectoriesHaveOneOwner, LimitsAreKept, PTL DEF AbandonedCounts
=============================================================================
