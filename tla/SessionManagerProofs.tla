------------------------ MODULE SessionManagerProofs ------------------------
(***************************************************************************)
(* What SessionManager guarantees for any number of calls, lock objects,   *)
(* watchers, messages and operations: the session's lock excludes, one     *)
(* watcher runs, the storage root is closed last, and housekeeping ends or *)
(* removes nothing that has come back to life.                             *)
(*                                                                         *)
(* The argument: whoever has pinned a lock object has pinned the one in    *)
(* the map, because its count is exact and the last one deletes it; hence  *)
(* between the lock and its release an operation is alone, and what it     *)
(* has found of the watchers and the map stays so until it acts on it.     *)
(***************************************************************************)
EXTENDS SessionManager, FiniteSetTheorems, TLAPS

\* The places between the lock of the session and its release.
Holding == {"locked", "opmu", "join", "revive", "wire", "release", "creating", "stopping", "ending", "removing"}

Users(o) == {a \in Actor : act[a].obj = o}
Busy     == {a \in Actor : act[a].pc # "idle"}
Live     == {w \in Watcher : run[w] = "live"}

\* The lock: who has pinned an object has pinned the one in the map, its count is
\* exact, and it is held by whoever is between lock and release.
LockInv ==
    /\ \A a \in Actor : act[a].obj \in {none, slot}
    /\ \A a \in Actor : act[a].pc \in Holding => act[a].obj # none /\ holder[act[a].obj] = a
    /\ \A a \in Actor : act[a].pc \notin Holding \cup {"queue"} => act[a].obj = none
    /\ \A o \in Object : holder[o] # none => act[holder[o]].pc \in Holding /\ act[holder[o]].obj = o
    /\ \A o \in Object : refs[o] = Cardinality(Users(o))

\* Work is what the operations and the watchers are.
WorkInv ==
    /\ work = Cardinality(Busy) + Cardinality(Live)
    /\ rootOpen \/ (closed /\ work = 0)

\* A watcher that runs is in the map, or is being stopped; one that was never made
\* has not begun to run.
WatcherInv ==
    /\ \A w \in Watcher : w > made => run[w] = "new"
    /\ entry # 0 => run[entry] # "new"
    /\ \A w \in Live : entry = w \/ \E a \in Actor : act[a].pc = "stopping" /\ act[a].w = w
    /\ \A w \in Watcher : opmu[w] = "run" => run[w] = "live"
    /\ \A w \in Watcher : st[w].status # "absent"
    /\ disk.status = "absent" => disk = NoSnapshot /\ made = 0

\* What an operation has found stays so while it is alone.
Places(a) ==
    LET pc == act[a].pc
        w  == act[a].w
    IN  /\ pc = "idle" => act[a] = Idle
        /\ pc \in {"opmu", "join", "removing"} => entry = w
        /\ pc \in {"opmu", "join", "removing", "wire", "release", "stopping", "ending"} => w # 0
        /\ pc \in {"wire", "release"} => entry = IF run[w] = "new" THEN 0 ELSE w
        /\ pc = "revive" => entry = 0
        /\ pc = "stopping" => entry = 0 /\ cancelled[w]
        /\ pc = "creating" => made = 0 /\ ~disk.awaiting /\ disk.status # "absent"
        /\ pc \in {"wire", "release"} => w <= made
        /\ pc = "wire" => opmu[w] = a /\ disk = st[w]
        /\ pc = "removing" => cancelled[w] /\ st[w].status \in {"completed", "error"}

\* A watcher that housekeeping looks at and that has left the map does not return to it.
ReconcileInv ==
    act[hk].kind = "reconcile" =>
        /\ act[hk].w # 0 /\ run[act[hk].w] # "new"
        /\ clean /\ sentSince => entry # act[hk].w

\* A follow-up that was taken and not begun is known to whatever the record is next
\* read from.
Follows(s) == s.awaiting /\ s.turn = turns

InHand(w) == run[w] = "live" \/ entry = w \/ \E a \in Actor : act[a].pc \in {"wire", "release"} /\ act[a].w = w

FollowInv == followUp => Follows(disk) /\ \A w \in Watcher : InHand(w) => Follows(st[w])

IInv ==
    /\ TypeOK /\ LockInv /\ WorkInv /\ WatcherInv
    /\ \A a \in Actor : Places(a)
    /\ ReconcileInv /\ FollowInv

-----------------------------------------------------------------------------
(* The type.                                                               *)

ActType == [kind : Kinds \cup {"none", "restore", "reconcile", "remove"}, pc : PC,
            obj : Object \cup {none}, w : Watcher \cup {0}]

LEMMA RecordTypes ==
    ASSUME NEW s \in Record
    PROVE  /\ Restored(s) \in Record /\ Sending(s) \in Record /\ [s EXCEPT !.sending = FALSE] \in Record
           /\ \A x \in Status : [s EXCEPT !.status = x] \in Record
           /\ \A x \in Status : [s EXCEPT !.status = x, !.sending = FALSE] \in Record
<1>1. "doubt" \in Status
  BY DEF Status, Waiting
<1>2. Restored(s) \in Record
  BY <1>1 DEF Record, Restored
<1>3. (IF s.status = "waiting" THEN s.awaiting ELSE s.status \in Terminal \cup {"report"}) \in BOOLEAN
  <2>1. s.awaiting \in BOOLEAN
    BY DEF Record
  <2>2. (s.status \in Terminal \cup {"report"}) \in BOOLEAN
    OBVIOUS
  <2>. QED
    BY <2>1, <2>2
<1>4. Sending(s) \in Record
  BY <1>3 DEF Record, Sending
<1>5. [s EXCEPT !.sending = FALSE] \in Record
  BY DEF Record
<1>6. \A x \in Status : [s EXCEPT !.status = x] \in Record
  BY DEF Record
<1>7. \A x \in Status : [s EXCEPT !.status = x, !.sending = FALSE] \in Record
  BY DEF Record
<1>. QED
  BY <1>2, <1>4, <1>5, <1>6, <1>7

LEMMA NewRecordTypes ==
    /\ NewRecord \in Record /\ NoSnapshot \in Record
    /\ \A x \in Status : [NewRecord EXCEPT !.status = x] \in Record
    /\ \A n \in Nat : [NewRecord EXCEPT !.turn = n] \in Record
    /\ [NewRecord EXCEPT !.sending = TRUE] \in Record
BY DEF Record, NewRecord, NoSnapshot, Status, Terminal, Waiting

LEMMA MergedTypes ==
    ASSUME disk \in Record, NEW info
    PROVE  Merged(info) \in Record
<1>1. StatusOf(info) \in Status
  BY DEF StatusOf, Status, Terminal, Waiting
<1>. QED
  BY <1>1, RecordTypes, NewRecordTypes DEF Merged

LEMMA InitType == Init => TypeOK
<1>. SUFFICES ASSUME Init PROVE TypeOK
  OBVIOUS
<1>1. "completed" \in Status
  BY DEF Status, Terminal
<1>2. disk \in Record
  BY <1>1, NewRecordTypes DEF Init
<1>3. st \in [Watcher -> Record]
  BY NewRecordTypes DEF Init
<1>4. Idle \in ActType /\ [Idle EXCEPT !.kind = "restore", !.pc = "queue"] \in ActType
  BY DEF Idle, ActType, PC
<1>5. act \in [Actor -> ActType]
  BY <1>4 DEF Init
<1>6. woken \in [Caller -> BOOLEAN] /\ exited \in [Watcher -> BOOLEAN] /\ cancelled \in [Watcher -> BOOLEAN]
  BY DEF Init
<1>7. made \in 0..MaxWatchers
  BY ManagerAssumption DEF Init
<1>8. /\ refs \in [Object -> Nat] /\ holder \in [Object -> Actor \cup {none}]
      /\ run \in [Watcher -> {"new", "live", "done"}] /\ opmu \in [Watcher -> Actor \cup {none, "run"}]
  BY DEF Init
<1>9. /\ closed \in BOOLEAN /\ rootOpen \in BOOLEAN /\ work \in Nat /\ slot \in Object \cup {none}
      /\ entry \in Watcher \cup {0} /\ remote \in {"working", "asked", "ended", "offered"}
      /\ turns \in Nat /\ inbox \in Nat
      /\ clean \in BOOLEAN /\ sentSince \in BOOLEAN /\ followUp \in BOOLEAN /\ ops \in Nat
  BY DEF Init
<1>. QED
  BY <1>2, <1>3, <1>5, <1>6, <1>7, <1>8, <1>9 DEF TypeOK, ActType

-----------------------------------------------------------------------------
(* The lock.                                                               *)

LEMMA Finite == IsFiniteSet(Actor) /\ IsFiniteSet(Watcher) /\ none \notin Actor
<1>1. IsFiniteSet({boot}) /\ IsFiniteSet({hk})
  BY FS_Singleton
<1>2. IsFiniteSet({boot, hk})
  BY <1>1, FS_AddElement
<1>3. IsFiniteSet(Actor)
  BY <1>2, FS_Union, ManagerAssumption DEF Actor
<1>4. IsFiniteSet(Watcher)
  BY FS_Interval, ManagerAssumption DEF Watcher
<1>. QED
  BY <1>3, <1>4, ManagerAssumption DEF Actor

LEMMA Counting ==
    ASSUME NEW T, IsFiniteSet(T), NEW S \in SUBSET T, NEW x
    PROVE  /\ Cardinality(S) \in Nat
           /\ Cardinality(S \cup {x}) = IF x \in S THEN Cardinality(S) ELSE Cardinality(S) + 1
           /\ Cardinality(S \ {x}) = IF x \in S THEN Cardinality(S) - 1 ELSE Cardinality(S)
           /\ Cardinality(S) = 0 => S = {}
<1>1. IsFiniteSet(S)
  BY FS_Subset
<1>. QED
  BY <1>1, FS_CardinalityType, FS_AddElement, FS_RemoveElement, FS_EmptySet

LEMMA UsersCount ==
    ASSUME NEW o, NEW a
    PROVE  /\ Cardinality(Users(o)) \in Nat
           /\ Cardinality(Users(o) \cup {a}) = IF a \in Users(o) THEN Cardinality(Users(o))
                                                                 ELSE Cardinality(Users(o)) + 1
           /\ Cardinality(Users(o) \ {a}) = IF a \in Users(o) THEN Cardinality(Users(o)) - 1
                                                              ELSE Cardinality(Users(o))
           /\ Cardinality(Users(o) \ {a}) = 0 => Users(o) \ {a} = {}
<1>1. Users(o) \in SUBSET Actor /\ Users(o) \ {a} \in SUBSET Actor
  BY DEF Users
<1>. QED
  BY <1>1, Finite, Counting

\* Whoever is between lock and release is there alone.
LEMMA Alone ==
    ASSUME TypeOK, LockInv, NEW a \in Actor, NEW b \in Actor, act[a].pc \in Holding, a # b
    PROVE  act[b].pc \notin Holding
BY DEF LockInv

\* A step in which nobody pins, takes or releases anything.
Quiet ==
    /\ UNCHANGED lockVars
    /\ \A a \in Actor : /\ act'[a].obj = act[a].obj
                        /\ act'[a].pc \in Holding <=> act[a].pc \in Holding
                        /\ act'[a].pc \notin Holding \cup {"queue"} => act'[a].obj = none

LEMMA QuietLock == ASSUME TypeOK, LockInv, Quiet PROVE LockInv'
<1>1. \A o : Users(o)' = Users(o)
  BY DEF Users, Quiet
<1>2. slot' = slot /\ refs' = refs /\ holder' = holder
  BY DEF Quiet, lockVars
<1>3. \A o \in Object : refs'[o] = Cardinality(Users(o)')
  BY <1>1, <1>2 DEF LockInv
<1>4. \A o \in Object : holder[o] # none => holder[o] \in Actor
  BY DEF TypeOK
<1>. QED
  BY <1>2, <1>3, <1>4 DEF LockInv, Quiet

LEMMA PinLock == ASSUME TypeOK, LockInv, NEW a \in Actor, Pin(a) PROVE LockInv'
<1>1. PICK o \in Object : /\ IF slot # none THEN o = slot ELSE refs[o] = 0
                          /\ slot' = o
                          /\ refs' = [refs EXCEPT ![o] = @ + 1]
                          /\ act' = [act EXCEPT ![a].obj = o]
  BY DEF Pin
<1>2. holder' = holder /\ act[a].pc = "queue" /\ act[a].obj = none
  BY DEF Pin
<1>3. act'[a].pc = "queue" /\ act'[a].obj = o /\ \A b \in Actor \ {a} : act'[b] = act[b]
  BY <1>1, <1>2 DEF TypeOK
<1>4. none \notin Object
  BY ManagerAssumption
<1>5. \A p \in Object : refs'[p] = Cardinality(Users(p)')
  <2>. TAKE p \in Object
  <2>1. CASE p = o
    <3>1. Users(o)' = Users(o) \cup {a} /\ a \notin Users(o)
      BY <1>2, <1>3, <1>4 DEF Users
    <3>2. refs'[o] = refs[o] + 1 /\ refs[o] = Cardinality(Users(o))
      BY <1>1 DEF LockInv, TypeOK
    <3>. QED
      BY <2>1, <3>1, <3>2, UsersCount
  <2>2. CASE p # o
    <3>1. Users(p)' = Users(p)
      BY <1>2, <1>3, <1>4, <2>2 DEF Users
    <3>. QED
      BY <2>2, <3>1, <1>1 DEF LockInv, TypeOK
  <2>. QED
    BY <2>1, <2>2
<1>6. "queue" \notin Holding
  BY DEF Holding
<1>7. \A p \in Object : holder[p] # none => holder[p] \in Actor
  BY DEF TypeOK
<1>8. \A b \in Actor : act'[b].obj \in {none, slot'}
  BY <1>1, <1>3 DEF LockInv
<1>. QED
  BY <1>2, <1>3, <1>5, <1>6, <1>7, <1>8 DEF LockInv

LEMMA AcquireLock == ASSUME TypeOK, LockInv, NEW a \in Actor, Acquire(a) PROVE LockInv'
<1>. DEFINE o == act[a].obj
<1>1. /\ act[a].pc = "queue" /\ o # none /\ holder[o] = none
      /\ holder' = [holder EXCEPT ![o] = a]
      /\ act' = [act EXCEPT ![a].pc = "locked"] /\ slot' = slot /\ refs' = refs
  BY DEF Acquire, Goto
<1>2. o \in Object /\ none \notin Actor
  BY <1>1, Finite DEF TypeOK
<1>3. act'[a].pc = "locked" /\ act'[a].obj = o /\ \A b \in Actor \ {a} : act'[b] = act[b]
  BY <1>1 DEF TypeOK
<1>4. holder'[o] = a /\ \A p \in Object \ {o} : holder'[p] = holder[p]
  BY <1>1, <1>2 DEF TypeOK
<1>5. "queue" \notin Holding /\ "locked" \in Holding
  BY DEF Holding
<1>6. \A p : Users(p)' = Users(p)
  BY <1>3 DEF Users
<1>7. \A p \in Object : holder[p] # none => holder[p] \in Actor \ {a}
  BY <1>1, <1>5 DEF LockInv, TypeOK
<1>8. \A b \in Actor : act[b].obj \in Object \cup {none}
  BY DEF TypeOK
<1>. HIDE DEF o
<1>9. \A b \in Actor \ {a} : act[b].pc \in Holding => act[b].obj # o
  BY <1>1, <1>2 DEF LockInv
<1>10. \A b \in Actor : act'[b].pc \in Holding => act'[b].obj # none /\ holder'[act'[b].obj] = b
  BY <1>1, <1>2, <1>3, <1>4, <1>8, <1>9 DEF LockInv
<1>11. \A p \in Object : holder'[p] # none => act'[holder'[p]].pc \in Holding /\ act'[holder'[p]].obj = p
  BY <1>3, <1>4, <1>5, <1>7 DEF LockInv
<1>12. \A b \in Actor : act'[b].obj \in {none, slot'}
  BY <1>1, <1>3 DEF LockInv, o
<1>13. \A b \in Actor : act'[b].pc \notin Holding \cup {"queue"} => act'[b].obj = none
  BY <1>3, <1>5 DEF LockInv
<1>. QED
  BY <1>1, <1>6, <1>10, <1>11, <1>12, <1>13 DEF LockInv

LEMMA ReleaseLock ==
    ASSUME TypeOK, LockInv, NEW a \in Actor, act[a].pc # "queue", Release(a), act' = [act EXCEPT ![a] = Idle]
    PROVE  LockInv'
<1>. DEFINE o == act[a].obj
<1>1. act'[a] = Idle /\ \A b \in Actor \ {a} : act'[b] = act[b]
  BY DEF TypeOK
<1>2. Idle.obj = none /\ Idle.pc \notin Holding
  BY DEF Idle, Holding
<1>3. none \notin Object /\ none \notin Actor /\ \A b \in Actor : act[b].obj \in Object \cup {none}
  BY Finite, ManagerAssumption DEF TypeOK
<1>4. CASE o = none
  <2>1. slot' = slot /\ refs' = refs /\ holder' = holder /\ act[a].pc \notin Holding
    BY <1>4 DEF Release, lockVars, LockInv
  <2>2. \A p \in Object : Users(p)' = Users(p)
    BY <1>1, <1>2, <1>3, <1>4 DEF Users
  <2>3. \A p \in Object : holder[p] # none => holder[p] \in Actor \ {a}
    BY <2>1 DEF LockInv, TypeOK
  <2>. QED
    BY <1>1, <1>2, <2>1, <2>2, <2>3 DEF LockInv
<1>5. CASE o # none
  <2>1. /\ act[a].pc \in Holding /\ holder[o] = a /\ o = slot /\ o \in Object
    BY <1>3, <1>5 DEF LockInv
  <2>2. /\ holder' = [holder EXCEPT ![o] = none] /\ refs' = [refs EXCEPT ![o] = @ - 1]
        /\ slot' = IF refs[o] = 1 THEN none ELSE slot
    BY <1>5 DEF Release
  <2>. HIDE DEF o
  <2>3. \A p \in Object : refs'[p] = Cardinality(Users(p)')
    <3>. TAKE p \in Object
    <3>1. CASE p = o
      <4>1. a \in Users(p) /\ Users(p)' = Users(p) \ {a}
        BY <1>1, <1>2, <1>3, <2>1, <3>1 DEF Users, o
      <4>2. refs'[p] = refs[p] - 1 /\ refs[p] = Cardinality(Users(p))
        BY <2>1, <2>2, <3>1 DEF LockInv, TypeOK
      <4>. QED
        BY <4>1, <4>2, UsersCount
    <3>2. CASE p # o
      <4>1. Users(p)' = Users(p)
        BY <1>1, <1>2, <1>3, <3>2 DEF Users, o
      <4>. QED
        BY <3>2, <4>1, <2>2 DEF LockInv, TypeOK
    <3>. QED
      BY <3>1, <3>2
  <2>4. \A b \in Actor \ {a} : act[b].pc \notin Holding
    BY <2>1, Alone
  <2>5. \A b \in Actor : act'[b].obj \in {none, slot'}
    <3>1. CASE refs[o] = 1
      <4>1. Cardinality(Users(o)) = 1 /\ a \in Users(o)
        BY <2>1, <3>1 DEF LockInv, Users, o
      <4>2. Cardinality(Users(o) \ {a}) = 0
        BY <4>1, UsersCount
      <4>3. Users(o) \ {a} = {}
        BY <4>2, UsersCount
      <4>. QED
        BY <1>1, <1>2, <2>1, <2>2, <3>1, <4>3 DEF LockInv, Users
    <3>2. CASE refs[o] # 1
      BY <1>1, <1>2, <2>2, <3>2 DEF LockInv
    <3>. QED
      BY <3>1, <3>2
  <2>6. \A p \in Object : holder'[p] = none
    BY <2>1, <2>2, <2>4 DEF LockInv, TypeOK
  <2>. QED
    BY <1>1, <1>2, <2>3, <2>4, <2>5, <2>6 DEF LockInv
<1>. QED
  BY <1>4, <1>5

-----------------------------------------------------------------------------
(* The count of work.                                                      *)

LEMMA WorkTypes ==
    /\ Cardinality(Busy) \in Nat /\ Cardinality(Live) \in Nat
    /\ Cardinality(Busy) = 0 => Busy = {}
    /\ Cardinality(Live) = 0 => Live = {}
<1>1. Busy \in SUBSET Actor /\ Live \in SUBSET Watcher
  BY DEF Busy, Live
<1>. QED
  BY <1>1, Finite, Counting

LEMMA WorkCount ==
    ASSUME NEW a, NEW w
    PROVE  /\ a \notin Busy => Cardinality(Busy \cup {a}) = Cardinality(Busy) + 1
           /\ a \in Busy => Cardinality(Busy \ {a}) = Cardinality(Busy) - 1
           /\ w \notin Live => Cardinality(Live \cup {w}) = Cardinality(Live) + 1
           /\ w \in Live => Cardinality(Live \ {w}) = Cardinality(Live) - 1
<1>1. Busy \in SUBSET Actor /\ Live \in SUBSET Watcher
  BY DEF Busy, Live
<1>. QED
  BY <1>1, Finite, Counting

\* Without work nothing is under way; while something is, the root is open.
LEMMA NoWork ==
    ASSUME WorkInv
    PROVE  /\ work \in Nat
           /\ work = 0 => Busy = {} /\ Live = {}
           /\ \A a \in Actor : act[a].pc # "idle" => work > 0 /\ rootOpen
           /\ \A w \in Watcher : run[w] = "live" => work > 0 /\ rootOpen
<1>1. work \in Nat
  BY WorkTypes DEF WorkInv
<1>2. work = 0 => Cardinality(Busy) = 0 /\ Cardinality(Live) = 0
  BY WorkTypes DEF WorkInv
<1>3. work = 0 => Busy = {} /\ Live = {}
  BY <1>2, WorkTypes
<1>4. \A a \in Actor : act[a].pc # "idle" => work # 0
  BY <1>3 DEF Busy
<1>5. \A w \in Watcher : run[w] = "live" => work # 0
  BY <1>3 DEF Live
<1>. QED
  BY <1>1, <1>3, <1>4, <1>5 DEF WorkInv

LEMMA QuietWork ==
    ASSUME WorkInv, work' = work, rootOpen' = rootOpen, closed => closed', run' = run,
           \A a \in Actor : act'[a].pc = "idle" <=> act[a].pc = "idle"
    PROVE  WorkInv'
<1>1. Busy' = Busy /\ Live' = Live
  BY DEF Busy, Live
<1>. QED
  BY <1>1 DEF WorkInv

LEMMA BeginWork ==
    ASSUME TypeOK, WorkInv, NEW a \in Actor, ~closed, act[a].pc = "idle", NEW d, d.pc # "idle",
           act' = [act EXCEPT ![a] = d],
           work' = work + 1, rootOpen' = rootOpen, closed' = closed, run' = run
    PROVE  WorkInv'
<1>1. Busy' = Busy \cup {a} /\ a \notin Busy
  BY DEF Busy, TypeOK
<1>2. Live' = Live
  BY DEF Live
<1>3. Cardinality(Busy)' = Cardinality(Busy) + 1
  BY <1>1, WorkCount
<1>. QED
  BY <1>2, <1>3, WorkTypes DEF WorkInv

LEMMA ReturnWork ==
    ASSUME TypeOK, WorkInv, NEW a \in Actor, act[a].pc # "idle", Return(a, 0), run' = run
    PROVE  WorkInv'
<1>1. act' = [act EXCEPT ![a] = Idle] /\ work' = work - 1 + 0 /\ closed' = closed /\ rootOpen' = rootOpen
  BY DEF Return
<1>2. Busy' = Busy \ {a} /\ a \in Busy
  BY <1>1 DEF Busy, TypeOK, Idle
<1>3. Live' = Live
  BY DEF Live
<1>4. Cardinality(Busy)' = Cardinality(Busy) - 1
  BY <1>2, WorkCount
<1>5. rootOpen
  BY NoWork
<1>. QED
  BY <1>1, <1>3, <1>4, <1>5, WorkTypes DEF WorkInv

LEMMA StartWork ==
    ASSUME TypeOK, WorkInv, NEW a \in Actor, act[a].pc # "idle", Return(a, 1),
           NEW w \in Watcher, run[w] # "live", run' = [run EXCEPT ![w] = "live"]
    PROVE  WorkInv'
<1>1. act' = [act EXCEPT ![a] = Idle] /\ work' = work - 1 + 1 /\ closed' = closed /\ rootOpen' = rootOpen
  BY DEF Return
<1>2. Busy' = Busy \ {a} /\ a \in Busy
  BY <1>1 DEF Busy, TypeOK, Idle
<1>3. Live' = Live \cup {w} /\ w \notin Live
  BY DEF Live, TypeOK
<1>4. Cardinality(Busy)' = Cardinality(Busy) - 1 /\ Cardinality(Live)' = Cardinality(Live) + 1
  BY <1>2, <1>3, WorkCount
<1>5. rootOpen
  BY NoWork
<1>. QED
  BY <1>1, <1>4, <1>5, WorkTypes DEF WorkInv

LEMMA RunReturnsWork ==
    ASSUME TypeOK, WorkInv, NEW w \in Watcher, RunReturns(w)
    PROVE  WorkInv'
<1>1. Busy' = Busy
  BY DEF RunReturns, Busy
<1>2. Live' = Live \ {w} /\ w \in Live
  BY DEF RunReturns, Live, TypeOK
<1>3. Cardinality(Live)' = Cardinality(Live) - 1
  BY <1>2, WorkCount
<1>4. work' = work - 1 /\ closed' = closed /\ rootOpen' = rootOpen
  BY DEF RunReturns
<1>5. rootOpen
  BY <1>2, NoWork DEF Live
<1>. QED
  BY <1>1, <1>3, <1>4, <1>5, WorkTypes DEF WorkInv

LEMMA CloseEndsWork == ASSUME WorkInv, CloseEnds PROVE WorkInv'
<1>1. Busy' = Busy /\ Live' = Live
  BY DEF Busy, Live, CloseEnds, watcherVars
<1>. QED
  BY <1>1 DEF WorkInv, CloseEnds

-----------------------------------------------------------------------------
(* Lock and work, step by step: an operation begins, goes on, or returns.  *)

LEMMA BeginStep ==
    ASSUME TypeOK, LockInv, WorkInv, NEW a \in Actor, NEW kind, NEW pc, NEW w, Begin(a, kind, pc, w),
           pc \notin Holding \cup {"idle"},
           UNCHANGED <<closed, rootOpen, lockVars>>, run' = run
    PROVE  LockInv' /\ WorkInv'
<1>. DEFINE d == [kind |-> kind, pc |-> pc, obj |-> none, w |-> w]
<1>1. act' = [act EXCEPT ![a] = d] /\ act[a].pc = "idle" /\ ~closed /\ work' = work + 1
  BY DEF Begin
<1>2. d.pc = pc /\ d.obj = none
  OBVIOUS
<1>. HIDE DEF d
<1>3. WorkInv'
  BY <1>1, <1>2, BeginWork
<1>4. act[a].obj = none /\ act[a].pc \notin Holding
  BY <1>1 DEF LockInv, Holding
<1>5. Quiet
  BY <1>1, <1>2, <1>4 DEF Quiet, TypeOK, LockInv
<1>. QED
  BY <1>3, <1>5, QuietLock

LEMMA GoOnStep ==
    ASSUME TypeOK, LockInv, WorkInv, NEW a \in Actor, \A b \in Actor \ {a} : act'[b] = act[b],
           act'[a].obj = act[a].obj, act'[a].pc # "idle", act[a].pc # "idle",
           act'[a].pc \in Holding <=> act[a].pc \in Holding,
           act'[a].pc \notin Holding \cup {"queue"} => act'[a].obj = none,
           UNCHANGED <<lifeVars, lockVars>>, run' = run
    PROVE  LockInv' /\ WorkInv'
<1>1. Quiet
  BY DEF Quiet, TypeOK, LockInv
<1>2. \A b \in Actor : act'[b].pc = "idle" <=> act[b].pc = "idle"
  BY DEF TypeOK
<1>. QED
  BY <1>1, <1>2, QuietLock, QuietWork DEF lifeVars

\* An operation goes on at another place, with its lock or without.
LEMMA GotoStep ==
    ASSUME TypeOK, LockInv, WorkInv, NEW a \in Actor, NEW pc, Goto(a, pc), pc # "idle",
           act[a].pc \notin {"idle", "queue"}, pc \in Holding <=> act[a].pc \in Holding,
           UNCHANGED <<lifeVars, lockVars>>, run' = run
    PROVE  LockInv' /\ WorkInv'
<1>1. act' = [act EXCEPT ![a].pc = pc]
  BY DEF Goto
<1>2. act'[a].pc = pc /\ act'[a].obj = act[a].obj /\ \A b \in Actor \ {a} : act'[b] = act[b]
  BY <1>1 DEF TypeOK
<1>3. pc \notin Holding \cup {"queue"} => act[a].obj = none
  BY DEF LockInv
<1>. QED
  BY <1>2, <1>3, GoOnStep

LEMMA MoveStep ==
    ASSUME TypeOK, LockInv, WorkInv, NEW a \in Actor, NEW pc \in Holding, NEW w,
           act' = [act EXCEPT ![a].pc = pc, ![a].w = w], act[a].pc \in Holding,
           UNCHANGED <<lifeVars, lockVars>>, run' = run
    PROVE  LockInv' /\ WorkInv'
<1>1. act'[a].pc = pc /\ act'[a].obj = act[a].obj /\ \A b \in Actor \ {a} : act'[b] = act[b]
  BY DEF TypeOK
<1>2. pc # "idle" /\ act[a].pc # "idle"
  BY DEF Holding
<1>. QED
  BY <1>1, <1>2, GoOnStep

LEMMA ReturnStep ==
    ASSUME TypeOK, LockInv, WorkInv, NEW a \in Actor, act[a].pc \notin {"idle", "queue"},
           Return(a, 0), run' = run
    PROVE  LockInv' /\ WorkInv'
<1>1. Release(a) /\ act' = [act EXCEPT ![a] = Idle]
  BY DEF Return
<1>. QED
  BY <1>1, ReleaseLock, ReturnWork

LEMMA StartStep ==
    ASSUME TypeOK, LockInv, WorkInv, NEW a \in Actor, act[a].pc \notin {"idle", "queue"},
           NEW w \in Watcher, run[w] = "new", StartAndReturn(a, w)
    PROVE  LockInv' /\ WorkInv'
<1>1. CASE closed
  BY <1>1, ReturnStep DEF StartAndReturn
<1>2. CASE ~closed
  <2>1. Return(a, 1) /\ run' = [run EXCEPT ![w] = "live"]
    BY <1>2 DEF StartAndReturn
  <2>2. Release(a) /\ act' = [act EXCEPT ![a] = Idle]
    BY <2>1 DEF Return
  <2>. QED
    BY <2>1, <2>2, ReleaseLock, StartWork
<1>. QED
  BY <1>1, <1>2

LEMMA StillStep ==
    ASSUME TypeOK, LockInv, WorkInv, act' = act, UNCHANGED <<work, rootOpen, lockVars>>, run' = run, closed => closed'
    PROVE  LockInv' /\ WorkInv'
<1>1. Quiet
  BY DEF Quiet, LockInv
<1>. QED
  BY <1>1, QuietLock, QuietWork

\* A watcher that has just been made has not begun to run.
LEMMA MadeIsNew ==
    ASSUME TypeOK, WatcherInv, made < MaxWatchers
    PROVE  made + 1 \in Watcher /\ run[made + 1] = "new" /\ made + 1 # 0
BY ManagerAssumption DEF TypeOK, WatcherInv, Watcher

LEMMA CallCounts ==
    ASSUME IInv, NEW c \in Caller, Call(c)
    PROVE  LockInv' /\ WorkInv'
<1>. c \in Actor
  BY DEF Actor
<1>. USE DEF IInv
<1>1. CASE Create(c)
  BY <1>1, GotoStep DEF Create, Holding, watcherVars
<1>2. CASE CreateSent(c)
  <2>1. act[c].pc \notin {"idle", "queue"}
    BY <1>2 DEF CreateSent
  <2>2. \/ made < MaxWatchers /\ StartAndReturn(c, made + 1)
        \/ Return(c, 0) /\ run' = run
    BY <1>2 DEF CreateSent, Make
  <2>. QED
    BY <2>1, <2>2, MadeIsNew, StartStep, ReturnStep
<1>3. CASE Watch(c)
  <2>1. act[c].pc \notin {"idle", "queue"}
    BY <1>3 DEF Watch
  <2>2. \/ made < MaxWatchers /\ StartAndReturn(c, made + 1)
        \/ Return(c, 0) /\ run' = run
    BY <1>3 DEF Watch, Make
  <2>. QED
    BY <2>1, <2>2, MadeIsNew, StartStep, ReturnStep
<1>4. CASE Send(c)
  BY <1>4, GoOnStep DEF Send, Goto, Holding, LockInv, TypeOK
<1>5. CASE EnterOpMu(c)
  <2>1. act[c].pc \notin {"idle", "queue"} /\ act[c].pc \in Holding /\ run' = run
    BY <1>5 DEF EnterOpMu, Holding
  <2>2. CASE Goto(c, "join") /\ UNCHANGED <<lifeVars, lockVars>>
    BY <2>1, <2>2, GotoStep DEF Holding
  <2>3. CASE Return(c, 0)
    BY <2>1, <2>3, ReturnStep
  <2>4. CASE Intend(c, act[c].w, st[act[c].w]) /\ UNCHANGED <<lifeVars, lockVars>>
    <3>1. act' = [act EXCEPT ![c].pc = "wire", ![c].w = act[c].w]
      BY <2>4 DEF Intend
    <3>. QED
      BY <2>1, <2>4, <3>1, MoveStep DEF Holding
  <2>. QED
    BY <1>5, <2>2, <2>3, <2>4 DEF EnterOpMu
<1>6. CASE Join(c)
  BY <1>6, GotoStep DEF Join, Holding, watcherVars
<1>7. CASE Revive(c)
  <2>1. act[c].pc = "revive"
    BY <1>7 DEF Revive
  <2>2. CASE Return(c, 0) /\ run' = run
    BY <2>1, <2>2, ReturnStep
  <2>3. CASE made < MaxWatchers /\ StartAndReturn(c, made + 1)
    BY <2>1, <2>3, MadeIsNew, StartStep
  <2>4. CASE Intend(c, made + 1, Restored(disk)) /\ UNCHANGED <<lifeVars, lockVars, entry, run>>
    <3>1. act' = [act EXCEPT ![c].pc = "wire", ![c].w = made + 1]
      BY <2>4 DEF Intend
    <3>. QED
      BY <2>1, <2>4, <3>1, MoveStep DEF Holding
  <2>. QED
    BY <1>7, <2>2, <2>3, <2>4 DEF Revive, Make
<1>8. CASE Wire(c)
  BY <1>8, GotoStep DEF Wire, Holding
<1>9. CASE SendReturns(c)
  <2>1. act[c].pc \notin {"idle", "queue"} /\ act[c].w \in Watcher
    BY <1>9 DEF SendReturns, Places, TypeOK
  <2>2. \/ run[act[c].w] = "new" /\ StartAndReturn(c, act[c].w)
        \/ Return(c, 0) /\ run' = run
    BY <1>9 DEF SendReturns
  <2>. QED
    BY <2>1, <2>2, StartStep, ReturnStep
<1>10. CASE Stop(c)
  BY <1>10, MoveStep, ReturnStep DEF Stop, Holding
<1>11. CASE Stopped(c)
  BY <1>11, ReturnStep DEF Stopped, watcherVars
<1>12. CASE Grab(c)
  BY <1>12, GotoStep DEF Grab, Holding, watcherVars
<1>13. CASE ReadStatus(c)
  BY <1>13, GotoStep, ReturnStep DEF ReadStatus, Holding, watcherVars
<1>14. CASE Select(c)
  BY <1>14, GotoStep DEF Select, Holding, watcherVars
<1>15. CASE WaitWakes(c)
  BY <1>15, GotoStep, ReturnStep DEF WaitWakes, Holding, watcherVars
<1>. QED
  BY <1>1, <1>2, <1>3, <1>4, <1>5, <1>6, <1>7, <1>8, <1>9, <1>10, <1>11, <1>12, <1>13, <1>14, <1>15 DEF Call

LEMMA HousekeepCounts ==
    ASSUME IInv, Housekeep
    PROVE  LockInv' /\ WorkInv'
<1>. hk \in Actor
  BY DEF Actor
<1>. USE DEF IInv
<1>1. CASE Describe
  BY <1>1, GoOnStep, ReturnStep DEF Describe, Goto, Holding, LockInv, TypeOK, watcherVars
<1>2. CASE Reconcile
  BY <1>2, GotoStep, ReturnStep DEF Reconcile, Holding
<1>3. CASE ReconcileReleases
  BY <1>3, GotoStep DEF ReconcileReleases, Holding
<1>4. CASE ReconcileEnds
  BY <1>4, ReturnStep DEF ReconcileEnds, watcherVars
<1>5. CASE Remove
  BY <1>5, MoveStep, ReturnStep DEF Remove, Holding
<1>6. CASE Removed
  BY <1>6, ReturnStep DEF Removed, watcherVars
<1>. QED
  BY <1>1, <1>2, <1>3, <1>4, <1>5, <1>6 DEF Housekeep

LEMMA NextCounts ==
    ASSUME IInv, Next
    PROVE  LockInv' /\ WorkInv'
<1>. boot \in Actor /\ hk \in Actor /\ Caller \subseteq Actor
  BY DEF Actor
<1>. USE DEF IInv
<1>1. ASSUME NEW c \in Caller, CallBegins(c) PROVE LockInv' /\ WorkInv'
  BY <1>1, BeginStep DEF CallBegins, Holding, watcherVars
<1>2. ASSUME NEW c \in Caller, WaitBegins(c) PROVE LockInv' /\ WorkInv'
  BY <1>2, BeginStep DEF WaitBegins, Holding, watcherVars
<1>3. ASSUME NEW c \in Caller, WaitTimesOut(c) PROVE LockInv' /\ WorkInv'
  BY <1>3, ReturnStep DEF WaitTimesOut, watcherVars
<1>4. ASSUME NEW a \in Actor, Pin(a) PROVE LockInv' /\ WorkInv'
  <2>1. \A b \in Actor : act'[b].pc = act[b].pc
    BY <1>4 DEF Pin, TypeOK
  <2>. QED
    BY <1>4, <2>1, PinLock, QuietWork DEF Pin, lifeVars, watcherVars
<1>5. ASSUME NEW a \in Actor, Acquire(a) PROVE LockInv' /\ WorkInv'
  <2>1. \A b \in Actor : act'[b].pc = "idle" <=> act[b].pc = "idle"
    BY <1>5 DEF Acquire, Goto, TypeOK
  <2>. QED
    BY <1>5, <2>1, AcquireLock, QuietWork DEF Acquire, lifeVars, watcherVars
<1>6. ASSUME NEW a \in Actor, Abandon(a) PROVE LockInv' /\ WorkInv'
  BY <1>6, ReturnStep DEF Abandon, watcherVars
<1>7. CASE Restore
  <2>1. act[boot].pc \notin {"idle", "queue"}
    BY <1>7 DEF Restore
  <2>2. \/ made < MaxWatchers /\ StartAndReturn(boot, made + 1)
        \/ Return(boot, 0) /\ run' = run
    BY <1>7 DEF Restore, Make
  <2>. QED
    BY <2>1, <2>2, MadeIsNew, StartStep, ReturnStep
<1>8. CASE ReconcileBegins
  BY <1>8, BeginStep DEF ReconcileBegins, Holding, watcherVars
<1>9. CASE RemoveBegins
  BY <1>9, BeginStep DEF RemoveBegins, Holding, watcherVars
<1>10. ASSUME NEW w \in Watcher, Run(w) PROVE LockInv' /\ WorkInv'
  <2>1. CASE Apply(w)
    BY <2>1, StillStep DEF Apply, lifeVars
  <2>2. CASE Applied(w)
    BY <2>2, StillStep DEF Applied, lifeVars
  <2>3. CASE RunReturns(w)
    <3>1. Quiet
      BY <2>3 DEF RunReturns, Quiet, LockInv
    <3>. QED
      BY <2>3, <3>1, QuietLock, RunReturnsWork
  <2>. QED
    BY <1>10, <2>1, <2>2, <2>3 DEF Run
<1>11. CASE Remote
  BY <1>11, StillStep DEF Remote, lifeVars, watcherVars
<1>12. CASE CloseBegins
  BY <1>12, StillStep DEF CloseBegins, watcherVars
<1>13. CASE CloseEnds
  <2>1. Quiet
    BY <1>13 DEF CloseEnds, Quiet, LockInv
  <2>. QED
    BY <1>13, <2>1, QuietLock, CloseEndsWork
<1>. QED
  BY <1>1, <1>2, <1>3, <1>4, <1>5, <1>6, <1>7, <1>8, <1>9, <1>10, <1>11, <1>12, <1>13,
     CallCounts, HousekeepCounts DEF Next, Locks

-----------------------------------------------------------------------------
(* The type, step by step: of the operations and the lock, of the          *)
(* watchers, and of the rest.                                              *)

CoreType ==
    /\ closed \in BOOLEAN /\ rootOpen \in BOOLEAN /\ work \in Nat
    /\ slot \in Object \cup {none} /\ refs \in [Object -> Nat]
    /\ holder \in [Object -> Actor \cup {none}]
    /\ act \in [Actor -> ActType]

SceneType ==
    /\ entry \in Watcher \cup {0} /\ made \in 0..MaxWatchers
    /\ st \in [Watcher -> Record] /\ run \in [Watcher -> {"new", "live", "done"}]
    /\ exited \in [Watcher -> BOOLEAN] /\ cancelled \in [Watcher -> BOOLEAN]
    /\ opmu \in [Watcher -> Actor \cup {none, "run"}]
    /\ disk \in Record

OtherType ==
    /\ woken \in [Caller -> BOOLEAN]
    /\ remote \in {"working", "asked", "ended", "offered"} /\ turns \in Nat /\ inbox \in Nat
    /\ clean \in BOOLEAN /\ sentSince \in BOOLEAN /\ followUp \in BOOLEAN /\ ops \in Nat

\* TypeOK splits into the type of the operations and that of everything else.
LEMMA TypeParts == TypeOK <=> CoreType /\ SceneType /\ OtherType
BY DEF TypeOK, CoreType, SceneType, OtherType, ActType

LEMMA ActTypes ==
    ASSUME NEW d \in ActType
    PROVE  /\ \A pc \in PC : [d EXCEPT !.pc = pc] \in ActType
           /\ \A pc \in PC, w \in Watcher : [d EXCEPT !.w = w, !.pc = pc] \in ActType
           /\ \A pc \in PC, w \in Watcher : [d EXCEPT !.pc = pc, !.w = w] \in ActType
           /\ \A o \in Object : [d EXCEPT !.obj = o] \in ActType
           /\ Idle \in ActType
<1>1. Idle \in ActType
  BY DEF Idle, ActType, PC
<1>. QED
  BY <1>1 DEF ActType

LEMMA GotoType ==
    ASSUME CoreType, NEW a \in Actor, NEW pc \in PC, Goto(a, pc)
    PROVE  act' \in [Actor -> ActType]
<1>1. [act[a] EXCEPT !.pc = pc] \in ActType
  BY ActTypes DEF CoreType
<1>. QED
  BY <1>1 DEF Goto, CoreType

LEMMA BeginType ==
    ASSUME CoreType, NEW a \in Actor, NEW kind \in Kinds \cup {"reconcile", "remove"}, NEW pc \in PC,
           NEW w \in Watcher \cup {0}, Begin(a, kind, pc, w), UNCHANGED <<closed, rootOpen, lockVars>>
    PROVE  CoreType'
<1>1. [kind |-> kind, pc |-> pc, obj |-> none, w |-> w] \in ActType
  BY DEF ActType
<1>2. act' \in [Actor -> ActType]
  BY <1>1 DEF Begin, CoreType
<1>. QED
  BY <1>2 DEF Begin, CoreType, lockVars

LEMMA ReleaseType ==
    ASSUME CoreType, LockInv, NEW a \in Actor, Release(a)
    PROVE  /\ slot' \in Object \cup {none} /\ refs' \in [Object -> Nat]
           /\ holder' \in [Object -> Actor \cup {none}]
<1>1. CASE act[a].obj = none
  BY <1>1 DEF Release, lockVars, CoreType
<1>2. CASE act[a].obj # none
  <2>1. act[a].obj \in Object
    BY <1>2 DEF CoreType, ActType
  <2>2. PICK o \in Object : o = act[a].obj
    BY <2>1
  <2>3. a \in Users(o)
    BY <2>2 DEF Users
  <2>4. Cardinality(Users(o) \ {a}) \in Nat /\ Cardinality(Users(o) \ {a}) = Cardinality(Users(o)) - 1
    <3>1. Users(o) \in SUBSET Actor /\ Users(o) \ {a} \in SUBSET Actor
      BY DEF Users
    <3>. QED
      BY <2>3, <3>1, Finite, Counting
  <2>5. refs[o] - 1 \in Nat
    BY <2>4 DEF LockInv
  <2>. QED
    BY <1>2, <2>2, <2>5 DEF Release, CoreType
<1>. QED
  BY <1>1, <1>2

LEMMA ReturnType ==
    ASSUME CoreType, LockInv, WorkInv, NEW a \in Actor, act[a].pc # "idle", NEW n \in Nat, Return(a, n)
    PROVE  CoreType'
<1>1. act' \in [Actor -> ActType]
  <2>1. Idle \in ActType
    BY DEF Idle, ActType, PC
  <2>. QED
    BY <2>1 DEF Return, CoreType
<1>2. work' \in Nat
  BY NoWork DEF Return
<1>. QED
  BY <1>1, <1>2, ReleaseType DEF Return, CoreType

LEMMA StartType ==
    ASSUME CoreType, SceneType, LockInv, WorkInv, NEW a \in Actor, act[a].pc # "idle",
           NEW w \in Watcher, StartAndReturn(a, w)
    PROVE  CoreType' /\ entry' \in Watcher \cup {0} /\ run' \in [Watcher -> {"new", "live", "done"}]
BY ReturnType DEF StartAndReturn, SceneType

LEMMA MakeType ==
    ASSUME SceneType, NEW s \in Record, Make(s)
    PROVE  made' \in 0..MaxWatchers /\ st' \in [Watcher -> Record] /\ made + 1 \in Watcher
BY ManagerAssumption DEF SceneType, Make, Watcher

LEMMA NotifyType ==
    ASSUME OtherType, NEW w, Notify(w)
    PROVE  woken' \in [Caller -> BOOLEAN]
<1>1. \A c \in Caller : (woken[c] \/ (act[c].kind = "wait" /\ act[c].w = w
                                     /\ act[c].pc \in {"read", "select", "sleep"})) \in BOOLEAN
  OBVIOUS
<1>. QED
  BY <1>1 DEF Notify

LEMMA TouchType ==
    ASSUME NEW w, Touch(w)
    PROVE  clean' \in BOOLEAN
BY DEF Touch

LEMMA IntendType ==
    ASSUME CoreType, SceneType, OtherType, NEW c \in Actor, NEW w \in Watcher, NEW s \in Record, Intend(c, w, s)
    PROVE  /\ opmu' \in [Watcher -> Actor \cup {none, "run"}] /\ st' \in [Watcher -> Record] /\ disk' \in Record
           /\ followUp' \in BOOLEAN /\ clean' \in BOOLEAN /\ act' \in [Actor -> ActType]
<1>1. Sending(s) \in Record
  BY RecordTypes
<1>2. [act[c] EXCEPT !.pc = "wire", !.w = w] \in ActType
  BY ActTypes DEF CoreType, PC
<1>3. act' \in [Actor -> ActType]
  BY <1>2 DEF Intend, CoreType
<1>4. (followUp /\ Sending(s).awaiting) \in BOOLEAN
  OBVIOUS
<1>. QED
  BY <1>1, <1>3, <1>4, TouchType DEF Intend, SceneType

LEMMA CallTypes ==
    ASSUME IInv, NEW c \in Caller, Call(c)
    PROVE  CoreType' /\ SceneType' /\ OtherType'
<1>. /\ c \in Actor /\ CoreType /\ SceneType /\ OtherType /\ LockInv /\ WorkInv /\ Places(c)
     /\ act[c] \in ActType
  BY TypeParts DEF Actor, IInv, CoreType
<1>1. CASE Create(c)
  <2>1. disk' \in Record
    BY <1>1, NewRecordTypes DEF Create
  <2>2. act' \in [Actor -> ActType]
    BY <1>1, GotoType DEF Create, PC
  <2>. QED
    BY <1>1, <2>1, <2>2 DEF Create, CoreType, SceneType, OtherType, lifeVars, lockVars, watcherVars, remoteVars, ghostVars
<1>2. CASE CreateSent(c)
  <2>0. act[c].pc # "idle"
    BY <1>2 DEF CreateSent
  <2>1. CASE Return(c, 0) /\ disk' \in {disk, NewRecord} /\ UNCHANGED <<entry, run, made, st, inbox>>
    BY <1>2, <2>0, <2>1, ReturnType, NewRecordTypes
    DEF CreateSent, SceneType, OtherType, ghostVars
  <2>2. ASSUME NEW status \in {"running", "doubt"}, NEW s, s = [NewRecord EXCEPT !.status = status],
               \/ inbox + turns < MaxAccepted /\ inbox' = inbox + 1
               \/ status = "doubt" /\ inbox' = inbox,
               Make(s), StartAndReturn(c, made + 1), disk' \in {disk, s}
        PROVE  CoreType' /\ SceneType' /\ OtherType'
    <3>1. s \in Record
      BY <2>2, NewRecordTypes DEF Status, Waiting
    <3>2. made' \in 0..MaxWatchers /\ st' \in [Watcher -> Record] /\ made + 1 \in Watcher
      BY <2>2, <3>1, MakeType
    <3>3. CoreType' /\ entry' \in Watcher \cup {0} /\ run' \in [Watcher -> {"new", "live", "done"}]
      BY <2>0, <2>2, <3>2, StartType
    <3>4. inbox' \in Nat
      BY <2>2 DEF OtherType
    <3>. QED
      BY <1>2, <2>2, <3>1, <3>2, <3>3, <3>4 DEF CreateSent, SceneType, OtherType, ghostVars
  <2>. QED
    BY <1>2, <2>1, <2>2 DEF CreateSent
<1>3. CASE Watch(c)
  <2>0. act[c].pc # "idle"
    BY <1>3 DEF Watch
  <2>1. CASE Return(c, 0) /\ UNCHANGED <<entry, run, made, st>> /\ (disk' = disk \/ \E info \in Info : disk' = Merged(info))
    <3>1. disk' \in Record
      BY <2>1, MergedTypes DEF SceneType
    <3>. QED
      BY <1>3, <2>0, <2>1, <3>1, ReturnType DEF Watch, SceneType, OtherType, remoteVars, ghostVars
  <2>2. CASE \E info \in Info : disk' = Merged(info) /\ Make(Merged(info)) /\ StartAndReturn(c, made + 1)
    <3>1. PICK s : s \in Record /\ disk' = s /\ Make(s) /\ StartAndReturn(c, made + 1)
      BY <2>2, MergedTypes DEF SceneType
    <3>2. made' \in 0..MaxWatchers /\ st' \in [Watcher -> Record] /\ made + 1 \in Watcher
      BY <3>1, MakeType
    <3>3. CoreType' /\ entry' \in Watcher \cup {0} /\ run' \in [Watcher -> {"new", "live", "done"}]
      BY <2>0, <3>1, <3>2, StartType
    <3>. QED
      BY <1>3, <3>1, <3>2, <3>3 DEF Watch, SceneType, OtherType, remoteVars, ghostVars
  <2>. QED
    BY <1>3, <2>1, <2>2 DEF Watch
<1>4. CASE Send(c)
  <2>1. act' \in [Actor -> ActType]
    <3>1. CASE entry = 0
      BY <1>4, <3>1, GotoType DEF Send, PC
    <3>2. CASE entry # 0
      <4>1. entry \in Watcher
        BY <3>2 DEF SceneType
      <4>2. (IF st[entry].status \in Terminal THEN "join" ELSE "opmu") \in PC
        BY DEF PC
      <4>3. [act[c] EXCEPT !.w = entry, !.pc = IF st[entry].status \in Terminal THEN "join" ELSE "opmu"] \in ActType
        BY <4>1, <4>2, ActTypes
      <4>. QED
        BY <1>4, <3>2, <4>3 DEF Send, CoreType
    <3>. QED
      BY <3>1, <3>2
  <2>2. cancelled' \in [Watcher -> BOOLEAN]
    BY <1>4 DEF Send, SceneType
  <2>. QED
    BY <1>4, <2>1, <2>2 DEF Send, CoreType, SceneType, OtherType, lifeVars, lockVars, remoteVars, ghostVars
<1>5. CASE EnterOpMu(c)
  <2>0. act[c].w \in Watcher /\ act[c].pc # "idle"
    BY <1>5 DEF EnterOpMu, Places, ActType
  <2>. DEFINE w == act[c].w
  <2>1. st[w] \in Record
    BY <2>0 DEF SceneType
  <2>2. CASE Goto(c, "join") /\ cancelled' = [cancelled EXCEPT ![w] = TRUE]
             /\ UNCHANGED <<lifeVars, lockVars, st, opmu, disk, clean, followUp>>
    <3>1. act' \in [Actor -> ActType]
      BY <2>2, GotoType DEF PC
    <3>. QED
      BY <1>5, <2>0, <2>2, <3>1 DEF EnterOpMu, CoreType, SceneType, OtherType, lifeVars, lockVars, remoteVars
  <2>3. CASE /\ Return(c, 0) /\ UNCHANGED <<cancelled, opmu, disk>>
             /\ \/ UNCHANGED <<st, clean, followUp>>
                \/ /\ Touch(w) /\ followUp' = (followUp /\ Sending(st[w]).awaiting)
                   /\ st' = [st EXCEPT ![w] = [Sending(st[w]) EXCEPT !.sending = FALSE]]
    <3>1. [Sending(st[w]) EXCEPT !.sending = FALSE] \in Record
      BY <2>1, RecordTypes
    <3>2. st' \in [Watcher -> Record]
      BY <2>3, <3>1 DEF SceneType
    <3>3. (followUp /\ Sending(st[w]).awaiting) \in BOOLEAN
      OBVIOUS
    <3>4. clean' \in BOOLEAN /\ followUp' \in BOOLEAN
      BY <2>3, <3>3, TouchType DEF OtherType
    <3>. QED
      BY <1>5, <2>0, <2>3, <3>2, <3>4, ReturnType DEF EnterOpMu, SceneType, OtherType, remoteVars
  <2>4. CASE Intend(c, w, st[w]) /\ UNCHANGED <<lifeVars, lockVars, cancelled>>
    <3>1. /\ opmu' \in [Watcher -> Actor \cup {none, "run"}] /\ st' \in [Watcher -> Record] /\ disk' \in Record
          /\ followUp' \in BOOLEAN /\ clean' \in BOOLEAN /\ act' \in [Actor -> ActType]
      BY <2>0, <2>1, <2>4, IntendType
    <3>. QED
      BY <1>5, <2>4, <3>1 DEF EnterOpMu, CoreType, SceneType, OtherType, lifeVars, lockVars, remoteVars
  <2>. QED
    BY <1>5, <2>2, <2>3, <2>4 DEF EnterOpMu
<1>6. CASE Join(c)
  <2>1. act' \in [Actor -> ActType]
    BY <1>6, GotoType DEF Join, PC
  <2>. QED
    BY <1>6, <2>1 DEF Join, CoreType, SceneType, OtherType, lifeVars, lockVars, watcherVars, remoteVars, ghostVars
<1>7. CASE Revive(c)
  <2>0. act[c].pc # "idle" /\ Restored(disk) \in Record
    BY <1>7, RecordTypes DEF Revive, SceneType
  <2>1. CASE Return(c, 0) /\ UNCHANGED <<entry, run, made, st, opmu, disk, clean, followUp>>
    BY <1>7, <2>0, <2>1, ReturnType DEF Revive, SceneType, OtherType, remoteVars
  <2>2. CASE /\ Make(Restored(disk)) /\ UNCHANGED <<opmu, disk, clean, followUp>>
             /\ StartAndReturn(c, made + 1) \/ (Return(c, 0) /\ UNCHANGED <<entry, run>>)
    <3>1. made' \in 0..MaxWatchers /\ st' \in [Watcher -> Record] /\ made + 1 \in Watcher
      BY <2>0, <2>2, MakeType
    <3>2. CoreType' /\ entry' \in Watcher \cup {0} /\ run' \in [Watcher -> {"new", "live", "done"}]
      BY <2>0, <2>2, <3>1, StartType, ReturnType DEF SceneType
    <3>. QED
      BY <1>7, <2>2, <3>1, <3>2 DEF Revive, SceneType, OtherType, remoteVars
  <2>3. CASE /\ made < MaxWatchers /\ made' = made + 1 /\ Intend(c, made + 1, Restored(disk))
             /\ UNCHANGED <<lifeVars, lockVars, entry, run>>
    <3>1. made + 1 \in Watcher /\ made' \in 0..MaxWatchers
      BY <2>3, ManagerAssumption DEF SceneType, Watcher
    <3>2. /\ opmu' \in [Watcher -> Actor \cup {none, "run"}] /\ st' \in [Watcher -> Record] /\ disk' \in Record
          /\ followUp' \in BOOLEAN /\ clean' \in BOOLEAN /\ act' \in [Actor -> ActType]
      BY <2>0, <2>3, <3>1, IntendType
    <3>. QED
      BY <1>7, <2>3, <3>1, <3>2 DEF Revive, CoreType, SceneType, OtherType, lifeVars, lockVars, remoteVars
  <2>. QED
    BY <1>7, <2>1, <2>2, <2>3 DEF Revive
<1>8. CASE Wire(c)
  <2>0. act[c].w \in Watcher
    BY <1>8 DEF Wire, Places, ActType
  <2>. DEFINE w == act[c].w
  <2>1. st[w] \in Record /\ st[w].status \in Status \cup {"absent"} /\ st[w].awaiting \in BOOLEAN
    BY <2>0 DEF SceneType, Record
  <2>2. act' \in [Actor -> ActType]
    BY <1>8, GotoType DEF Wire, PC
  <2>3. ASSUME NEW x \in Status \cup {"absent"}, st' = [st EXCEPT ![w].status = x, ![w].sending = FALSE]
        PROVE  st' \in [Watcher -> Record]
    <3>1. [st[w] EXCEPT !.status = x, !.sending = FALSE] \in Record
      BY <2>1 DEF Record
    <3>. QED
      BY <2>0, <2>3, <3>1 DEF SceneType
  <2>4. st' \in [Watcher -> Record]
    BY <1>8, <2>1, <2>3 DEF Wire, Status, Waiting
  <2>5. inbox' \in Nat /\ sentSince' \in BOOLEAN
    <3>1. \/ inbox' = inbox + 1 /\ sentSince' = TRUE
          \/ inbox' = inbox /\ sentSince' = sentSince
      BY <1>8 DEF Wire
    <3>2. inbox' \in Nat
      BY <3>1 DEF OtherType
    <3>3. sentSince' \in BOOLEAN
      BY <3>1 DEF OtherType
    <3>. QED
      BY <3>2, <3>3
  <2>6. followUp' \in BOOLEAN
    <3>1. (followUp \/ (/\ st[w].awaiting /\ remote \in {"ended", "offered"}
                        /\ inbox = 0 /\ st[w].turn = turns)) \in BOOLEAN
      OBVIOUS
    <3>. QED
      BY <1>8, <3>1 DEF Wire, OtherType
  <2>7. woken' \in [Caller -> BOOLEAN] /\ clean' \in BOOLEAN
    BY <1>8, NotifyType, TouchType DEF Wire
  <2>. QED
    BY <1>8, <2>2, <2>4, <2>5, <2>6, <2>7 DEF Wire, CoreType, SceneType, OtherType, lifeVars, lockVars
<1>9. CASE SendReturns(c)
  <2>0. act[c].w \in Watcher /\ act[c].pc # "idle"
    BY <1>9 DEF SendReturns, Places, ActType
  <2>1. CoreType' /\ entry' \in Watcher \cup {0} /\ run' \in [Watcher -> {"new", "live", "done"}]
    BY <1>9, <2>0, StartType, ReturnType DEF SendReturns, SceneType
  <2>2. disk' \in Record /\ opmu' \in [Watcher -> Actor \cup {none, "run"}]
    BY <1>9, <2>0 DEF SendReturns, SceneType
  <2>3. woken' \in [Caller -> BOOLEAN]
    BY <1>9, NotifyType DEF SendReturns
  <2>. QED
    BY <1>9, <2>1, <2>2, <2>3 DEF SendReturns, SceneType, OtherType, remoteVars, ghostVars
<1>10. CASE Stop(c)
  <2>1. CASE entry = 0
    BY <1>10, <2>1, ReturnType DEF Stop, SceneType, OtherType, remoteVars, ghostVars
  <2>2. CASE entry # 0
    <3>1. entry \in Watcher
      BY <2>2 DEF SceneType
    <3>2. [act[c] EXCEPT !.pc = "stopping", !.w = entry] \in ActType
      BY <3>1, ActTypes DEF PC
    <3>3. act' \in [Actor -> ActType]
      BY <1>10, <2>2, <3>2 DEF Stop, CoreType
    <3>. QED
      BY <1>10, <2>2, <3>3 DEF Stop, CoreType, SceneType, OtherType, lifeVars, lockVars, remoteVars, ghostVars
  <2>. QED
    BY <2>1, <2>2
<1>11. CASE Stopped(c)
  BY <1>11, ReturnType DEF Stopped, SceneType, OtherType, watcherVars, remoteVars, ghostVars
<1>12. CASE Grab(c)
  <2>1. act' \in [Actor -> ActType]
    BY <1>12, GotoType DEF Grab, PC
  <2>. QED
    BY <1>12, <2>1 DEF Grab, CoreType, SceneType, OtherType, lifeVars, lockVars, watcherVars, remoteVars, ghostVars
<1>13. CASE ReadStatus(c)
  <2>1. CoreType'
    <3>1. CASE Return(c, 0)
      BY <1>13, <3>1, ReturnType DEF ReadStatus
    <3>2. CASE Goto(c, "select") /\ UNCHANGED <<lifeVars, lockVars>>
      BY <3>2, GotoType DEF PC, CoreType, lifeVars, lockVars
    <3>. QED
      BY <1>13, <3>1, <3>2 DEF ReadStatus
  <2>. QED
    BY <1>13, <2>1 DEF ReadStatus, SceneType, OtherType, watcherVars, remoteVars, ghostVars
<1>14. CASE Select(c)
  <2>1. act' \in [Actor -> ActType]
    BY <1>14, GotoType DEF Select, PC
  <2>. QED
    BY <1>14, <2>1 DEF Select, CoreType, SceneType, OtherType, lifeVars, lockVars, watcherVars, remoteVars, ghostVars
<1>15. CASE WaitWakes(c)
  <2>1. CoreType'
    <3>1. CASE Return(c, 0)
      BY <1>15, <3>1, ReturnType DEF WaitWakes
    <3>2. CASE Goto(c, "grab") /\ UNCHANGED <<lifeVars, lockVars>>
      BY <3>2, GotoType DEF PC, CoreType, lifeVars, lockVars
    <3>. QED
      BY <1>15, <3>1, <3>2 DEF WaitWakes
  <2>. QED
    BY <1>15, <2>1 DEF WaitWakes, SceneType, OtherType, watcherVars, remoteVars, ghostVars
<1>. QED
  BY <1>1, <1>2, <1>3, <1>4, <1>5, <1>6, <1>7, <1>8, <1>9, <1>10, <1>11, <1>12, <1>13, <1>14, <1>15 DEF Call

LEMMA HousekeepTypes ==
    ASSUME IInv, Housekeep
    PROVE  CoreType' /\ SceneType' /\ OtherType'
<1>. /\ hk \in Actor /\ CoreType /\ SceneType /\ OtherType /\ LockInv /\ WorkInv /\ Places(hk)
     /\ act[hk] \in ActType
  BY TypeParts DEF Actor, IInv, CoreType
<1>1. CASE Describe
  <2>1. CoreType'
    <3>1. CASE Return(hk, 0)
      BY <1>1, <3>1, ReturnType DEF Describe
    <3>2. CASE Goto(hk, "queue") /\ UNCHANGED <<lifeVars, lockVars>>
      BY <3>2, GotoType DEF PC, CoreType, lifeVars, lockVars
    <3>. QED
      BY <1>1, <3>1, <3>2 DEF Describe
  <2>. QED
    BY <1>1, <2>1 DEF Describe, SceneType, OtherType, watcherVars, remoteVars, ghostVars
<1>2. CASE Reconcile
  <2>0. act[hk].w \in Watcher
    BY <1>2 DEF Reconcile, IInv, ReconcileInv, ActType
  <2>1. CASE Return(hk, 0) /\ UNCHANGED <<st, opmu, clean>>
    BY <1>2, <2>1, ReturnType DEF Reconcile, SceneType, OtherType, remoteVars
  <2>2. CASE /\ st' = [st EXCEPT ![act[hk].w].status = "completed"] /\ opmu' = [opmu EXCEPT ![act[hk].w] = hk]
             /\ Touch(act[hk].w) /\ Goto(hk, "release") /\ UNCHANGED <<lifeVars, lockVars>>
    <3>1. [st[act[hk].w] EXCEPT !.status = "completed"] \in Record
      BY <2>0, RecordTypes DEF SceneType, Status, Terminal
    <3>2. act' \in [Actor -> ActType] /\ clean' \in BOOLEAN
      BY <2>2, GotoType, TouchType DEF PC
    <3>. QED
      BY <1>2, <2>0, <2>2, <3>1, <3>2 DEF Reconcile, CoreType, SceneType, OtherType, lifeVars, lockVars, remoteVars
  <2>. QED
    BY <1>2, <2>1, <2>2 DEF Reconcile
<1>3. CASE ReconcileReleases
  <2>0. act[hk].w \in Watcher
    BY <1>3 DEF ReconcileReleases, Places, ActType
  <2>1. act' \in [Actor -> ActType] /\ woken' \in [Caller -> BOOLEAN]
    BY <1>3, GotoType, NotifyType DEF ReconcileReleases, PC
  <2>. QED
    BY <1>3, <2>0, <2>1
    DEF ReconcileReleases, CoreType, SceneType, OtherType, lifeVars, lockVars, remoteVars, ghostVars
<1>4. CASE ReconcileEnds
  BY <1>4, ReturnType DEF ReconcileEnds, SceneType, OtherType, watcherVars, remoteVars, ghostVars
<1>5. CASE Remove
  <2>1. CASE Return(hk, 0) /\ UNCHANGED cancelled
    BY <1>5, <2>1, ReturnType DEF Remove, SceneType, OtherType, remoteVars, ghostVars
  <2>2. CASE /\ entry # 0 /\ cancelled' = [cancelled EXCEPT ![entry] = TRUE]
             /\ act' = [act EXCEPT ![hk].pc = "removing", ![hk].w = entry]
             /\ UNCHANGED <<lifeVars, lockVars>>
    <3>1. [act[hk] EXCEPT !.pc = "removing", !.w = entry] \in ActType
      BY <2>2, ActTypes DEF PC, SceneType
    <3>2. act' \in [Actor -> ActType]
      BY <2>2, <3>1 DEF CoreType
    <3>. QED
      BY <1>5, <2>2, <3>2 DEF Remove, CoreType, SceneType, OtherType, lifeVars, lockVars, remoteVars, ghostVars
  <2>. QED
    BY <1>5, <2>1, <2>2 DEF Remove
<1>6. CASE Removed
  BY <1>6, ReturnType DEF Removed, SceneType, OtherType, watcherVars, remoteVars, ghostVars
<1>. QED
  BY <1>1, <1>2, <1>3, <1>4, <1>5, <1>6 DEF Housekeep

LEMMA NextTypes ==
    ASSUME IInv, Next
    PROVE  TypeOK'
<1>. /\ boot \in Actor /\ hk \in Actor /\ Caller \subseteq Actor
     /\ CoreType /\ SceneType /\ OtherType /\ LockInv /\ WorkInv
  BY TypeParts DEF Actor, IInv
<1>. SUFFICES CoreType' /\ SceneType' /\ OtherType'
  BY TypeParts, PTL
<1>1. ASSUME NEW c \in Caller, CallBegins(c) PROVE CoreType' /\ SceneType' /\ OtherType'
  <2>1. PICK kind \in Kinds : Begin(c, kind, "queue", 0)
    BY <1>1 DEF CallBegins
  <2>2. CoreType'
    BY <1>1, <2>1, BeginType DEF CallBegins, PC
  <2>. QED
    BY <1>1, <2>1, <2>2 DEF CallBegins, Begin, SceneType, OtherType, watcherVars, remoteVars
<1>2. ASSUME NEW c \in Caller, WaitBegins(c) PROVE CoreType' /\ SceneType' /\ OtherType'
  <2>1. CoreType'
    BY <1>2, BeginType DEF WaitBegins, PC, SceneType
  <2>. QED
    BY <1>2, <2>1 DEF WaitBegins, Begin, SceneType, OtherType, watcherVars, remoteVars
<1>3. ASSUME NEW c \in Caller, WaitTimesOut(c) PROVE CoreType' /\ SceneType' /\ OtherType'
  BY <1>3, ReturnType DEF WaitTimesOut, SceneType, OtherType, watcherVars, remoteVars, ghostVars
<1>4. ASSUME NEW a \in Actor, Pin(a) PROVE CoreType' /\ SceneType' /\ OtherType'
  <2>1. PICK o \in Object : /\ slot' = o /\ refs' = [refs EXCEPT ![o] = @ + 1]
                            /\ act' = [act EXCEPT ![a].obj = o]
    BY <1>4 DEF Pin
  <2>2. [act[a] EXCEPT !.obj = o] \in ActType
    BY ActTypes DEF CoreType
  <2>3. act' \in [Actor -> ActType]
    BY <2>1, <2>2 DEF CoreType
  <2>. QED
    BY <1>4, <2>1, <2>3
    DEF Pin, CoreType, SceneType, OtherType, lifeVars, watcherVars, remoteVars, ghostVars
<1>5. ASSUME NEW a \in Actor, Acquire(a) PROVE CoreType' /\ SceneType' /\ OtherType'
  <2>1. act' \in [Actor -> ActType]
    BY <1>5, GotoType DEF Acquire, PC
  <2>. QED
    BY <1>5, <2>1
    DEF Acquire, CoreType, SceneType, OtherType, lifeVars, watcherVars, remoteVars, ghostVars
<1>6. ASSUME NEW a \in Actor, Abandon(a) PROVE CoreType' /\ SceneType' /\ OtherType'
  BY <1>6, ReturnType DEF Abandon, SceneType, OtherType, watcherVars, remoteVars, ghostVars
<1>7. CASE Restore
  <2>0. act[boot].pc # "idle" /\ Restored(disk) \in Record
    BY <1>7, RecordTypes DEF Restore, SceneType
  <2>1. CASE Return(boot, 0) /\ UNCHANGED <<entry, run, made, st>>
    BY <1>7, <2>0, <2>1, ReturnType DEF Restore, SceneType, OtherType, remoteVars, ghostVars
  <2>2. CASE Make(Restored(disk)) /\ StartAndReturn(boot, made + 1)
    <3>1. made' \in 0..MaxWatchers /\ st' \in [Watcher -> Record] /\ made + 1 \in Watcher
      BY <2>0, <2>2, MakeType
    <3>2. CoreType' /\ entry' \in Watcher \cup {0} /\ run' \in [Watcher -> {"new", "live", "done"}]
      BY <2>0, <2>2, <3>1, StartType
    <3>. QED
      BY <1>7, <3>1, <3>2 DEF Restore, SceneType, OtherType, remoteVars, ghostVars
  <2>. QED
    BY <1>7, <2>1, <2>2 DEF Restore
<1>8. CASE ReconcileBegins
  <2>1. CoreType'
    BY <1>8, BeginType DEF ReconcileBegins, PC, SceneType
  <2>2. ops' \in Nat /\ turns' \in Nat /\ inbox' \in Nat
    BY <1>8 DEF ReconcileBegins, Begin, OtherType, remoteVars
  <2>3. clean' \in BOOLEAN /\ sentSince' \in BOOLEAN
    BY <1>8 DEF ReconcileBegins
  <2>. QED
    BY <1>8, <2>1, <2>2, <2>3 DEF ReconcileBegins, SceneType, OtherType, watcherVars, remoteVars
<1>9. CASE RemoveBegins
  <2>1. CoreType'
    BY <1>9, BeginType DEF RemoveBegins, PC
  <2>. QED
    BY <1>9, <2>1 DEF RemoveBegins, Begin, SceneType, OtherType, watcherVars, remoteVars
<1>10. ASSUME NEW w \in Watcher, Apply(w) PROVE CoreType' /\ SceneType' /\ OtherType'
  <2>1. \A x \in Status : [st[w] EXCEPT !.status = x] \in Record
    BY RecordTypes DEF SceneType
  <2>2. {"waiting", "report", "error"} \cup Terminal \subseteq Status
    BY DEF Status, Waiting, Terminal
  <2>3. [NewRecord EXCEPT !.turn = st[w].turn + 1] \in Record
    <3>1. st[w].turn + 1 \in Nat
      BY DEF SceneType, Record
    <3>. QED
      BY <3>1, NewRecordTypes
  <2>4. st' \in [Watcher -> Record]
    BY <1>10, <2>1, <2>2, <2>3 DEF Apply, SceneType
  <2>. QED
    BY <1>10, <2>4, TouchType
    DEF Apply, CoreType, SceneType, OtherType, lifeVars, lockVars, remoteVars
<1>11. ASSUME NEW w \in Watcher, Applied(w) PROVE CoreType' /\ SceneType' /\ OtherType'
  <2>1. (st[w].status \in Terminal) \in BOOLEAN
    OBVIOUS
  <2>. QED
    BY <1>11, <2>1, NotifyType
    DEF Applied, CoreType, SceneType, OtherType, lifeVars, lockVars, remoteVars, ghostVars
<1>12. ASSUME NEW w \in Watcher, RunReturns(w) PROVE CoreType' /\ SceneType' /\ OtherType'
  <2>1. work' \in Nat
    BY <1>12, NoWork DEF RunReturns
  <2>. QED
    BY <1>12, <2>1 DEF RunReturns, CoreType, SceneType, OtherType, lockVars, remoteVars, ghostVars
<1>13. CASE Remote
  <2>1. turns' \in Nat /\ inbox' \in Nat
    BY <1>13 DEF Remote, OtherType
  <2>2. followUp' \in BOOLEAN /\ remote' \in {"working", "asked", "ended", "offered"}
    BY <1>13 DEF Remote, OtherType
  <2>. QED
    BY <1>13, <2>1, <2>2 DEF Remote, CoreType, SceneType, OtherType, lifeVars, lockVars, watcherVars
<1>14. CASE CloseBegins
  BY <1>14 DEF CloseBegins, CoreType, SceneType, OtherType, lockVars, watcherVars, remoteVars, ghostVars
<1>15. CASE CloseEnds
  BY <1>15 DEF CloseEnds, CoreType, SceneType, OtherType, lockVars, watcherVars, remoteVars, ghostVars
<1>. QED
  BY <1>1, <1>2, <1>3, <1>4, <1>5, <1>6, <1>7, <1>8, <1>9, <1>10, <1>11, <1>12, <1>13, <1>14, <1>15,
     CallTypes, HousekeepTypes DEF Next, Locks, Run

-----------------------------------------------------------------------------
(* What the operations have found of the watchers.                         *)

Scene == WatcherInv /\ (\A a \in Actor : Places(a)) /\ ReconcileInv /\ FollowInv

LEMMA StrangeNames == none \notin Actor /\ "run" \notin Actor /\ "run" # none /\ 0 \notin Watcher
BY ManagerAssumption, Finite DEF Watcher

\* Records that are restored, merged or sent keep the turn they await.
LEMMA RestoredKeeps ==
    ASSUME NEW s \in Record
    PROVE  /\ Restored(s).awaiting = s.awaiting /\ Restored(s).turn = s.turn
           /\ s.status # "absent" => Restored(s).status # "absent"
BY DEF Restored, Record

LEMMA SendingKeeps ==
    ASSUME NEW s \in Record
    PROVE  Sending(s).turn = s.turn /\ Sending(s).status = s.status
BY DEF Sending, Record

LEMMA MergedKeeps ==
    ASSUME disk \in Record, NEW info
    PROVE  /\ Merged(info).status # "absent"
           /\ disk.awaiting => Merged(info).awaiting /\ Merged(info).turn = disk.turn
<1>. DEFINE s == Restored(disk)
<1>1. s \in Record /\ s.awaiting = disk.awaiting /\ s.turn = disk.turn
  BY RecordTypes, RestoredKeeps
<1>2. StatusOf(info) # "absent"
  BY DEF StatusOf
<1>. HIDE DEF s
<1>3. CASE s = NoSnapshot
  <2>1. ~disk.awaiting
    BY <1>1, <1>3 DEF NoSnapshot
  <2>2. Merged(info) = [NewRecord EXCEPT !.status = StatusOf(info)]
    BY <1>3 DEF Merged, s
  <2>. QED
    BY <1>2, <2>1, <2>2, NewRecordTypes DEF NewRecord, NoSnapshot
<1>4. CASE s # NoSnapshot
  <2>1. Merged(info) = s \/ Merged(info) = [s EXCEPT !.status = StatusOf(info)]
    BY <1>4 DEF Merged, s
  <2>2. CASE Merged(info) = s /\ s.status \in {"waiting", "report", "doubt"}
    BY <1>1, <2>2
  <2>3. CASE Merged(info) = [s EXCEPT !.status = StatusOf(info)]
    BY <1>1, <1>2, <2>3 DEF Record
  <2>. QED
    BY <1>4, <2>2, <2>3 DEF Merged, s
<1>. QED
  BY <1>3, <1>4

\* A step that leaves the watchers and the snapshot alone, and in which nobody
\* enters a place where something is known of them.
LEMMA StillScene ==
    ASSUME IInv, TypeOK', UNCHANGED <<entry, watcherVars, disk>>,
           followUp' => followUp /\ turns' = turns,
           \A a \in Actor : \/ act'[a] = act[a] \/ act'[a] = Idle
                            \/ act'[a].pc \in {"queue", "locked", "describe", "grab", "read", "select", "sleep"},
           \A a \in Actor : act[a].pc = "stopping" => act'[a] = act[a] \/ run[act[a].w] = "done",
           ReconcileInv'
    PROVE  Scene'
<1>1. WatcherInv /\ (\A a \in Actor : Places(a)) /\ FollowInv
  BY DEF IInv
<1>2. entry' = entry /\ made' = made /\ st' = st /\ run' = run /\ cancelled' = cancelled /\ opmu' = opmu /\ disk' = disk
  BY DEF watcherVars
<1>3. \A w \in Watcher, a \in Actor : (run[w] = "live" /\ act[a].pc = "stopping" /\ act[a].w = w) => act'[a] = act[a]
  OBVIOUS
<1>4. WatcherInv'
  BY <1>1, <1>2, <1>3 DEF WatcherInv, Live
<1>5. \A a \in Actor : Places(a)'
  <2>. TAKE a \in Actor
  <2>1. CASE act'[a] = act[a]
    BY <1>1, <1>2, <2>1 DEF Places
  <2>2. CASE act'[a] = Idle
    BY <2>2 DEF Places, Idle
  <2>3. CASE act'[a].pc \in {"queue", "locked", "describe", "grab", "read", "select", "sleep"}
    BY <2>3 DEF Places
  <2>. QED
    BY <2>1, <2>2, <2>3
<1>6. \A w \in Watcher : InHand(w)' => InHand(w)
  <2>1. \A a \in Actor : act'[a].pc \in {"wire", "release"} => act'[a] = act[a]
    BY DEF Idle
  <2>. QED
    BY <1>2, <2>1 DEF InHand
<1>7. FollowInv'
  BY <1>1, <1>2, <1>6 DEF FollowInv, Follows
<1>. QED
  BY <1>4, <1>5, <1>7 DEF Scene

\* What is known of a reconciliation stays known unless a message is delivered.
LEMMA ReconcileKept ==
    ASSUME TypeOK, TypeOK', ReconcileInv,
           act'[hk].kind = "reconcile" => act[hk].kind = "reconcile" /\ act'[hk].w = act[hk].w,
           \A w \in Watcher : run'[w] = "new" => run[w] = "new",
           entry' \in {entry, 0} \/ (entry' \in Watcher /\ run[entry'] = "new"),
           clean' /\ sentSince' => clean /\ sentSince
    PROVE  ReconcileInv'
<1>1. hk \in Actor
  BY DEF Actor
<1>2. act[hk].w \in Watcher \cup {0}
  BY <1>1 DEF TypeOK
<1>. QED
  BY <1>2 DEF ReconcileInv

\* An operation that has the lock is alone, and everything else stays in its place.
LEMMA HolderAlone ==
    ASSUME IInv, NEW a \in Actor, act[a].pc \in Holding
    PROVE  /\ \A b \in Actor \ {a} : act[b].pc \notin Holding
           /\ act[a].pc # "stopping" => \A w \in Watcher : run[w] = "live" => entry = w
           /\ \A w \in Watcher : InHand(w) => run[w] = "live" \/ entry = w \/ (act[a].pc \in {"wire", "release"} /\ act[a].w = w)
<1>1. \A b \in Actor \ {a} : act[b].pc \notin Holding
  BY Alone DEF IInv
<1>. QED
  BY <1>1 DEF IInv, WatcherInv, Live, InHand, Holding

LEMMA OthersStay ==
    ASSUME IInv, NEW a \in Actor, act[a].pc \in Holding, \A b \in Actor \ {a} : act'[b] = act[b]
    PROVE  /\ \A b \in Actor \ {a} : Places(b)' /\ act'[b].pc \notin Holding
           /\ \A w \in Watcher : InHand(w)' => run'[w] = "live" \/ entry' = w \/ (act'[a].pc \in {"wire", "release"} /\ act'[a].w = w)
<1>1. \A b \in Actor \ {a} : act'[b].pc \notin Holding /\ act'[b] = act[b]
  BY HolderAlone
<1>2. \A b \in Actor \ {a} : act[b].pc = "idle" => act[b] = Idle
  BY DEF IInv, Places
<1>3. \A b \in Actor \ {a} : Places(b)'
  BY <1>1, <1>2 DEF Places, Holding
<1>4. \A b \in Actor \ {a} : act'[b].pc \notin {"wire", "release"}
  BY <1>1 DEF Holding
<1>5. ASSUME NEW w \in Watcher
      PROVE  InHand(w)' => run'[w] = "live" \/ entry' = w \/ (act'[a].pc \in {"wire", "release"} /\ act'[a].w = w)
  <2>1. (\E b \in Actor : act'[b].pc \in {"wire", "release"} /\ act'[b].w = w)
           <=> (act'[a].pc \in {"wire", "release"} /\ act'[a].w = w)
    BY <1>4
  <2>. QED
    BY <2>1 DEF InHand
<1>. QED
  BY <1>1, <1>3, <1>5

LEMMA HolderScene ==
    ASSUME IInv, NEW a \in Actor, act[a].pc \in Holding, \A b \in Actor \ {a} : act'[b] = act[b],
           WatcherInv', Places(a)', ReconcileInv', FollowInv'
    PROVE  Scene'
<1>1. \A b \in Actor : Places(b)'
  BY OthersStay
<1>. QED
  BY <1>1 DEF Scene

\* An operation that returns without effect on the watchers.
LEMMA ReturnScene ==
    ASSUME IInv, TypeOK', NEW a \in Actor, act[a].pc # "stopping" \/ run[act[a].w] = "done",
           Return(a, 0), UNCHANGED <<entry, watcherVars, disk, turns, ghostVars>>
    PROVE  Scene'
<1>1. act'[a] = Idle /\ \A b \in Actor \ {a} : act'[b] = act[b]
  BY DEF Return, IInv, TypeOK
<1>2. ReconcileInv'
  BY <1>1, ReconcileKept DEF IInv, Idle, watcherVars, ghostVars, Actor
<1>. QED
  BY <1>1, <1>2, StillScene DEF ghostVars

LEMMA CreateScene ==
    ASSUME IInv, TypeOK', NEW c \in Caller, Create(c)
    PROVE  Scene'
<1>1. /\ c \in Actor /\ c # hk /\ act[c].pc \in Holding /\ act'[c].pc = "creating"
      /\ \A b \in Actor \ {c} : act'[b] = act[b]
  BY ManagerAssumption DEF Create, Goto, Holding, IInv, TypeOK, Actor
<1>2. disk = NoSnapshot /\ disk' = [NewRecord EXCEPT !.sending = TRUE] /\ made' = made /\ st' = st /\ run' = run
      /\ cancelled' = cancelled /\ opmu' = opmu /\ entry' = entry /\ clean' = clean /\ sentSince' = sentSince
      /\ followUp' = followUp
  BY DEF Create, watcherVars, ghostVars
<1>3. disk.status = "absent" /\ ~disk.awaiting /\ disk'.status # "absent" /\ ~disk'.awaiting
  BY <1>2 DEF NoSnapshot, NewRecord
<1>4. WatcherInv'
  BY <1>1, <1>2, <1>3, HolderAlone DEF IInv, WatcherInv, Live, Create
<1>5. Places(c)'
  BY <1>1, <1>2, <1>3 DEF IInv, WatcherInv, Places
<1>6. ReconcileInv'
  BY <1>1, <1>2, ReconcileKept DEF IInv, Actor
<1>7. FollowInv'
  BY <1>2, <1>3 DEF IInv, FollowInv, Follows
<1>. QED
  BY <1>1, <1>4, <1>5, <1>6, <1>7, HolderScene

\* A watcher is made for record s, which is as the snapshot says, and may be started.
LEMMA MakeScene ==
    ASSUME IInv, TypeOK', NEW a \in Actor, act[a].pc \in Holding \ {"stopping"}, entry = 0,
           act'[a] = Idle, \A b \in Actor \ {a} : act'[b] = act[b],
           NEW s \in Record, s.status # "absent", Make(s), followUp => Follows(s),
           \/ entry' = made + 1 /\ run' = [run EXCEPT ![made + 1] = "live"]
           \/ UNCHANGED <<entry, run>>,
           disk'.status # "absent", followUp => Follows(disk'),
           UNCHANGED <<cancelled, opmu, turns, clean, sentSince, followUp>>
    PROVE  Scene'
<1>. DEFINE w == made + 1
<1>1. /\ w \in Watcher /\ run[w] = "new" /\ w # 0 /\ w > made /\ made' = w
      /\ st'[w] = s /\ \A v \in Watcher \ {w} : st'[v] = st[v]
  BY MadeIsNew DEF Make, IInv, TypeOK
<1>2. \A v \in Watcher : run[v] # "live"
  BY HolderAlone DEF Watcher
<1>. HIDE DEF w
<1>3. /\ \A v \in Watcher \ {w} : run'[v] = run[v]
      /\ (run'[w] = "new" /\ entry' = 0) \/ (run'[w] = "live" /\ entry' = w)
  <2>1. CASE entry' = made + 1 /\ run' = [run EXCEPT ![made + 1] = "live"]
    BY <1>1, <2>1 DEF IInv, TypeOK, w
  <2>2. CASE UNCHANGED <<entry, run>>
    BY <1>1, <2>2
  <2>. QED
    BY <2>1, <2>2
<1>4. WatcherInv'
  <2>1. \A v \in Watcher : v > made' => run'[v] = "new"
    BY <1>1, <1>3 DEF IInv, WatcherInv, w, TypeOK
  <2>2. \A v \in Watcher : run'[v] = "live" => entry' = v
    BY <1>2, <1>3
  <2>3. \A v \in Watcher : opmu'[v] # "run"
    BY <1>2 DEF IInv, WatcherInv
  <2>4. \A v \in Watcher : st'[v].status # "absent"
    BY <1>1 DEF IInv, WatcherInv
  <2>. QED
    BY <1>3, <2>1, <2>2, <2>3, <2>4 DEF WatcherInv, Live
<1>5. Places(a)'
  BY DEF Places, Idle
<1>6. ReconcileInv'
  <2>1. act'[hk].kind = "reconcile" => act[hk].kind = "reconcile" /\ act'[hk].w = act[hk].w
    BY DEF Idle, Actor
  <2>2. entry' \in {entry, 0} \/ (entry' \in Watcher /\ run[entry'] = "new")
    BY <1>1, <1>3
  <2>3. \A v \in Watcher : run'[v] = "new" => run[v] = "new"
    BY <1>1, <1>3
  <2>. QED
    BY <2>1, <2>2, <2>3, ReconcileKept DEF IInv
<1>7. FollowInv'
  <2>1. \A v \in Watcher : InHand(v)' => v = w
    BY <1>2, <1>3, OthersStay DEF Idle, Watcher
  <2>. QED
    BY <1>1, <2>1 DEF FollowInv, Follows
<1>. QED
  BY <1>4, <1>5, <1>6, <1>7, HolderScene

\* Whether the watcher is started depends on the shutdown only.
LEMMA StartedOrNot ==
    ASSUME TypeOK, NEW a \in Actor, NEW w, StartAndReturn(a, w)
    PROVE  /\ act'[a] = Idle /\ \A b \in Actor \ {a} : act'[b] = act[b]
           /\ \/ entry' = w /\ run' = [run EXCEPT ![w] = "live"]
              \/ UNCHANGED <<entry, run>>
BY DEF StartAndReturn, Return, TypeOK

\* An operation that returns, having changed nothing but the snapshot.
LEMMA WriteScene ==
    ASSUME IInv, TypeOK', NEW a \in Actor, act[a].pc \in Holding \ {"stopping"},
           act'[a] = Idle, \A b \in Actor \ {a} : act'[b] = act[b],
           UNCHANGED <<entry, watcherVars, turns, clean, sentSince, followUp>>,
           disk'.status # "absent" \/ disk' = disk, followUp => Follows(disk')
    PROVE  Scene'
<1>0. entry' = entry /\ made' = made /\ st' = st /\ run' = run /\ cancelled' = cancelled /\ opmu' = opmu
  BY DEF watcherVars
<1>1. WatcherInv'
  <2>1. \A w \in Watcher : run'[w] = "live" => entry' = w
    BY <1>0, HolderAlone
  <2>. QED
    BY <1>0, <2>1 DEF IInv, WatcherInv, Live
<1>2. Places(a)'
  BY DEF Places, Idle
<1>3. ReconcileInv'
  BY <1>0, ReconcileKept DEF IInv, Idle, Actor
<1>4. FollowInv'
  <2>1. \A w \in Watcher : InHand(w)' => InHand(w)
    BY <1>0, OthersStay DEF Idle, InHand
  <2>. QED
    BY <1>0, <2>1 DEF IInv, FollowInv, Follows
<1>. QED
  BY <1>1, <1>2, <1>3, <1>4, HolderScene

LEMMA CreateSentScene ==
    ASSUME IInv, TypeOK', NEW c \in Caller, CreateSent(c)
    PROVE  Scene'
<1>1. /\ c \in Actor /\ act[c].pc \in Holding \ {"stopping"} /\ made = 0 /\ ~disk.awaiting /\ disk.status # "absent"
      /\ UNCHANGED <<exited, cancelled, opmu, turns, clean, sentSince, followUp>>
  BY DEF CreateSent, Holding, IInv, Places, Actor, ghostVars
<1>2. entry = 0 /\ ~followUp
  BY <1>1 DEF IInv, WatcherInv, FollowInv, Follows, TypeOK, Watcher
<1>3. CASE /\ Return(c, 0) /\ UNCHANGED <<entry, run, made, st>> /\ disk' \in {disk, NewRecord}
  <2>1. act'[c] = Idle /\ \A b \in Actor \ {c} : act'[b] = act[b]
    BY <1>1, <1>3 DEF Return, IInv, TypeOK
  <2>2. disk'.status # "absent"
    BY <1>1, <1>3 DEF NewRecord, NoSnapshot
  <2>. QED
    BY <1>1, <1>2, <1>3, <2>1, <2>2, WriteScene DEF watcherVars
<1>4. CASE \E status \in {"running", "doubt"} :
               LET s == [NewRecord EXCEPT !.status = status]
               IN  Make(s) /\ StartAndReturn(c, made + 1) /\ disk' \in {disk, s}
  <2>1. PICK s : /\ s \in Record /\ s.status # "absent"
                 /\ Make(s) /\ StartAndReturn(c, made + 1) /\ disk' \in {disk, s}
    BY <1>4, NewRecordTypes DEF Status, Waiting, NewRecord, NoSnapshot
  <2>2. /\ act'[c] = Idle /\ \A b \in Actor \ {c} : act'[b] = act[b]
        /\ \/ entry' = made + 1 /\ run' = [run EXCEPT ![made + 1] = "live"]
           \/ UNCHANGED <<entry, run>>
    BY <1>1, <2>1, StartedOrNot DEF IInv
  <2>. QED
    BY <1>1, <1>2, <2>1, <2>2, MakeScene
<1>. QED
  BY <1>3, <1>4 DEF CreateSent

LEMMA WatchScene ==
    ASSUME IInv, TypeOK', NEW c \in Caller, Watch(c)
    PROVE  Scene'
<1>1. /\ c \in Actor /\ act[c].pc \in Holding \ {"stopping"}
      /\ UNCHANGED <<exited, cancelled, opmu, woken, remoteVars, ghostVars>>
  BY DEF Watch, Holding, Actor
<1>2. turns' = turns /\ clean' = clean /\ sentSince' = sentSince /\ followUp' = followUp
  BY <1>1 DEF remoteVars, ghostVars
<1>3. CASE Return(c, 0) /\ UNCHANGED <<entry, run, made, st, disk>>
  BY <1>1, <1>2, <1>3, ReturnScene DEF watcherVars
<1>4. CASE entry = 0
  <2>1. PICK info : /\ disk' = Merged(info)
                    /\ \/ Return(c, 0) /\ UNCHANGED <<entry, run, made, st>>
                       \/ Make(Merged(info)) /\ StartAndReturn(c, made + 1)
    BY <1>3, <1>4 DEF Watch
  <2>2. PICK s : s = Merged(info)
    OBVIOUS
  <2>3. s \in Record /\ s.status # "absent" /\ (disk.awaiting => s.awaiting /\ s.turn = disk.turn)
    BY <2>2, MergedTypes, MergedKeeps DEF IInv, TypeOK
  <2>4. followUp => Follows(s)
    BY <2>3 DEF IInv, FollowInv, Follows
  <2>5. followUp => Follows(disk')
    BY <2>1, <2>2, <2>4
  <2>6. CASE Return(c, 0) /\ UNCHANGED <<entry, run, made, st>>
    <3>1. act'[c] = Idle /\ \A b \in Actor \ {c} : act'[b] = act[b]
      BY <1>1, <2>6 DEF Return, IInv, TypeOK
    <3>. QED
      BY <1>1, <1>2, <2>1, <2>2, <2>3, <2>5, <2>6, <3>1, WriteScene DEF watcherVars
  <2>7. CASE Make(s) /\ StartAndReturn(c, made + 1)
    <3>1. /\ act'[c] = Idle /\ \A b \in Actor \ {c} : act'[b] = act[b]
          /\ \/ entry' = made + 1 /\ run' = [run EXCEPT ![made + 1] = "live"]
             \/ UNCHANGED <<entry, run>>
      BY <1>1, <2>7, StartedOrNot DEF IInv
    <3>. QED
      BY <1>1, <1>2, <1>4, <2>1, <2>2, <2>3, <2>4, <2>5, <2>7, <3>1, MakeScene
  <2>. QED
    BY <2>1, <2>2, <2>6, <2>7
<1>. QED
  BY <1>3, <1>4 DEF Watch

LEMMA RestoreScene == ASSUME IInv, TypeOK', Restore PROVE Scene'
<1>1. /\ boot \in Actor /\ act[boot].pc \in Holding \ {"stopping"}
      /\ UNCHANGED <<exited, cancelled, opmu, disk, woken, remoteVars, ghostVars>>
  BY DEF Restore, Holding, Actor
<1>2. turns' = turns /\ clean' = clean /\ sentSince' = sentSince /\ followUp' = followUp
  BY <1>1 DEF remoteVars, ghostVars
<1>3. CASE Return(boot, 0) /\ UNCHANGED <<entry, run, made, st>>
  BY <1>1, <1>2, <1>3, ReturnScene DEF watcherVars
<1>4. CASE /\ entry = 0 /\ Restored(disk).status # "absent"
           /\ Make(Restored(disk)) /\ StartAndReturn(boot, made + 1)
  <2>1. PICK s : s = Restored(disk)
    OBVIOUS
  <2>2. s \in Record /\ s.awaiting = disk.awaiting /\ s.turn = disk.turn
    BY <2>1, RecordTypes, RestoredKeeps DEF IInv, TypeOK
  <2>3. followUp => Follows(s)
    BY <2>2 DEF IInv, FollowInv, Follows
  <2>4. disk.status # "absent"
    BY <1>4 DEF Restored, IInv, WatcherInv, NoSnapshot
  <2>5. /\ act'[boot] = Idle /\ \A b \in Actor \ {boot} : act'[b] = act[b]
        /\ \/ entry' = made + 1 /\ run' = [run EXCEPT ![made + 1] = "live"]
           \/ UNCHANGED <<entry, run>>
    BY <1>1, <1>4, StartedOrNot DEF IInv
  <2>6. followUp => Follows(disk')
    BY <1>1, <1>2 DEF IInv, FollowInv, Follows
  <2>. QED
    BY <1>1, <1>2, <1>4, <2>1, <2>2, <2>3, <2>4, <2>5, <2>6, MakeScene
<1>. QED
  BY <1>3, <1>4 DEF Restore

LEMMA SendScene ==
    ASSUME IInv, TypeOK', NEW c \in Caller, Send(c)
    PROVE  Scene'
<1>1. /\ c \in Actor /\ c # hk /\ act[c].pc \in Holding \ {"stopping"}
      /\ \A b \in Actor \ {c} : act'[b] = act[b]
      /\ (entry = 0 /\ act'[c].pc = "revive")
           \/ (entry # 0 /\ act'[c].pc \in {"join", "opmu"} /\ act'[c].w = entry)
  BY ManagerAssumption DEF Send, Goto, Holding, IInv, TypeOK, Actor
<1>2. /\ entry' = entry /\ made' = made /\ st' = st /\ run' = run /\ opmu' = opmu /\ disk' = disk /\ turns' = turns
      /\ clean' = clean /\ sentSince' = sentSince /\ followUp' = followUp
  BY DEF Send, remoteVars, ghostVars
<1>3. WatcherInv'
  <2>1. \A w \in Watcher : run'[w] = "live" => entry' = w
    BY <1>1, <1>2, HolderAlone
  <2>. QED
    BY <1>2, <2>1 DEF IInv, WatcherInv, Live
<1>4. Places(c)'
  BY <1>1, <1>2 DEF Places
<1>5. ReconcileInv'
  BY <1>1, <1>2, ReconcileKept DEF IInv, Actor
<1>6. FollowInv'
  <2>1. \A w \in Watcher : InHand(w)' => InHand(w)
    BY <1>1, <1>2, OthersStay DEF InHand
  <2>. QED
    BY <1>2, <2>1 DEF IInv, FollowInv, Follows
<1>. QED
  BY <1>1, <1>3, <1>4, <1>5, <1>6, HolderScene

LEMMA EnterOpMuScene ==
    ASSUME IInv, TypeOK', NEW c \in Caller, EnterOpMu(c)
    PROVE  Scene'
<1>0. /\ c \in Actor /\ c # hk /\ act[c].pc = "opmu" /\ act[c].pc \in Holding \ {"stopping"}
  BY ManagerAssumption DEF EnterOpMu, Holding, Actor
<1>1. PICK w : w = act[c].w
  OBVIOUS
<1>2. /\ w \in Watcher /\ entry = w /\ w # 0 /\ run[w] # "new" /\ st[w] \in Record /\ opmu[w] = none
  BY <1>0, <1>1 DEF EnterOpMu, IInv, Places, TypeOK, WatcherInv
<1>3. \A v \in Watcher : run[v] = "live" => v = w
  BY <1>0, <1>2, HolderAlone
<1>4. /\ entry' = entry /\ made' = made /\ run' = run /\ turns' = turns /\ sentSince' = sentSince
  BY DEF EnterOpMu, remoteVars
<1>5. followUp => Follows(disk) /\ Follows(st[w])
  BY <1>2 DEF IInv, FollowInv, InHand
<1>6. CASE Goto(c, "join") /\ UNCHANGED <<st, opmu, disk, clean, followUp>>
  <2>1. /\ \A b \in Actor \ {c} : act'[b] = act[b]
        /\ act'[c].pc = "join" /\ act'[c].w = w
    BY <1>0, <1>1, <1>6 DEF Goto, IInv, TypeOK
  <2>2. WatcherInv'
    BY <1>2, <1>3, <1>4, <1>6 DEF IInv, WatcherInv, Live
  <2>3. Places(c)'
    BY <1>2, <1>4, <2>1 DEF Places
  <2>4. ReconcileInv'
    BY <1>0, <1>4, <1>6, <2>1, ReconcileKept DEF IInv, Actor
  <2>5. FollowInv'
    <3>1. \A v \in Watcher : InHand(v)' => InHand(v)
      BY <1>0, <1>4, <2>1, OthersStay DEF InHand
    <3>. QED
      BY <1>4, <1>6, <3>1 DEF IInv, FollowInv, Follows
  <2>. QED
    BY <1>0, <2>1, <2>2, <2>3, <2>4, <2>5, HolderScene
<1>7. CASE /\ Return(c, 0) /\ UNCHANGED <<cancelled, opmu, disk>>
           /\ \/ UNCHANGED <<st, clean, followUp>>
              \/ /\ Touch(w) /\ followUp' = (followUp /\ Sending(st[w]).awaiting)
                 /\ st' = [st EXCEPT ![w] = [Sending(st[w]) EXCEPT !.sending = FALSE]]
  <2>1. act'[c] = Idle /\ \A b \in Actor \ {c} : act'[b] = act[b]
    BY <1>0, <1>7 DEF Return, IInv, TypeOK
  <2>2. /\ \A v \in Watcher \ {w} : st'[v] = st[v]
        /\ st'[w].status = st[w].status /\ (followUp' => followUp /\ Follows(st'[w])) /\ (clean' => clean)
    <3>1. CASE UNCHANGED <<st, clean, followUp>>
      BY <1>5, <3>1
    <3>2. CASE /\ Touch(w) /\ followUp' = (followUp /\ Sending(st[w]).awaiting)
               /\ st' = [st EXCEPT ![w] = [Sending(st[w]) EXCEPT !.sending = FALSE]]
      <4>1. Sending(st[w]) \in Record /\ Sending(st[w]).turn = st[w].turn /\ Sending(st[w]).status = st[w].status
        BY <1>2, RecordTypes, SendingKeeps
      <4>2. st'[w] = [Sending(st[w]) EXCEPT !.sending = FALSE] /\ \A v \in Watcher \ {w} : st'[v] = st[v]
        BY <1>2, <3>2 DEF IInv, TypeOK
      <4>3. st'[w].turn = st[w].turn /\ st'[w].status = st[w].status /\ st'[w].awaiting = Sending(st[w]).awaiting
        BY <4>1, <4>2 DEF Record
      <4>. QED
        BY <1>5, <3>2, <4>2, <4>3 DEF Follows, Touch
    <3>. QED
      BY <1>7, <3>1, <3>2
  <2>3. WatcherInv'
    <3>1. \A v \in Watcher : st'[v].status # "absent"
      BY <2>2 DEF IInv, WatcherInv
    <3>. QED
      BY <1>2, <1>3, <1>4, <1>7, <3>1 DEF IInv, WatcherInv, Live
  <2>4. Places(c)'
    BY <2>1 DEF Places, Idle
  <2>5. ReconcileInv'
    BY <1>0, <1>4, <2>1, <2>2, ReconcileKept DEF IInv, Actor
  <2>6. FollowInv'
    <3>1. \A v \in Watcher : InHand(v)' => v = w
      BY <1>0, <1>2, <1>3, <1>4, <2>1, OthersStay DEF Idle
    <3>. QED
      BY <1>4, <1>5, <1>7, <2>2, <3>1 DEF FollowInv, Follows
  <2>. QED
    BY <1>0, <2>1, <2>3, <2>4, <2>5, <2>6, HolderScene
<1>8. CASE Intend(c, w, st[w]) /\ UNCHANGED cancelled
  <2>1. PICK s : s = Sending(st[w])
    OBVIOUS
  <2>2. s \in Record /\ s.turn = st[w].turn /\ s.status = st[w].status
    BY <1>2, <2>1, RecordTypes, SendingKeeps
  <2>3. /\ opmu' = [opmu EXCEPT ![w] = c] /\ st' = [st EXCEPT ![w] = s] /\ disk' = s
        /\ followUp' = (followUp /\ s.awaiting) /\ act' = [act EXCEPT ![c].pc = "wire", ![c].w = w] /\ Touch(w)
    BY <1>8, <2>1 DEF Intend
  <2>4. /\ \A b \in Actor \ {c} : act'[b] = act[b]
        /\ act'[c].pc = "wire" /\ act'[c].w = w
    BY <1>0, <2>3 DEF IInv, TypeOK
  <2>5. /\ st'[w] = s /\ opmu'[w] = c
        /\ \A v \in Watcher \ {w} : st'[v] = st[v] /\ opmu'[v] = opmu[v]
    BY <1>2, <2>3 DEF IInv, TypeOK
  <2>6. s.status # "absent"
    BY <1>2, <2>2 DEF IInv, WatcherInv
  <2>7. WatcherInv'
    <3>1. \A v \in Watcher : st'[v].status # "absent"
      BY <2>5, <2>6 DEF IInv, WatcherInv
    <3>2. \A v \in Watcher : opmu'[v] = "run" => run'[v] = "live"
      BY <1>0, <1>4, <2>5, StrangeNames DEF IInv, WatcherInv
    <3>. QED
      BY <1>2, <1>3, <1>4, <2>3, <2>6, <3>1, <3>2 DEF IInv, WatcherInv, Live
  <2>8. Places(c)'
    <3>1. w <= made
      BY <1>2 DEF IInv, WatcherInv, TypeOK, Watcher
    <3>. QED
      BY <1>2, <1>4, <2>3, <2>4, <2>5, <3>1 DEF Places
  <2>9. ReconcileInv'
    BY <1>0, <1>4, <2>3, <2>4, ReconcileKept DEF IInv, Actor, Touch
  <2>10. FollowInv'
    <3>1. \A v \in Watcher : InHand(v)' => v = w
      BY <1>0, <1>2, <1>3, <1>4, <2>4, OthersStay
    <3>. QED
      BY <1>4, <1>5, <2>2, <2>3, <2>5, <3>1 DEF FollowInv, Follows
  <2>. QED
    BY <1>0, <2>4, <2>7, <2>8, <2>9, <2>10, HolderScene
<1>. QED
  BY <1>1, <1>6, <1>7, <1>8 DEF EnterOpMu

LEMMA JoinScene ==
    ASSUME IInv, TypeOK', NEW c \in Caller, Join(c)
    PROVE  Scene'
<1>1. /\ c \in Actor /\ c # hk /\ act[c].pc = "join" /\ act[c].pc \in Holding \ {"stopping"}
      /\ \A b \in Actor \ {c} : act'[b] = act[b]
      /\ act'[c].pc = "revive"
  BY ManagerAssumption DEF Join, Goto, Holding, IInv, TypeOK, Actor
<1>2. /\ entry' = 0 /\ made' = made /\ st' = st /\ run' = run /\ opmu' = opmu /\ disk' = disk /\ turns' = turns
      /\ clean' = clean /\ sentSince' = sentSince /\ followUp' = followUp
  BY DEF Join, watcherVars, remoteVars, ghostVars
<1>3. \A w \in Watcher : run[w] # "live"
  BY <1>1, HolderAlone DEF Join, IInv, Places
<1>4. WatcherInv'
  BY <1>2, <1>3 DEF IInv, WatcherInv, Live
<1>5. Places(c)'
  BY <1>1, <1>2 DEF Places
<1>6. ReconcileInv'
  BY <1>1, <1>2, ReconcileKept DEF IInv, Actor
<1>7. FollowInv'
  <2>1. \A w \in Watcher : ~InHand(w)'
    BY <1>1, <1>2, <1>3, OthersStay, StrangeNames
  <2>. QED
    BY <1>2, <2>1 DEF IInv, FollowInv, Follows
<1>. QED
  BY <1>1, <1>4, <1>5, <1>6, <1>7, HolderScene

LEMMA ReviveScene ==
    ASSUME IInv, TypeOK', NEW c \in Caller, Revive(c)
    PROVE  Scene'
<1>0. /\ c \in Actor /\ c # hk /\ act[c].pc = "revive" /\ act[c].pc \in Holding \ {"stopping"} /\ entry = 0
      /\ turns' = turns /\ sentSince' = sentSince /\ cancelled' = cancelled
  BY ManagerAssumption DEF Revive, Holding, Actor, IInv, Places, remoteVars
<1>1. PICK s : s = Restored(disk)
  OBVIOUS
<1>2. s \in Record /\ s.awaiting = disk.awaiting /\ s.turn = disk.turn
  BY <1>1, RecordTypes, RestoredKeeps DEF IInv, TypeOK
<1>3. followUp => Follows(disk) /\ Follows(s)
  BY <1>2 DEF IInv, FollowInv, Follows
<1>4. CASE Return(c, 0) /\ UNCHANGED <<entry, run, made, st, opmu, disk, clean, followUp>>
  <2>1. act'[c] = Idle /\ \A b \in Actor \ {c} : act'[b] = act[b]
    BY <1>0, <1>4 DEF Return, IInv, TypeOK
  <2>2. followUp => Follows(disk')
    BY <1>0, <1>3, <1>4 DEF Follows
  <2>. QED
    BY <1>0, <1>4, <2>1, <2>2, WriteScene DEF watcherVars, Revive
<1>5. CASE /\ disk # NoSnapshot /\ Make(s) /\ UNCHANGED <<opmu, disk, clean, followUp>>
           /\ StartAndReturn(c, made + 1) \/ (Return(c, 0) /\ UNCHANGED <<entry, run>>)
  <2>1. /\ act'[c] = Idle /\ \A b \in Actor \ {c} : act'[b] = act[b]
        /\ \/ entry' = made + 1 /\ run' = [run EXCEPT ![made + 1] = "live"]
           \/ UNCHANGED <<entry, run>>
    BY <1>0, <1>5, StartedOrNot DEF IInv, Return, TypeOK
  <2>2. disk.status # "absent" /\ s.status # "absent"
    BY <1>1, <1>5, RestoredKeeps DEF IInv, WatcherInv, TypeOK
  <2>3. followUp => Follows(disk')
    BY <1>0, <1>3, <1>5 DEF Follows
  <2>. QED
    BY <1>0, <1>2, <1>3, <1>5, <2>1, <2>2, <2>3, MakeScene
<1>6. CASE /\ disk # NoSnapshot /\ made < MaxWatchers /\ made' = made + 1 /\ Intend(c, made + 1, s)
           /\ UNCHANGED <<entry, run>>
  <2>0. PICK w : w = made + 1
    OBVIOUS
  <2>1. PICK r : r = Sending(s)
    OBVIOUS
  <2>2. r \in Record /\ r.turn = s.turn /\ r.status = s.status
    BY <1>2, <2>1, RecordTypes, SendingKeeps
  <2>3. /\ opmu' = [opmu EXCEPT ![w] = c] /\ st' = [st EXCEPT ![w] = r] /\ disk' = r
        /\ followUp' = (followUp /\ r.awaiting) /\ act' = [act EXCEPT ![c].pc = "wire", ![c].w = w] /\ Touch(w)
    BY <1>6, <2>0, <2>1 DEF Intend
  <2>4. /\ \A b \in Actor \ {c} : act'[b] = act[b]
        /\ act'[c].pc = "wire" /\ act'[c].w = w
    BY <1>0, <2>3 DEF IInv, TypeOK
  <2>5. w \in Watcher /\ run[w] = "new" /\ w # 0 /\ w > made
    BY <1>6, <2>0, MadeIsNew DEF IInv, TypeOK
  <2>6. /\ st'[w] = r /\ opmu'[w] = c
        /\ \A v \in Watcher \ {w} : st'[v] = st[v] /\ opmu'[v] = opmu[v]
    BY <2>3, <2>5 DEF IInv, TypeOK
  <2>7. r.status # "absent"
    <3>1. disk.status # "absent"
      BY <1>6 DEF IInv, WatcherInv
    <3>. QED
      BY <1>1, <2>2, <3>1, RestoredKeeps DEF IInv, TypeOK
  <2>8. \A v \in Watcher : run[v] # "live"
    BY <1>0, HolderAlone, StrangeNames
  <2>9. WatcherInv'
    <3>1. \A v \in Watcher : st'[v].status # "absent"
      BY <2>6, <2>7 DEF IInv, WatcherInv
    <3>2. \A v \in Watcher : opmu'[v] # "run"
      BY <1>0, <2>6, <2>8, StrangeNames DEF IInv, WatcherInv
    <3>3. \A v \in Watcher : v > made' => run'[v] = "new"
      BY <1>6 DEF IInv, WatcherInv, TypeOK, Watcher
    <3>. QED
      BY <1>0, <1>6, <2>3, <2>7, <2>8, <3>1, <3>2, <3>3 DEF WatcherInv, Live
  <2>10. Places(c)'
    <3>1. w <= made' /\ entry' = 0 /\ run'[w] = "new" /\ opmu'[w] = c /\ disk' = st'[w]
      BY <1>0, <1>6, <2>0, <2>3, <2>5, <2>6 DEF IInv, TypeOK
    <3>. QED
      BY <2>4, <2>5, <3>1 DEF Places
  <2>11. ReconcileInv'
    BY <1>0, <1>6, <2>3, <2>4, ReconcileKept DEF IInv, Actor, Touch
  <2>12. FollowInv'
    <3>1. \A v \in Watcher : InHand(v)' => v = w
      BY <1>0, <1>6, <2>4, <2>8, OthersStay, StrangeNames
    <3>. QED
      BY <1>0, <1>3, <2>2, <2>3, <2>6, <3>1 DEF FollowInv, Follows
  <2>. QED
    BY <1>0, <2>4, <2>9, <2>10, <2>11, <2>12, HolderScene
<1>. QED
  BY <1>1, <1>4, <1>5, <1>6 DEF Revive

LEMMA WireScene ==
    ASSUME IInv, TypeOK', NEW c \in Caller, Wire(c)
    PROVE  Scene'
<1>0. /\ c \in Actor /\ c # hk /\ act[c].pc = "wire" /\ act[c].pc \in Holding \ {"stopping"}
      /\ turns' = turns /\ disk' = disk /\ cancelled' = cancelled /\ entry' = entry /\ made' = made /\ run' = run
      /\ opmu' = opmu
  BY ManagerAssumption DEF Wire, Holding, Actor
<1>1. PICK w : w = act[c].w
  OBVIOUS
<1>2. /\ w \in Watcher /\ w # 0 /\ entry = (IF run[w] = "new" THEN 0 ELSE w) /\ disk = st[w] /\ st[w] \in Record
      /\ w <= made
  BY <1>0, <1>1 DEF IInv, Places, TypeOK
<1>3. /\ \A b \in Actor \ {c} : act'[b] = act[b]
      /\ act'[c].pc = "release" /\ act'[c].w = w
  BY <1>0, <1>1 DEF Wire, Goto, IInv, TypeOK
<1>4. \A v \in Watcher : run[v] = "live" => v = w
  BY <1>0, <1>2, HolderAlone, StrangeNames
<1>5. PICK x \in Status : st' = [st EXCEPT ![w].status = x, ![w].sending = FALSE]
  <2>1. st[w].status \in Status
    BY <1>2 DEF Record, IInv, WatcherInv
  <2>2. \E x \in {"running", "doubt", st[w].status} : st' = [st EXCEPT ![w].status = x, ![w].sending = FALSE]
    BY <1>1 DEF Wire
  <2>. QED
    BY <2>1, <2>2 DEF Status, Waiting
<1>6. /\ st'[w].status # "absent" /\ st'[w].awaiting = st[w].awaiting /\ st'[w].turn = st[w].turn
      /\ \A v \in Watcher \ {w} : st'[v] = st[v]
  <2>1. st'[w] = [st[w] EXCEPT !.status = x, !.sending = FALSE] /\ \A v \in Watcher \ {w} : st'[v] = st[v]
    BY <1>2, <1>5 DEF IInv, TypeOK
  <2>2. x # "absent"
    BY DEF Status, Waiting, Terminal
  <2>3. st'[w].status = x /\ st'[w].awaiting = st[w].awaiting /\ st'[w].turn = st[w].turn
    BY <1>2, <2>1 DEF Record
  <2>. QED
    BY <2>1, <2>2, <2>3
<1>7. followUp' => Follows(st[w])
  <2>1. followUp => Follows(st[w])
    BY <1>2 DEF IInv, FollowInv
  <2>2. followUp' => followUp \/ Follows(st[w])
    BY <1>1 DEF Wire, Follows
  <2>. QED
    BY <2>1, <2>2
<1>8. WatcherInv'
  <2>1. \A v \in Watcher : st'[v].status # "absent"
    BY <1>6 DEF IInv, WatcherInv
  <2>2. \A v \in Watcher : run'[v] = "live" => entry' = v
    BY <1>0, HolderAlone
  <2>. QED
    BY <1>0, <2>1, <2>2 DEF IInv, WatcherInv, Live
<1>9. Places(c)'
  BY <1>0, <1>2, <1>3 DEF Places
<1>10. ReconcileInv'
  <2>1. clean' => clean /\ act[hk].w # w
    BY <1>1 DEF Wire, Touch
  <2>2. act'[hk] = act[hk]
    BY <1>0, <1>3 DEF Actor
  <2>3. act[hk].kind = "reconcile" => act[hk].w # 0 /\ run[act[hk].w] # "new"
    BY DEF IInv, ReconcileInv
  <2>4. entry = 0 \/ entry = w
    BY <1>2
  <2>. QED
    BY <1>0, <2>1, <2>2, <2>3, <2>4 DEF ReconcileInv
<1>11. FollowInv'
  <2>1. \A v \in Watcher : InHand(v)' => v = w
    BY <1>0, <1>2, <1>3, <1>4, OthersStay, StrangeNames
  <2>. QED
    BY <1>0, <1>2, <1>6, <1>7, <2>1 DEF FollowInv, Follows
<1>. QED
  BY <1>0, <1>3, <1>8, <1>9, <1>10, <1>11, HolderScene

LEMMA SendReturnsScene ==
    ASSUME IInv, TypeOK', NEW c \in Caller, SendReturns(c)
    PROVE  Scene'
<1>0. /\ c \in Actor /\ c # hk /\ act[c].pc = "release" /\ act[c].pc \in Holding \ {"stopping"}
      /\ turns' = turns /\ made' = made /\ st' = st /\ cancelled' = cancelled
      /\ clean' = clean /\ sentSince' = sentSince /\ followUp' = followUp
  BY ManagerAssumption DEF SendReturns, Holding, Actor, remoteVars, ghostVars
<1>1. PICK w : w = act[c].w
  OBVIOUS
<1>2. /\ w \in Watcher /\ w # 0 /\ entry = (IF run[w] = "new" THEN 0 ELSE w) /\ disk' \in {disk, st[w]}
      /\ opmu' = [opmu EXCEPT ![w] = none]
  BY <1>0, <1>1 DEF IInv, Places, TypeOK, SendReturns
<1>3. /\ act'[c] = Idle /\ \A b \in Actor \ {c} : act'[b] = act[b]
      /\ \/ run[w] = "new" /\ entry' = w /\ run' = [run EXCEPT ![w] = "live"]
         \/ UNCHANGED <<entry, run>>
  BY <1>0, <1>1 DEF SendReturns, StartAndReturn, Return, IInv, TypeOK
<1>4. \A v \in Watcher : run[v] = "live" => v = w /\ entry = w
  BY <1>0, <1>2, HolderAlone, StrangeNames
<1>5. \A v \in Watcher : run'[v] = "live" => v = w /\ entry' = w
  BY <1>2, <1>3, <1>4 DEF IInv, TypeOK
<1>6. \A v \in Watcher : run'[v] = "new" => run[v] = "new"
  BY <1>2, <1>3 DEF IInv, TypeOK
<1>7. disk'.status # "absent" \/ disk' = disk
  BY <1>2 DEF IInv, WatcherInv
<1>8. WatcherInv'
  <2>1. \A v \in Watcher : v > made' => run'[v] = "new"
    <3>1. w <= made
      BY <1>0, <1>1 DEF IInv, Places
    <3>2. \A v \in Watcher \ {w} : run'[v] = run[v]
      BY <1>2, <1>3 DEF IInv, TypeOK
    <3>3. ~(w > made)
      BY <3>1, <1>2 DEF IInv, TypeOK, Watcher
    <3>. QED
      BY <1>0, <3>2, <3>3 DEF IInv, WatcherInv
  <2>2. entry' # 0 => run'[entry'] # "new"
    BY <1>2, <1>3 DEF IInv, WatcherInv, TypeOK
  <2>3. \A v \in Watcher : opmu'[v] = "run" => run'[v] = "live"
    <3>1. \A v \in Watcher \ {w} : opmu'[v] = opmu[v]
      BY <1>2 DEF IInv, TypeOK
    <3>2. opmu'[w] = none
      BY <1>2 DEF IInv, TypeOK
    <3>3. \A v \in Watcher : run[v] = "live" => run'[v] = "live"
      BY <1>2, <1>3 DEF IInv, TypeOK
    <3>. QED
      BY <3>1, <3>2, <3>3, StrangeNames DEF IInv, WatcherInv
  <2>. QED
    BY <1>0, <1>2, <1>5, <1>7, <2>1, <2>2, <2>3 DEF IInv, WatcherInv, Live
<1>9. Places(c)'
  BY <1>3 DEF Places, Idle
<1>10. ReconcileInv'
  <2>1. entry' \in {entry, 0} \/ (entry' \in Watcher /\ run[entry'] = "new")
    BY <1>2, <1>3
  <2>. QED
    BY <1>0, <1>3, <1>6, <2>1, ReconcileKept DEF IInv, Actor
<1>11. FollowInv'
  <2>1. \A v \in Watcher : InHand(v)' => v = w
    BY <1>0, <1>2, <1>3, <1>5, OthersStay, StrangeNames DEF Idle
  <2>2. followUp => Follows(disk) /\ Follows(st[w])
    BY <1>0, <1>1, <1>2 DEF IInv, FollowInv, InHand
  <2>. QED
    BY <1>0, <1>2, <2>1, <2>2 DEF FollowInv, Follows
<1>. QED
  BY <1>0, <1>3, <1>8, <1>9, <1>10, <1>11, HolderScene

LEMMA StopScene ==
    ASSUME IInv, TypeOK', NEW c \in Caller, Stop(c)
    PROVE  Scene'
<1>0. /\ c \in Actor /\ c # hk /\ act[c].pc = "locked" /\ act[c].pc \in Holding \ {"stopping"}
      /\ turns' = turns /\ made' = made /\ st' = st /\ run' = run /\ exited' = exited /\ opmu' = opmu /\ disk' = disk
      /\ clean' = clean /\ sentSince' = sentSince /\ followUp' = followUp /\ ops' = ops
  BY ManagerAssumption DEF Stop, Holding, Actor, remoteVars, ghostVars
<1>1. CASE entry = 0
  BY <1>0, <1>1, ReturnScene DEF Stop, watcherVars, ghostVars
<1>2. CASE entry # 0
  <2>1. PICK w \in Watcher : w = entry
    BY <1>2 DEF IInv, TypeOK
  <2>2. /\ act'[c].pc = "stopping" /\ act'[c].w = w /\ \A b \in Actor \ {c} : act'[b] = act[b]
        /\ entry' = 0 /\ cancelled'[w] /\ w # 0
    BY <1>0, <1>2, <2>1 DEF Stop, IInv, TypeOK
  <2>3. \A v \in Watcher : run[v] = "live" => v = w
    BY <1>0, <2>1, HolderAlone
  <2>4. WatcherInv'
    BY <1>0, <2>2, <2>3 DEF IInv, WatcherInv, Live
  <2>5. Places(c)'
    BY <2>2 DEF Places
  <2>6. ReconcileInv'
    BY <1>0, <2>2, ReconcileKept DEF IInv, Actor
  <2>7. FollowInv'
    <3>1. \A v \in Watcher : InHand(v)' => InHand(v)
      BY <1>0, <2>2, OthersStay, StrangeNames DEF InHand
    <3>. QED
      BY <1>0, <3>1 DEF IInv, FollowInv, Follows
  <2>. QED
    BY <1>0, <2>2, <2>4, <2>5, <2>6, <2>7, HolderScene
<1>. QED
  BY <1>1, <1>2

\* The calls that wait, and those that return, leave the watchers alone.
LEMMA WaitScene ==
    ASSUME IInv, TypeOK', NEW c \in Caller, Stopped(c) \/ Grab(c) \/ ReadStatus(c) \/ Select(c) \/ WaitWakes(c) \/ WaitTimesOut(c)
    PROVE  Scene'
<1>0. c \in Actor /\ c # hk /\ hk \in Actor
  BY ManagerAssumption DEF Actor
<1>1. /\ UNCHANGED <<entry, watcherVars, disk, turns, clean, sentSince, followUp, run>>
      /\ act[c].pc = "stopping" => run[act[c].w] = "done"
      /\ \A b \in Actor \ {c} : act'[b] = act[b]
      /\ act'[c] = Idle \/ act'[c].pc \in {"read", "select", "sleep", "grab"}
  BY <1>0 DEF Stopped, Grab, ReadStatus, Select, WaitWakes, WaitTimesOut, Return, Goto, watcherVars, remoteVars,
              ghostVars, IInv, TypeOK
<1>2. ReconcileInv'
  BY <1>0, <1>1, ReconcileKept DEF IInv
<1>. QED
  BY <1>0, <1>1, <1>2, StillScene

LEMMA HousekeepScene ==
    ASSUME IInv, TypeOK', Housekeep
    PROVE  Scene'
<1>0. hk \in Actor
  BY DEF Actor
<1>1. CASE Describe
  <2>1. /\ UNCHANGED <<entry, watcherVars, disk, turns, clean, sentSince, followUp, run>>
        /\ act[hk].pc # "stopping"
        /\ \A b \in Actor \ {hk} : act'[b] = act[b]
        /\ act'[hk] = Idle \/ (act'[hk].pc = "queue" /\ act'[hk].kind = act[hk].kind /\ act'[hk].w = act[hk].w)
    BY <1>0, <1>1 DEF Describe, Return, Goto, watcherVars, remoteVars, ghostVars, IInv, TypeOK
  <2>2. ReconcileInv'
    BY <1>0, <2>1, ReconcileKept DEF IInv, Idle
  <2>. QED
    BY <1>0, <2>1, <2>2, StillScene
<1>2. CASE Reconcile
  <2>0. PICK w : w = act[hk].w
    OBVIOUS
  <2>1. /\ act[hk].pc \in Holding \ {"stopping"} /\ act[hk].kind = "reconcile" /\ w \in Watcher /\ w # 0 /\ run[w] # "new"
        /\ entry' = entry /\ made' = made /\ run' = run /\ cancelled' = cancelled /\ disk' = disk /\ turns' = turns
        /\ sentSince' = sentSince /\ followUp' = followUp
    BY <1>0, <1>2, <2>0 DEF Reconcile, Holding, IInv, ReconcileInv, TypeOK, remoteVars
  <2>2. CASE Return(hk, 0) /\ UNCHANGED <<st, opmu, clean>>
    <3>1. act'[hk] = Idle /\ \A b \in Actor \ {hk} : act'[b] = act[b]
      BY <1>0, <2>2 DEF Return, IInv, TypeOK
    <3>2. followUp => Follows(disk')
      BY <2>1 DEF IInv, FollowInv, Follows
    <3>3. UNCHANGED watcherVars
      BY <1>2, <2>1, <2>2 DEF Reconcile, watcherVars
    <3>. QED
      BY <1>0, <2>1, <2>2, <3>1, <3>2, <3>3, WriteScene
  <2>3. CASE /\ entry = w /\ opmu[w] = none /\ MayEnd(w) /\ st' = [st EXCEPT ![w].status = "completed"]
             /\ opmu' = [opmu EXCEPT ![w] = hk] /\ Touch(w) /\ Goto(hk, "release")
    <3>1. /\ act'[hk].pc = "release" /\ act'[hk].w = w /\ act'[hk].kind = act[hk].kind
          /\ \A b \in Actor \ {hk} : act'[b] = act[b]
      BY <1>0, <2>0, <2>3 DEF Goto, IInv, TypeOK
    <3>2. /\ st'[w].status = "completed" /\ opmu'[w] = hk
          /\ \A v \in Watcher \ {w} : st'[v] = st[v] /\ opmu'[v] = opmu[v]
      BY <2>1, <2>3 DEF IInv, TypeOK, Record
    <3>3. \A v \in Watcher : run[v] = "live" => entry = v
      BY <1>0, <2>1, HolderAlone
    <3>4. WatcherInv'
      <4>1. \A v \in Watcher : st'[v].status # "absent"
        BY <3>2 DEF IInv, WatcherInv
      <4>2. \A v \in Watcher : opmu'[v] = "run" => run'[v] = "live"
        BY <1>0, <2>1, <3>2, StrangeNames DEF IInv, WatcherInv
      <4>. QED
        BY <2>1, <3>3, <4>1, <4>2 DEF IInv, WatcherInv, Live
    <3>5. Places(hk)'
      <4>1. w <= made
        BY <2>1 DEF IInv, WatcherInv, TypeOK, Watcher
      <4>. QED
        BY <2>1, <2>3, <3>1, <4>1 DEF Places
    <3>6. ReconcileInv'
      BY <1>0, <2>0, <2>1, <2>3, <3>1, ReconcileKept DEF IInv, Touch
    <3>7. FollowInv'
      <4>1. ~followUp
        BY <2>1, <2>3 DEF IInv, FollowInv, InHand, Follows, MayEnd
      <4>. QED
        BY <2>1, <4>1 DEF FollowInv
    <3>. QED
      BY <1>0, <2>1, <3>1, <3>4, <3>5, <3>6, <3>7, HolderScene
  <2>. QED
    BY <1>2, <2>0, <2>2, <2>3 DEF Reconcile
<1>3. CASE ReconcileReleases
  <2>0. PICK w : w = act[hk].w
    OBVIOUS
  <2>1. /\ act[hk].pc = "release" /\ act[hk].pc \in Holding \ {"stopping"} /\ w \in Watcher /\ w # 0
        /\ entry' = entry /\ made' = made /\ run' = run /\ st' = st /\ turns' = turns
        /\ clean' = clean /\ sentSince' = sentSince /\ followUp' = followUp
        /\ disk' \in {disk, st[w]} /\ opmu' = [opmu EXCEPT ![w] = none]
    BY <1>0, <1>3, <2>0 DEF ReconcileReleases, Holding, IInv, Places, TypeOK, remoteVars, ghostVars
  <2>2. /\ act'[hk].pc = "ending" /\ act'[hk].w = w /\ act'[hk].kind = act[hk].kind
        /\ \A b \in Actor \ {hk} : act'[b] = act[b]
    BY <1>0, <1>3, <2>0 DEF ReconcileReleases, Goto, IInv, TypeOK
  <2>3. \A v \in Watcher : run[v] = "live" => entry = v
    BY <1>0, <2>1, HolderAlone
  <2>4. \A v \in Watcher : opmu'[v] = "run" => run'[v] = "live"
    <3>1. opmu'[w] = none /\ \A v \in Watcher \ {w} : opmu'[v] = opmu[v]
      BY <2>1 DEF IInv, TypeOK
    <3>. QED
      BY <2>1, <3>1, StrangeNames DEF IInv, WatcherInv
  <2>5. WatcherInv'
    <3>1. disk' = disk \/ disk'.status # "absent"
      BY <2>1 DEF IInv, WatcherInv
    <3>. QED
      BY <2>1, <2>3, <2>4, <3>1 DEF IInv, WatcherInv, Live
  <2>6. Places(hk)'
    BY <2>1, <2>2 DEF Places
  <2>7. ReconcileInv'
    BY <1>0, <2>0, <2>1, <2>2, ReconcileKept DEF IInv
  <2>8. FollowInv'
    <3>1. \A v \in Watcher : InHand(v)' => InHand(v)
      BY <1>0, <2>1, <2>2, OthersStay DEF InHand
    <3>2. followUp => Follows(disk) /\ Follows(st[w])
      BY <1>0, <2>0, <2>1 DEF IInv, FollowInv, InHand
    <3>. QED
      BY <2>1, <3>1, <3>2 DEF IInv, FollowInv, Follows
  <2>. QED
    BY <1>0, <2>1, <2>2, <2>5, <2>6, <2>7, <2>8, HolderScene
<1>4. CASE ReconcileEnds
  BY <1>0, <1>4, ReturnScene DEF ReconcileEnds, remoteVars
<1>5. CASE Remove
  <2>1. CASE Return(hk, 0) /\ UNCHANGED cancelled
    BY <1>0, <1>5, <2>1, ReturnScene DEF Remove, watcherVars, remoteVars
  <2>2. CASE /\ entry # 0 /\ st[entry].status \in {"completed", "error"}
             /\ cancelled' = [cancelled EXCEPT ![entry] = TRUE]
             /\ act' = [act EXCEPT ![hk].pc = "removing", ![hk].w = entry]
    <3>1. PICK w \in Watcher : w = entry
      BY <2>2 DEF IInv, TypeOK
    <3>2. /\ act[hk].pc \in Holding \ {"stopping"} /\ act[hk].kind = "remove"
          /\ entry' = entry /\ made' = made /\ run' = run /\ st' = st /\ turns' = turns /\ disk' = disk /\ opmu' = opmu
          /\ clean' = clean /\ sentSince' = sentSince /\ followUp' = followUp
      BY <1>5 DEF Remove, Holding, remoteVars, ghostVars
    <3>3. /\ act'[hk].pc = "removing" /\ act'[hk].w = w /\ act'[hk].kind = "remove" /\ cancelled'[w] /\ w # 0
          /\ \A b \in Actor \ {hk} : act'[b] = act[b]
      BY <1>0, <2>2, <3>1, <3>2 DEF IInv, TypeOK
    <3>4. \A v \in Watcher : run[v] = "live" => entry = v
      BY <1>0, <3>2, HolderAlone
    <3>5. WatcherInv'
      BY <3>2, <3>4 DEF IInv, WatcherInv, Live
    <3>6. Places(hk)'
      BY <2>2, <3>1, <3>2, <3>3 DEF Places
    <3>7. ReconcileInv'
      BY <3>3 DEF ReconcileInv
    <3>8. FollowInv'
      <4>1. \A v \in Watcher : InHand(v)' => InHand(v)
        BY <1>0, <3>2, <3>3, OthersStay DEF InHand
      <4>. QED
        BY <3>2, <4>1 DEF IInv, FollowInv, Follows
    <3>. QED
      BY <1>0, <3>2, <3>3, <3>5, <3>6, <3>7, <3>8, HolderScene
  <2>. QED
    BY <1>5, <2>1, <2>2 DEF Remove
<1>6. CASE Removed
  <2>1. /\ act[hk].pc = "removing" /\ act[hk].pc \in Holding \ {"stopping"} /\ run[act[hk].w] = "done" /\ entry = act[hk].w
        /\ entry' = 0 /\ made' = made /\ run' = run /\ st' = st /\ turns' = turns /\ disk' = disk /\ opmu' = opmu
        /\ cancelled' = cancelled /\ clean' = clean /\ sentSince' = sentSince /\ followUp' = followUp
    BY <1>0, <1>6 DEF Removed, Holding, IInv, Places, watcherVars, remoteVars, ghostVars
  <2>2. act'[hk] = Idle /\ \A b \in Actor \ {hk} : act'[b] = act[b]
    BY <1>0, <1>6 DEF Removed, Return, IInv, TypeOK
  <2>3. \A v \in Watcher : run[v] # "live"
    BY <1>0, <2>1, HolderAlone
  <2>4. WatcherInv'
    BY <2>1, <2>3 DEF IInv, WatcherInv, Live
  <2>5. Places(hk)'
    BY <2>2 DEF Places, Idle
  <2>6. ReconcileInv'
    BY <2>2 DEF ReconcileInv, Idle
  <2>7. FollowInv'
    <3>1. \A v \in Watcher : ~InHand(v)'
      BY <1>0, <2>1, <2>2, <2>3, OthersStay, StrangeNames DEF Idle
    <3>. QED
      BY <2>1, <3>1 DEF IInv, FollowInv, Follows
  <2>. QED
    BY <1>0, <2>1, <2>2, <2>4, <2>5, <2>6, <2>7, HolderScene
<1>. QED
  BY <1>1, <1>2, <1>3, <1>4, <1>5, <1>6 DEF Housekeep

\* A step of a watcher or of the environment: the operations stay where they are.
LEMMA ApplyScene ==
    ASSUME IInv, TypeOK', NEW w \in Watcher, Apply(w)
    PROVE  Scene'
<1>1. /\ run[w] = "live" /\ ~cancelled[w] /\ opmu[w] = none
      /\ act' = act /\ entry' = entry /\ made' = made /\ run' = run /\ cancelled' = cancelled /\ disk' = disk
      /\ turns' = turns /\ sentSince' = sentSince /\ followUp' = followUp /\ (clean' => clean)
      /\ opmu' = [opmu EXCEPT ![w] = "run"]
  BY DEF Apply, Listening, Touch, remoteVars
<1>2. /\ opmu'[w] = "run" /\ \A v \in Watcher \ {w} : opmu'[v] = opmu[v]
  BY <1>1 DEF IInv, TypeOK
<1>3. st[w] \in Record /\ \A v \in Watcher \ {w} : st'[v] = st[v]
  BY DEF Apply, IInv, TypeOK
<1>4. st'[w].status # "absent" /\ (Follows(st[w]) => Follows(st'[w]))
  <2>1. CASE st[w].turn < turns /\ st' = [st EXCEPT ![w] = [NewRecord EXCEPT !.turn = st[w].turn + 1]]
    <3>1. st'[w] = [NewRecord EXCEPT !.turn = st[w].turn + 1]
      BY <2>1 DEF IInv, TypeOK
    <3>2. st'[w].status = "running"
      BY <3>1 DEF NewRecord, NoSnapshot
    <3>3. ~Follows(st[w])
      BY <2>1 DEF Follows, IInv, TypeOK, Record
    <3>. QED
      BY <3>2, <3>3
  <2>2. CASE ~st[w].awaiting /\ \E x \in Terminal \cup {"waiting", "report"} : st' = [st EXCEPT ![w].status = x]
    <3>1. PICK x \in Terminal \cup {"waiting", "report"} : st' = [st EXCEPT ![w].status = x]
      BY <2>2
    <3>2. st'[w] = [st[w] EXCEPT !.status = x]
      BY <3>1 DEF IInv, TypeOK
    <3>3. st'[w].status # "absent"
      BY <1>3, <3>2 DEF Record, Terminal
    <3>. QED
      BY <2>2, <3>3 DEF Follows
  <2>3. CASE st' = [st EXCEPT ![w].status = "error"]
    <3>1. st'[w] = [st[w] EXCEPT !.status = "error"]
      BY <2>3 DEF IInv, TypeOK
    <3>. QED
      BY <1>1, <1>3, <3>1 DEF Record, Follows
  <2>. QED
    BY <2>1, <2>2, <2>3 DEF Apply
<1>5. WatcherInv'
  <2>1. \A v \in Watcher : st'[v].status # "absent"
    BY <1>3, <1>4 DEF IInv, WatcherInv
  <2>2. \A v \in Watcher : opmu'[v] = "run" => run'[v] = "live"
    BY <1>1, <1>2 DEF IInv, WatcherInv
  <2>. QED
    BY <1>1, <2>1, <2>2 DEF IInv, WatcherInv, Live
<1>6. \A a \in Actor : Places(a)'
  <2>. TAKE a \in Actor
  <2>1. act[a].w \in Watcher \cup {0}
    BY DEF IInv, TypeOK
  <2>2. act[a].pc = "wire" => act[a].w \in Watcher \ {w}
    BY <1>1, <2>1, StrangeNames DEF IInv, Places
  <2>3. act[a].pc = "removing" => act[a].w \in Watcher \ {w}
    BY <1>1, <2>1 DEF IInv, Places
  <2>. QED
    BY <1>1, <1>2, <1>3, <2>2, <2>3 DEF IInv, Places
<1>7. ReconcileInv'
  BY <1>1, ReconcileKept DEF IInv
<1>8. FollowInv'
  <2>1. \A v \in Watcher : InHand(v)' => InHand(v)
    BY <1>1 DEF InHand
  <2>2. InHand(w)
    BY <1>1 DEF InHand
  <2>3. followUp => \A v \in Watcher : InHand(v) => Follows(st'[v])
    BY <1>3, <1>4, <2>2 DEF IInv, FollowInv
  <2>. QED
    BY <1>1, <2>1, <2>3 DEF IInv, FollowInv, Follows
<1>. QED
  BY <1>5, <1>6, <1>7, <1>8 DEF Scene

LEMMA AppliedScene ==
    ASSUME IInv, TypeOK', NEW w \in Watcher, Applied(w)
    PROVE  Scene'
<1>1. /\ opmu[w] = "run" /\ run[w] = "live"
      /\ act' = act /\ entry' = entry /\ made' = made /\ run' = run /\ cancelled' = cancelled /\ st' = st
      /\ turns' = turns /\ sentSince' = sentSince /\ followUp' = followUp /\ clean' = clean
      /\ opmu' = [opmu EXCEPT ![w] = none] /\ disk' \in {disk, st[w]}
  BY DEF Applied, IInv, WatcherInv, remoteVars, ghostVars
<1>2. /\ opmu'[w] = none /\ \A v \in Watcher \ {w} : opmu'[v] = opmu[v]
  BY <1>1 DEF IInv, TypeOK
<1>3. disk' = disk \/ disk'.status # "absent"
  BY <1>1 DEF IInv, WatcherInv
<1>4. WatcherInv'
  <2>1. \A v \in Watcher : opmu'[v] = "run" => run'[v] = "live"
    BY <1>1, <1>2, StrangeNames DEF IInv, WatcherInv
  <2>. QED
    BY <1>1, <1>3, <2>1 DEF IInv, WatcherInv, Live
<1>5. \A a \in Actor : act[a].pc \notin {"wire", "creating"}
  <2>. TAKE a \in Actor
  <2>1. ASSUME act[a].pc = "wire" PROVE FALSE
    <3>1. entry = w
      BY <1>1, <2>1, HolderAlone DEF Holding
    <3>2. act[a].w = w /\ opmu[w] = a
      BY <2>1, <3>1, StrangeNames DEF IInv, Places
    <3>. QED
      BY <1>1, <3>2, StrangeNames
  <2>2. ASSUME act[a].pc = "creating" PROVE FALSE
    <3>1. made = 0 /\ w > 0
      BY <2>2 DEF IInv, Places, Watcher
    <3>. QED
      BY <1>1, <3>1 DEF IInv, WatcherInv
  <2>. QED
    BY <2>1, <2>2
<1>6. \A a \in Actor : Places(a)'
  BY <1>1, <1>5 DEF IInv, Places
<1>7. ReconcileInv'
  BY <1>1, ReconcileKept DEF IInv
<1>8. FollowInv'
  <2>1. \A v \in Watcher : InHand(v)' => InHand(v)
    BY <1>1 DEF InHand
  <2>2. followUp => Follows(disk) /\ Follows(st[w])
    BY <1>1 DEF IInv, FollowInv, InHand
  <2>. QED
    BY <1>1, <2>1, <2>2 DEF IInv, FollowInv, Follows
<1>. QED
  BY <1>4, <1>6, <1>7, <1>8 DEF Scene

LEMMA RunReturnsScene ==
    ASSUME IInv, TypeOK', NEW w \in Watcher, RunReturns(w)
    PROVE  Scene'
<1>1. /\ run[w] = "live" /\ opmu[w] = none /\ run' = [run EXCEPT ![w] = "done"]
      /\ act' = act /\ entry' = entry /\ made' = made /\ cancelled' = cancelled /\ st' = st
      /\ turns' = turns /\ sentSince' = sentSince /\ followUp' = followUp /\ clean' = clean
      /\ opmu' = opmu /\ disk' = disk
  BY DEF RunReturns, remoteVars, ghostVars
<1>2. /\ run'[w] = "done" /\ \A v \in Watcher \ {w} : run'[v] = run[v]
  BY <1>1 DEF IInv, TypeOK
<1>3. \A v \in Watcher : (run'[v] = "new" <=> run[v] = "new") /\ (run'[v] = "live" => run[v] = "live")
  BY <1>1, <1>2
<1>4. WatcherInv'
  <2>1. \A v \in Watcher : opmu'[v] = "run" => run'[v] = "live"
    BY <1>1, <1>2, StrangeNames DEF IInv, WatcherInv
  <2>2. entry' # 0 => run'[entry'] # "new"
    BY <1>1, <1>3 DEF IInv, WatcherInv, TypeOK
  <2>3. \A v \in Watcher : v > made' => run'[v] = "new"
    BY <1>1, <1>3 DEF IInv, WatcherInv
  <2>4. \A v \in Watcher : run'[v] = "live" => entry' = v \/ \E a \in Actor : act'[a].pc = "stopping" /\ act'[a].w = v
    BY <1>1, <1>3 DEF IInv, WatcherInv, Live
  <2>. QED
    BY <1>1, <2>1, <2>2, <2>3, <2>4 DEF IInv, WatcherInv, Live
<1>5. \A a \in Actor : Places(a)'
  <2>. TAKE a \in Actor
  <2>1. act[a].w \in Watcher \cup {0}
    BY DEF IInv, TypeOK
  <2>2. act[a].pc \in {"wire", "release"} => act[a].w \in Watcher
    BY <2>1 DEF IInv, Places
  <2>. QED
    BY <1>1, <1>3, <2>2 DEF IInv, Places
<1>6. ReconcileInv'
  BY <1>1, <1>3, ReconcileKept DEF IInv
<1>7. FollowInv'
  <2>1. \A v \in Watcher : InHand(v)' => InHand(v)
    BY <1>1, <1>3 DEF InHand
  <2>. QED
    BY <1>1, <2>1 DEF IInv, FollowInv, Follows
<1>. QED
  BY <1>4, <1>5, <1>6, <1>7 DEF Scene

\* When no work is left nothing is held, and the watchers are forgotten.
LEMMA CloseEndsScene == ASSUME IInv, TypeOK', CloseEnds PROVE Scene'
<1>1. /\ \A a \in Actor : act[a].pc = "idle" /\ act[a] = Idle
      /\ \A w \in Watcher : run[w] # "live"
  BY NoWork DEF CloseEnds, IInv, Busy, Live, Places
<1>2. /\ entry' = 0 /\ act' = act /\ made' = made /\ run' = run /\ cancelled' = cancelled /\ st' = st
      /\ turns' = turns /\ followUp' = followUp /\ opmu' = opmu /\ disk' = disk
  BY DEF CloseEnds, watcherVars, remoteVars, ghostVars
<1>3. WatcherInv'
  BY <1>1, <1>2 DEF IInv, WatcherInv, Live
<1>4. \A a \in Actor : Places(a)'
  BY <1>1, <1>2 DEF Places, Idle
<1>5. ReconcileInv'
  BY <1>1, <1>2 DEF ReconcileInv, Idle, Actor
<1>6. FollowInv'
  <2>1. \A w \in Watcher : ~InHand(w)'
    BY <1>1, <1>2, StrangeNames DEF InHand
  <2>. QED
    BY <1>2, <2>1 DEF IInv, FollowInv, Follows
<1>. QED
  BY <1>3, <1>4, <1>5, <1>6 DEF Scene

LEMMA BeginScene ==
    ASSUME IInv, TypeOK', \/ \E c \in Caller : CallBegins(c) \/ WaitBegins(c)
                          \/ ReconcileBegins \/ RemoveBegins
    PROVE  Scene'
<1>1. PICK a \in Actor, kind \in Kinds \cup {"reconcile", "remove"}, pc \in {"queue", "grab", "describe"}, w \in Watcher \cup {0} :
         /\ Begin(a, kind, pc, w) /\ UNCHANGED <<entry, watcherVars, disk, turns, followUp>>
         /\ \/ a # hk /\ UNCHANGED <<clean, sentSince>>
            \/ a = hk /\ kind = "reconcile" /\ w = entry /\ entry # 0 /\ sentSince' = FALSE
            \/ a = hk /\ kind = "remove"
  <2>1. ASSUME NEW c \in Caller, CallBegins(c) \/ WaitBegins(c)
        PROVE  \E kind \in Kinds, pc \in {"queue", "grab", "describe"}, w \in Watcher \cup {0} :
                  /\ Begin(c, kind, pc, w) /\ UNCHANGED <<entry, watcherVars, disk, turns, followUp, clean, sentSince>>
    BY <2>1 DEF CallBegins, WaitBegins, IInv, TypeOK, remoteVars
  <2>2. \A c \in Caller : c \in Actor /\ c # hk
    BY ManagerAssumption DEF Actor
  <2>3. ASSUME ReconcileBegins
        PROVE  /\ Begin(hk, "reconcile", "describe", entry) /\ UNCHANGED <<entry, watcherVars, disk, turns, followUp>>
               /\ entry # 0 /\ entry \in Watcher \cup {0} /\ sentSince' = FALSE
    BY <2>3 DEF ReconcileBegins, IInv, TypeOK, remoteVars
  <2>4. ASSUME RemoveBegins
        PROVE  Begin(hk, "remove", "queue", 0) /\ UNCHANGED <<entry, watcherVars, disk, turns, followUp>>
    BY <2>4 DEF RemoveBegins, remoteVars
  <2>5. hk \in Actor
    BY DEF Actor
  <2>6. CASE \E c \in Caller : CallBegins(c) \/ WaitBegins(c)
    BY <2>1, <2>2, <2>6
  <2>7. CASE ReconcileBegins
    BY <2>3, <2>5, <2>7
  <2>8. CASE RemoveBegins
    BY <2>4, <2>5, <2>8
  <2>. QED
    BY <2>6, <2>7, <2>8
<1>2. /\ act[a].pc = "idle" /\ \A b \in Actor \ {a} : act'[b] = act[b]
      /\ act'[a].pc = pc /\ act'[a].kind = kind /\ act'[a].w = w
  BY <1>1 DEF Begin, IInv, TypeOK
<1>3. hk \in Actor /\ run' = run /\ entry' = entry
  BY <1>1 DEF Actor, watcherVars
<1>4. ReconcileInv'
  <2>1. CASE a # hk /\ UNCHANGED <<clean, sentSince>>
    BY <1>2, <1>3, <2>1, ReconcileKept DEF IInv
  <2>2. CASE a = hk /\ kind = "reconcile" /\ w = entry /\ entry # 0 /\ sentSince' = FALSE
    BY <1>2, <1>3, <2>2 DEF IInv, WatcherInv, ReconcileInv
  <2>3. CASE a = hk /\ kind = "remove"
    BY <1>2, <2>3 DEF ReconcileInv
  <2>. QED
    BY <1>1, <2>1, <2>2, <2>3
<1>. QED
  BY <1>1, <1>2, <1>3, <1>4, StillScene

\* Whoever pins the lock object or takes it has found nothing yet.
LEMMA LocksScene ==
    ASSUME IInv, TypeOK', NEW a \in Actor, Locks(a)
    PROVE  Scene'
<1>1. CASE Abandon(a)
  BY <1>1, ReturnScene DEF Abandon, remoteVars
<1>2. CASE Pin(a) \/ Acquire(a)
  <2>1. /\ act'[a].pc \in {"queue", "locked"} /\ act'[a].kind = act[a].kind /\ act'[a].w = act[a].w
        /\ act[a].pc = "queue"
        /\ \A b \in Actor \ {a} : act'[b] = act[b]
    BY <1>2 DEF Pin, Acquire, Goto, IInv, TypeOK
  <2>2. UNCHANGED <<entry, watcherVars, run, disk, turns, clean, sentSince, followUp>>
    BY <1>2 DEF Pin, Acquire, watcherVars, remoteVars, ghostVars
  <2>3. ReconcileInv'
    BY <2>1, <2>2, ReconcileKept DEF IInv, Actor
  <2>. QED
    BY <2>1, <2>2, <2>3, StillScene
<1>. QED
  BY <1>1, <1>2 DEF Locks

LEMMA EnvironmentScene ==
    ASSUME IInv, TypeOK', Remote \/ CloseBegins
    PROVE  Scene'
<1>1. /\ UNCHANGED <<entry, watcherVars, run, disk, act, clean, sentSince>>
      /\ followUp' => followUp /\ turns' = turns
  BY DEF Remote, CloseBegins, remoteVars, ghostVars, watcherVars
<1>2. ReconcileInv'
  BY <1>1, ReconcileKept DEF IInv
<1>. QED
  BY <1>1, <1>2, StillScene

LEMMA NextScene == ASSUME IInv, Next, TypeOK' PROVE Scene'
<1>1. ASSUME NEW c \in Caller, Call(c) PROVE Scene'
  BY <1>1, CreateScene, CreateSentScene, WatchScene, SendScene, EnterOpMuScene, JoinScene, ReviveScene, WireScene,
     SendReturnsScene, StopScene, WaitScene DEF Call
<1>2. ASSUME NEW w \in Watcher, Run(w) PROVE Scene'
  BY <1>2, ApplyScene, AppliedScene, RunReturnsScene DEF Run
<1>. QED
  BY <1>1, <1>2, BeginScene, WaitScene, LocksScene, RestoreScene, HousekeepScene, EnvironmentScene, CloseEndsScene
  DEF Next

LEMMA InitInv == Init => IInv
<1>. SUFFICES ASSUME Init PROVE IInv
  OBVIOUS
<1>1. TypeOK
  BY InitType
<1>2. boot \in Actor /\ hk \in Actor /\ boot # hk /\ none \notin Object
  BY ManagerAssumption DEF Actor
<1>3. /\ act[boot].pc = "queue" /\ act[boot].obj = none /\ act[boot].kind = "restore"
      /\ \A a \in Actor \ {boot} : act[a] = Idle
  BY <1>2 DEF Init, Idle
<1>4. LockInv
  <2>1. \A o \in Object : Users(o) = {}
    BY <1>2, <1>3 DEF Users, Idle
  <2>2. \A o \in Object : refs[o] = Cardinality(Users(o))
    BY <2>1, FS_EmptySet DEF Init
  <2>. QED
    BY <1>3, <2>2 DEF Init, LockInv, Idle, Holding
<1>5. WorkInv
  <2>1. Busy = {boot} /\ Live = {}
    BY <1>2, <1>3 DEF Busy, Live, Idle, Init
  <2>2. Cardinality({boot}) = 1 /\ Cardinality({}) = 0
    BY FS_Singleton, FS_EmptySet
  <2>. QED
    BY <2>1, <2>2 DEF Init, WorkInv
<1>6. WatcherInv
  BY StrangeNames DEF Init, WatcherInv, Live, NewRecord, NoSnapshot
<1>7. \A a \in Actor : Places(a)
  BY <1>3 DEF Places, Idle
<1>8. ReconcileInv
  BY <1>2, <1>3 DEF ReconcileInv, Idle
<1>9. FollowInv
  BY DEF Init, FollowInv
<1>. QED
  BY <1>1, <1>4, <1>5, <1>6, <1>7, <1>8, <1>9 DEF IInv

LEMMA NextInv == IInv /\ [Next]_vars => IInv'
<1>. SUFFICES ASSUME IInv, [Next]_vars PROVE IInv'
  OBVIOUS
<1>1. CASE Next
  <2>1. LockInv' /\ WorkInv'
    BY <1>1, NextCounts
  <2>2. TypeOK'
    BY <1>1, NextTypes
  <2>3. Scene'
    BY <1>1, <2>2, NextScene
  <2>. QED
    BY <2>1, <2>2, <2>3 DEF IInv, Scene
<1>2. CASE UNCHANGED vars
  <2>1. /\ UNCHANGED <<lifeVars, lockVars, entry, watcherVars, disk, act, woken, remoteVars, ghostVars>>
        /\ UNCHANGED <<closed, rootOpen, work, slot, refs, holder, made, st, run, exited, cancelled, opmu>>
        /\ UNCHANGED <<remote, turns, inbox, clean, sentSince, followUp, ops>>
    BY <1>2 DEF vars, lifeVars, lockVars, watcherVars, remoteVars, ghostVars
  <2>2. TypeOK'
    BY <2>1 DEF IInv, TypeOK
  <2>3. LockInv' /\ WorkInv'
    BY <2>1, StillStep DEF IInv
  <2>4. ReconcileInv'
    BY <2>1 DEF IInv, ReconcileInv
  <2>5. Scene'
    BY <2>1, <2>2, <2>4, StillScene
  <2>. QED
    BY <2>2, <2>3, <2>5 DEF IInv, Scene
<1>. QED
  BY <1>1, <1>2

-----------------------------------------------------------------------------
(* The theorems.                                                           *)

\* What the argument rests on holds in every reachable state.
THEOREM Invariance == Spec => []IInv
BY InitInv, NextInv, PTL DEF Spec

\* Every variable keeps its type; the counts of work and of references never
\* fall below zero.
THEOREM TypeCorrect == Spec => []TypeOK
<1>1. IInv => TypeOK
  BY DEF IInv
<1>. QED
  BY <1>1, Invariance, PTL

\* Between the lock of the session and its release there is one operation at a
\* time, although the lock object comes and goes (lockSessionOperation).
THEOREM LockExcludes == Spec => []LockExclusive
<1>1. IInv => LockExclusive
  <2>. SUFFICES ASSUME IInv PROVE LockExclusive
    OBVIOUS
  <2>1. \A a \in Actor : Inside(a) => act[a].pc \in Holding
    BY DEF Inside, PC, Holding
  <2>. QED
    BY <2>1, Alone DEF IInv, LockExclusive
<1>. QED
  BY <1>1, Invariance, PTL

\* A session has at most one watcher goroutine, and the one that runs is in the
\* map or has been cancelled (Manager.watchers).
THEOREM OneWatcherRuns == Spec => []OneWatcher
<1>1. IInv => OneWatcher
  <2>. SUFFICES ASSUME IInv, NEW v \in Watcher, run[v] = "live"
                PROVE  /\ \A w \in Watcher : run[w] = "live" => v = w
                       /\ entry = v \/ cancelled[v] \/ closed
    BY DEF OneWatcher
  <2>1. CASE \E a \in Actor : act[a].pc = "stopping"
    <3>1. PICK a \in Actor : act[a].pc = "stopping"
      BY <2>1
    <3>2. entry = 0 /\ cancelled[act[a].w]
      BY <3>1 DEF IInv, Places
    <3>3. \A b \in Actor : act[b].pc = "stopping" => b = a
      BY <3>1, HolderAlone DEF Holding
    <3>4. \A w \in Watcher : run[w] = "live" => act[a].w = w
      BY <3>1, <3>2, <3>3, StrangeNames DEF IInv, WatcherInv, Live
    <3>. QED
      BY <3>2, <3>4
  <2>2. CASE ~ \E a \in Actor : act[a].pc = "stopping"
    BY <2>2 DEF IInv, WatcherInv, Live
  <2>. QED
    BY <2>1, <2>2
<1>. QED
  BY <1>1, Invariance, PTL

\* The storage root outlives everything that may use it (begin and Close).
THEOREM RootIsClosedLast == Spec => []RootOutlivesWork
<1>1. IInv => RootOutlivesWork
  BY NoWork DEF IInv, RootOutlivesWork
<1>. QED
  BY <1>1, Invariance, PTL

\* Housekeeping moves by its own steps only.
LEMMA OthersActions ==
    ASSUME IInv, Next
    PROVE  \/ act'[hk] = act[hk]
           \/ ReconcileBegins \/ RemoveBegins \/ Locks(hk) \/ Housekeep
<1>0. hk \in Actor /\ hk # boot /\ boot \in Actor /\ \A c \in Caller : c # hk /\ c \in Actor
  BY ManagerAssumption DEF Actor
<1>1. ASSUME NEW c \in Caller, CallBegins(c) \/ WaitBegins(c) \/ WaitTimesOut(c)
      PROVE  act'[hk] = act[hk]
  BY <1>0, <1>1 DEF CallBegins, WaitBegins, WaitTimesOut, Begin, Return, IInv, TypeOK
<1>2. ASSUME NEW c \in Caller, Call(c)
      PROVE  act'[hk] = act[hk]
  <2>1. CASE Create(c) \/ Send(c) \/ Join(c) \/ Wire(c) \/ Stop(c) \/ Stopped(c)
    BY <1>0, <2>1 DEF Create, Send, Join, Wire, Stop, Stopped, Goto, Return, IInv, TypeOK
  <2>2. CASE CreateSent(c) \/ Watch(c) \/ SendReturns(c)
    BY <1>0, <2>2 DEF CreateSent, Watch, SendReturns, StartAndReturn, Return, IInv, TypeOK
  <2>3. CASE EnterOpMu(c)
    BY <1>0, <2>3 DEF EnterOpMu, Intend, Goto, Return, IInv, TypeOK
  <2>4. CASE Revive(c)
    BY <1>0, <2>4 DEF Revive, Intend, StartAndReturn, Return, IInv, TypeOK
  <2>5. CASE Grab(c) \/ ReadStatus(c) \/ Select(c) \/ WaitWakes(c)
    BY <1>0, <2>5 DEF Grab, ReadStatus, Select, WaitWakes, Goto, Return, IInv, TypeOK
  <2>. QED
    BY <1>2, <2>1, <2>2, <2>3, <2>4, <2>5 DEF Call
<1>3. ASSUME NEW a \in Actor, Locks(a), a # hk
      PROVE  act'[hk] = act[hk]
  BY <1>0, <1>3 DEF Locks, Pin, Acquire, Abandon, Goto, Return, IInv, TypeOK
<1>4. CASE Restore
  BY <1>0, <1>4 DEF Restore, StartAndReturn, Return, IInv, TypeOK
<1>5. ASSUME NEW w \in Watcher, Run(w)
      PROVE  act'[hk] = act[hk]
  BY <1>5 DEF Run, Apply, Applied, RunReturns
<1>6. CASE Remote \/ CloseBegins \/ CloseEnds
  BY <1>6 DEF Remote, CloseBegins, CloseEnds
<1>. QED
  BY <1>1, <1>2, <1>3, <1>4, <1>5, <1>6 DEF Next

\* Housekeeping ends no session to which a message was delivered since it asked the
\* remote, nor one whose follow-up was taken and not begun (reconcileWithServer).
THEOREM HousekeepingIsRespectful == Spec => HousekeepingRespectsSends
<1>1. IInv /\ [Next]_vars =>
        [(act[hk].pc = "locked" /\ act'[hk].pc = "release") => ~sentSince /\ ~followUp]_vars
  <2>. SUFFICES ASSUME IInv, Next, act[hk].pc = "locked", act'[hk].pc = "release"
                PROVE  ~sentSince /\ ~followUp
    OBVIOUS
  <2>0. hk \in Actor
    BY DEF Actor
  <2>1. Reconcile
    BY <2>0, OthersActions
    DEF Locks, Pin, Acquire, Abandon, ReconcileBegins, RemoveBegins, Begin, Housekeep, Describe, ReconcileReleases,
        ReconcileEnds, Remove, Removed, Return, Idle, IInv, TypeOK
  <2>2. PICK w : w = act[hk].w
    OBVIOUS
  <2>3. act[hk].kind = "reconcile" /\ entry = w /\ MayEnd(w)
    BY <2>0, <2>1, <2>2 DEF Reconcile, Return, Idle, IInv, TypeOK
  <2>4. ~sentSince
    BY <2>2, <2>3 DEF IInv, ReconcileInv, MayEnd
  <2>5. w \in Watcher /\ InHand(w)
    BY <2>0, <2>2, <2>3 DEF IInv, ReconcileInv, TypeOK, InHand
  <2>6. ~followUp
    BY <2>3, <2>5 DEF IInv, FollowInv, Follows, MayEnd
  <2>. QED
    BY <2>4, <2>6
<1>. QED
  BY <1>1, Invariance, PTL DEF Spec, HousekeepingRespectsSends

\* Housekeeping removes only a session that has ended, also when the session was
\* revived while it waited for the lock (removeEntry).
THEOREM OnlyTheEndedAreRemoved == Spec => OnlyEndedRemoved
<1>1. IInv /\ [Next]_vars =>
        [(act[hk].kind = "remove" /\ act'[hk].pc = "idle" /\ entry' # entry)
           => st[entry].status \in {"completed", "error"}]_vars
  <2>. SUFFICES ASSUME IInv, Next, act[hk].kind = "remove", act'[hk].pc = "idle", entry' # entry
                PROVE  st[entry].status \in {"completed", "error"}
    OBVIOUS
  <2>0. hk \in Actor
    BY DEF Actor
  <2>1. act[hk].pc # "idle"
    BY <2>0 DEF IInv, Places, Idle
  <2>2. Removed
    BY <2>0, <2>1, OthersActions
    DEF Locks, Pin, Acquire, Abandon, ReconcileBegins, RemoveBegins, Housekeep, Describe, Reconcile, ReconcileReleases,
        ReconcileEnds, Remove
  <2>. QED
    BY <2>0, <2>2 DEF Removed, IInv, Places
<1>. QED
  BY <1>1, Invariance, PTL DEF Spec, OnlyEndedRemoved
=============================================================================
