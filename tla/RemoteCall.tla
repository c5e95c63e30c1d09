----------------------------- MODULE RemoteCall -----------------------------
(***************************************************************************)
(* What the skill's client library promises of a call to the service,      *)
(* whatever the network loses and however often the library tries again:   *)
(* a call that is made once acts at most once, and a call whose success is *)
(* confirmed has acted when it succeeds.  A call that fails may have acted,*)
(* and may still act after its failure is known.                           *)
(***************************************************************************)
EXTENDS Naturals

CONSTANTS
    Caller,     \* who calls the service
    MaxActs     \* how often a call that may be repeated can act at most

VARIABLES
    phase,      \* the last call of each caller
    once,       \* it acts at most once
    sure,       \* it has acted when it succeeds
    acts        \* how often it has acted

vars == <<phase, once, sure, acts>>

TypeOK ==
    /\ phase \in [Caller -> {"idle", "active", "succeeded", "failed"}]
    /\ once \in [Caller -> BOOLEAN] /\ sure \in [Caller -> BOOLEAN]
    /\ acts \in [Caller -> 0..MaxActs]

Init ==
    /\ phase = [c \in Caller |-> "idle"]
    /\ once = [c \in Caller |-> FALSE] /\ sure = [c \in Caller |-> FALSE]
    /\ acts = [c \in Caller |-> 0]

Begin(c) ==
    /\ phase[c] # "active"
    /\ phase' = [phase EXCEPT ![c] = "active"]
    /\ \E o, s \in BOOLEAN :
        /\ once' = [once EXCEPT ![c] = o]
        /\ sure' = [sure EXCEPT ![c] = s]
    /\ acts' = [acts EXCEPT ![c] = 0]

\* A request of the call takes effect: while the caller waits, or too late.
Act(c) ==
    /\ phase[c] \in {"active", "failed"}
    /\ acts[c] < IF once[c] THEN 1 ELSE MaxActs
    /\ acts' = [acts EXCEPT ![c] = @ + 1]
    /\ UNCHANGED <<phase, once, sure>>

Succeed(c) ==
    /\ phase[c] = "active" /\ (sure[c] => acts[c] > 0)
    /\ phase' = [phase EXCEPT ![c] = "succeeded"]
    /\ UNCHANGED <<once, sure, acts>>

Fail(c) ==
    /\ phase[c] = "active"
    /\ phase' = [phase EXCEPT ![c] = "failed"]
    /\ UNCHANGED <<once, sure, acts>>

Next == \E c \in Caller : Begin(c) \/ Act(c) \/ Succeed(c) \/ Fail(c)

Spec == Init /\ [][Next]_vars

\* The promise in terms of the state: no call that is made once acts twice, and
\* none that is confirmed succeeds without having acted.
Promise ==
    \A c \in Caller :
        /\ once[c] => acts[c] <= 1
        /\ phase[c] = "succeeded" /\ sure[c] => acts[c] > 0
=============================================================================
