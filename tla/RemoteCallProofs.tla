-------------------------- MODULE RemoteCallProofs --------------------------
(***************************************************************************)
(* What RemoteCall allows keeps its Promise, for any callers and however   *)
(* often a call that may be repeated acts.                                 *)
(***************************************************************************)
EXTENDS RemoteCall, TLAPS

\* Promise, and that the variables are functions of the caller.
PromiseInv ==
    /\ phase = [c \in Caller |-> phase[c]] /\ once = [c \in Caller |-> once[c]]
    /\ sure = [c \in Caller |-> sure[c]] /\ acts \in [Caller -> Nat]
    /\ Promise

LEMMA PromiseNext == PromiseInv /\ [Next]_vars => PromiseInv'
<1>. SUFFICES ASSUME PromiseInv, [Next]_vars PROVE PromiseInv'
  OBVIOUS
<1>1. ASSUME NEW c \in Caller, Begin(c) PROVE PromiseInv'
  <2>1. PICK o, s \in BOOLEAN : once' = [once EXCEPT ![c] = o] /\ sure' = [sure EXCEPT ![c] = s]
    BY <1>1 DEF Begin
  <2>2. phase' = [phase EXCEPT ![c] = "active"] /\ acts' = [acts EXCEPT ![c] = 0]
    BY <1>1 DEF Begin
  <2>3. phase'[c] = "active" /\ acts'[c] = 0 /\ \A b \in Caller : b # c =>
          phase'[b] = phase[b] /\ once'[b] = once[b] /\ sure'[b] = sure[b] /\ acts'[b] = acts[b]
    BY <2>1, <2>2 DEF PromiseInv
  <2>4. Promise'
    BY <2>3 DEF PromiseInv, Promise
  <2>. QED
    BY <2>1, <2>2, <2>4 DEF PromiseInv
<1>2. ASSUME NEW c \in Caller, Act(c) PROVE PromiseInv'
  <2>1. acts[c] \in Nat /\ (once[c] => acts[c] < 1) /\ acts' = [acts EXCEPT ![c] = acts[c] + 1]
    BY <1>2 DEF Act, PromiseInv
  <2>2. acts' \in [Caller -> Nat]
    BY <2>1 DEF PromiseInv
  <2>3. \A b \in Caller : acts'[b] = IF b = c THEN acts[c] + 1 ELSE acts[b]
    BY <2>1 DEF PromiseInv
  <2>4. UNCHANGED <<phase, once, sure>>
    BY <1>2 DEF Act
  <2>. QED
    BY <2>1, <2>2, <2>3, <2>4 DEF PromiseInv, Promise
<1>3. ASSUME NEW c \in Caller, Succeed(c) PROVE PromiseInv'
  BY <1>3 DEF Succeed, PromiseInv, Promise
<1>4. ASSUME NEW c \in Caller, Fail(c) PROVE PromiseInv'
  BY <1>4 DEF Fail, PromiseInv, Promise
<1>5. CASE UNCHANGED vars
  BY <1>5 DEF vars, PromiseInv, Promise
<1>. QED
  BY <1>1, <1>2, <1>3, <1>4, <1>5 DEF Next

\* No call that is made once acts twice, and none that is confirmed succeeds without
\* having acted (the retries and tokens of client.py, seen from the caller).
THEOREM PromiseKept == Spec => []Promise
<1>1. Init => PromiseInv
  BY DEF Init, PromiseInv, Promise
<1>2. PromiseInv => Promise
  BY DEF PromiseInv
<1>. QED
  BY <1>1, <1>2, PromiseNext, PTL DEF Spec
=============================================================================
