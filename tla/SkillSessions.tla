--------------------------- MODULE SkillSessions ---------------------------
(***************************************************************************)
(* The session managers of the skill (data_agent/session.py).  A program   *)
(* asks for a session, one it knows or a new one; the manager describes    *)
(* it, creates it, waits until it is ready and remembers it.  The tasks of *)
(* an asynchronous program share one manager, and each await lets the      *)
(* others run.  A program is where it stands (pc) and what it has in hand; *)
(* programs of the modules built on this one use the same record.          *)
(***************************************************************************)
EXTENDS SkillClient

CONSTANT MaxPolls       \* bound: how often a state is asked for before the time is up

ASSUME SessionsAssumption == MaxPolls \in Nat \ {0} /\ none \notin SessionStatus

VARIABLE active         \* _active_sessions of the manager

Final == {"off", "done", "failed"}

\* The program goes on with another operation, or without one.
Call(p, pc, op, arg) ==
    /\ prog' = [prog EXCEPT ![p].pc = pc]
    /\ call' = [call EXCEPT ![p] = NewCall(op, arg, "home")]

Goto(p, pc) == prog' = [prog EXCEPT ![p].pc = pc] /\ UNCHANGED call

At(p, pc) == prog[p].pc = pc /\ (Over(p) \/ call[p].stage = "none")

ProgramOnly == UNCHANGED <<clientVars, status, told, faults>>

\* describe_session: an error in the body reads as a session that is being created.
Described(p) == IF call[p].answer = "ok" THEN normalize_session_status(call[p].got) ELSE "CREATING"

\* create_session, by what its answer said of the agent.
Created(p) == IF <<call[p].got, "RUNNING">> \in told[p] THEN "RUNNING" ELSE "CREATING"

-----------------------------------------------------------------------------

\* The session is remembered and handed out.
Keep(p, s) ==
    /\ active' = active \cup {s}
    /\ prog' = [prog EXCEPT ![p].pc = "handed", ![p].ses = s]
    /\ UNCHANGED call

Fail(p) == Goto(p, "failed") /\ UNCHANGED active

\* create_or_reuse.  A session that was last used 30 minutes ago is not active.
Ask(p) ==
    LET s == prog[p].asked
    IN  /\ At(p, "ask")
        /\ \/ s # none /\ s \in active /\ Call(p, "check", DescribeSession, s)
           \/ s # none /\ Call(p, "validate", DescribeSession, s)
           \/ s = none /\ Call(p, "create", CreateSession, none)
        /\ UNCHANGED active

\* BUG: trust what is remembered.
IsSessionActiveCached(p) == prog[p].asked \in active

\* is_session_active: an error means no.
IsSessionActive(p) == Returned(p) /\ is_running(Described(p))

Checked(p) ==
    LET s == prog[p].asked
    IN  /\ At(p, "check")
        /\ IF IsSessionActive(p)
           THEN prog' = [prog EXCEPT ![p].pc = "handed", ![p].ses = s] /\ UNCHANGED call
           ELSE Call(p, "validate", DescribeSession, s)
        /\ UNCHANGED active

\* The synchronous manager hands out the session that was asked for, or fails.
Validated(p) ==
    LET s == prog[p].asked
        st == Described(p)
    IN  /\ At(p, "validate") /\ prog[p].kind # "reuse_async"
        /\ \/ Returned(p) /\ st = "CREATING" /\ prog[p].wait
              /\ Call(p, "poll", DescribeSession, s) /\ UNCHANGED active
           \/ Returned(p) /\ (is_running(st) \/ ~prog[p].wait) /\ Keep(p, s)
           \/ /\ Raised(p) \/ (~is_running(st) /\ prog[p].wait /\ st # "CREATING")
              /\ Fail(p)

\* The asynchronous one creates another if that one is not ready or cannot be
\* described.
ValidatedAsync(p) ==
    LET ready == Returned(p) /\ is_running(Described(p))
    IN  /\ At(p, "validate") /\ prog[p].kind = "reuse_async"
        /\ \/ ready /\ Keep(p, prog[p].asked)
           \/ ~ready /\ Call(p, "create", CreateSession, none) /\ UNCHANGED active

NewSession(p) ==
    LET s == call[p].got
        wait == prog[p].wait /\ ~is_running(Created(p))
    IN  /\ At(p, "create")
        /\ \/ Raised(p) /\ Fail(p)
           \/ Returned(p) /\ ~wait /\ Keep(p, s)
           \/ Returned(p) /\ wait /\ Call(p, "poll", DescribeSession, s) /\ UNCHANGED active

\* BUG: never look at the time.
TimeLeftAlways(p) == TRUE

\* Another round before max_wait, or the timeout of a command, is over.
TimeLeft(p) == prog[p].count < MaxPolls

\* wait_until_running: until the time is up, or the session cannot get ready.
Waited(p) ==
    LET s == call[p].arg
        st == Described(p)
    IN  /\ At(p, "poll")
        /\ \/ Returned(p) /\ is_running(st) /\ Keep(p, s)
           \/ (Raised(p) \/ st \in {"FAILED", "STOPPED"}) /\ Fail(p)
           \/ /\ Returned(p) /\ st = "CREATING" /\ TimeLeft(p)
              /\ prog' = [prog EXCEPT ![p].count = IF @ < MaxPolls THEN @ + 1 ELSE @]
              /\ call' = [call EXCEPT ![p] = NewCall(DescribeSession, s, "home")]
              /\ UNCHANGED active
           \/ Returned(p) /\ st = "CREATING" /\ Fail(p)

\* refresh_session: what was remembered before the answer is overwritten after it.
Refresh(p) ==
    /\ \/ At(p, "refresh") /\ prog[p].asked \in active
          /\ Call(p, "refreshed", DescribeSession, prog[p].asked) /\ UNCHANGED active
       \/ At(p, "refresh") /\ prog[p].asked \notin active /\ Fail(p)
       \/ At(p, "refreshed") /\ Returned(p) /\ Goto(p, "done") /\ active' = active \cup {prog[p].asked}
       \/ At(p, "refreshed") /\ Raised(p) /\ Fail(p)

\* remove_session
Forget(p) ==
    /\ At(p, "forget") /\ Goto(p, "done")
    /\ active' = active \ {prog[p].asked}

SessionStep(p) ==
    /\ \/ Ask(p) \/ Checked(p) \/ Validated(p) \/ ValidatedAsync(p)
       \/ NewSession(p) \/ Waited(p) \/ Refresh(p) \/ Forget(p)
    /\ ProgramOnly
=============================================================================
