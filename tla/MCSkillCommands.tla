-------------------------- MODULE MCSkillCommands --------------------------
(* SkillCommands for TLC: one command alone, or two tasks of one program.  *)
EXTENDS SkillCommands

CONSTANTS p1, p2, s1, s2

Commands == {"agent_list", "agent_describe", "agent_create", "agent_update", "agent_publish", "import",
             "release", "ls", "ls_tables", "workspace", "status", "reports", "attach", "upload",
             "cancel", "send", "send_legacy", "db", "file", "session", "delete", "library"}

\* Given a session, it is s1; and send_legacy is then send.
Foreground == {g \in Alone(p1, Commands) :
                /\ g[p1].asked # s2
                /\ g[p1].kind = "send_legacy" => g[p1].asked = none}

Both(k1, k2) == {[p \in Proc |-> IF p = p1 THEN b1 ELSE b2] : b1 \in Beginning(k1), b2 \in Beginning(k2)}

\* Tasks that share a session manager: one creates a session and does not wait for
\* it, another asks for that session.  And tasks for two regions; others do not meet.
Managers == {g \in UNION {Both("reuse_async", k) : k \in {"reuse_async", "refresh", "forget"}} :
                /\ g[p1].asked = none /\ ~g[p1].wait
                /\ g[p2].asked = s1 /\ (g[p2].kind = "reuse_async" => g[p2].wait)}
Regions  == Both("import", "import")

Run(auth_, overridden, stati, faults_, programs) ==
    {[auth |-> auth_, override |-> o, status |-> st, faults |-> faults_, prog |-> g] :
        o \in overridden, st \in stati, g \in programs}

MCInstance ==
    Run("default_credential_chain", {FALSE}, {"absent", "creating", "idle"}, 0, Foreground)
    \cup Run("default_credential_chain", {TRUE}, {"idle"}, 0, Foreground)
    \cup Run("api_key", {FALSE}, {"absent", "creating", "idle"}, 0, Foreground)
    \cup Run("default_credential_chain", {TRUE}, {"absent", "idle"}, 1, Managers)
    \cup Run("default_credential_chain", {FALSE}, {"absent"}, 1, Regions)
=============================================================================
