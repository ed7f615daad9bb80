-------------------------- MODULE MCSandboxStartup --------------------------
(* TLC instances of SandboxStartup. *)
EXTENDS SandboxStartup, TLC

Env(o, a, c, h, s, b) == [others |-> o, alike |-> a, crashes |-> c, hasty |-> h, stale |-> s, block |-> b]

\* Conflicts and a crash, with impatient scripts and with a blocked network; and a quiet
\* start beside other sandboxes or after an earlier run.
MCEnvironments ==
    {Env(1, FALSE, 1, FALSE, FALSE, b) : b \in BOOLEAN} \cup
    {Env(2, FALSE, 0, FALSE, FALSE, FALSE), Env(1, TRUE, 0, TRUE, FALSE, FALSE),
     Env(0, FALSE, 0, FALSE, TRUE, FALSE)}
=============================================================================
