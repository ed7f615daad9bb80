-------------------------- MODULE MCSandboxSession --------------------------
(* TLC instances of SandboxSession. *)
EXTENDS SandboxSession, TLC

Env(c, r, t, s, l) == [calls |-> c, restore |-> r, timeouts |-> t, sigint |-> s, loss |-> l]

\* Long behaviours in a quiet environment, shorter ones in which everything goes wrong.
MCEnvironments ==
    {Env(7, r, FALSE, FALSE, FALSE) : r \in BOOLEAN} \cup {Env(5, r, TRUE, TRUE, TRUE) : r \in BOOLEAN}

MCTimeouts == {Env(3, TRUE, TRUE, FALSE, FALSE)}
=============================================================================
