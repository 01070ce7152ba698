-------------------------- MODULE MCGuardedMutation --------------------------
(* Two threads of one supervisor and a thread of another, on one host. *)
EXTENDS GuardedMutation

CONSTANTS c1, c2, c3, p1, p2, h1

MCCallers == {c1, c2, c3}
MCProcesses == {p1, p2}
MCHosts == {h1}
MCProcOf == [c \in MCCallers |-> IF c = c3 THEN p2 ELSE p1]
MCHostOf == [p \in MCProcesses |-> h1]
=============================================================================
