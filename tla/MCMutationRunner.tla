-------------------------- MODULE MCMutationRunner --------------------------
(* Two supervisors that share a workspace and a /tmp. *)
EXTENDS MutationRunner

CONSTANTS c1, c2, p1, p2, h1, m1, m2, u1

MCCallers == {c1, c2}
MCProcesses == {p1, p2}
MCHosts == {h1}
MCMutations == {m1, m2, u1}
MCTries == [c \in MCCallers |-> IF c = c1 THEN {m1, m2} ELSE {m1, u1}]
MCProcOf == [c \in MCCallers |-> IF c = c1 THEN p1 ELSE p2]
MCHostOf == [p \in MCProcesses |-> h1]
=============================================================================
