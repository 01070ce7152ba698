--------------------------- MODULE MCEvolutionDaemon ---------------------------
(* Two instances on one workspace, three mutations between them, and every *)
(* fault but one: a checkout of main that fails for a reason of its own.   *)
EXTENDS EvolutionDaemon

CONSTANTS d1, d2, m1, m2, m3

MCDaemons == {d1, d2}
MCMutations == {m1, m2, m3}
MCForge == <<m1, m2, m3>>
=============================================================================
