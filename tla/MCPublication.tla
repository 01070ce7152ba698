----------------------------- MODULE MCPublication -----------------------------
(* Three runs within two seconds, two faults and two re-runs. *)
EXTENDS Publication, TLC

CONSTANTS r1, r2, r3

MCRuns == {r1, r2, r3}
MCSymmetry == Permutations(MCRuns)
=============================================================================
