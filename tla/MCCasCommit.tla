----------------------------- MODULE MCCasCommit -----------------------------
(* Two workflow runs, a limit of two units, and time for three windows. *)
EXTENDS CasCommit

CONSTANTS r1, r2

MCRuns == {r1, r2}
=============================================================================
