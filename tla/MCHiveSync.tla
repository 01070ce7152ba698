------------------------------ MODULE MCHiveSync ------------------------------
(* Two nodes; the container of the second one ends once. *)
EXTENDS HiveSync

CONSTANTS n1, n2, h1, h2, h3

MCNodes == {n1, n2}
MCHashes == {h1, h2, h3}
MCCatches == [n \in MCNodes |-> IF n = n1 THEN {h1, h2} ELSE {h3}]
MCMaxRestarts == [n \in MCNodes |-> IF n = n1 THEN 0 ELSE 1]
=============================================================================
