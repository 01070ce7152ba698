--------------------------- MODULE MCQuarantineLog ---------------------------
(* Two threads of one process, which share a temporary, and one of another. *)
EXTENDS QuarantineLog

CONSTANTS t1, t2, t3, p1, p2, h1, h2

MCThreads == {t1, t2, t3}
MCProcesses == {p1, p2}
MCDoes == [t \in MCThreads |->
    CASE t = t1 -> {<<"append", h1>>, <<"migrate", h1>>, <<"merge", h2>>}
      [] t = t2 -> {<<"append", h2>>}
      [] t = t3 -> {<<"append", h1>>, <<"query", h1>>, <<"query", h2>>}]
MCHashes == {h1, h2}
MCProcOf == [t \in MCThreads |-> IF t = t3 THEN p2 ELSE p1]
=============================================================================
