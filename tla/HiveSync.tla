------------------------------- MODULE HiveSync -------------------------------
(***************************************************************************)
(* How nodes share quarantine logs: the export and the guarded merge of    *)
(* include/NodeRegistry.hpp, and scripts/hive_sync.sh, which carries files *)
(* between /tmp of a node's container and a registry on GitHub.            *)
(*                                                                         *)
(* A file is the set of its lines, a hash or the header.  The order of the *)
(* lines decides only which hashes a budget lets in, which is a choice     *)
(* here, and {} stands for no file: an empty one tells nobody anything.    *)
(* An append does not look for its hash, so that racing callers may record *)
(* one twice; that is one line here, and a real file reaches the limit on  *)
(* its length no later than that of the model.                             *)
(* Log and node id live in /tmp: both are new in each container.           *)
(***************************************************************************)
EXTENDS Integers, FiniteSetsExt

CONSTANTS
    Nodes,
    Hashes,
    Catches,     \* per node, the hashes of mutations that crash there
    MaxLines,    \* max_hashes_per_file
    PerPeer,     \* max_imports_per_peer
    PerSession,  \* max_imports_per_session
    MaxRestarts  \* bound: per node, the containers that end

ASSUME HiveAssumption ==
    /\ IsFiniteSet(Nodes) /\ IsFiniteSet(Hashes)
    /\ "header" \notin Hashes
    /\ Catches \in [Nodes -> SUBSET Hashes]
    /\ {MaxLines, PerPeer, PerSession} \subseteq Nat
    /\ MaxRestarts \in [Nodes -> Nat]

Ids == UNION {{n} \X (1..MaxRestarts[n] + 1) : n \in Nodes}
Files == SUBSET (Hashes \cup {"header"})

VARIABLES
    life,     \* per node, the number of its container
    log,      \* the quarantine log
    export,   \* /tmp/node_export_<id>.csv
    peers,    \* /tmp/peer_node_export_<id>.csv, for each id
    registry  \* hive/quarantine_registry on GitHub

vars == <<life, log, export, peers, registry>>

NoFiles == [i \in Ids |-> {}]

TypeOK ==
    /\ life \in [Nodes -> Nat]
    /\ log \in [Nodes -> Files]
    /\ export \in [Nodes -> Files]
    /\ peers \in [Nodes -> [Ids -> Files]]
    /\ registry \in [Ids -> Files]

Init ==
    /\ life = [n \in Nodes |-> 1]
    /\ log = [n \in Nodes |-> {}]
    /\ export = [n \in Nodes |-> {}]
    /\ peers = [n \in Nodes |-> NoFiles]
    /\ registry = NoFiles

(* Mutant: an identity that survives the container, as the log does not. *)
HostId(n) == <<n, 1>>

(* derive_node_id: the host name of the container and a seed in its /tmp. *)
Id(n) == <<n, life[n]>>

(* A mutation crashes here, and atomic_quarantine_append records it. *)
Catch(n, h) ==
    /\ h \in Catches[n] \ log[n]
    /\ log' = [log EXCEPT ![n] = @ \cup {h, "header"}]
    /\ UNCHANGED <<life, export, peers, registry>>

(* The container ends, and its /tmp with it. *)
Restart(n) ==
    /\ life[n] <= MaxRestarts[n]
    /\ life' = [life EXCEPT ![n] = @ + 1]
    /\ log' = [log EXCEPT ![n] = {}]
    /\ export' = [export EXCEPT ![n] = {}]
    /\ peers' = [peers EXCEPT ![n] = NoFiles]
    /\ UNCHANGED registry

(* export_node_signatures *)
Export(n) ==
    /\ export' = [export EXCEPT ![n] = log[n]]
    /\ UNCHANGED <<life, log, peers, registry>>

(* hive_sync.sh: one record after the other comes to /tmp, until a request *)
(* fails; the rest stays as it was.  That of the node itself is left out:  *)
(* its own log has all of it.                                              *)
Download(n, i) ==
    /\ i # Id(n)
    /\ peers' = [peers EXCEPT ![n][i] = registry[i]]
    /\ UNCHANGED <<life, log, export, registry>>

(* Mutant: the PUT of the name of the file for its content. *)
UploadName(n) ==
    /\ export[n] # {}
    /\ registry' = [registry EXCEPT ![Id(n)] = {"node_export.csv"}]
    /\ UNCHANGED <<life, log, export, peers>>

(* hive_sync.sh: the PUT, with the sha of the record as it is.  A request  *)
(* that fails goes unnoticed: it is a step that does nothing.              *)
Upload(n) ==
    /\ export[n] # {}
    /\ registry' = [registry EXCEPT ![Id(n)] = export[n]]
    /\ UNCHANGED <<life, log, export, peers>>
-----------------------------------------------------------------------------
Least(a, b) == IF a <= b THEN a ELSE b

(* What a merge finds new in a file, unless it rejects it as too long. *)
Fresh(file, known) ==
    IF Cardinality(file) > MaxLines THEN {} ELSE file \ (known \cup {"header"})

(* Mutant: no budget per peer. *)
SessionAllowance(file, known, session) ==
    Least(Cardinality(Fresh(file, known)), PerSession - session)

(* Mutant: duplicates count against the budget of the peer. *)
AllowanceOfLines(file, known, session) ==
    LET left == PerPeer - Cardinality(file \cap known)
    IN  IF left <= 0 THEN 0
        ELSE Least(Cardinality(Fresh(file, known)), Least(left, PerSession - session))

(* How many hashes of a file it imports: both budgets count imports only. *)
Allowance(file, known, session) ==
    Least(Cardinality(Fresh(file, known)), Least(PerPeer, PerSession - session))

(* merge_peer_signatures_guarded: the logs that file i may make of a log   *)
(* that has grown since the merge began; session_imported is its growth.   *)
MergedFile(n, grown, i) ==
    LET session == Cardinality(grown) - Cardinality(log[n])
    IN  {grown \cup taken : taken \in kSubset(Allowance(peers[n][i], grown, session),
                                             Fresh(peers[n][i], grown))}

(* The peer files that have something new. *)
News(n) == {i \in Ids : Fresh(peers[n][i], log[n]) # {}}

(* merge_all_peer_files: the logs it may have made once it has read the    *)
(* files S, in whatever order the directory lists them.                    *)
After(n) ==
    LET after[S \in SUBSET Ids] ==
            IF S = {} THEN {log[n]}
            ELSE UNION {UNION {MergedFile(n, grown, i) : grown \in after[S \ {i}]} : i \in S}
    IN  after

Merges(n) == After(n)[News(n)]

Merge(n) ==
    /\ News(n) # {}
    /\ UNCHANGED <<life, export, peers, registry>>
    /\ \E merged \in Merges(n) : log' = [log EXCEPT ![n] = merged]
-----------------------------------------------------------------------------
Next ==
    \E n \in Nodes :
        \/ Export(n) \/ Upload(n) \/ Merge(n)
        \/ \E i \in Ids : Download(n, i)
        \/ Restart(n)
        \/ \E h \in Hashes : Catch(n, h)

Spec == Init /\ [][Next]_vars

(* A node exports, synchronises and merges again and again, and each       *)
(* request succeeds now and then; nothing makes it catch or restart.       *)
FairSpec ==
    /\ Spec
    /\ \A n \in Nodes : /\ WF_vars(Export(n)) /\ WF_vars(Upload(n)) /\ WF_vars(Merge(n))
                        /\ \A i \in Ids : WF_vars(Download(n, i))
-----------------------------------------------------------------------------
(* "A single flooding peer cannot exhaust the budget for other legitimate  *)
(* peers" (NodeRegistry): as long as the budgets of the peers with news    *)
(* add up to no more than the session's, a merge in whatever order takes   *)
(* of each of them all it has, or its whole budget.                        *)
NoPeerStarvesAnother ==
    \A n \in Nodes :
        Cardinality(News(n)) * PerPeer <= PerSession =>
            \A i \in News(n), merged \in Merges(n) :
                LET fresh == Fresh(peers[n][i], log[n])
                IN  Cardinality(fresh \cap merged) >= Least(Cardinality(fresh), PerPeer)

(* The registry forgets nothing, although containers do. *)
RegistryOnlyGrows == [][\A i \in Ids : registry[i] \subseteq registry'[i]]_vars

Published(h) == \E i \in Ids : h \in registry[i]
Outgrown(h) ==
    \A i \in Ids : h \in registry[i] => Cardinality(registry[i]) > MaxLines

(* What one node has published every node learns in the end, whatever the  *)
(* budgets and restarts, unless each record that tells of it has outgrown  *)
(* the limit of a file.                                                    *)
PeersLearn ==
    \A n \in Nodes, h \in Hashes : Published(h) ~> h \in log[n] \/ Outgrown(h)

(* "This provides eventual consistency: [...] peers will learn of it on    *)
(* their next sync cycle" (SECURITY_AUDIT.md).                             *)
EventuallyConsistent ==
    \A n \in Nodes, h \in Hashes : Published(h) ~> h \in log[n]
=============================================================================
