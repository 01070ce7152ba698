---------------------------- MODULE GitWorkspace ----------------------------
(***************************************************************************)
(* The git commands of GitCortex (include/GitCortex.hpp) on the engine's   *)
(* workspace, and the ledgers that live in it.  git itself is external: a  *)
(* branch is the sequence of the trees committed on it, a push is accepted *)
(* if it only adds commits to what origin has, and nothing is ever fetched.*)
(***************************************************************************)
EXTENDS Naturals, Sequences, FiniteSets, SequencesExt

CONSTANTS Mutations

Branches == {"main", "staging"} \* staging is evolution-staging

(* What a tree holds: the mutations under src/generated, and the entries   *)
(* of .swayam_quarantine.ledger and of .swayam_hive.ledger.                *)
Trees == [gen : SUBSET Mutations, quarantine : SUBSET Mutations,
          hive : SUBSET Mutations]

VARIABLES
    head,       \* the branch that is checked out
    branch,     \* the local branches; one without commits does not exist
    origin,     \* those of the remote
    index,      \* the tree the next commit has
    files,      \* on disk: the files under src/generated
    quarantine, \* on disk: the ban ledger
    hive        \* on disk: the ledger of published mutations

repository == <<head, branch, origin, index>>
disk == <<files, quarantine, hive>>
gitVars == <<repository, disk>>

GitTypeOK ==
    /\ head \in Branches
    /\ branch \in [Branches -> Seq(Trees)]
    /\ origin \in [Branches -> Seq(Trees)]
    /\ index \in Trees
    /\ files \subseteq Mutations
    /\ quarantine \subseteq Mutations
    /\ hive \subseteq Mutations

EmptyTree == [gen |-> {}, quarantine |-> {}, hive |-> {}]

GitInit ==
    /\ head = "main"
    /\ branch = [b \in Branches |-> IF b = "main" THEN <<EmptyTree>> ELSE <<>>]
    /\ origin = branch
    /\ index = EmptyTree
    /\ files = {} /\ quarantine = {} /\ hive = {}

Tip(history) == history[Len(history)]

Tracked == Tip(branch[head])
-----------------------------------------------------------------------------
(* checkout -B evolution-staging: the branch is moved to where HEAD is. *)
CheckoutStaging ==
    /\ head' = "staging"
    /\ branch' = [branch EXCEPT !["staging"] = branch[head]]
    /\ UNCHANGED <<origin, index, disk>>

(* Mutant: add src/generated. *)
AddAll(m) ==
    /\ index' = [index EXCEPT !.gen = @ \cup files]
    /\ UNCHANGED <<head, branch, origin, disk>>

(* add <file> *)
AddFile(m) ==
    /\ index' = [index EXCEPT !.gen = @ \cup {m}]
    /\ UNCHANGED <<head, branch, origin, disk>>

(* add <both ledgers>: a ledger without an entry has no file, and git adds *)
(* neither if one is missing.                                              *)
CanAddLedgers == quarantine # {} /\ hive # {}

AddLedgers ==
    /\ index' = [index EXCEPT !.quarantine = quarantine, !.hive = hive]
    /\ UNCHANGED <<head, branch, origin, disk>>

(* commit: refused when nothing is staged. *)
CanCommit == index # Tracked

Commit ==
    /\ branch' = [branch EXCEPT ![head] = Append(@, index)]
    /\ UNCHANGED <<head, origin, index, disk>>

(* Mutant: push --force. *)
CanPushForced(b) == TRUE

(* push origin <b>: accepted if it is a fast-forward. *)
CanPush(b) == IsPrefix(origin[b], branch[b])

Push(b) ==
    /\ origin' = [origin EXCEPT ![b] = branch[b]]
    /\ UNCHANGED <<head, branch, index, disk>>

(* Mutant: checkout -f main. *)
CarriedForced(onDisk, from, to) == to

(* What a checkout of tree "to" makes of a ledger file: kept as it is on   *)
(* disk if the two trees agree on it, else replaced.                       *)
Carried(onDisk, from, to) == IF from = to THEN onDisk ELSE to

(* checkout main: refused if it would overwrite a ledger changed on disk. *)
CanCheckoutMain ==
    LET to == Tip(branch["main"])
    IN  /\ Tracked.quarantine = to.quarantine \/ quarantine = Tracked.quarantine
        /\ Tracked.hive = to.hive \/ hive = Tracked.hive

CheckoutMain ==
    LET to == Tip(branch["main"])
    IN  /\ head' = "main"
        /\ index' = to
        /\ files' = (files \ Tracked.gen) \cup to.gen
        /\ quarantine' = Carried(quarantine, Tracked.quarantine, to.quarantine)
        /\ hive' = Carried(hive, Tracked.hive, to.hive)
        /\ UNCHANGED <<branch, origin>>
=============================================================================
