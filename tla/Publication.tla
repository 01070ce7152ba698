------------------------------ MODULE Publication ------------------------------
(***************************************************************************)
(* From a run of the engine in its container to a pull request: the jobs   *)
(* of .github/workflows/sandboxed-mutation.yml and sign-and-open-pr.yml,   *)
(* with scripts/safe_extract.py and scripts/cas_increment.sh.  Nothing     *)
(* keeps the jobs of two runs from running at once.                        *)
(*                                                                         *)
(* The token and the structural check, whose failure is ignored, change    *)
(* nothing and are no steps here.                                          *)
(***************************************************************************)
EXTENDS Integers, FiniteSets

CONSTANTS
    Runs,
    Nobody,
    Faults,
    MaxClock, \* bound: the seconds that pass
    MaxFaults,
    MaxReruns

FaultKinds == {
    "artifact", \* the list of artifacts cannot be had
    "job",      \* a step of the publishing job fails, or it is cancelled
    "lost"}     \* a request is carried out and answered with an error

ASSUME PublicationAssumption ==
    /\ IsFiniteSet(Runs) /\ Nobody \notin Runs
    /\ Faults \subseteq FaultKinds
    /\ {MaxClock, MaxFaults, MaxReruns} \subseteq Nat

VARIABLES
    pc,
    proven,  \* history: the runs whose mutation passed the sandbox
    staged,  \* what is in the job's copy of the artifact
    seen,    \* the count that cas_increment.sh read
    branch,  \* the second in the name of the job's branch
    counter, \* the count on GitHub, and NoFile at first
    remote,  \* whose commit the branch of each second has
    prs,     \* the pull requests
    clock, faults, reruns

job == <<staged, seen, branch>>
github == <<counter, remote, prs>>
vars == <<pc, proven, job, github, clock, faults, reruns>>

NoFile == -1 \* the first count is 0

Publishing == {"fetch", "extract", "read", "put", "commit", "push", "pr"}
Steps == Publishing \cup {"sandbox", "rejected", "failed", "done"}

(* What the engine writes is C++ source, and so is test_mutation.cpp,      *)
(* which the repository has there.                                         *)
Artifact(r) == {"cpp"} \cup (IF r \in proven THEN {"rationale.md"} ELSE {})

TypeOK ==
    /\ pc \in [Runs -> Steps]
    /\ proven \subseteq Runs
    /\ staged \in [Runs -> SUBSET {"rationale.md"}]
    /\ seen \in [Runs -> Int] /\ counter \in Int
    /\ branch \in [Runs -> 0..MaxClock]
    /\ remote \in [0..MaxClock -> Runs \cup {Nobody}]
    /\ prs \subseteq [run : Runs, branch : 0..MaxClock]
    /\ clock \in 0..MaxClock
    /\ faults \in 0..MaxFaults /\ reruns \in 0..MaxReruns

Init ==
    /\ pc = [r \in Runs |-> "sandbox"]
    /\ proven = {}
    /\ staged = [r \in Runs |-> {}]
    /\ seen = [r \in Runs |-> NoFile]
    /\ branch = [r \in Runs |-> 0]
    /\ counter = NoFile
    /\ remote = [t \in 0..MaxClock |-> Nobody]
    /\ prs = {}
    /\ clock = 0 /\ faults = 0 /\ reruns = 0

Tick ==
    /\ clock < MaxClock
    /\ clock' = clock + 1
    /\ UNCHANGED <<pc, proven, job, github, faults, reruns>>

Fault(kind) ==
    kind \in Faults /\ faults < MaxFaults /\ faults' = faults + 1

Goto(r, from, to) == pc[r] = from /\ pc' = [pc EXCEPT ![r] = to]

(* A step without a fault. *)
Step(r, from, to) ==
    Goto(r, from, to) /\ UNCHANGED <<proven, clock, faults, reruns>>

(* A request that is carried out, and whose answer may be lost. *)
Request(r, from, to) ==
    /\ UNCHANGED <<proven, clock, reruns>>
    /\ \/ Goto(r, from, to) /\ UNCHANGED faults
       \/ Goto(r, from, "failed") /\ Fault("lost")
-----------------------------------------------------------------------------
(* How the engine ends (module EvolutionDaemon): its exit code, the        *)
(* outcome in status.json and whether there is a rationale.                *)
Endings == {
    [exit |-> 0, outcome |-> "published", rationale |-> TRUE],
    [exit |-> 0, outcome |-> "published", rationale |-> FALSE],
    [exit |-> 0, outcome |-> "quarantined", rationale |-> FALSE], \* a signal
    [exit |-> 0, outcome |-> "none", rationale |-> FALSE],
    [exit |-> 1, outcome |-> "quarantined", rationale |-> FALSE]}

Accepted(ending) ==
    /\ ending.exit = 0
    /\ \/ ending.outcome = "published" /\ ending.rationale
       \/ ending.outcome = "quarantined"

(* sandboxed-mutation.yml: a job that succeeds starts the other workflow.  *)
Sandbox(r) ==
    \E ending \in Endings :
        /\ Goto(r, "sandbox", IF Accepted(ending) THEN "fetch" ELSE "rejected")
        /\ proven' = IF ending.rationale THEN proven \cup {r} ELSE proven
        /\ UNCHANGED <<job, github, clock, faults, reruns>>
-----------------------------------------------------------------------------
(* sign-and-open-pr.yml *)
Fetch(r) ==
    Step(r, "fetch", "extract") /\ UNCHANGED <<job, github>>

(* Without an artifact all the steps behind are skipped. *)
FetchNothing(r) ==
    /\ Goto(r, "fetch", "done")
    /\ Fault("artifact")
    /\ UNCHANGED <<proven, job, github, clock, reruns>>

(* Mutant: the sources are allowed, too. *)
AllowedSources == {"rationale.md", "h", "cpp"}

(* safe_extract.py: only rationale.md and headers, and there are none. *)
Allowed == {"rationale.md", "h"}

Extract(r) ==
    /\ Step(r, "extract", "read")
    /\ staged' = [staged EXCEPT ![r] = Artifact(r) \cap Allowed]
    /\ UNCHANGED <<seen, branch, github>>

(* cas_increment.sh: the GET, which may find no file. *)
ReadCounter(r) ==
    /\ Step(r, "read", "put")
    /\ seen' = [seen EXCEPT ![r] = counter]
    /\ UNCHANGED <<staged, branch, github>>

(* Mutant: the PUT overwrites whatever is there. *)
AcceptsAny(r) == r \in Runs

(* Mutant: every PUT has a sha, which GitHub refuses where there is no file. *)
AcceptsShaOnly(r) == counter = seen[r] /\ counter # NoFile

(* The PUT has the sha of what was read, or none if there was no file. *)
Accepts(r) == counter = seen[r]

PutCounter(r) ==
    /\ Accepts(r)
    /\ counter' = seen[r] + 1
    /\ Request(r, "put", "commit")
    /\ UNCHANGED <<job, remote, prs>>

PutRefused(r) ==
    ~Accepts(r) /\ Step(r, "put", "failed") /\ UNCHANGED <<job, github>>

(* Mutant: git commit --allow-empty. *)
CanCommitEmpty(r) == r \in Runs

(* The sources in the job's mutation-output come with its checkout. *)
CanCommit(r) == "rationale.md" \in staged[r]

CommitBranch(r) ==
    /\ CanCommit(r)
    /\ Step(r, "commit", "push")
    /\ branch' = [branch EXCEPT ![r] = clock]
    /\ UNCHANGED <<staged, seen, github>>

NothingToCommit(r) ==
    ~CanCommit(r) /\ Step(r, "commit", "failed") /\ UNCHANGED <<job, github>>

(* Mutant: git push --force. *)
CanPushForced(r) == r \in Runs

(* Two jobs of one second give their branches the same name. *)
CanPush(r) == remote[branch[r]] = Nobody

PushBranch(r) ==
    /\ CanPush(r)
    /\ Request(r, "push", "pr")
    /\ remote' = [remote EXCEPT ![branch[r]] = r]
    /\ UNCHANGED <<job, counter, prs>>

PushRefused(r) ==
    ~CanPush(r) /\ Step(r, "push", "failed") /\ UNCHANGED <<job, github>>

OpenPr(r) ==
    /\ Request(r, "pr", "done")
    /\ prs' = prs \cup {[run |-> r, branch |-> branch[r]]}
    /\ UNCHANGED <<job, counter, remote>>

JobFails(r) ==
    /\ pc[r] \in Publishing
    /\ pc' = [pc EXCEPT ![r] = "failed"]
    /\ Fault("job")
    /\ UNCHANGED <<proven, job, github, clock, reruns>>

(* "Re-run to pick up the increment path": by hand, in a new checkout. *)
Rerun(r) ==
    /\ reruns < MaxReruns
    /\ reruns' = reruns + 1
    /\ Goto(r, "failed", "fetch")
    /\ staged' = [staged EXCEPT ![r] = {}]
    /\ seen' = [seen EXCEPT ![r] = NoFile]
    /\ branch' = [branch EXCEPT ![r] = 0]
    /\ UNCHANGED <<proven, github, clock, faults>>
-----------------------------------------------------------------------------
Publish(r) ==
    \/ Fetch(r) \/ FetchNothing(r) \/ Extract(r)
    \/ ReadCounter(r) \/ PutCounter(r) \/ PutRefused(r)
    \/ CommitBranch(r) \/ NothingToCommit(r)
    \/ PushBranch(r) \/ PushRefused(r) \/ OpenPr(r)
    \/ JobFails(r) \/ Rerun(r)

Next == Tick \/ \E r \in Runs : Sandbox(r) \/ Publish(r)

Spec == Init /\ [][Next]_vars
-----------------------------------------------------------------------------
(* However jobs race for the counter, fail and are run again, there are    *)
(* never more pull requests than PUTs of the counter that succeeded. That  *)
(* is one more than the number in the file: the first PUT stores 0         *)
(* (cas_increment.sh:16).                                                  *)
PrsAreCounted == Cardinality(prs) <= counter - NoFile

(* Only a mutation that passed the sandbox is proposed, although a run     *)
(* that was stopped starts a publishing job as well.                       *)
OnlySurvivorsProposed == \A pr \in prs : pr.run \in proven

(* A pull request shows the mutation of its own run, although names of     *)
(* branches are no finer than a second.                                    *)
PrShowsItsRun == \A pr \in prs : remote[pr.branch] = pr.run

(* Of the proven runs that race for the counter and for a name one gets    *)
(* through, unless something fails or a stopped run is among them, whose   *)
(* job takes part and comes to nothing.                                    *)
SomeoneGetsThrough ==
    /\ faults = 0
    /\ \A r \in Runs : pc[r] \in {"rejected", "failed", "done"}
    /\ \E r \in Runs : pc[r] # "rejected"
    /\ \A r \in Runs : pc[r] # "rejected" => r \in proven
    => prs # {}
=============================================================================
