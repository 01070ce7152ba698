--------------------------- MODULE PublicationProofs ---------------------------
(***************************************************************************)
(* Theorems about the publication of mutations, for any number of runs,    *)
(* re-runs and faults.                                                     *)
(***************************************************************************)
EXTENDS Publication, FiniteSetTheorems, TLAPS

(* The runs that hold a count they have not opened a pull request for. *)
Counted == {r \in Runs : pc[r] \in {"commit", "push", "pr"}}

Covered ==
    /\ IsFiniteSet(prs)
    /\ Cardinality(prs) + Cardinality(Counted) <= counter - NoFile

(* A rationale comes from a mutation that passed the sandbox. *)
RationaleProven ==
    \A r \in Runs : /\ "rationale.md" \in staged[r] => r \in proven
                    /\ pc[r] \in {"push", "pr"} => r \in proven

(* Between the push and the pull request the branch is the run's own. *)
OwnBranch == \A r \in Runs : pc[r] = "pr" => remote[branch[r]] = r

IInv == TypeOK /\ Covered /\ RationaleProven /\ OwnBranch
        /\ OnlySurvivorsProposed /\ PrShowsItsRun
-----------------------------------------------------------------------------
(* Next, action by action. *)
LEMMA StepCases ==
    ASSUME [Next]_vars
    PROVE  \/ UNCHANGED vars
           \/ Tick
           \/ \E r \in Runs :
                 \/ Sandbox(r) \/ Fetch(r) \/ FetchNothing(r) \/ Extract(r)
                 \/ ReadCounter(r) \/ PutCounter(r) \/ PutRefused(r)
                 \/ CommitBranch(r) \/ NothingToCommit(r)
                 \/ PushBranch(r) \/ PushRefused(r) \/ OpenPr(r)
                 \/ JobFails(r) \/ Rerun(r)
BY DEF Next, Publish

(* What a step does to the types of the counters of the job. *)
LEMMA GotoTypes ==
    ASSUME TypeOK, NEW r \in Runs, NEW from, NEW to \in Steps, Goto(r, from, to)
    PROVE  pc' \in [Runs -> Steps]
BY DEF TypeOK, Goto

LEMMA FaultTypes ==
    ASSUME TypeOK, NEW kind, Fault(kind)
    PROVE  faults' \in 0..MaxFaults
BY PublicationAssumption DEF TypeOK, Fault

LEMMA RequestTypes ==
    ASSUME TypeOK, NEW r \in Runs, NEW from, NEW to \in Steps, Request(r, from, to)
    PROVE  pc' \in [Runs -> Steps] /\ faults' \in 0..MaxFaults
<1>1. CASE Goto(r, from, to) /\ UNCHANGED faults
  BY <1>1, GotoTypes DEF TypeOK
<1>2. CASE Goto(r, from, "failed") /\ Fault("lost")
  <2>1. "failed" \in Steps
    BY DEF Steps
  <2> QED
    BY <1>2, <2>1, GotoTypes, FaultTypes
<1> QED
  BY <1>1, <1>2 DEF Request

(* Every step keeps the types. *)
LEMMA TypeStep == TypeOK /\ [Next]_vars => TypeOK'
<1> SUFFICES ASSUME TypeOK, [Next]_vars PROVE TypeOK'
  OBVIOUS
<1>0. /\ {"sandbox", "rejected", "failed", "done", "fetch", "extract", "read",
           "put", "commit", "push", "pr"} \subseteq Steps
      /\ NoFile \in Int
  BY DEF Steps, Publishing, NoFile
<1>1. CASE UNCHANGED vars
  BY <1>1 DEF TypeOK, vars, job, github
<1>2. CASE Tick
  BY <1>2, PublicationAssumption DEF TypeOK, Tick, job, github
<1>3. ASSUME NEW r \in Runs, Sandbox(r) PROVE TypeOK'
  <2>1. PICK ending \in Endings :
            /\ Goto(r, "sandbox", IF Accepted(ending) THEN "fetch" ELSE "rejected")
            /\ proven' = IF ending.rationale THEN proven \cup {r} ELSE proven
            /\ UNCHANGED <<job, github, clock, faults, reruns>>
    BY <1>3 DEF Sandbox
  <2>2. (IF Accepted(ending) THEN "fetch" ELSE "rejected") \in Steps
    BY <1>0
  <2>3. pc' \in [Runs -> Steps]
    BY <2>1, <2>2, GotoTypes
  <2> QED
    BY <2>1, <2>3 DEF TypeOK, job, github
<1>4. ASSUME NEW r \in Runs,
             Fetch(r) \/ PutRefused(r) \/ NothingToCommit(r) \/ PushRefused(r)
      PROVE  TypeOK'
  <2>1. pc' \in [Runs -> Steps]
    BY <1>4, <1>0, GotoTypes
       DEF Fetch, PutRefused, NothingToCommit, PushRefused, Step
  <2> QED
    BY <1>4, <2>1
       DEF TypeOK, Fetch, PutRefused, NothingToCommit, PushRefused, Step, job, github
<1>5. ASSUME NEW r \in Runs, FetchNothing(r) PROVE TypeOK'
  <2>1. pc' \in [Runs -> Steps] /\ faults' \in 0..MaxFaults
    BY <1>5, <1>0, GotoTypes, FaultTypes DEF FetchNothing
  <2> QED
    BY <1>5, <2>1 DEF TypeOK, FetchNothing, job, github
<1>6. ASSUME NEW r \in Runs, Extract(r) PROVE TypeOK'
  <2>1. pc' \in [Runs -> Steps]
    BY <1>6, <1>0, GotoTypes DEF Extract, Step
  <2>2. Artifact(r) \cap Allowed \in SUBSET {"rationale.md"}
    BY DEF Artifact, Allowed
  <2>3. staged' \in [Runs -> SUBSET {"rationale.md"}]
    BY <1>6, <2>2 DEF Extract, TypeOK
  <2> QED
    BY <1>6, <2>1, <2>3 DEF TypeOK, Extract, Step, github
<1>7. ASSUME NEW r \in Runs, ReadCounter(r) \/ CommitBranch(r) PROVE TypeOK'
  <2>1. pc' \in [Runs -> Steps]
    BY <1>7, <1>0, GotoTypes DEF ReadCounter, CommitBranch, Step
  <2> QED
    BY <1>7, <2>1 DEF TypeOK, ReadCounter, CommitBranch, Step, github
<1>8. ASSUME NEW r \in Runs, PutCounter(r) \/ PushBranch(r) \/ OpenPr(r)
      PROVE  TypeOK'
  <2>1. pc' \in [Runs -> Steps] /\ faults' \in 0..MaxFaults
    BY <1>8, <1>0, RequestTypes DEF PutCounter, PushBranch, OpenPr
  <2>2. seen[r] + 1 \in Int /\ branch[r] \in 0..MaxClock
    BY DEF TypeOK
  <2> QED
    BY <1>8, <2>1, <2>2 DEF TypeOK, PutCounter, PushBranch, OpenPr, Request, job
<1>9. ASSUME NEW r \in Runs, JobFails(r) PROVE TypeOK'
  <2>1. faults' \in 0..MaxFaults
    BY <1>9, FaultTypes DEF JobFails
  <2> QED
    BY <1>9, <2>1, <1>0 DEF TypeOK, JobFails, job, github
<1>10. ASSUME NEW r \in Runs, Rerun(r) PROVE TypeOK'
  <2>1. pc' \in [Runs -> Steps]
    BY <1>10, <1>0, GotoTypes DEF Rerun
  <2>2. reruns' \in 0..MaxReruns /\ 0 \in 0..MaxClock
    BY <1>10, PublicationAssumption DEF Rerun, TypeOK
  <2> QED
    BY <1>10, <2>1, <2>2, <1>0 DEF TypeOK, Rerun, github
<1> QED
  BY <1>1, <1>2, <1>3, <1>4, <1>5, <1>6, <1>7, <1>8, <1>9, <1>10, StepCases

(* Every step keeps proofs with rationales. *)
LEMMA ProvenStep == TypeOK /\ RationaleProven /\ [Next]_vars => RationaleProven'
<1> SUFFICES ASSUME TypeOK, RationaleProven, [Next]_vars PROVE RationaleProven'
  OBVIOUS
<1> USE DEF TypeOK, RationaleProven, Goto, Step, Request, job
<1>1. CASE UNCHANGED vars
  BY <1>1 DEF vars
<1>2. CASE Tick
  BY <1>2 DEF Tick
<1>3. ASSUME NEW r \in Runs, Sandbox(r) PROVE RationaleProven'
  BY <1>3 DEF Sandbox
<1>4. ASSUME NEW r \in Runs,
             Fetch(r) \/ FetchNothing(r) \/ ReadCounter(r) \/ PutCounter(r)
             \/ PutRefused(r) \/ NothingToCommit(r) \/ PushBranch(r)
             \/ PushRefused(r) \/ OpenPr(r) \/ JobFails(r)
      PROVE  RationaleProven'
  BY <1>4 DEF Fetch, FetchNothing, ReadCounter, PutCounter, PutRefused,
              NothingToCommit, PushBranch, PushRefused, OpenPr, JobFails
<1>5. ASSUME NEW r \in Runs, Extract(r) PROVE RationaleProven'
  BY <1>5 DEF Extract, Artifact, Allowed
<1>6. ASSUME NEW r \in Runs, CommitBranch(r) PROVE RationaleProven'
  BY <1>6 DEF CommitBranch, CanCommit
<1>7. ASSUME NEW r \in Runs, Rerun(r) PROVE RationaleProven'
  BY <1>7 DEF Rerun
<1> QED
  BY <1>1, <1>2, <1>3, <1>4, <1>5, <1>6, <1>7, StepCases

(* Every step keeps branches with the runs that pushed them, and pull      *)
(* requests with the mutations that passed.                                *)
LEMMA BranchStep ==
    IInv /\ [Next]_vars => OwnBranch' /\ OnlySurvivorsProposed' /\ PrShowsItsRun'
<1> DEFINE Goal == OwnBranch' /\ OnlySurvivorsProposed' /\ PrShowsItsRun'
<1> SUFFICES ASSUME IInv, [Next]_vars PROVE Goal
  OBVIOUS
<1> USE PublicationAssumption
    DEF IInv, TypeOK, OwnBranch, OnlySurvivorsProposed, PrShowsItsRun, Goto,
        Step, Request, job, github
<1>1. CASE UNCHANGED vars
  BY <1>1 DEF vars
<1>2. CASE Tick
  BY <1>2 DEF Tick
<1>3. ASSUME NEW r \in Runs,
             Sandbox(r) \/ Fetch(r) \/ FetchNothing(r) \/ Extract(r)
             \/ ReadCounter(r) \/ PutCounter(r) \/ PutRefused(r)
             \/ NothingToCommit(r) \/ PushRefused(r) \/ JobFails(r)
      PROVE  Goal
  BY <1>3 DEF Sandbox, Fetch, FetchNothing, Extract, ReadCounter, PutCounter,
              PutRefused, NothingToCommit, PushRefused, JobFails
<1>4. ASSUME NEW r \in Runs, CommitBranch(r) PROVE Goal
  BY <1>4 DEF CommitBranch
<1>5. ASSUME NEW r \in Runs, PushBranch(r) PROVE Goal
  BY <1>5 DEF PushBranch, CanPush
<1>6. ASSUME NEW r \in Runs, OpenPr(r) PROVE Goal
  BY <1>6 DEF OpenPr, RationaleProven
<1>7. ASSUME NEW r \in Runs, Rerun(r) PROVE Goal
  BY <1>7 DEF Rerun
<1> QED
  BY <1>1, <1>2, <1>3, <1>4, <1>5, <1>6, <1>7, StepCases

(* An element makes a finite set at most one larger. *)
LEMMA OneMore ==
    ASSUME NEW S, NEW x, IsFiniteSet(S)
    PROVE  /\ IsFiniteSet(S \cup {x})
           /\ Cardinality(S) \in Nat /\ Cardinality(S \cup {x}) \in Nat
           /\ Cardinality(S \cup {x}) <= Cardinality(S) + 1
<1>1. Cardinality(S) \in Nat
  BY FS_CardinalityType
<1>2. IsFiniteSet(S \cup {x})
  BY FS_AddElement
<1>3. Cardinality(S \cup {x}) \in Nat
  BY <1>2, FS_CardinalityType
<1> QED
  BY <1>1, <1>2, <1>3, FS_AddElement

LEMMA CountedFinite == IsFiniteSet(Counted) /\ Cardinality(Counted) \in Nat
<1>1. Counted \in SUBSET Runs
  BY DEF Counted
<1> QED
  BY <1>1, FS_Subset, FS_CardinalityType, PublicationAssumption

(* A step that counts nothing and opens nothing keeps the pull requests    *)
(* covered, as it adds nobody to those that hold a count.                  *)
LEMMA CoveredKept ==
    ASSUME Covered, TypeOK, prs' = prs, counter' = counter, Counted' \subseteq Counted
    PROVE  Covered'
<1>1. Cardinality(Counted') <= Cardinality(Counted) /\ Cardinality(Counted') \in Nat
  BY CountedFinite, FS_Subset, FS_CardinalityType
<1>2. Cardinality(prs) \in Nat
  BY FS_CardinalityType DEF Covered
<1> QED
  BY <1>1, <1>2, CountedFinite DEF Covered, TypeOK, NoFile

(* Every step keeps the pull requests covered by the counter. *)
LEMMA CoveredStep == IInv /\ [Next]_vars => Covered'
<1> SUFFICES ASSUME IInv, [Next]_vars PROVE Covered'
  OBVIOUS
<1> USE DEF IInv, Goto, Step, Request, job, github
<1>1. CASE UNCHANGED vars
  <2>1. Counted' \subseteq Counted
    BY <1>1 DEF vars, Counted
  <2> QED
    BY <1>1, <2>1, CoveredKept DEF vars
<1>2. CASE Tick
  <2>1. Counted' \subseteq Counted
    BY <1>2 DEF Tick, Counted
  <2> QED
    BY <1>2, <2>1, CoveredKept DEF Tick
<1>3. ASSUME NEW r \in Runs,
             Sandbox(r) \/ Fetch(r) \/ FetchNothing(r) \/ Extract(r)
             \/ ReadCounter(r) \/ PutRefused(r) \/ CommitBranch(r)
             \/ NothingToCommit(r) \/ PushBranch(r) \/ PushRefused(r)
             \/ JobFails(r) \/ Rerun(r)
      PROVE  Covered'
  <2>1. Counted' \subseteq Counted
    BY <1>3 DEF Sandbox, Fetch, FetchNothing, Extract, ReadCounter, PutRefused,
                CommitBranch, NothingToCommit, PushBranch, PushRefused, JobFails,
                Rerun, Counted, TypeOK
  <2>2. prs' = prs /\ counter' = counter
    BY <1>3 DEF Sandbox, Fetch, FetchNothing, Extract, ReadCounter, PutRefused,
                CommitBranch, NothingToCommit, PushBranch, PushRefused, JobFails,
                Rerun
  <2> QED
    BY <2>1, <2>2, CoveredKept
<1>4. ASSUME NEW r \in Runs, PutCounter(r) PROVE Covered'
  <2>1. Counted' \in SUBSET (Counted \cup {r})
    BY <1>4 DEF PutCounter, Counted, TypeOK
  <2>2. /\ IsFiniteSet(Counted \cup {r})
        /\ Cardinality(Counted \cup {r}) \in Nat
        /\ Cardinality(Counted \cup {r}) <= Cardinality(Counted) + 1
    BY CountedFinite, OneMore
  <2>3. /\ Cardinality(Counted') \in Nat
        /\ Cardinality(Counted') <= Cardinality(Counted) + 1
    <3>1. /\ IsFiniteSet(Counted')
          /\ Cardinality(Counted') <= Cardinality(Counted \cup {r})
      BY <2>1, <2>2, FS_Subset
    <3>2. Cardinality(Counted') \in Nat
      BY <3>1, FS_CardinalityType
    <3> QED
      BY <3>1, <3>2, <2>2, CountedFinite
  <2>4. prs' = prs /\ counter' = counter + 1
    BY <1>4 DEF PutCounter, Accepts
  <2>5. Cardinality(prs) \in Nat
    BY FS_CardinalityType DEF Covered
  <2> QED
    BY <2>3, <2>4, <2>5, CountedFinite DEF Covered, TypeOK, NoFile
<1>5. ASSUME NEW r \in Runs, OpenPr(r) PROVE Covered'
  <2>1. r \in Counted /\ Counted' = Counted \ {r}
    BY <1>5 DEF OpenPr, Counted, TypeOK
  <2>2. Cardinality(Counted') = Cardinality(Counted) - 1
    BY <2>1, CountedFinite, FS_RemoveElement
  <2>3. prs' = prs \cup {[run |-> r, branch |-> branch[r]]} /\ counter' = counter
    BY <1>5 DEF OpenPr
  <2>4. /\ IsFiniteSet(prs')
        /\ Cardinality(prs) \in Nat /\ Cardinality(prs') \in Nat
        /\ Cardinality(prs') <= Cardinality(prs) + 1
    BY <2>3, OneMore DEF Covered
  <2> QED
    BY <2>2, <2>3, <2>4, CountedFinite DEF Covered, TypeOK, NoFile
<1> QED
  BY <1>1, <1>2, <1>3, <1>4, <1>5, StepCases

LEMMA InitInv == Init => IInv
<1> SUFFICES ASSUME Init PROVE IInv
  OBVIOUS
<1> USE DEF Init
<1>1. TypeOK
  BY PublicationAssumption DEF TypeOK, Steps, NoFile
<1>2. Counted = {}
  BY DEF Counted
<1>3. Covered
  BY <1>2, FS_EmptySet DEF Covered, NoFile
<1> QED
  BY <1>1, <1>3 DEF IInv, RationaleProven, OwnBranch, OnlySurvivorsProposed, PrShowsItsRun

(* The invariant that everything below follows from. *)
THEOREM Inductive == Spec => []IInv
<1>1. IInv /\ [Next]_vars => IInv'
  BY TypeStep, ProvenStep, BranchStep, CoveredStep DEF IInv
<1> QED
  BY <1>1, InitInv, PTL DEF Spec

(* The state of the jobs and of GitHub is what the module says. *)
THEOREM TypeCorrect == Spec => []TypeOK
<1>1. IInv => TypeOK
  BY DEF IInv
<1> QED
  BY <1>1, Inductive, PTL

(* However many jobs race for the counter, fail and are run again, each    *)
(* pull request has a PUT of the counter that succeeded.                   *)
THEOREM Counting == Spec => []PrsAreCounted
<1>1. IInv => PrsAreCounted
  <2> SUFFICES ASSUME IInv PROVE PrsAreCounted
    OBVIOUS
  <2>1. Cardinality(prs) \in Nat
    BY FS_CardinalityType DEF IInv, Covered
  <2> QED
    BY <2>1, CountedFinite DEF IInv, Covered, PrsAreCounted, TypeOK, NoFile
<1> QED
  BY <1>1, Inductive, PTL

(* Nothing is proposed that did not pass the sandbox. *)
THEOREM OnlySurvivors == Spec => []OnlySurvivorsProposed
<1>1. IInv => OnlySurvivorsProposed
  BY DEF IInv
<1> QED
  BY <1>1, Inductive, PTL

(* No two runs ever share a branch behind a pull request. *)
THEOREM OwnPullRequests == Spec => []PrShowsItsRun
<1>1. IInv => PrShowsItsRun
  BY DEF IInv
<1> QED
  BY <1>1, Inductive, PTL
-----------------------------------------------------------------------------
(* How a run without faults gets through.  A run that was stopped: its job *)
(* starts and comes to nothing.                                            *)
Stopped == \E r \in Runs : pc[r] \notin {"sandbox", "rejected"} /\ r \notin proven

SeenBefore == \A r \in Runs : NoFile <= seen[r] /\ seen[r] <= counter

ProvenStaged ==
    \A r \in Runs :
        r \in proven /\ pc[r] \in {"read", "put", "commit", "push", "pr"} =>
            "rationale.md" \in staged[r]

(* Whoever is behind the counter, or lost against another one, leaves it   *)
(* with a count.                                                           *)
CountStarted ==
    /\ Counted # {} => counter # NoFile
    /\ \A r \in Runs : pc[r] = "failed" => counter # NoFile

(* The count is somebody's who can still open a pull request.              *)
Hopeful == prs # {} \/ Counted # {} \/ Stopped

Progress ==
    /\ CountStarted
    /\ \A r \in Runs : pc[r] = "done" => prs # {}
    /\ \A t \in 0..MaxClock :
          remote[t] \in Runs => pc[remote[t]] = "pr" \/ prs # {}
    /\ counter # NoFile => Hopeful

RaceInv == TypeOK /\ SeenBefore /\ ProvenStaged /\ (faults = 0 => Progress)
-----------------------------------------------------------------------------
LEMMA SeenStep == TypeOK /\ SeenBefore /\ [Next]_vars => SeenBefore'
<1> SUFFICES ASSUME TypeOK, SeenBefore, [Next]_vars PROVE SeenBefore'
  OBVIOUS
<1> USE DEF TypeOK, SeenBefore, NoFile, Goto, Step, Request, job, github
<1>1. CASE UNCHANGED vars
  BY <1>1 DEF vars
<1>2. CASE Tick
  BY <1>2 DEF Tick
<1>3. ASSUME NEW r \in Runs,
             Sandbox(r) \/ Fetch(r) \/ FetchNothing(r) \/ Extract(r)
             \/ PutRefused(r) \/ CommitBranch(r) \/ NothingToCommit(r)
             \/ PushBranch(r) \/ PushRefused(r) \/ OpenPr(r) \/ JobFails(r)
      PROVE  SeenBefore'
  BY <1>3 DEF Sandbox, Fetch, FetchNothing, Extract, PutRefused, CommitBranch,
              NothingToCommit, PushBranch, PushRefused, OpenPr, JobFails
<1>4. ASSUME NEW r \in Runs, ReadCounter(r) \/ Rerun(r) PROVE SeenBefore'
  BY <1>4 DEF ReadCounter, Rerun
<1>5. ASSUME NEW r \in Runs, PutCounter(r) PROVE SeenBefore'
  BY <1>5 DEF PutCounter, Accepts
<1> QED
  BY <1>1, <1>2, <1>3, <1>4, <1>5, StepCases

LEMMA StagedStep == TypeOK /\ ProvenStaged /\ [Next]_vars => ProvenStaged'
<1> SUFFICES ASSUME TypeOK, ProvenStaged, [Next]_vars PROVE ProvenStaged'
  OBVIOUS
<1> USE DEF TypeOK, ProvenStaged, Goto, Step, Request, job, github
<1>1. CASE UNCHANGED vars
  BY <1>1 DEF vars
<1>2. CASE Tick
  BY <1>2 DEF Tick
<1>3. ASSUME NEW r \in Runs,
             Sandbox(r) \/ Fetch(r) \/ FetchNothing(r)
             \/ ReadCounter(r) \/ PutCounter(r)
             \/ PutRefused(r) \/ CommitBranch(r) \/ NothingToCommit(r)
             \/ PushBranch(r) \/ PushRefused(r) \/ OpenPr(r) \/ JobFails(r)
      PROVE  ProvenStaged'
  BY <1>3 DEF Sandbox, Fetch, FetchNothing, ReadCounter, PutCounter, PutRefused,
              CommitBranch, NothingToCommit, PushBranch, PushRefused, OpenPr, JobFails
<1>4. ASSUME NEW r \in Runs, Extract(r) \/ Rerun(r) PROVE ProvenStaged'
  BY <1>4 DEF Extract, Rerun, Artifact, Allowed
<1> QED
  BY <1>1, <1>2, <1>3, <1>4, StepCases

(* What a job that was stopped, or has a count or a pull request, leaves   *)
(* to hope for.                                                            *)
LEMMA HopefulCases ==
    Hopeful <=> \/ prs # {}
                \/ \E r \in Runs : pc[r] \in {"commit", "push", "pr"}
                \/ \E r \in Runs : pc[r] \notin {"sandbox", "rejected"} /\ r \notin proven
BY DEF Hopeful, Counted, Stopped

(* Without a fault every step leaves somebody who can get through.         *)
LEMMA ProgressStep ==
    RaceInv /\ faults' = 0 /\ [Next]_vars => Progress'
<1> SUFFICES ASSUME RaceInv, faults' = 0, [Next]_vars PROVE Progress'
  OBVIOUS
<1>0. faults = 0 /\ ~\E kind : Fault(kind)
  <2>1. ASSUME NEW kind, Fault(kind) PROVE FALSE
    BY <2>1 DEF Fault, RaceInv, TypeOK
  <2>2. faults' = faults \/ \E kind : Fault(kind)
    BY StepCases
       DEF Tick, Sandbox, Fetch, FetchNothing, Extract, ReadCounter, PutCounter,
           PutRefused, CommitBranch, NothingToCommit, PushBranch, PushRefused,
           OpenPr, JobFails, Rerun, Step, Request, vars
  <2> QED
    BY <2>1, <2>2
<1> USE <1>0, PublicationAssumption
    DEF RaceInv, TypeOK, Progress, CountStarted, Counted, Goto, Step, Request, job, github
<1>1. CASE UNCHANGED vars
  BY <1>1 DEF vars, Hopeful, Stopped
<1>2. CASE Tick
  BY <1>2 DEF Tick, Hopeful, Stopped
<1>3. ASSUME NEW r \in Runs, Sandbox(r) PROVE Progress'
  <2>1. Hopeful => Hopeful'
    BY <1>3 DEF Sandbox, Hopeful, Stopped
  <2> QED
    BY <1>3, <2>1 DEF Sandbox
<1>4. ASSUME NEW r \in Runs,
             Fetch(r) \/ Extract(r) \/ ReadCounter(r) \/ CommitBranch(r) \/ Rerun(r)
      PROVE  Progress'
  <2>1. PICK to \in {"extract", "read", "put", "push", "fetch"} :
            /\ pc' = [pc EXCEPT ![r] = to]
            /\ pc[r] \in {"fetch", "extract", "read", "commit", "failed"}
            /\ pc[r] = "commit" <=> to = "push"
    BY <1>4 DEF Fetch, Extract, ReadCounter, CommitBranch, Rerun
  <2>2. UNCHANGED <<github, proven>>
    BY <1>4 DEF Fetch, Extract, ReadCounter, CommitBranch, Rerun
  <2>3. Counted' = Counted
    BY <2>1
  <2>4. Stopped => Stopped'
    BY <2>1, <2>2 DEF Stopped
  <2>5. Hopeful => Hopeful'
    BY <2>2, <2>3, <2>4 DEF Hopeful
  <2> HIDE DEF Counted
  <2> QED
    BY <2>1, <2>2, <2>3, <2>5
<1>5. ASSUME NEW r \in Runs, FetchNothing(r) \/ JobFails(r) PROVE Progress'
  BY <1>5 DEF FetchNothing, JobFails
<1>6. ASSUME NEW r \in Runs, PutCounter(r) PROVE Progress'
  <2>1. pc' = [pc EXCEPT ![r] = "commit"] /\ counter' = seen[r] + 1 /\ seen[r] = counter
    BY <1>6 DEF PutCounter, Accepts
  <2>2. counter' # NoFile
    BY <2>1 DEF SeenBefore, NoFile
  <2>3. Hopeful'
    BY <2>1 DEF Hopeful
  <2> QED
    BY <1>6, <2>1, <2>2, <2>3 DEF PutCounter
<1>7. ASSUME NEW r \in Runs, PutRefused(r) PROVE Progress'
  <2>1. counter # NoFile
    BY <1>7 DEF PutRefused, Accepts, SeenBefore, NoFile
  <2>2. Hopeful => Hopeful'
    BY <1>7 DEF PutRefused, Hopeful, Stopped
  <2> QED
    BY <1>7, <2>1, <2>2 DEF PutRefused
<1>8. ASSUME NEW r \in Runs, NothingToCommit(r) PROVE Progress'
  <2>1. r \notin proven
    BY <1>8 DEF NothingToCommit, CanCommit, ProvenStaged
  <2>2. Hopeful'
    BY <1>8, <2>1 DEF NothingToCommit, Hopeful, Stopped
  <2> QED
    BY <1>8, <2>2 DEF NothingToCommit
<1>9. ASSUME NEW r \in Runs, PushBranch(r) PROVE Progress'
  <2>1. pc' = [pc EXCEPT ![r] = "pr"]
    BY <1>9 DEF PushBranch
  <2>2. Hopeful'
    BY <2>1 DEF Hopeful
  <2> QED
    BY <1>9, <2>1, <2>2 DEF PushBranch
<1>10. ASSUME NEW r \in Runs, PushRefused(r) PROVE Progress'
  <2>1. remote[branch[r]] \in Runs
    BY <1>10 DEF PushRefused, CanPush
  <2>2. pc[remote[branch[r]]] = "pr" \/ prs # {}
    BY <2>1
  <2>3. Hopeful'
    BY <1>10, <2>1, <2>2 DEF PushRefused, Hopeful
  <2> QED
    BY <1>10, <2>3 DEF PushRefused
<1>11. ASSUME NEW r \in Runs, OpenPr(r) PROVE Progress'
  <2>1. prs' # {} /\ pc' = [pc EXCEPT ![r] = "done"]
    BY <1>11 DEF OpenPr
  <2> QED
    BY <1>11, <2>1 DEF OpenPr, Hopeful
<1> QED
  BY <1>1, <1>2, <1>3, <1>4, <1>5, <1>6, <1>7, <1>8, <1>9, <1>10, <1>11, StepCases

LEMMA RaceAlways == Spec => []RaceInv
<1>1. Init => RaceInv
  <2> SUFFICES ASSUME Init PROVE RaceInv
    OBVIOUS
  <2>1. TypeOK
    BY InitInv DEF IInv
  <2>2. Progress
    BY PublicationAssumption DEF Init, Progress, CountStarted, Counted
  <2> QED
    BY <2>1, <2>2 DEF Init, RaceInv, SeenBefore, ProvenStaged, NoFile
<1>2. RaceInv /\ [Next]_vars => RaceInv'
  BY TypeStep, SeenStep, StagedStep, ProgressStep DEF RaceInv
<1> QED
  BY <1>1, <1>2, PTL DEF Spec

(* Without faults, and with proven runs only, the race for the counter and *)
(* for the names of branches is not lost by everyone.                      *)
THEOREM RaceIsWon == Spec => []SomeoneGetsThrough
<1>1. RaceInv => SomeoneGetsThrough
  <2> SUFFICES ASSUME RaceInv, faults = 0,
                      \A r \in Runs : pc[r] \in {"rejected", "failed", "done"},
                      NEW r \in Runs, pc[r] # "rejected",
                      \A q \in Runs : pc[q] # "rejected" => q \in proven
               PROVE  prs # {}
    BY DEF SomeoneGetsThrough
  <2>1. CASE pc[r] = "done"
    BY <2>1 DEF RaceInv, Progress
  <2>2. CASE pc[r] = "failed"
    BY <2>2, HopefulCases DEF RaceInv, Progress, CountStarted
  <2> QED
    BY <2>1, <2>2
<1> QED
  BY <1>1, RaceAlways, PTL
=============================================================================
