------------------------- MODULE EvolutionDaemonProofs -------------------------
(***************************************************************************)
(* Theorems about what the engine publishes, for any number of instances   *)
(* and mutations, any messages, and any faults.                            *)
(***************************************************************************)
EXTENDS EvolutionDaemon, SequenceTheorems, FiniteSetTheorems, TLAPS

(* The steps of a cycle that has its mutation. *)
Publishing == {"gitAdd", "gitCommit", "gitPush", "gitMain", "register"}
Working == {"analyse", "write", "sandbox", "approve", "gitStaging"} \cup Publishing

(* Those before a mutation is in the index. *)
Early == {"analyse", "write", "sandbox", "approve", "gitStaging", "gitAdd"}

(* The steps without the lock. *)
Outside == {"off", "open", "flock"}

(* Each instance that is under way finds a mutation to make. *)
EnoughToDraw == drawn + Cardinality(Pending) <= Len(Forge)

HasJob == \A d \in Daemons : pc[d] \in Working => job[d] \in Mutations

(* There is a main, and the branch that is checked out. *)
CheckedOut == branch["main"] # <<>> /\ branch[head] # <<>>

TypeInv == TypeOK /\ EnoughToDraw /\ HasJob /\ CheckedOut

Histories == {branch[b] : b \in Branches} \cup {origin[b] : b \in Branches}

(* What is staged or committed, here or there, is a survivor, and so is    *)
(* what a cycle is about to stage.                                         *)
Survivors(h) == \A i \in 1..Len(h) : h[i].gen \subseteq survived

OnlySurvivors ==
    /\ \A h \in Histories : Survivors(h)
    /\ index.gen \subseteq survived
    /\ \A d \in Daemons :
          pc[d] \in {"approve", "gitStaging", "gitAdd"} => job[d] \in survived

(* No commit takes a mutation back, nor will the next one. *)
Grown(h) == \A i, j \in 1..Len(h) : i <= j => h[i].gen \subseteq h[j].gen

NothingTakenBack ==
    /\ \A h \in Histories : Grown(h)
    /\ Tracked.gen \subseteq index.gen

(* One instance at a time is in a cycle. *)
LockHeld == \A d \in Daemons : pc[d] \notin Outside => lock = d

(* What origin shows of evolution-staging. *)
Shown == IF origin["staging"] = <<>> THEN {} ELSE Tip(origin["staging"]).gen

(* The hive ledger, on disk, staged or committed, is of what origin shows, *)
(* and so is what a cycle is about to enter.                               *)
HiveShown ==
    /\ hive \subseteq Shown /\ index.hive \subseteq Shown
    /\ \A b \in Branches : \A i \in 1..Len(branch[b]) : branch[b][i].hive \subseteq Shown

OnItsWay ==
    \A d \in Daemons :
        /\ pc[d] \in {"gitAdd", "gitCommit", "gitPush"} => head = "staging"
        /\ pc[d] = "gitCommit" => job[d] \in index.gen
        /\ pc[d] = "gitPush" => job[d] \in Tracked.gen
        /\ pc[d] \in {"gitMain", "register"} => job[d] \in Shown

HistoryInv == TypeInv /\ OnlySurvivors /\ NothingTakenBack

HiveInv == HistoryInv /\ LockHeld /\ HiveShown /\ OnItsWay
-----------------------------------------------------------------------------
PendingSteps == {"open", "flock", "loop", "vault", "evolve"}

(* The steps that leave git, the disk and the history alone, by what       *)
(* matters of them here: where they lead, and the lock.                    *)
Leads(d, to) ==
    /\ to \in PendingSteps =>
          pc[d] \in PendingSteps \/ drawn + Cardinality(Pending) < Len(Forge)
    /\ to \in Working => pc[d] \in Working
    /\ to \in Early => pc[d] \in Early
    /\ to \in {"approve", "gitStaging", "gitAdd"} =>
          pc[d] \in {"approve", "gitStaging", "gitAdd"}
    /\ to \in {"gitAdd", "gitCommit", "gitPush", "gitMain"} => pc[d] = to
    /\ to = "register" =>
          \/ pc[d] = "register"
          \/ pc[d] = "gitMain" /\ (~CanCheckoutMain \/ "checkout" \in Faults)
    /\ to \notin Outside => pc[d] \notin Outside \/ (lock = None /\ lock' = d)

Plain(d) ==
    /\ UNCHANGED <<gitVars, history>>
    /\ \E to \in Steps :
          /\ pc' = [pc EXCEPT ![d] = to]
          /\ Leads(d, to)
          /\ \/ UNCHANGED <<lock, job>>
             \/ lock = None /\ lock' = d /\ UNCHANGED job
             \/ /\ to = "off" /\ lock' = (IF lock = d THEN None ELSE lock)
                /\ job' = [job EXCEPT ![d] = None]

(* A git command, or an entry in the hive ledger, that succeeds. *)
Succeeds(d, from, to) == Goto(d, from, to) /\ UNCHANGED <<process, report, history>>

GitStep(d) ==
    \/ Succeeds(d, "gitStaging", "gitAdd") /\ CheckoutStaging
    \/ Succeeds(d, "gitAdd", "gitCommit") /\ AddFile(job[d])
    \/ Succeeds(d, "gitCommit", "gitPush") /\ Commit
    \/ Succeeds(d, "gitPush", "gitMain") /\ CanPush("staging") /\ Push("staging")
    \/ Succeeds(d, "gitMain", "register") /\ CheckoutMain
    \/ Succeeds(d, "ledgerAdd", "ledgerCommit") /\ CanAddLedgers /\ AddLedgers
    \/ Succeeds(d, "ledgerCommit", "ledgerPush") /\ Commit
    \/ Succeeds(d, "ledgerPush", "published") /\ CanPush("main") /\ Push("main")

Enters(d) ==
    /\ Succeeds(d, "register", "success")
    /\ hive' = hive \cup {job[d]}
    /\ UNCHANGED <<repository, files, quarantine>>

(* Next, action by action. *)
LEMMA StepCases ==
    ASSUME [Next]_vars
    PROVE  \/ UNCHANGED vars
           \/ \E d \in Daemons :
                 \/ Start(d) \/ OpenLock(d) \/ OpenLockFails(d) \/ TakeLock(d)
                 \/ RefuseSecond(d) \/ Signal(d) \/ LoopHead(d) \/ CycleReturns(d)
                 \/ CycleThrows(d) \/ Finish(d) \/ Unlock(d) \/ MakeVault(d)
                 \/ Quarantine(d) \/ Evolve(d) \/ Analyse(d) \/ WriteTarget(d)
                 \/ SandboxSucceeds(d) \/ SandboxFails(d) \/ Approve(d)
                 \/ UploadFailed(d) \/ Published(d) \/ Publish(d)
                 \/ Transmit(d) \/ HostReads(d) \/ HangUp(d) \/ Crash(d)
BY DEF Next, Advance, Cycle

LEMMA PublishCases ==
    ASSUME NEW d \in Daemons, Publish(d), TypeOK
    PROVE  GitStep(d) \/ Enters(d) \/ (Plain(d) /\ UNCHANGED <<process, report>>)
<1> DEFINE P == Plain(d) /\ UNCHANGED <<process, report>>
<1>1. ASSUME UNCHANGED <<gitVars, process, report, history>>,
             \/ /\ \E to \in {"refused", "success", "ledgerCommit", "ledgerPush", "published"} :
                      pc' = [pc EXCEPT ![d] = to]
                /\ pc[d] \notin Outside
             \/ /\ Goto(d, "gitMain", "register")
                /\ ~CanCheckoutMain \/ "checkout" \in Faults
      PROVE  P
  <2>1. PICK to \in Steps :
           /\ pc' = [pc EXCEPT ![d] = to] /\ pc[d] \notin Outside
           /\ \/ to \in {"refused", "success", "ledgerCommit", "ledgerPush", "published"}
              \/ /\ pc[d] = "gitMain" /\ to = "register"
                 /\ ~CanCheckoutMain \/ "checkout" \in Faults
    BY <1>1 DEF Goto, Steps, Outside
  <2>2. Leads(d, to)
    BY <2>1 DEF Leads, PendingSteps, Working, Publishing, Early, Outside
  <2> QED
    BY <1>1, <2>1, <2>2 DEF Plain, process
<1> HIDE DEF P
<1> USE DEF Outside, Command, Goto
<1>2. CASE Stage(d)
  BY <1>1, <1>2 DEF Stage, GitStep, Succeeds, P
<1>3. CASE AddMutation(d)
  BY <1>1, <1>3 DEF AddMutation, GitStep, Succeeds, P
<1>4. CASE CommitMutation(d)
  BY <1>1, <1>4 DEF CommitMutation, GitStep, Succeeds, P
<1>5. CASE PushMutation(d)
  BY <1>1, <1>5 DEF PushMutation, GitStep, Succeeds, P
<1>6. CASE BackToMain(d)
  BY <1>1, <1>6 DEF BackToMain, GitStep, Succeeds, P
<1>7. CASE Register(d)
  BY <1>1, <1>7 DEF Register, Enters, Succeeds, P
<1>8. CASE AddBothLedgers(d)
  BY <1>1, <1>8 DEF AddBothLedgers, GitStep, Succeeds, P
<1>9. CASE CommitLedgers(d)
  BY <1>1, <1>9 DEF CommitLedgers, GitStep, Succeeds, P
<1>10. CASE PushLedgers(d)
  BY <1>1, <1>10 DEF PushLedgers, GitStep, Succeeds, P
<1> QED
  BY <1>2, <1>3, <1>4, <1>5, <1>6, <1>7, <1>8, <1>9, <1>10 DEF Publish, P

LEMMA TransmitCases ==
    ASSUME NEW d \in Daemons, TypeOK, Transmit(d) \/ HostReads(d) \/ HangUp(d)
    PROVE  /\ UNCHANGED <<gitVars, lock, running, job, succeeded, report, history>>
           /\ ping' \in [Daemons -> Telemetry]
           /\ \E to \in {pc[d], "failed", "ledgerAdd", "sendThreat", "sendSuccess"} :
                 /\ pc' = [pc EXCEPT ![d] = to]
                 /\ to # pc[d] => pc[d] \in {"threat", "success", "sendThreat", "sendSuccess"}
<1> USE DaemonAssumption DEF TypeOK, Goto
<1>n. NoPing \in Telemetry /\ [unsent |-> Payload, retries |-> Retries, writable |-> TRUE] \in Telemetry
  BY DEF NoPing, Telemetry
<1>p. pc = [pc EXCEPT ![d] = pc[d]]
  OBVIOUS
<1>1. ASSUME NEW from \in {"threat", "success"}, NEW sending, NEW after, Connect(d, from, sending, after)
      PROVE  /\ UNCHANGED <<gitVars, lock, running, job, succeeded, report, history>>
             /\ ping' \in [Daemons -> Telemetry]
             /\ pc[d] = from
             /\ pc' = [pc EXCEPT ![d] = sending] \/ pc' = [pc EXCEPT ![d] = after]
  BY <1>1, <1>n DEF Connect, Move, process
<1>2. ASSUME NEW sending, NEW after, Close(d, sending, after)
      PROVE  /\ UNCHANGED <<gitVars, lock, running, job, succeeded, report, history>>
             /\ ping' \in [Daemons -> Telemetry]
             /\ pc[d] = sending /\ pc' = [pc EXCEPT ![d] = after]
  BY <1>2, <1>n DEF Close
<1>3. CASE Send(d) \/ TryAgain(d) \/ HostReads(d)
  <2>1. UNCHANGED <<gitVars, pc, lock, running, job, succeeded, report, history>>
    BY <1>3 DEF Send, TryAgain, HostReads
  <2>2. ping' \in [Daemons -> Telemetry]
    <3>1. ping[d] \in Telemetry /\ Transmitting(d) /\ Payload \in Nat /\ Retries \in Nat
      BY <1>3 DEF Send, TryAgain, HostReads
    <3>2. CASE Send(d)
      <4>1. PICK rest \in 0..ping[d].unsent - 1, room \in BOOLEAN :
               ping' = [ping EXCEPT ![d].unsent = rest, ![d].writable = room]
        BY <3>2 DEF Send
      <4>2. rest \in 0..Payload
        BY <3>1, <4>1 DEF Telemetry
      <4> QED
        BY <3>1, <4>1, <4>2 DEF Telemetry
    <3>3. CASE TryAgain(d)
      <4>1. ping[d].retries - 1 \in 0..Retries
        BY <3>1 DEF Telemetry, Transmitting
      <4> QED
        BY <3>1, <3>3, <4>1 DEF Telemetry, TryAgain
    <3>4. CASE HostReads(d)
      BY <3>1, <3>4 DEF Telemetry, HostReads
    <3> QED
      BY <1>3, <3>2, <3>3, <3>4
  <2> QED
    BY <1>p, <2>1, <2>2
<1>4. CASE \/ Connect(d, "threat", "sendThreat", "failed")
           \/ Connect(d, "success", "sendSuccess", "ledgerAdd")
  BY <1>1, <1>4
<1>5. CASE Close(d, "sendThreat", "failed") \/ Close(d, "sendSuccess", "ledgerAdd")
  BY <1>2, <1>5
<1> QED
  BY <1>3, <1>4, <1>5 DEF Transmit, HangUp

(* Every step that is not one of git, of the forge or of the sandbox run. *)
LEMMA StepKinds ==
    ASSUME TypeOK, [Next]_vars
    PROVE  \/ UNCHANGED vars
           \/ \E d \in Daemons :
                 \/ Plain(d) \/ GitStep(d) \/ Enters(d)
                 \/ Evolve(d) \/ WriteTarget(d)
                 \/ SandboxSucceeds(d) \/ SandboxFails(d)
<1> USE DEF TypeOK, Goto, Move, Report, End, Fail, process, report, Leads,
            PendingSteps, Working, Publishing, Early, Outside
<1>1. ASSUME NEW d \in Daemons, Start(d) \/ OpenLock(d) \/ TakeLock(d) \/ LoopHead(d)
      PROVE  Plain(d)
  <2>1. CASE Start(d)
    BY <2>1 DEF Start, Plain, Steps
  <2>2. CASE OpenLock(d)
    BY <2>2 DEF OpenLock, Plain, Steps
  <2>3. CASE TakeLock(d)
    BY <2>3 DEF TakeLock, Plain, Steps
  <2>4. CASE LoopHead(d)
    BY <2>4 DEF LoopHead, Plain, Steps
  <2> QED
    BY <1>1, <2>1, <2>2, <2>3, <2>4
<1>2. ASSUME NEW d \in Daemons, End(d), UNCHANGED <<gitVars, history>>
      PROVE  Plain(d)
  BY <1>2 DEF Plain, Steps
<1>3. ASSUME NEW d \in Daemons, UNCHANGED <<gitVars, history, lock, job>>,
             NEW to \in {"finish", "unlock", "evolve", "returned", "write", "threat",
                         "gitStaging", "failed", "ledgerAdd", "sendThreat", "sendSuccess"},
             pc' = [pc EXCEPT ![d] = to],
             pc[d] \notin Outside,
             to = "write" => pc[d] = "analyse",
             to = "gitStaging" => pc[d] = "approve",
             to = "evolve" => pc[d] = "vault"
      PROVE  Plain(d)
  <2>1. Leads(d, to) /\ to \in Steps
    BY <1>3 DEF Steps
  <2> HIDE DEF Leads
  <2> QED
    BY <1>3, <2>1 DEF Plain
<1>4. ASSUME NEW d \in Daemons, UNCHANGED <<gitVars, history, lock, job, pc>>
      PROVE  Plain(d)
  <2>1. pc' = [pc EXCEPT ![d] = pc[d]] /\ Leads(d, pc[d]) /\ pc[d] \in Steps
    BY <1>4
  <2> HIDE DEF Leads
  <2> QED
    BY <1>4, <2>1 DEF Plain
<1>5. ASSUME NEW d \in Daemons,
             \/ OpenLockFails(d) \/ RefuseSecond(d) \/ CycleThrows(d) \/ Unlock(d) \/ Crash(d)
      PROVE  Plain(d)
  <2>1. End(d) /\ UNCHANGED <<gitVars, history>>
    BY <1>5 DEF OpenLockFails, RefuseSecond, CycleThrows, Unlock, Crash
  <2> HIDE DEF End
  <2> QED
    BY <2>1, <1>2
<1>6. ASSUME NEW d \in Daemons,
             \/ CycleReturns(d) \/ Finish(d) \/ MakeVault(d) \/ Quarantine(d) \/ Analyse(d)
             \/ Approve(d) \/ UploadFailed(d) \/ Published(d)
      PROVE  Plain(d)
  <2>1. UNCHANGED <<gitVars, history, lock, job>>
    BY <1>6 DEF CycleReturns, Finish, MakeVault, Quarantine, Analyse, Approve,
                UploadFailed, Published
  <2>2. \E to \in {"finish", "unlock", "evolve", "returned", "write", "threat", "gitStaging"} :
           /\ pc' = [pc EXCEPT ![d] = to]
           /\ pc[d] \notin Outside
           /\ to = "write" => pc[d] = "analyse"
           /\ to = "gitStaging" => pc[d] = "approve"
           /\ to = "evolve" => pc[d] = "vault"
    BY <1>6 DEF CycleReturns, Finish, MakeVault, Quarantine, Analyse, Approve,
                UploadFailed, Published
  <2> QED
    BY <1>3, <2>1, <2>2
<1>7. ASSUME NEW d \in Daemons, Signal(d) PROVE Plain(d)
  BY <1>4, <1>7 DEF Signal
<1>8. ASSUME NEW d \in Daemons, Transmit(d) \/ HostReads(d) \/ HangUp(d) PROVE Plain(d)
  <2>1. UNCHANGED <<gitVars, history, lock, job>>
    BY <1>8, TransmitCases
  <2>2. PICK to \in {pc[d], "failed", "ledgerAdd", "sendThreat", "sendSuccess"} :
           /\ pc' = [pc EXCEPT ![d] = to]
           /\ to # pc[d] => pc[d] \in {"threat", "success", "sendThreat", "sendSuccess"}
    BY <1>8, TransmitCases
  <2>3. CASE to = pc[d]
    <3>1. pc' = pc
      BY <2>2, <2>3
    <3> QED
      BY <1>4, <2>1, <3>1
  <2>4. CASE to # pc[d]
    BY <1>3, <2>1, <2>2, <2>4
  <2> QED
    BY <2>3, <2>4
<1> HIDE DEF Goto, Move, Report, End, Fail, process, report, Leads,
             PendingSteps, Working, Publishing, Early, Outside
<1> QED
  BY StepCases, PublishCases, <1>1, <1>5, <1>6, <1>7, <1>8
-----------------------------------------------------------------------------
LEMMA TipTypes ==
    ASSUME NEW h \in Seq(Trees), h # <<>>
    PROVE  Len(h) \in 1..Len(h) /\ Tip(h) \in Trees
<1>1. Len(h) \in 1..Len(h)
  BY EmptySeq, LenProperties
<1> QED
  BY <1>1, ElementOfSeq DEF Tip

(* What the git commands do to the repository keeps its types. *)
LEMMA GitTypes ==
    ASSUME GitTypeOK, CheckedOut, HasJob, NEW d \in Daemons, GitStep(d) \/ Enters(d)
    PROVE  GitTypeOK' /\ CheckedOut'
<1> USE DEF GitTypeOK, CheckedOut, disk, repository, Branches
<1>0. pc[d] \in {"gitAdd", "register"} => job[d] \in Mutations
  BY DEF HasJob, Working, Publishing
<1>1. CASE CheckoutStaging \/ Push("staging") \/ Push("main")
  BY <1>1 DEF CheckoutStaging, Push
<1>2. CASE AddFile(job[d]) /\ pc[d] = "gitAdd"
  BY <1>0, <1>2 DEF AddFile, Trees
<1>3. CASE Commit
  <2>1. /\ Append(branch[head], index) \in Seq(Trees)
        /\ Append(branch[head], index) # <<>>
    <3>1. branch[head] \in Seq(Trees) /\ index \in Trees
      OBVIOUS
    <3> QED
      BY <3>1, AppendProperties
  <2> QED
    BY <1>3, <2>1 DEF Commit
<1>4. CASE CheckoutMain
  <2>1. Tip(branch["main"]) \in Trees /\ Tracked \in Trees
    BY TipTypes DEF Tracked
  <2>2. index' = Tip(branch["main"]) /\ head' = "main" /\ UNCHANGED <<branch, origin>>
    BY <1>4 DEF CheckoutMain
  <2>3. files' \subseteq Mutations /\ quarantine' \subseteq Mutations /\ hive' \subseteq Mutations
    BY <1>4, <2>1 DEF CheckoutMain, Carried, Trees
  <2> QED
    BY <2>1, <2>2, <2>3
<1>5. CASE AddLedgers
  BY <1>5 DEF AddLedgers, Trees
<1>6. CASE Enters(d)
  <2>1. hive' \subseteq Mutations
    BY <1>0, <1>6 DEF Enters, Succeeds, Goto
  <2> QED
    BY <1>6, <2>1 DEF Enters
<1> HIDE DEF GitTypeOK, CheckedOut, disk, repository, Branches
<1>7. GitStep(d) =>
         \/ CheckoutStaging \/ Push("staging") \/ Push("main")
         \/ AddFile(job[d]) /\ pc[d] = "gitAdd"
         \/ Commit \/ CheckoutMain \/ AddLedgers
  BY DEF GitStep, Succeeds, Goto
<1> QED
  BY <1>1, <1>2, <1>3, <1>4, <1>5, <1>6, <1>7

LEMMA PendingCounts ==
    /\ IsFiniteSet(Pending) /\ Cardinality(Pending) \in Nat
    /\ \A S \in SUBSET Pending : Cardinality(S) \in Nat /\ Cardinality(S) <= Cardinality(Pending)
<1>1. Pending \in SUBSET Daemons
  BY DEF Pending
<1>2. IsFiniteSet(Pending)
  BY <1>1, DaemonAssumption, FS_Subset
<1>3. \A S \in SUBSET Pending :
         IsFiniteSet(S) /\ Cardinality(S) <= Cardinality(Pending)
  BY <1>2, FS_Subset
<1> QED
  BY <1>2, <1>3, FS_CardinalityType

(* An instance is started only when there is a mutation left for it. *)
LEMMA DrawStep == TypeOK /\ EnoughToDraw /\ [Next]_vars => EnoughToDraw' /\ drawn' \in 0..Len(Forge)
<1> SUFFICES ASSUME TypeOK, EnoughToDraw, [Next]_vars
             PROVE  EnoughToDraw' /\ drawn' \in 0..Len(Forge)
  OBVIOUS
<1> USE DaemonAssumption DEF TypeOK, EnoughToDraw
<1>0. /\ drawn \in Nat /\ Len(Forge) \in Nat /\ Cardinality(Pending) \in Nat
      /\ drawn + Cardinality(Pending) <= Len(Forge)
  BY LenProperties, PendingCounts
<1>1. ASSUME Pending' \in SUBSET Pending, drawn' = drawn
      PROVE  EnoughToDraw' /\ drawn' \in 0..Len(Forge)
  <2>1. Cardinality(Pending') \in Nat /\ Cardinality(Pending') <= Cardinality(Pending)
    BY <1>1, PendingCounts
  <2> QED
    BY <1>0, <1>1, <2>1
<1>2. CASE UNCHANGED vars
  BY <1>1, <1>2 DEF vars, history, Pending
<1>3. ASSUME NEW d \in Daemons, Plain(d) PROVE EnoughToDraw' /\ drawn' \in 0..Len(Forge)
  <2>1. PICK to \in Steps : pc' = [pc EXCEPT ![d] = to] /\ Leads(d, to)
    BY <1>3 DEF Plain
  <2>2. drawn' = drawn
    BY <1>3 DEF Plain, history
  <2>3. CASE to \notin PendingSteps \/ pc[d] \in PendingSteps
    <3>1. Pending' \in SUBSET Pending
      BY <2>1, <2>3 DEF Pending, PendingSteps
    <3> QED
      BY <1>1, <2>2, <3>1
  <2>4. CASE drawn + Cardinality(Pending) < Len(Forge) /\ to \in PendingSteps
    <3>1. Pending' = Pending \cup {d}
      BY <2>1, <2>4 DEF Pending, PendingSteps
    <3>2. Cardinality(Pending') <= Cardinality(Pending) + 1 /\ Cardinality(Pending') \in Nat
      <4>1. Cardinality(Pending \cup {d}) =
               IF d \in Pending THEN Cardinality(Pending) ELSE Cardinality(Pending) + 1
        BY PendingCounts, FS_AddElement
      <4> QED
        BY <1>0, <3>1, <4>1
    <3> QED
      BY <1>0, <2>2, <2>4, <3>2
  <2> QED
    BY <2>1, <2>3, <2>4 DEF Leads
<1>4. ASSUME NEW d \in Daemons,
             GitStep(d) \/ Enters(d) \/ WriteTarget(d) \/ SandboxSucceeds(d) \/ SandboxFails(d)
      PROVE  EnoughToDraw' /\ drawn' \in 0..Len(Forge)
  <2>1. drawn' = drawn /\ \E to \in Steps \ PendingSteps : pc' = [pc EXCEPT ![d] = to]
    BY <1>4 DEF GitStep, Enters, Succeeds, WriteTarget, SandboxSucceeds, SandboxFails,
                Goto, history, Steps, PendingSteps
  <2>2. Pending' \in SUBSET Pending
    BY <2>1 DEF Pending, PendingSteps
  <2> QED
    BY <1>1, <2>1, <2>2
<1>5. ASSUME NEW d \in Daemons, Evolve(d) PROVE EnoughToDraw' /\ drawn' \in 0..Len(Forge)
  <2>1. d \in Pending /\ Pending' = Pending \ {d} /\ drawn' = drawn + 1
    BY <1>5 DEF Evolve, Goto, Pending
  <2>2. Cardinality(Pending') = Cardinality(Pending) - 1 /\ Cardinality(Pending') \in Nat
    BY <1>0, <2>1, PendingCounts, FS_RemoveElement
  <2> QED
    BY <1>0, <2>1, <2>2
<1> QED
  BY StepKinds, <1>2, <1>3, <1>4, <1>5

LEMMA JobStep == TypeOK /\ EnoughToDraw /\ HasJob /\ [Next]_vars => HasJob' /\ job' \in [Daemons -> Mutations \cup {None}]
<1> SUFFICES ASSUME TypeOK, EnoughToDraw, HasJob, [Next]_vars
             PROVE  HasJob' /\ job' \in [Daemons -> Mutations \cup {None}]
  OBVIOUS
<1> USE DaemonAssumption DEF TypeOK, HasJob, Goto
<1>1. CASE UNCHANGED vars
  BY <1>1 DEF vars, process
<1>2. ASSUME NEW d \in Daemons, Plain(d) PROVE HasJob' /\ job' \in [Daemons -> Mutations \cup {None}]
  <2>1. PICK to \in Steps :
           /\ pc' = [pc EXCEPT ![d] = to]
           /\ to \in Working => pc[d] \in Working
           /\ job' = job \/ (to = "off" /\ job' = [job EXCEPT ![d] = None])
    BY <1>2 DEF Plain, Leads
  <2>2. "off" \notin Working
    BY DEF Working, Publishing
  <2> QED
    BY <2>1, <2>2
<1>3. ASSUME NEW d \in Daemons,
             GitStep(d) \/ Enters(d) \/ WriteTarget(d) \/ SandboxSucceeds(d) \/ SandboxFails(d)
      PROVE  HasJob' /\ job' \in [Daemons -> Mutations \cup {None}]
  <2>1. /\ job' = job
        /\ \E to \in Steps : /\ pc' = [pc EXCEPT ![d] = to]
                             /\ to \in Working => pc[d] \in Working
    BY <1>3 DEF GitStep, Enters, Succeeds, WriteTarget, SandboxSucceeds, SandboxFails,
                process, Steps, Working, Publishing
  <2> QED
    BY <2>1
<1>4. ASSUME NEW d \in Daemons, Evolve(d) PROVE HasJob' /\ job' \in [Daemons -> Mutations \cup {None}]
  <2>1. drawn' = drawn + 1 /\ drawn' \in 0..Len(Forge)
    BY <1>4, DrawStep DEF Evolve
  <2>2. Forge[drawn'] \in Mutations
    BY <2>1, ElementOfSeq
  <2> QED
    BY <1>4, <2>2 DEF Evolve
<1> QED
  BY StepKinds, <1>1, <1>2, <1>3, <1>4

(* Every step keeps the types. *)
LEMMA TypeStep == TypeInv /\ [Next]_vars => TypeInv'
<1> SUFFICES ASSUME TypeInv, [Next]_vars PROVE TypeInv'
  OBVIOUS
<1> USE DaemonAssumption DEF TypeInv
<1>0. /\ EnoughToDraw' /\ HasJob'
      /\ drawn' \in 0..Len(Forge) /\ job' \in [Daemons -> Mutations \cup {None}]
  BY DrawStep, JobStep
<1>1. GitTypeOK' /\ CheckedOut'
  <2>1. CASE UNCHANGED gitVars
    BY <2>1 DEF gitVars, repository, disk, GitTypeOK, CheckedOut, TypeOK
  <2>2. ASSUME NEW d \in Daemons, GitStep(d) \/ Enters(d) PROVE GitTypeOK' /\ CheckedOut'
    BY <2>2, GitTypes DEF TypeOK
  <2>3. ASSUME NEW d \in Daemons, WriteTarget(d) \/ SandboxFails(d)
        PROVE  GitTypeOK' /\ CheckedOut'
    <3>1. job[d] \in Mutations
      BY <2>3 DEF WriteTarget, SandboxFails, Goto, HasJob, Working
    <3> QED
      BY <2>3, <3>1 DEF WriteTarget, SandboxFails, repository, GitTypeOK, CheckedOut, TypeOK
  <2> QED
    BY StepKinds, <2>1, <2>2, <2>3 DEF vars, Plain, Evolve, SandboxSucceeds
<1>2. /\ pc' \in [Daemons -> Steps] /\ lock' \in Daemons \cup {None}
  <2>1. ASSUME NEW d \in Daemons, Plain(d)
        PROVE  pc' \in [Daemons -> Steps] /\ lock' \in Daemons \cup {None}
    BY <2>1 DEF Plain, TypeOK
  <2>2. ASSUME NEW d \in Daemons,
               GitStep(d) \/ Enters(d) \/ Evolve(d) \/ WriteTarget(d)
               \/ SandboxSucceeds(d) \/ SandboxFails(d)
        PROVE  pc' \in [Daemons -> Steps] /\ lock' \in Daemons \cup {None}
    <3>1. lock' = lock /\ \E to \in Steps : pc' = [pc EXCEPT ![d] = to]
      BY <2>2 DEF GitStep, Enters, Succeeds, Evolve, WriteTarget, SandboxSucceeds,
                  SandboxFails, Goto, process, Steps
    <3> QED
      BY <3>1 DEF TypeOK
  <2>3. CASE UNCHANGED vars
    BY <2>3 DEF vars, process, TypeOK
  <2> QED
    BY StepKinds, <2>1, <2>2, <2>3
<1>3. /\ running' \in [Daemons -> BOOLEAN] /\ succeeded' \in [Daemons -> BOOLEAN]
      /\ ping' \in [Daemons -> Telemetry]
      /\ status' \in {"none", "published", "quarantined"}
      /\ rationale' \in Mutations \cup {None}
      /\ survived' \subseteq Mutations
  <2> DEFINE Kept == UNCHANGED <<running, succeeded, ping, status, rationale, survived>>
             Goal == /\ running' \in [Daemons -> BOOLEAN] /\ succeeded' \in [Daemons -> BOOLEAN]
                     /\ ping' \in [Daemons -> Telemetry]
                     /\ status' \in {"none", "published", "quarantined"}
                     /\ rationale' \in Mutations \cup {None}
                     /\ survived' \subseteq Mutations
  <2> USE DEF TypeOK, process, report, history
  <2>1. CASE UNCHANGED vars
    BY <2>1 DEF vars
  <2>2. ASSUME NEW d \in Daemons,
               \/ Start(d) \/ OpenLock(d) \/ LoopHead(d) \/ MakeVault(d) \/ Analyse(d)
               \/ TakeLock(d) \/ Evolve(d) \/ WriteTarget(d) \/ SandboxFails(d)
        PROVE  Goal
    <3>1. Kept
      BY <2>2 DEF Start, OpenLock, LoopHead, MakeVault, Analyse, Move, TakeLock,
                  Evolve, WriteTarget, SandboxFails
    <3> QED
      BY <3>1
  <2>3. ASSUME NEW d \in Daemons, Publish(d) PROVE Goal
    <3>1. Kept
      BY <2>3, PublishCases DEF GitStep, Enters, Succeeds, Plain
    <3> QED
      BY <3>1
  <2>4. ASSUME NEW d \in Daemons,
               Finish(d) \/ Quarantine(d) \/ UploadFailed(d) \/ Published(d)
        PROVE  Goal
    <3>1. /\ UNCHANGED <<running, succeeded, ping, rationale, survived>>
          /\ status' \in {"published", "quarantined"}
      BY <2>4 DEF Finish, Quarantine, UploadFailed, Published, Report
    <3> QED
      BY <3>1
  <2>5. ASSUME NEW d \in Daemons,
               \/ OpenLockFails(d) \/ RefuseSecond(d) \/ CycleThrows(d)
               \/ Unlock(d) \/ Crash(d)
        PROVE  Goal
    <3>1. /\ End(d) /\ UNCHANGED <<rationale, survived>>
          /\ status' \in {status, "quarantined"}
      BY <2>5 DEF OpenLockFails, RefuseSecond, CycleThrows, Unlock, Crash, Fail
    <3>2. NoPing \in Telemetry
      BY DEF NoPing, Telemetry
    <3> QED
      BY <3>1, <3>2 DEF End
  <2>6. ASSUME NEW d \in Daemons, Signal(d) \/ CycleReturns(d) PROVE Goal
    BY <2>6 DEF Signal, CycleReturns
  <2>7. ASSUME NEW d \in Daemons, Approve(d) \/ SandboxSucceeds(d) PROVE Goal
    <3>1. job[d] \in Mutations
      BY <2>7 DEF Approve, SandboxSucceeds, Goto, HasJob, Working
    <3> QED
      BY <2>7, <3>1 DEF Approve, SandboxSucceeds
  <2>8. ASSUME NEW d \in Daemons, Transmit(d) \/ HostReads(d) \/ HangUp(d) PROVE Goal
    <3>1. /\ UNCHANGED <<gitVars, lock, running, job, succeeded, report, history>>
          /\ ping' \in [Daemons -> Telemetry]
      BY <2>8, TransmitCases
    <3> QED
      BY <3>1
  <2> HIDE DEF TypeOK, process, report, history
  <2> QED
    BY StepCases, <2>1, <2>2, <2>3, <2>4, <2>5, <2>6, <2>7, <2>8
<1> QED
  BY <1>0, <1>1, <1>2, <1>3 DEF TypeOK

LEMMA InitTypes == Init => TypeInv
<1> SUFFICES ASSUME Init PROVE TypeInv
  OBVIOUS
<1>1. EmptyTree \in Trees /\ NoPing \in Telemetry
  BY DaemonAssumption DEF EmptyTree, Trees, NoPing, Telemetry
<1>2. <<EmptyTree>> \in Seq(Trees) /\ <<>> \in Seq(Trees) /\ <<EmptyTree>> # <<>>
  BY <1>1
<1>3. GitTypeOK /\ CheckedOut
  BY <1>1, <1>2 DEF Init, GitInit, GitTypeOK, CheckedOut, Branches
<1>4. Pending = {} /\ drawn = 0 /\ Len(Forge) \in Nat
  BY DaemonAssumption, LenProperties DEF Init, Pending
<1>5. EnoughToDraw /\ drawn \in 0..Len(Forge)
  BY <1>4, FS_EmptySet DEF EnoughToDraw
<1>6. HasJob
  BY DEF Init, HasJob, Working, Publishing
<1>7. TypeOK
  BY <1>1, <1>3, <1>5 DEF Init, TypeOK, Steps
<1> QED
  BY <1>3, <1>5, <1>6, <1>7 DEF TypeInv

(* Whatever fails, and however many instances follow each other, the       *)
(* workspace, origin and the engine's own state are what they can be.      *)
THEOREM TypeCorrect == Spec => []TypeOK
<1>1. TypeInv => TypeOK
  BY DEF TypeInv
<1> QED
  BY InitTypes, TypeStep, <1>1, PTL DEF Spec
-----------------------------------------------------------------------------
(* A commit on a history. *)
LEMMA CommitHistory ==
    ASSUME NEW h \in Seq(Trees), NEW t \in Trees
    PROVE  /\ Append(h, t) \in Seq(Trees) /\ Append(h, t) # <<>> /\ Tip(Append(h, t)) = t
           /\ Survivors(h) /\ t.gen \subseteq survived => Survivors(Append(h, t))
           /\ Grown(h) /\ (h # <<>> => Tip(h).gen \subseteq t.gen) => Grown(Append(h, t))
<1> DEFINE a == Append(h, t)
<1>1. /\ a \in Seq(Trees) /\ a # <<>> /\ Len(a) = Len(h) + 1 /\ Len(h) \in Nat
      /\ \A i \in 1..Len(h) : a[i] = h[i]
      /\ a[Len(h) + 1] = t
  BY AppendProperties, LenProperties
<1> HIDE DEF a
<1>2. Tip(a) = t
  BY <1>1 DEF Tip
<1>3. Survivors(h) /\ t.gen \subseteq survived => Survivors(a)
  BY <1>1 DEF Survivors
<1>4. ASSUME Grown(h), h # <<>> => Tip(h).gen \subseteq t.gen PROVE Grown(a)
  <2> SUFFICES ASSUME NEW i \in 1..Len(a), NEW j \in 1..Len(a), i <= j
               PROVE  a[i].gen \subseteq a[j].gen
    BY DEF Grown
  <2>1. CASE j \in 1..Len(h)
    BY <1>1, <1>4, <2>1 DEF Grown
  <2>2. CASE j = Len(h) + 1 /\ i \in 1..Len(h)
    <3>1. h # <<>> /\ Len(h) \in 1..Len(h)
      BY <1>1, <2>2, EmptySeq
    <3>2. h[i].gen \subseteq h[Len(h)].gen
      BY <1>4, <2>2, <3>1 DEF Grown
    <3> QED
      BY <1>1, <1>4, <2>2, <3>1, <3>2 DEF Tip
  <2>3. CASE i = j
    BY <2>3
  <2> QED
    BY <1>1, <2>1, <2>2, <2>3
<1> QED
  BY <1>1, <1>2, <1>3, <1>4 DEF a

(* Only git's steps move branches, and only a commit makes a new history. *)
LEMMA HistoriesStep ==
    ASSUME TypeInv, [Next]_vars
    PROVE  /\ \/ UNCHANGED <<head, branch, origin, index>>
              \/ \E d \in Daemons : GitStep(d)
           /\ \/ Histories' \subseteq Histories
              \/ Commit /\ Histories' \subseteq Histories \cup {Append(branch[head], index)}
<1> USE DEF TypeInv, TypeOK, GitTypeOK
<1>1. \/ UNCHANGED <<head, branch, origin, index>>
      \/ \E d \in Daemons : GitStep(d)
  BY StepKinds DEF vars, gitVars, repository, Plain, Enters, Evolve, WriteTarget,
                   SandboxSucceeds, SandboxFails
<1>2. ASSUME UNCHANGED <<head, branch, origin, index>> PROVE Histories' \subseteq Histories
  BY <1>2 DEF Histories
<1>3. ASSUME NEW d \in Daemons, GitStep(d)
      PROVE  \/ Histories' \subseteq Histories
             \/ Commit /\ Histories' \subseteq Histories \cup {Append(branch[head], index)}
  <2>1. CASE CheckoutStaging
    <3>1. \A b \in Branches : branch'[b] \in {branch[c] : c \in Branches}
      BY <2>1 DEF CheckoutStaging, Branches
    <3> QED
      BY <2>1, <3>1 DEF CheckoutStaging, Histories
  <2>2. CASE Push("staging") \/ Push("main")
    <3>1. branch' = branch /\ \A b \in Branches : origin'[b] \in {origin[b], branch[b]}
      BY <2>2 DEF Push, Branches
    <3> QED
      BY <3>1 DEF Histories
  <2>3. CASE Commit
    <3>1. /\ origin' = origin
          /\ \A b \in Branches : branch'[b] \in {branch[b], Append(branch[head], index)}
      BY <2>3 DEF Commit, Branches
    <3> QED
      BY <2>3, <3>1 DEF Histories
  <2>4. CASE UNCHANGED <<branch, origin>>
    BY <2>4 DEF Histories
  <2>5. \/ CheckoutStaging \/ Push("staging") \/ Push("main") \/ Commit
        \/ UNCHANGED <<branch, origin>>
    BY <1>3 DEF GitStep, AddFile, CheckoutMain, AddLedgers
  <2> QED
    BY <2>1, <2>2, <2>3, <2>4, <2>5
<1> QED
  BY <1>1, <1>2, <1>3

LEMMA TipOf ==
    ASSUME TypeInv, NEW b \in Branches
    PROVE  /\ branch[b] \in Seq(Trees) /\ origin[b] \in Seq(Trees)
           /\ branch[b] \in Histories /\ origin[b] \in Histories
           /\ branch[b] # <<>> =>
                 Len(branch[b]) \in 1..Len(branch[b]) /\ Tip(branch[b]) \in Trees
           /\ origin[b] # <<>> =>
                 Len(origin[b]) \in 1..Len(origin[b]) /\ Tip(origin[b]) \in Trees
BY TipTypes DEF TypeInv, TypeOK, GitTypeOK, Histories

(* Whatever reaches the index survived, and commits come from the index. *)
LEMMA SurvivorStep == TypeInv /\ OnlySurvivors /\ [Next]_vars => OnlySurvivors'
<1> SUFFICES ASSUME TypeInv, OnlySurvivors, [Next]_vars PROVE OnlySurvivors'
  OBVIOUS
<1> USE DEF OnlySurvivors
<1>1. survived \subseteq survived'
  <2>1. CASE UNCHANGED history
    BY <2>1 DEF history
  <2>2. ASSUME NEW d \in Daemons, Evolve(d) \/ SandboxSucceeds(d)
        PROVE  survived \subseteq survived'
    BY <2>2 DEF Evolve, SandboxSucceeds
  <2>3. ASSUME NEW d \in Daemons,
               Plain(d) \/ GitStep(d) \/ Enters(d) \/ WriteTarget(d) \/ SandboxFails(d)
        PROVE  UNCHANGED history
    BY <2>3 DEF Plain, GitStep, Enters, Succeeds, WriteTarget, SandboxFails
  <2> QED
    BY StepKinds, <2>1, <2>2, <2>3 DEF vars, TypeInv
<1>2. head \in Branches /\ index \in Trees /\ "main" \in Branches
  BY DEF TypeInv, TypeOK, GitTypeOK, Branches
<1>3. \A h \in Histories' : Survivors(h)
  <2>1. Survivors(Append(branch[head], index))
    BY <1>2, TipOf, CommitHistory
  <2> QED
    BY <2>1, HistoriesStep
<1>4. \A h \in Histories' : Survivors(h)'
  BY <1>1, <1>3 DEF Survivors
<1>5. index'.gen \subseteq survived
  <2>1. ASSUME NEW d \in Daemons, GitStep(d) PROVE index'.gen \subseteq survived
    <3>1. CASE AddFile(job[d]) /\ pc[d] = "gitAdd"
      <4>1. job[d] \in survived
        BY <3>1
      <4>2. index' = [index EXCEPT !.gen = index.gen \cup {job[d]}]
        BY <3>1 DEF AddFile
      <4>3. index'.gen = index.gen \cup {job[d]}
        BY <1>2, <4>2 DEF Trees
      <4> QED
        BY <4>1, <4>3
    <3>2. CASE CheckoutMain
      <4>1. index' = Tip(branch["main"]) /\ branch["main"] # <<>>
        BY <3>2 DEF CheckoutMain, TypeInv, CheckedOut
      <4>2. Tip(branch["main"]).gen \subseteq survived
        BY <1>2, <4>1, TipOf DEF Survivors, Tip
      <4> QED
        BY <4>1, <4>2
    <3>3. CASE AddLedgers
      <4>1. index'.gen = index.gen
        BY <1>2, <3>3 DEF AddLedgers, Trees
      <4> QED
        BY <4>1
    <3>4. CASE index' = index
      BY <3>4
    <3> QED
      BY <2>1, <3>1, <3>2, <3>3, <3>4
         DEF GitStep, Succeeds, Goto, CheckoutStaging, Commit, Push
  <2> QED
    BY <2>1, HistoriesStep
<1>6. \A d \in Daemons :
         pc'[d] \in {"approve", "gitStaging", "gitAdd"} => job'[d] \in survived'
  <2> USE DEF TypeInv, TypeOK
  <2>1. CASE UNCHANGED vars
    BY <1>1, <2>1 DEF vars, process
  <2>2. ASSUME NEW d \in Daemons, Plain(d)
        PROVE \A e \in Daemons :
                 pc'[e] \in {"approve", "gitStaging", "gitAdd"} => job'[e] \in survived'
    <3>1. PICK to \in Steps :
             /\ pc' = [pc EXCEPT ![d] = to] /\ Leads(d, to)
             /\ job' = job \/ (to = "off" /\ job' = [job EXCEPT ![d] = None])
      BY <2>2 DEF Plain
    <3> QED
      BY <1>1, <3>1 DEF Leads
  <2>3. ASSUME NEW d \in Daemons,
               GitStep(d) \/ Enters(d) \/ WriteTarget(d) \/ SandboxFails(d)
        PROVE \A e \in Daemons :
                 pc'[e] \in {"approve", "gitStaging", "gitAdd"} => job'[e] \in survived'
    <3>1. /\ job' = job
          /\ \E to \in Steps :
                /\ pc' = [pc EXCEPT ![d] = to]
                /\ to \notin {"approve", "gitStaging"}
                /\ to = "gitAdd" => pc[d] = "gitStaging"
      BY <2>3 DEF GitStep, Enters, Succeeds, WriteTarget, SandboxFails, Goto, process, Steps
    <3> QED
      BY <1>1, <3>1
  <2>4. ASSUME NEW d \in Daemons, Evolve(d)
        PROVE \A e \in Daemons :
                 pc'[e] \in {"approve", "gitStaging", "gitAdd"} => job'[e] \in survived'
    BY <1>1, <2>4 DEF Evolve, Goto
  <2>5. ASSUME NEW d \in Daemons, SandboxSucceeds(d)
        PROVE \A e \in Daemons :
                 pc'[e] \in {"approve", "gitStaging", "gitAdd"} => job'[e] \in survived'
    BY <1>1, <2>5 DEF SandboxSucceeds, Goto, process
  <2> QED
    BY StepKinds, <2>1, <2>2, <2>3, <2>4, <2>5
<1> QED
  BY <1>1, <1>4, <1>5, <1>6

(* What is staged has all that is committed where HEAD is, so that each    *)
(* commit has all that its history had.                                    *)
LEMMA GrowthStep == TypeInv /\ NothingTakenBack /\ [Next]_vars => NothingTakenBack'
<1> SUFFICES ASSUME TypeInv, NothingTakenBack, [Next]_vars PROVE NothingTakenBack'
  OBVIOUS
<1> USE DEF NothingTakenBack
<1>1. head \in Branches /\ index \in Trees /\ "main" \in Branches /\ "staging" \in Branches
  BY DEF TypeInv, TypeOK, GitTypeOK, Branches
<1>2. branch[head] # <<>> /\ branch["main"] # <<>>
  BY DEF TypeInv, CheckedOut
<1>3. \A h \in Histories' : Grown(h)
  <2>1. Grown(Append(branch[head], index))
    BY <1>1, TipOf, CommitHistory DEF Tracked
  <2> QED
    BY <2>1, HistoriesStep
<1>4. Grown(branch["main"]) /\ branch \in [Branches -> Seq(Trees)]
  BY <1>1, TipOf DEF TypeInv, TypeOK, GitTypeOK
<1>5. Tracked'.gen \subseteq index'.gen
  <2>1. CASE UNCHANGED <<head, branch, origin, index>>
    BY <2>1 DEF Tracked, Tip
  <2>2. ASSUME NEW d \in Daemons, GitStep(d) PROVE Tracked'.gen \subseteq index'.gen
    <3>1. CASE CheckoutStaging
      <4>1. branch'[head'] = branch[head] /\ index' = index
        BY <1>1, <1>4, <3>1 DEF CheckoutStaging
      <4> QED
        BY <4>1 DEF Tracked, Tip
    <3>2. CASE AddFile(job[d]) \/ AddLedgers
      <4>1. Tracked' = Tracked
        BY <3>2 DEF AddFile, AddLedgers, Tracked, Tip
      <4>2. index.gen \subseteq index'.gen
        BY <1>1, <3>2 DEF AddFile, AddLedgers, Trees
      <4> QED
        BY <4>1, <4>2
    <3>3. CASE Commit
      <4>1. branch'[head'] = Append(branch[head], index) /\ index' = index
        BY <1>1, <1>4, <3>3 DEF Commit
      <4>2. Tip(Append(branch[head], index)) = index
        BY <1>1, TipOf, CommitHistory
      <4>3. Tracked' = Tip(branch'[head'])
        BY DEF Tracked, Tip
      <4> QED
        BY <4>1, <4>2, <4>3
    <3>4. CASE CheckoutMain
      <4>1. Tracked' = index'
        BY <3>4 DEF CheckoutMain, Tracked, Tip
      <4> QED
        BY <4>1
    <3>5. CASE Push("staging") \/ Push("main")
      BY <3>5 DEF Push, Tracked, Tip
    <3> QED
      BY <2>2, <3>1, <3>2, <3>3, <3>4, <3>5 DEF GitStep
  <2> QED
    BY <2>1, <2>2, HistoriesStep
<1> QED
  BY <1>3, <1>5 DEF Grown

LEMMA InitHistory == Init => HistoryInv
<1> SUFFICES ASSUME Init PROVE HistoryInv
  OBVIOUS
<1> USE DEF Init, GitInit
<1>1. \A h \in Histories : h = <<>> \/ h = <<EmptyTree>>
  BY DEF Histories, Branches
<1>2. EmptyTree.gen = {}
  BY DEF EmptyTree
<1>3. \A h \in Histories : Survivors(h) /\ Grown(h)
  <2>1. Survivors(<<>>) /\ Grown(<<>>)
    BY DEF Survivors, Grown
  <2>2. Survivors(<<EmptyTree>>) /\ Grown(<<EmptyTree>>)
    BY <1>2 DEF Survivors, Grown
  <2> QED
    BY <1>1, <2>1, <2>2
<1>4. Tracked = EmptyTree
  BY DEF Tracked, Tip, Branches
<1> QED
  BY <1>2, <1>3, <1>4, InitTypes DEF HistoryInv, OnlySurvivors, NothingTakenBack

LEMMA HistoryAlways == Spec => []HistoryInv
BY InitHistory, TypeStep, SurvivorStep, GrowthStep, PTL DEF Spec, HistoryInv

(* Nothing reaches origin that did not survive the sandbox, although       *)
(* failed mutations stay in src/generated, and what one cycle staged or    *)
(* committed is published by the next.                                     *)
THEOREM OnlySurvivorsReachOrigin == Spec => []OnlySurvivorsPushed
<1>1. HistoryInv => OnlySurvivorsPushed
  BY TipOf DEF HistoryInv, OnlySurvivors, Survivors, OnlySurvivorsPushed, Tip
<1> QED
  BY HistoryAlways, <1>1, PTL

(* A push adds commits, and no commit takes a mutation back.               *)
LEMMA PushGrows ==
    ASSUME TypeInv, NothingTakenBack, [Next]_vars, NEW b \in Branches, origin[b] # <<>>
    PROVE  origin'[b] # <<>> /\ Tip(origin[b]).gen \subseteq Tip(origin'[b]).gen
<1>1. CASE origin'[b] = origin[b]
  BY <1>1
<1>2. CASE origin'[b] = branch[b] /\ CanPush(b)
  <2> DEFINE o == origin[b]
             l == branch[b]
  <2>1. o \in Seq(Trees) /\ l \in Seq(Trees) /\ Len(o) \in 1..Len(o) /\ Grown(l)
    BY TipOf DEF NothingTakenBack
  <2>2. IsPrefix(o, l)
    BY <1>2 DEF CanPush
  <2> HIDE DEF o, l
  <2>3. Len(o) \in Nat /\ Len(l) \in Nat /\ Len(o) <= Len(l)
    BY <2>1, <2>2, LenProperties DEF IsPrefix
  <2>4. SubSeq(o, 1, Len(o)) = SubSeq(l, 1, Len(o))
    BY <2>2, <2>3 DEF IsPrefix
  <2>5. o[Len(o)] = l[Len(o)]
    BY <2>1, <2>3, <2>4
  <2>6. l[Len(o)].gen \subseteq l[Len(l)].gen
    BY <2>1, <2>3 DEF Grown
  <2>7. l # <<>>
    BY <2>1, <2>3, EmptySeq
  <2> QED
    BY <1>2, <2>5, <2>6, <2>7 DEF Tip, o, l
<1>3. origin'[b] = origin[b] \/ (origin'[b] = branch[b] /\ CanPush(b))
  <2>1. ASSUME NEW c \in Branches, CanPush(c), Push(c)
        PROVE  origin'[b] = origin[b] \/ (origin'[b] = branch[b] /\ CanPush(b))
    BY <2>1 DEF Push, TypeInv, TypeOK, GitTypeOK
  <2>2. \/ UNCHANGED origin
        \/ CanPush("staging") /\ Push("staging")
        \/ CanPush("main") /\ Push("main")
    BY HistoriesStep DEF GitStep, CheckoutStaging, AddFile, Commit, CheckoutMain, AddLedgers
  <2>3. "staging" \in Branches /\ "main" \in Branches
    BY DEF Branches
  <2> QED
    BY <2>1, <2>2, <2>3
<1> QED
  BY <1>1, <1>2, <1>3

(* What was published stays published, although every cycle moves the      *)
(* local evolution-staging back.                                           *)
THEOREM PublishedForGood == Spec => PublishedStays
<1>1. HistoryInv /\ [Next]_vars =>
         [\A b \in Branches :
             origin[b] # <<>> => Tip(origin[b]).gen \subseteq Tip(origin'[b]).gen]_vars
  BY PushGrows DEF HistoryInv
<1> QED
  BY HistoryAlways, <1>1, PTL DEF Spec, PublishedStays
-----------------------------------------------------------------------------
LEMMA LockStep == TypeInv /\ LockHeld /\ [Next]_vars => LockHeld'
<1> SUFFICES ASSUME TypeInv, LockHeld, [Next]_vars PROVE LockHeld'
  OBVIOUS
<1> USE DaemonAssumption DEF TypeInv, TypeOK, LockHeld
<1>1. CASE UNCHANGED vars
  BY <1>1 DEF vars, process
<1>2. ASSUME NEW d \in Daemons, Plain(d) PROVE LockHeld'
  <2>1. PICK to \in Steps :
           /\ pc' = [pc EXCEPT ![d] = to]
           /\ to \notin Outside => pc[d] \notin Outside \/ (lock = None /\ lock' = d)
           /\ \/ lock' = lock
              \/ lock = None /\ lock' = d
              \/ to = "off" /\ lock' = (IF lock = d THEN None ELSE lock)
    BY <1>2 DEF Plain, Leads
  <2> QED
    BY <2>1 DEF Outside
<1>3. ASSUME NEW d \in Daemons,
             GitStep(d) \/ Enters(d) \/ Evolve(d) \/ WriteTarget(d)
             \/ SandboxSucceeds(d) \/ SandboxFails(d)
      PROVE  LockHeld'
  <2>1. /\ lock' = lock /\ pc[d] \notin Outside
        /\ \E to \in Steps : pc' = [pc EXCEPT ![d] = to]
    BY <1>3 DEF GitStep, Enters, Succeeds, Evolve, WriteTarget, SandboxSucceeds,
                SandboxFails, Goto, process, Steps, Outside
  <2> QED
    BY <2>1
<1> QED
  BY StepKinds, <1>1, <1>2, <1>3

(* What origin shows only grows, and the ledgers are entered with what it  *)
(* shows, or replaced by what a branch has of them.                        *)
LEMMA HiveStep == HiveInv /\ [Next]_vars => HiveShown'
<1> SUFFICES ASSUME HiveInv, [Next]_vars PROVE HiveShown'
  OBVIOUS
<1> USE DEF HiveInv, HistoryInv, HiveShown
<1>1. head \in Branches /\ index \in Trees /\ "main" \in Branches /\ "staging" \in Branches
  BY DEF TypeInv, TypeOK, GitTypeOK, Branches
<1>2. Shown \subseteq Shown'
  BY <1>1, PushGrows DEF Shown, Tip
<1>3. branch["main"] # <<>> => Tip(branch["main"]).hive \subseteq Shown
  BY <1>1, TipOf DEF Tip
<1>4. branch["main"] # <<>>
  BY DEF TypeInv, CheckedOut
<1>5. hive' \subseteq Shown
  <2>1. CASE hive' = hive
    BY <2>1
  <2>2. ASSUME NEW d \in Daemons, Enters(d) PROVE hive' \subseteq Shown
    BY <2>2 DEF Enters, Succeeds, Goto, OnItsWay
  <2>3. CASE CheckoutMain
    BY <1>3, <1>4, <2>3 DEF CheckoutMain, Carried
  <2>4. ASSUME NEW d \in Daemons, GitStep(d) PROVE hive' = hive \/ CheckoutMain
    BY <2>4 DEF GitStep, CheckoutStaging, AddFile, Commit, Push, AddLedgers, disk
  <2>5. ASSUME NEW d \in Daemons,
               Plain(d) \/ Evolve(d) \/ WriteTarget(d) \/ SandboxSucceeds(d) \/ SandboxFails(d)
        PROVE  hive' = hive
    BY <2>5 DEF Plain, Evolve, WriteTarget, SandboxSucceeds, SandboxFails, gitVars, disk
  <2> QED
    BY StepKinds, <2>1, <2>2, <2>3, <2>4, <2>5 DEF TypeInv, vars, gitVars, disk
<1>6. index'.hive \subseteq Shown
  <2>1. CASE AddLedgers
    <3>1. index'.hive = hive
      BY <1>1, <2>1 DEF AddLedgers, Trees
    <3> QED
      BY <3>1
  <2>2. CASE CheckoutMain
    BY <1>3, <1>4, <2>2 DEF CheckoutMain
  <2>3. ASSUME NEW d \in Daemons, AddFile(job[d]) PROVE index'.hive \subseteq Shown
    <3>1. index'.hive = index.hive
      BY <1>1, <2>3 DEF AddFile, Trees
    <3> QED
      BY <3>1
  <2>4. CASE index' = index
    BY <2>4
  <2>5. ASSUME NEW d \in Daemons, GitStep(d)
        PROVE  AddLedgers \/ CheckoutMain \/ AddFile(job[d]) \/ index' = index
    BY <2>5 DEF GitStep, CheckoutStaging, Commit, Push
  <2> QED
    BY HistoriesStep, <2>1, <2>2, <2>3, <2>4, <2>5
<1>7. \A b \in Branches : \A i \in 1..Len(branch'[b]) : branch'[b][i].hive \subseteq Shown
  <2>1. CASE branch' = branch
    BY <2>1
  <2>2. CASE CheckoutStaging
    <3>1. \A b \in Branches : branch'[b] \in {branch[b], branch[head]}
      BY <2>2 DEF CheckoutStaging, TypeInv, TypeOK, GitTypeOK
    <3> QED
      BY <1>1, <3>1
  <2>3. CASE Commit
    <3> DEFINE a == Append(branch[head], index)
    <3>1. \A b \in Branches : branch'[b] \in {branch[b], a}
      BY <2>3 DEF Commit, TypeInv, TypeOK, GitTypeOK
    <3>2. /\ Len(a) = Len(branch[head]) + 1 /\ Len(branch[head]) \in Nat
          /\ \A i \in 1..Len(branch[head]) : a[i] = branch[head][i]
          /\ a[Len(branch[head]) + 1] = index
      BY <1>1, TipOf, AppendProperties, LenProperties
    <3> HIDE DEF a
    <3>3. \A i \in 1..Len(a) : a[i].hive \subseteq Shown
      BY <1>1, <3>2
    <3> QED
      BY <3>1, <3>3
  <2>4. ASSUME NEW d \in Daemons, GitStep(d) PROVE branch' = branch \/ CheckoutStaging \/ Commit
    BY <2>4 DEF GitStep, AddFile, Push, CheckoutMain, AddLedgers
  <2> QED
    BY HistoriesStep, <2>1, <2>2, <2>3, <2>4
<1> QED
  BY <1>2, <1>5, <1>6, <1>7

(* From its staging to the hive ledger a mutation is followed by the one   *)
(* instance that is in a cycle.                                            *)
LEMMA WayStep == HiveInv /\ [Next]_vars => OnItsWay'
<1> SUFFICES ASSUME HiveInv, [Next]_vars PROVE OnItsWay'
  OBVIOUS
<1> USE DEF HiveInv, HistoryInv, OnItsWay, TypeInv, TypeOK
<1>1. head \in Branches /\ index \in Trees /\ "staging" \in Branches
      /\ branch \in [Branches -> Seq(Trees)] /\ origin \in [Branches -> Seq(Trees)]
  BY DEF GitTypeOK, Branches
<1>2. ASSUME UNCHANGED <<head, branch, origin, index>>
      PROVE  Tracked' = Tracked /\ Shown' = Shown
  BY <1>2 DEF Tracked, Shown, Tip
<1>3. CASE UNCHANGED vars
  BY <1>2, <1>3 DEF vars, process, gitVars, repository
<1>4. ASSUME NEW d \in Daemons, Plain(d) PROVE OnItsWay'
  <2>1. UNCHANGED <<head, branch, origin, index>>
    BY <1>4 DEF Plain, gitVars, repository
  <2>2. PICK to \in Steps :
           /\ pc' = [pc EXCEPT ![d] = to] /\ Leads(d, to)
           /\ job' = job \/ (to = "off" /\ job' = [job EXCEPT ![d] = None])
    BY <1>4 DEF Plain
  <2> QED
    BY <1>2, <2>1, <2>2 DEF Leads
<1>5. ASSUME NEW d \in Daemons,
             Evolve(d) \/ WriteTarget(d) \/ SandboxSucceeds(d) \/ SandboxFails(d) \/ Enters(d)
      PROVE  OnItsWay'
  <2>1. UNCHANGED <<head, branch, origin, index>>
    BY <1>5 DEF Evolve, WriteTarget, SandboxSucceeds, SandboxFails, Enters, gitVars, repository
  <2>2. /\ \E to \in Steps \ Publishing : pc' = [pc EXCEPT ![d] = to]
        /\ \A e \in Daemons \ {d} : job'[e] = job[e]
    BY <1>5 DEF Evolve, WriteTarget, SandboxSucceeds, SandboxFails, Enters, Succeeds,
                Goto, process, Steps, Publishing
  <2> QED
    BY <1>2, <2>1, <2>2 DEF Publishing
<1>6. ASSUME NEW d \in Daemons, GitStep(d) PROVE OnItsWay'
  <2>1. /\ pc[d] \notin Outside /\ job' = job
        /\ \E to \in Steps : pc' = [pc EXCEPT ![d] = to]
    BY <1>6 DEF GitStep, Succeeds, Goto, process, Outside, Steps
  <2>2. \A e \in Daemons \ {d} : pc'[e] \in Outside
    BY <2>1 DEF LockHeld
  <2>3. /\ pc'[d] \in {"gitAdd", "gitCommit", "gitPush"} => head' = "staging"
        /\ pc'[d] = "gitCommit" => job[d] \in index'.gen
        /\ pc'[d] = "gitPush" => job[d] \in Tracked'.gen
        /\ pc'[d] \in {"gitMain", "register"} => job[d] \in Shown'
    <3> USE DEF Succeeds, Goto
    <3>1. CASE Succeeds(d, "gitStaging", "gitAdd") /\ CheckoutStaging
      BY <3>1 DEF CheckoutStaging
    <3>2. CASE Succeeds(d, "gitAdd", "gitCommit") /\ AddFile(job[d])
      <4>1. index'.gen = index.gen \cup {job[d]} /\ head' = head
        BY <1>1, <3>2 DEF AddFile, Trees
      <4> QED
        BY <3>2, <4>1
    <3>3. CASE Succeeds(d, "gitCommit", "gitPush") /\ Commit
      <4>1. branch'[head'] = Append(branch[head], index) /\ head' = head
        BY <1>1, <3>3 DEF Commit
      <4>2. Tip(Append(branch[head], index)) = index
        BY <1>1, CommitHistory
      <4>3. Tracked' = Tip(branch'[head'])
        BY DEF Tracked, Tip
      <4> QED
        BY <3>3, <4>1, <4>2, <4>3
    <3>4. CASE Succeeds(d, "gitPush", "gitMain") /\ CanPush("staging") /\ Push("staging")
      <4>1. origin'["staging"] = branch[head] /\ job[d] \in Tracked.gen
        BY <1>1, <3>4 DEF Push
      <4>2. branch[head] # <<>>
        BY DEF CheckedOut
      <4>3. Shown' = Tip(branch[head]).gen
        BY <4>1, <4>2 DEF Shown, Tip
      <4> QED
        BY <3>4, <4>1, <4>3 DEF Tracked
    <3>5. CASE Succeeds(d, "gitMain", "register") /\ CheckoutMain
      <4>1. Shown' = Shown
        BY <3>5 DEF CheckoutMain, Shown, Tip
      <4> QED
        BY <3>5, <4>1
    <3>6. CASE pc'[d] \in {"ledgerCommit", "ledgerPush", "published"}
      BY <3>6
    <3> QED
      BY <1>6, <3>1, <3>2, <3>3, <3>4, <3>5, <3>6 DEF GitStep
  <2> QED
    BY <2>1, <2>2, <2>3 DEF Outside
<1> QED
  BY StepKinds, <1>3, <1>4, <1>5, <1>6

LEMMA InitHive == Init => HiveInv
<1> SUFFICES ASSUME Init PROVE HiveInv
  OBVIOUS
<1>1. LockHeld /\ OnItsWay
  BY DEF Init, LockHeld, OnItsWay, Outside
<1>2. HiveShown
  BY DEF Init, GitInit, HiveShown, EmptyTree, Branches
<1> QED
  BY <1>1, <1>2, InitHistory DEF HiveInv

LEMMA HiveInvStep == HiveInv /\ [Next]_vars => HiveInv'
BY TypeStep, SurvivorStep, GrowthStep, LockStep, HiveStep, WayStep
   DEF HiveInv, HistoryInv

(* The hive ledger lists only mutations that origin has, whatever failed   *)
(* or was refused on the way, and however instances followed each other.   *)
THEOREM HiveListsPublished == Spec => []HiveOnlyPublished
<1>1. HiveInv => HiveOnlyPublished
  BY DEF HiveInv, HiveShown, Shown, HiveOnlyPublished
<1> QED
  BY InitHive, HiveInvStep, <1>1, PTL DEF Spec
-----------------------------------------------------------------------------
(* What one publication comes to, when no checkout of main fails by itself *)
(* ("checkout").  Main has no mutations.                                   *)
MainBare ==
    /\ \A i \in 1..Len(branch["main"]) : branch["main"][i].gen = {}
    /\ head = "main" => index.gen = {}

(* Whoever registers a mutation is back on main. *)
BackHome == \A d \in Daemons : pc[d] = "register" => head = "main"

(* Ledgers are committed only after the first registration. *)
Bare(tree) == tree.quarantine = {} /\ tree.hive = {}

NoLedgersYet ==
    hive = {} =>
        /\ \A b \in Branches : \A i \in 1..Len(branch[b]) : Bare(branch[b][i])
        /\ Bare(index)

(* The forge makes nothing twice. *)
Made == {Forge[i] : i \in 1..drawn}

Known == hive \subseteq Made /\ \A d \in Daemons : pc[d] \in Working => job[d] \in Made

(* A mutation that is registered is in no tree that git can push from      *)
(* here, and will be in none.                                              *)
OutOfReach ==
    /\ \A i \in 1..Len(branch[head]) : branch[head][i].gen \cap hive = {}
    /\ index.gen \cap hive = {}

Parted ==
    \A d \in Daemons :
        /\ pc[d] \in Early => job[d] \notin hive
        /\ hive # {} => pc[d] \notin {"gitMain", "register"}

OnceParts ==
    /\ MainBare /\ BackHome /\ NoLedgersYet /\ Known
    /\ OutOfReach /\ Parted

OnceInv == HiveInv /\ OnceParts

TreeParts == MainBare /\ NoLedgersYet /\ OutOfReach
-----------------------------------------------------------------------------
LEMMA GitShape ==
    ASSUME TypeInv
    PROVE  /\ head \in Branches /\ index \in Trees
           /\ "main" \in Branches /\ "staging" \in Branches
           /\ Branches = {"main", "staging"}
           /\ branch \in [Branches -> Seq(Trees)] /\ origin \in [Branches -> Seq(Trees)]
           /\ branch[head] # <<>> /\ branch["main"] # <<>>
BY DEF TypeInv, TypeOK, GitTypeOK, CheckedOut, Branches

(* As long as nothing is registered nothing keeps git from main. *)
LEMMA CheckoutAllowed ==
    ASSUME OnceInv, NEW d \in Daemons, pc[d] = "gitMain"
    PROVE  /\ hive = {} /\ CanCheckoutMain
           /\ Bare(Tracked) /\ Bare(Tip(branch["main"])) /\ Tip(branch["main"]).gen = {}
<1>1. TypeInv /\ hive = {}
  BY DEF OnceInv, OnceParts, HiveInv, HistoryInv, Parted
<1>2. \A b \in Branches : branch[b] # <<>> => Bare(Tip(branch[b]))
  BY <1>1, TipOf DEF OnceInv, OnceParts, NoLedgersYet, Tip
<1>3. Bare(Tracked) /\ Bare(Tip(branch["main"]))
  BY <1>1, <1>2, GitShape DEF Tracked
<1>4. Tip(branch["main"]).gen = {}
  BY <1>1, GitShape, TipOf DEF OnceInv, OnceParts, MainBare, Tip
<1> QED
  BY <1>1, <1>3, <1>4 DEF CanCheckoutMain, Bare

(* After that origin refuses each further push of staging. *)
LEMMA PushedOnce ==
    ASSUME OnceInv, CanPush("staging"), head = "staging"
    PROVE  hive = {}
<1> SUFFICES ASSUME NEW m \in hive PROVE FALSE
  OBVIOUS
<1> DEFINE o == origin["staging"]
           l == branch["staging"]
<1>1. TypeInv /\ m \in Shown
  BY DEF OnceInv, HiveInv, HistoryInv, HiveShown
<1>2. o # <<>> /\ m \in Tip(o).gen
  BY <1>1 DEF Shown
<1>3. o \in Seq(Trees) /\ l \in Seq(Trees) /\ Len(o) \in 1..Len(o)
  BY <1>1, <1>2, GitShape, TipOf
<1>4. IsPrefix(o, l) /\ \A i \in 1..Len(l) : l[i].gen \cap hive = {}
  BY DEF CanPush, OnceInv, OnceParts, OutOfReach
<1> HIDE DEF o, l
<1>5. Len(o) \in Nat /\ Len(l) \in Nat /\ Len(o) <= Len(l)
  BY <1>3, <1>4, LenProperties DEF IsPrefix
<1>6. SubSeq(o, 1, Len(o)) = SubSeq(l, 1, Len(o))
  BY <1>4, <1>5 DEF IsPrefix
<1>7. o[Len(o)] = l[Len(o)]
  BY <1>3, <1>5, <1>6
<1> QED
  BY <1>2, <1>3, <1>4, <1>5, <1>7 DEF Tip

(* A mutation that has just been made is none of those made before. *)
LEMMA NewlyMade ==
    ASSUME TypeInv, NEW d \in Daemons, Evolve(d), [Next]_vars
    PROVE  Forge[drawn'] \notin Made /\ Made' = Made \cup {Forge[drawn']}
<1>1. drawn' = drawn + 1 /\ drawn' \in 0..Len(Forge)
  BY DrawStep DEF Evolve, TypeInv
<1>2. drawn \in Nat /\ Len(Forge) \in Nat /\ DOMAIN Forge = 1..Len(Forge)
  BY DaemonAssumption, LenProperties DEF TypeInv, TypeOK
<1>3. \A i \in 1..drawn : Forge[i] # Forge[drawn']
  BY <1>1, <1>2, DaemonAssumption DEF IsInjective
<1>4. 1..drawn' = 1..drawn \cup {drawn'}
  BY <1>1, <1>2
<1> QED
  BY <1>3, <1>4 DEF Made

(* The steps that leave the trees and the hive ledger alone. *)
LEMMA TreesKept ==
    ASSUME TreeParts, UNCHANGED <<head, branch, index, hive>>
    PROVE  TreeParts'
BY DEF TreeParts, MainBare, NoLedgersYet, OutOfReach, Bare

(* A tree that is committed. *)
LEMMA Committed ==
    ASSUME TypeInv, Commit
    PROVE  /\ UNCHANGED <<head, index, hive, quarantine>>
           /\ \A b \in Branches \ {head} : branch'[b] = branch[b]
           /\ \A i \in 1..Len(branch'[head]) :
                 \/ branch'[head][i] = index
                 \/ i \in 1..Len(branch[head]) /\ branch'[head][i] = branch[head][i]
<1>1. branch' = [branch EXCEPT ![head] = Append(branch[head], index)]
  BY DEF Commit
<1>2. branch'[head] = Append(branch[head], index)
  BY <1>1, GitShape
<1>3. branch[head] \in Seq(Trees) /\ index \in Trees
  BY GitShape
<1> DEFINE h == branch[head]
           a == Append(h, index)
<1>4. /\ Len(a) = Len(h) + 1 /\ Len(h) \in Nat
      /\ \A i \in 1..Len(h) : a[i] = h[i]
      /\ a[Len(h) + 1] = index
  BY <1>3, AppendProperties, LenProperties
<1> HIDE DEF a
<1>5. \A i \in 1..Len(a) : a[i] = index \/ (i \in 1..Len(h) /\ a[i] = h[i])
  BY <1>4
<1> QED
  BY <1>1, <1>2, <1>5, GitShape DEF a, Commit, disk

(* What git does to the trees. *)
LEMMA GitTrees ==
    ASSUME OnceInv, NEW d \in Daemons, GitStep(d)
    PROVE  TreeParts' /\ hive' = hive
<1> USE DEF OnceInv, OnceParts, HiveInv, HistoryInv, TreeParts
<1>0. /\ head \in Branches /\ index \in Trees /\ Branches = {"main", "staging"}
      /\ branch \in [Branches -> Seq(Trees)]
  BY GitShape
<1>1. CASE CheckoutStaging
  <2>1. /\ head' = "staging" /\ UNCHANGED <<index, hive>>
        /\ branch'["main"] = branch["main"] /\ branch'["staging"] = branch[head]
    BY <1>0, <1>1 DEF CheckoutStaging, disk
  <2> QED
    BY <1>0, <2>1 DEF MainBare, NoLedgersYet, OutOfReach, Bare
<1>2. CASE AddFile(job[d]) /\ pc[d] = "gitAdd"
  <2>1. /\ index'.gen = index.gen \cup {job[d]}
        /\ index'.quarantine = index.quarantine /\ index'.hive = index.hive
        /\ UNCHANGED <<head, branch, hive>>
    BY <1>0, <1>2 DEF AddFile, Trees, disk
  <2>2. head = "staging" /\ job[d] \notin hive
    BY <1>2 DEF OnItsWay, Parted, Early
  <2> QED
    BY <2>1, <2>2 DEF MainBare, NoLedgersYet, OutOfReach, Bare
<1>3. CASE Commit
  <2>1. /\ UNCHANGED <<head, index, hive>>
        /\ \A b \in Branches \ {head} : branch'[b] = branch[b]
        /\ \A i \in 1..Len(branch'[head]) :
              \/ branch'[head][i] = index
              \/ i \in 1..Len(branch[head]) /\ branch'[head][i] = branch[head][i]
    BY <1>3, Committed
  <2>2. MainBare'
    BY <1>0, <2>1 DEF MainBare
  <2>3. NoLedgersYet'
    <3> SUFFICES ASSUME hive = {}, NEW b \in Branches, NEW i \in 1..Len(branch'[b])
                 PROVE  Bare(branch'[b][i]) /\ Bare(index)
      BY <2>1 DEF NoLedgersYet, Bare
    <3>1. Bare(index) /\ \A j \in 1..Len(branch[b]) : Bare(branch[b][j])
      BY DEF NoLedgersYet
    <3>2. \/ branch'[b][i] = index
          \/ i \in 1..Len(branch[b]) /\ branch'[b][i] = branch[b][i]
      BY <1>0, <2>1
    <3> HIDE DEF OnceInv, OnceParts, HiveInv, HistoryInv, TreeParts
    <3> QED
      BY <3>1, <3>2
  <2>4. OutOfReach'
    BY <2>1 DEF OutOfReach
  <2> QED
    BY <2>1, <2>2, <2>3, <2>4
<1>4. CASE Push("staging") \/ Push("main")
  <2>1. UNCHANGED <<head, branch, index, hive>>
    BY <1>4 DEF Push, disk
  <2> QED
    BY <2>1, TreesKept
<1>5. CASE CheckoutMain /\ pc[d] = "gitMain"
  <2>1. /\ hive = {} /\ Bare(Tracked) /\ Bare(Tip(branch["main"]))
        /\ Tip(branch["main"]).gen = {}
    BY <1>5, CheckoutAllowed
  <2>2. head' = "main" /\ index' = Tip(branch["main"]) /\ branch' = branch /\ hive' = {}
    BY <1>5, <2>1 DEF CheckoutMain, Carried, Bare
  <2> QED
    BY <2>1, <2>2 DEF MainBare, NoLedgersYet, OutOfReach
<1>6. CASE CanAddLedgers /\ AddLedgers
  <2>1. /\ index'.gen = index.gen /\ UNCHANGED <<head, branch, hive>>
        /\ hive # {}
    BY <1>0, <1>6 DEF CanAddLedgers, AddLedgers, Trees, disk
  <2> QED
    BY <2>1 DEF MainBare, NoLedgersYet, OutOfReach
<1> QED
  BY <1>1, <1>2, <1>3, <1>4, <1>5, <1>6 DEF GitStep, Succeeds, Goto

LEMMA OnceStep == "checkout" \notin Faults /\ OnceInv /\ [Next]_vars => OnceParts'
<1> SUFFICES ASSUME "checkout" \notin Faults, OnceInv, [Next]_vars PROVE OnceParts'
  OBVIOUS
<1>0. TypeInv /\ LockHeld /\ OnItsWay /\ TreeParts
  BY DEF OnceInv, OnceParts, HiveInv, HistoryInv, TreeParts
<1>t. pc \in [Daemons -> Steps] /\ job \in [Daemons -> Mutations \cup {None}]
  BY <1>0 DEF TypeInv, TypeOK
<1>1. CASE UNCHANGED vars
  <2>1. UNCHANGED <<head, branch, index, hive>> /\ UNCHANGED <<pc, job, drawn>>
    BY <1>1 DEF vars, gitVars, repository, disk, process, history
  <2>2. TreeParts'
    BY <1>0, <2>1, TreesKept
  <2> QED
    BY <2>1, <2>2 DEF OnceInv, OnceParts, TreeParts, BackHome, Known, Parted, Made
<1>2. ASSUME NEW d \in Daemons, Plain(d) PROVE OnceParts'
  <2>1. UNCHANGED <<head, branch, index, hive>> /\ drawn' = drawn /\ Made' = Made
    BY <1>2 DEF Plain, gitVars, repository, disk, history, Made
  <2>2. TreeParts'
    BY <1>0, <2>1, TreesKept
  <2>3. PICK to \in Steps :
           /\ pc' = [pc EXCEPT ![d] = to] /\ Leads(d, to)
           /\ job' = job \/ (to = "off" /\ job' = [job EXCEPT ![d] = None])
    BY <1>2 DEF Plain
  <2>4. to = "register" => pc[d] = "register"
    BY <2>3, CheckoutAllowed DEF Leads
  <2>5. /\ to \in Working => pc[d] \in Working
        /\ to \in Early => pc[d] \in Early
        /\ to = "gitMain" => pc[d] = "gitMain"
        /\ "off" \notin Working \cup Early
    BY <2>3 DEF Leads, Working, Publishing, Early
  <2>6. BackHome'
    BY <1>t, <2>1, <2>3, <2>4 DEF OnceInv, OnceParts, BackHome
  <2>7. Known'
    BY <1>t, <2>1, <2>3, <2>5 DEF OnceInv, OnceParts, Known
  <2>8. Parted'
    BY <1>t, <2>1, <2>3, <2>4, <2>5 DEF OnceInv, OnceParts, Parted
  <2> QED
    BY <2>2, <2>6, <2>7, <2>8 DEF OnceParts, TreeParts
<1>3. ASSUME NEW d \in Daemons, WriteTarget(d) \/ SandboxSucceeds(d) \/ SandboxFails(d)
      PROVE  OnceParts'
  <2>1. /\ UNCHANGED <<head, branch, index, hive>> /\ drawn' = drawn /\ job' = job
        /\ \E to \in {"sandbox", "approve", "failed"} : pc' = [pc EXCEPT ![d] = to]
        /\ pc[d] \in Early
    BY <1>3 DEF WriteTarget, SandboxSucceeds, SandboxFails, Goto, gitVars, repository,
                disk, process, history, Early
  <2>2. TreeParts'
    BY <1>0, <2>1, TreesKept
  <2>3. BackHome' /\ Known' /\ Parted'
    BY <1>t, <2>1
       DEF OnceInv, OnceParts, BackHome, Known, Parted, Made, Early, Working, Publishing
  <2> QED
    BY <2>2, <2>3 DEF OnceParts, TreeParts
<1>4. ASSUME NEW d \in Daemons, Evolve(d) PROVE OnceParts'
  <2>1. /\ UNCHANGED <<head, branch, index, hive>>
        /\ pc' = [pc EXCEPT ![d] = "analyse"]
        /\ job' = [job EXCEPT ![d] = Forge[drawn']]
    BY <1>4 DEF Evolve, Goto, gitVars, repository, disk
  <2>2. TreeParts'
    BY <1>0, <2>1, TreesKept
  <2>3. Forge[drawn'] \notin Made /\ Made' = Made \cup {Forge[drawn']}
    BY <1>0, <1>4, NewlyMade
  <2>4. BackHome' /\ Known' /\ Parted'
    BY <1>t, <2>1, <2>3 DEF OnceInv, OnceParts, BackHome, Known, Parted
  <2> QED
    BY <2>2, <2>4 DEF OnceParts, TreeParts
<1>5. ASSUME NEW d \in Daemons, Enters(d) PROVE OnceParts'
  <2>1. /\ pc[d] = "register" /\ pc' = [pc EXCEPT ![d] = "success"]
        /\ hive' = hive \cup {job[d]} /\ job' = job /\ drawn' = drawn
        /\ UNCHANGED <<head, branch, index>>
    BY <1>5 DEF Enters, Succeeds, Goto, repository, process, history
  <2>2. hive = {} /\ head = "main" /\ job[d] \in Made
    BY <1>0, <2>1 DEF OnceInv, OnceParts, Parted, BackHome, TypeInv, HasJob, Known,
                      Working, Publishing
  <2>3. hive' = {job[d]}
    BY <2>1, <2>2
  <2>4. TreeParts'
    BY <2>1, <2>2, <2>3
       DEF OnceInv, OnceParts, TreeParts, MainBare, NoLedgersYet, OutOfReach
  <2>5. \A e \in Daemons : e # d => pc'[e] \in Outside
    BY <1>0, <1>t, <2>1 DEF LockHeld, Outside
  <2>6. BackHome' /\ Known' /\ Parted'
    BY <1>t, <2>1, <2>2, <2>3, <2>5
       DEF OnceInv, OnceParts, BackHome, Known, Parted, Made, Outside, Early, Working,
           Publishing
  <2> QED
    BY <2>4, <2>6 DEF OnceParts, TreeParts
<1>6. ASSUME NEW d \in Daemons, GitStep(d) PROVE OnceParts'
  <2>1. TreeParts' /\ hive' = hive
    BY <1>6, GitTrees
  <2>2. /\ pc[d] \notin Outside /\ job' = job /\ drawn' = drawn
        /\ \E to \in Steps : pc' = [pc EXCEPT ![d] = to]
    BY <1>6 DEF GitStep, Succeeds, Goto, process, history, Outside, Steps
  <2>3. \A e \in Daemons : e # d => pc'[e] \in Outside
    BY <1>0, <1>t, <2>2 DEF LockHeld
  <2>4. /\ pc'[d] \in Working => pc[d] \in Working
        /\ pc'[d] \in Early => pc[d] \in Early
        /\ pc'[d] = "register" => pc[d] = "gitMain" /\ head' = "main"
        /\ pc'[d] = "gitMain" => hive = {}
    <3>1. pc'[d] = "gitMain" => CanPush("staging") /\ head = "staging"
      BY <1>0, <1>6, <1>t DEF GitStep, Succeeds, Goto, OnItsWay
    <3>2. pc'[d] = "gitMain" => hive = {}
      BY <3>1, PushedOnce
    <3> QED
      BY <1>6, <1>t, <3>2
         DEF GitStep, Succeeds, Goto, CheckoutMain, Working, Publishing, Early
  <2>5. BackHome' /\ Known' /\ Parted'
    BY <1>t, <2>1, <2>2, <2>3, <2>4
       DEF OnceInv, OnceParts, BackHome, Known, Parted, Made, Outside, Early, Working,
           Publishing
  <2> QED
    BY <2>1, <2>5 DEF OnceParts, TreeParts
<1> QED
  BY <1>0, <1>1, <1>2, <1>3, <1>4, <1>5, <1>6, StepKinds DEF TypeInv

LEMMA OnceAlways == "checkout" \notin Faults => (Spec => []OnceInv)
<1> SUFFICES ASSUME "checkout" \notin Faults PROVE Spec => []OnceInv
  OBVIOUS
<1>1. Init => OnceInv
  <2> SUFFICES ASSUME Init PROVE OnceInv
    OBVIOUS
  <2>1. HiveInv
    BY InitHive
  <2>2. /\ head = "main" /\ index = EmptyTree /\ hive = {}
        /\ \A b \in Branches : \A i \in 1..Len(branch[b]) : branch[b][i] = EmptyTree
    BY DEF Init, GitInit, Branches
  <2>3. MainBare /\ NoLedgersYet /\ OutOfReach
    BY <2>2 DEF MainBare, NoLedgersYet, OutOfReach, Bare, EmptyTree, Branches
  <2>4. BackHome /\ Known /\ Parted
    BY <2>2 DEF Init, BackHome, Known, Parted, Working, Publishing, Early
  <2> QED
    BY <2>1, <2>3, <2>4 DEF OnceInv, OnceParts
<1>2. OnceInv /\ [Next]_vars => OnceInv'
  BY OnceStep, HiveInvStep DEF OnceInv
<1> QED
  BY <1>1, <1>2, PTL DEF Spec

(* Once a mutation is assimilated origin's staging branch never changes    *)
(* again: the next cycle starts staging from main and nothing is fetched,  *)
(* so that git refuses every later push.                                   *)
THEOREM NothingAfterTheFirst ==
    ASSUME "checkout" \notin Faults
    PROVE  Spec => [][hive # {} => origin'["staging"] = origin["staging"]]_vars
<1> DEFINE Closed == hive # {} => origin'["staging"] = origin["staging"]
<1>1. OnceInv /\ [Next]_vars => [Closed]_vars
  <2> SUFFICES ASSUME OnceInv, [Next]_vars, hive # {}
               PROVE  origin'["staging"] = origin["staging"]
    OBVIOUS
  <2>1. CASE UNCHANGED vars
    BY <2>1 DEF vars, gitVars, repository
  <2>2. ASSUME NEW d \in Daemons,
               Plain(d) \/ Evolve(d) \/ WriteTarget(d) \/ SandboxSucceeds(d)
               \/ SandboxFails(d) \/ Enters(d)
        PROVE  origin' = origin
    BY <2>2 DEF Plain, Evolve, WriteTarget, SandboxSucceeds, SandboxFails, Enters,
                gitVars, repository
  <2>3. ASSUME NEW d \in Daemons, GitStep(d)
        PROVE  origin'["staging"] = origin["staging"]
    <3>1. CASE Succeeds(d, "gitPush", "gitMain") /\ CanPush("staging")
      <4>1. head = "staging"
        BY <3>1 DEF Succeeds, Goto, OnceInv, HiveInv, OnItsWay
      <4> QED
        BY <3>1, <4>1, PushedOnce
    <3>2. CASE Push("main")
      BY <3>2, GitShape DEF Push, OnceInv, HiveInv, HistoryInv, TypeInv, TypeOK, GitTypeOK
    <3>3. CASE origin' = origin
      BY <3>3
    <3>4. \/ Succeeds(d, "gitPush", "gitMain") /\ CanPush("staging")
          \/ Push("main") \/ origin' = origin
      BY <2>3 DEF GitStep, CheckoutStaging, AddFile, Commit, CheckoutMain, AddLedgers
    <3> QED
      BY <3>1, <3>2, <3>3, <3>4
  <2> QED
    BY <2>1, <2>2, <2>3, StepKinds DEF OnceInv, HiveInv, HistoryInv, TypeInv
<1>2. Spec => []OnceInv
  BY OnceAlways
<1> QED
  BY <1>1, <1>2, PTL DEF Spec

(* No step takes an entry out of a ledger: the checkout of main under      *)
(* uncommitted entries happens only before the first of them is committed. *)
THEOREM LedgersGrow ==
    ASSUME "checkout" \notin Faults
    PROVE  Spec => LedgersOnlyGrow
<1>1. OnceInv /\ [Next]_vars =>
         [quarantine \subseteq quarantine' /\ hive \subseteq hive']_vars
  <2> SUFFICES ASSUME OnceInv, [Next]_vars
               PROVE  quarantine \subseteq quarantine' /\ hive \subseteq hive'
    OBVIOUS
  <2>1. CASE UNCHANGED vars
    BY <2>1 DEF vars, gitVars, disk
  <2>2. ASSUME NEW d \in Daemons,
               Plain(d) \/ Evolve(d) \/ WriteTarget(d) \/ SandboxSucceeds(d)
               \/ SandboxFails(d) \/ Enters(d)
        PROVE  quarantine \subseteq quarantine' /\ hive \subseteq hive'
    BY <2>2 DEF Plain, Evolve, WriteTarget, SandboxSucceeds, SandboxFails, Enters,
                gitVars, disk
  <2>3. ASSUME NEW d \in Daemons, GitStep(d)
        PROVE  quarantine \subseteq quarantine' /\ hive \subseteq hive'
    <3>1. hive' = hive
      BY <2>3, GitTrees
    <3>2. CASE CheckoutMain /\ pc[d] = "gitMain"
      <4>1. Bare(Tracked) /\ Bare(Tip(branch["main"]))
        BY <3>2, CheckoutAllowed
      <4>2. quarantine' = quarantine
        BY <3>2, <4>1 DEF CheckoutMain, Carried, Bare
      <4> QED
        BY <3>1, <4>2
    <3>3. CASE quarantine' = quarantine
      BY <3>1, <3>3
    <3>4. (CheckoutMain /\ pc[d] = "gitMain") \/ quarantine' = quarantine
      BY <2>3 DEF GitStep, Succeeds, Goto, CheckoutStaging, AddFile, Commit, Push,
                  AddLedgers, disk
    <3> QED
      BY <3>2, <3>3, <3>4
  <2> QED
    BY <2>1, <2>2, <2>3, StepKinds DEF OnceInv, HiveInv, HistoryInv, TypeInv
<1>2. Spec => []OnceInv
  BY OnceAlways
<1> QED
  BY <1>1, <1>2, PTL DEF Spec, LedgersOnlyGrow
=============================================================================
