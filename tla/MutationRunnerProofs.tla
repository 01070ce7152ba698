------------------------- MODULE MutationRunnerProofs -------------------------
(***************************************************************************)
(* Theorems about evaluate_and_execute, for any callers, processes, hosts  *)
(* and mutations, any time limit, and any failures unless a theorem says   *)
(* otherwise.                                                              *)
(***************************************************************************)
EXTENDS MutationRunner, MutationLeaseProofs

(* The steps behind the exclusive store. *)
Storing == {"copy", "check"}
Compiling == {"flock", "enter", "forkMutation"} \* that is over
Ending == {"unflag", "unlock", "removeBinary", "removeSource"}
Holding == Storing \cup {"forkCompiler", "ban"} \cup Waiting \cup Compiling \cup Ending

(* Who has the source of its mutation: a caller behind the store, or a     *)
(* dead one whose child still runs.                                        *)
Owns(c) == pc[c] \in Holding \/ (pc[c] = "dead" /\ child[c] # "none")

JobGiven ==
    \A c \in Callers :
        pc[c] \notin {"idle", "dead"} \/ child[c] # "none" => job[c] \in Mutations

(* Another poll begins only before the limit. *)
LimitAhead == \A c \in Callers : pc[c] = "poll" => ticks[c] <= MaxTicks

ChildHeld ==
    \A c \in Callers : child[c] # "none" => pc[c] \in Waiting \cup {"dead"}

(* The exclusive store lets one caller on. *)
OneOwner ==
    \A c, d \in Callers : Owns(c) /\ Owns(d) /\ job[c] = job[d] => c = d

SourceHeld == \A c \in Callers : Owns(c) => source[job[c]] # "absent"

(* Between a compiler that exited with 0 and the end of the mutation the   *)
(* binary is whole.                                                        *)
BinaryHeld ==
    \A c \in Callers :
        /\ pc[c] \in Compiling => binary[job[c]] = "built"
        /\ /\ pc[c] \in {"poll", "kill", "reap"}
           /\ child[c] = "ok" \/ prog[c] = "mutation"
           => binary[job[c]] = "built"

OwnerParts ==
    /\ JobGiven /\ LimitAhead /\ ChildHeld
    /\ OneOwner /\ SourceHeld /\ BinaryHeld

OwnerInv == TypeOK /\ OwnerParts

(* What a mutation has gone through, by the step of the caller that has it. *)
UnsafeOut ==
    /\ \A m \in Unsafe : source[m] = "absent"
    /\ \A c \in Callers : /\ pc[c] = "reject" => job[c] \in Unsafe
                          /\ pc[c] = "store" => job[c] \notin Unsafe

NotBanned(c) == job[c] \notin banned
BannedIfRan(c) == job[c] \in ran => job[c] \in banned

StepKnown ==
    \A c \in Callers :
        /\ pc[c] \in {"forkCompiler"} \cup Waiting \cup Compiling => NotBanned(c)
        /\ pc[c] \in {"forkCompiler"} \cup Compiling => job[c] \notin ran
        /\ pc[c] \in Waiting \cup {"ban"} /\ prog[c] = "compiler" => job[c] \notin ran
        /\ pc[c] = "copy" => source[job[c]] = "partial"
        /\ pc[c] \in Storing => BannedIfRan(c)
        /\ pc[c] \in Ending => IF success[c] THEN NotBanned(c) ELSE BannedIfRan(c)
        /\ success[c] => pc[c] \in Ending

RanMarked == \A m \in ran : m \in banned \/ source[m] # "absent"

SurvivorKept ==
    \A m \in survived :
        /\ source[m] # "absent" /\ m \notin banned
        /\ \A c \in Callers : Owns(c) => job[c] # m

BannedHeld ==
    \A m \in banned \ cut :
        source[m] = "whole" => \E c \in Callers : pc[c] \in Holding /\ job[c] = m

(* The part of it that a ban which was not written leaves true. *)
CleanSteps ==
    \A c \in Callers :
        /\ pc[c] \in {"forkCompiler"} \cup Waiting \cup Compiling => NotBanned(c)
        /\ success[c] => pc[c] \in Ending /\ NotBanned(c)
        /\ pc[c] = "copy" => source[job[c]] = "partial"

HeldParts == UnsafeOut /\ CleanSteps /\ BannedHeld

HeldInv == OwnerInv /\ HeldParts

VerdictParts ==
    /\ UnsafeOut /\ StepKnown /\ RanMarked /\ SurvivorKept /\ BannedHeld
    /\ announced \subseteq banned

VerdictInv == OwnerInv /\ VerdictParts
-----------------------------------------------------------------------------
(* Next, action by action. *)
LEMMA StepCases ==
    ASSUME [Next]_vars
    PROVE  \/ UNCHANGED vars
           \/ \E c \in Callers :
                 \/ \E m \in Tries[c] : Call(c, m)
                 \/ Analyse(c) \/ Reject(c)
                 \/ Store(c) \/ StoreFails(c) \/ StoreByCopy(c)
                 \/ CopyDone(c) \/ CopyFails(c) \/ CheckBanned(c)
                 \/ ForkCompiler(c) \/ ForkCompilerFails(c) \/ ChildStarts(c)
                 \/ \E r \in {"ok", "bad"} : ChildEnds(c, r)
                 \/ PollEnded(c) \/ PollAgain(c) \/ KillGroup(c) \/ WaitKilled(c)
                 \/ LeaseThrows(c) \/ AcquireFlock(c) \/ EnterMutating(c)
                 \/ ForkMutation(c) \/ ForkMutationFails(c) \/ BanFailed(c)
                 \/ Unflag(c) \/ Unlock(c) \/ RemoveBinary(c) \/ RemoveSource(c)
           \/ \E p \in Processes : Crash(p) \/ Restart(p)
BY DEF Next, Advance, Failure

(* Every step keeps the types. *)
LEMMA TypeStep == TypeOK /\ JobGiven /\ LimitAhead /\ [Next]_vars => TypeOK'
<1> SUFFICES ASSUME TypeOK, JobGiven, LimitAhead, [Next]_vars PROVE TypeOK'
  OBVIOUS
<1> USE RunnerAssumption DEF TypeOK, Goto, Return, InLease, Waiting
<1>1. CASE UNCHANGED vars
  BY <1>1, LeaseTypes DEF vars, leaseVars, LeaseTypeOK
<1>2. ASSUME NEW c \in Callers, NEW m \in Tries[c], Call(c, m) PROVE TypeOK'
  BY <1>2 DEF Call, leaseVars, wait, vault, ledger, history, LeaseTypeOK
<1>3. ASSUME NEW c \in Callers,
             \/ Analyse(c) \/ Store(c) \/ StoreFails(c) \/ StoreByCopy(c)
             \/ CopyDone(c) \/ CopyFails(c) \/ CheckBanned(c)
      PROVE  TypeOK'
  <2>1. CASE Analyse(c) \/ StoreFails(c) \/ CopyFails(c)
    BY <2>1 DEF Analyse, StoreFails, CopyFails,
                leaseVars, wait, vault, ledger, history, LeaseTypeOK
  <2>2. CASE Store(c) \/ StoreByCopy(c) \/ CopyDone(c)
    BY <2>2 DEF Store, StoreByCopy, CopyDone,
                leaseVars, wait, vault, ledger, history, LeaseTypeOK
  <2>3. CASE CheckBanned(c)
    <3>1. CASE source' = [source EXCEPT ![job[c]] = "absent"] /\ Return(c, "check")
      BY <2>3, <3>1 DEF CheckBanned, leaseVars, wait, vault, ledger, history,
                        LeaseTypeOK
    <3>2. CASE Goto(c, "check", "forkCompiler") /\ UNCHANGED vault
      BY <2>3, <3>2 DEF CheckBanned, leaseVars, wait, vault, ledger, history,
                        LeaseTypeOK
    <3> QED
      BY <2>3, <3>1, <3>2 DEF CheckBanned
  <2> QED
    BY <1>3, <2>1, <2>2, <2>3
<1>4. ASSUME NEW c \in Callers, Reject(c) \/ BanFailed(c) PROVE TypeOK'
  <2>1. banned' \subseteq Mutations /\ announced' \subseteq Mutations
    BY <1>4 DEF Reject, BanFailed, Ban, ledger, JobGiven
  <2> QED
    BY <1>4, <2>1
       DEF Reject, BanFailed, leaseVars, wait, vault, history, LeaseTypeOK
<1>5. ASSUME NEW c \in Callers,
             \/ ForkCompiler(c) \/ ForkCompilerFails(c)
             \/ LeaseThrows(c) \/ ForkMutation(c) \/ ForkMutationFails(c)
      PROVE  TypeOK'
  <2>1. CASE ForkCompilerFails(c) \/ LeaseThrows(c) \/ ForkMutationFails(c)
    BY <2>1 DEF ForkCompilerFails, LeaseThrows, ForkMutationFails,
                leaseVars, wait, vault, ledger, history, LeaseTypeOK
  <2>2. CASE ForkCompiler(c)
    BY <2>2
       DEF ForkCompiler, Fork, leaseVars, vault, ledger, history, LeaseTypeOK
  <2>3. CASE ForkMutation(c)
    <3>1. ran' \subseteq Mutations
      BY <2>3 DEF ForkMutation, JobGiven
    <3> QED
      BY <2>3, <3>1
         DEF ForkMutation, Fork, leaseVars, vault, ledger, LeaseTypeOK
  <2> QED
    BY <1>5, <2>1, <2>2, <2>3
<1>6. ASSUME NEW c \in Callers,
             ChildStarts(c) \/ \E r \in {"ok", "bad"} : ChildEnds(c, r)
      PROVE  TypeOK'
  <2>1. flockOwner' \in {FlockReleasedBy({c}), flockOwner} /\ UNCHANGED isMutating
    BY <1>6 DEF ChildStarts, ChildEnds
  <2>2. LeaseTypeOK'
    BY <2>1, Placement, LeaseTypes
  <2>3. binary' \in [Mutations -> {"absent", "partial", "built"}]
    BY <1>6 DEF ChildStarts, ChildEnds, LeftBy, JobGiven, vault
  <2> QED
    BY <1>6, <2>2, <2>3 DEF ChildStarts, ChildEnds, vault, ledger, history
<1>7. ASSUME NEW c \in Callers, PollEnded(c) \/ WaitKilled(c) PROVE TypeOK'
  <2>1. PICK from \in Waiting, ok \in BOOLEAN : Verdict(c, from, ok)
    BY <1>7 DEF PollEnded, WaitKilled
  <2>2. /\ pc' = [pc EXCEPT ![c] = pc'[c]]
        /\ pc'[c] \in {"ban", "flock", "unflag"}
    BY <2>1 DEF Verdict
  <2>3. ticks' \in [Callers -> 0..(MaxTicks + 1)]
    BY <2>1 DEF Verdict
  <2> QED
    BY <2>1, <2>2, <2>3
       DEF Verdict, leaseVars, vault, ledger, history, LeaseTypeOK
<1>8. ASSUME NEW c \in Callers, PollAgain(c) PROVE TypeOK'
  <2>1. ticks[c] + 1 \in 0..(MaxTicks + 1)
    BY <1>8 DEF PollAgain, LimitAhead
  <2>2. ticks' \in [Callers -> 0..(MaxTicks + 1)]
    BY <1>8, <2>1 DEF PollAgain
  <2>3. \E to \in {"kill", "poll"} : pc' = [pc EXCEPT ![c] = to]
    BY <1>8 DEF PollAgain
  <2> QED
    BY <1>8, <2>2, <2>3
       DEF PollAgain, leaseVars, vault, ledger, history, LeaseTypeOK
<1>9. ASSUME NEW c \in Callers, KillGroup(c) PROVE TypeOK'
  <2>1. binary' \in [Mutations -> {"absent", "partial", "built"}]
    BY <1>9 DEF KillGroup, LeftBy, JobGiven
  <2> QED
    BY <1>9, <2>1 DEF KillGroup, leaseVars, ledger, history, LeaseTypeOK
<1>10. ASSUME NEW c \in Callers,
              AcquireFlock(c) \/ EnterMutating(c) \/ Unflag(c) \/ Unlock(c)
       PROVE  TypeOK'
  <2>1. LeaseTypeOK'
    BY <1>10, LeaseTypes, Placement
       DEF AcquireFlock, EnterMutating, Unflag, Unlock
  <2> QED
    BY <1>10, <2>1 DEF AcquireFlock, EnterMutating, Unflag, Unlock,
                       wait, vault, ledger, history
<1>11. ASSUME NEW c \in Callers, RemoveBinary(c) PROVE TypeOK'
  BY <1>11 DEF RemoveBinary, leaseVars, wait, ledger, history, LeaseTypeOK
<1>12. ASSUME NEW c \in Callers, RemoveSource(c) PROVE TypeOK'
  <2>1. job[c] \in Mutations
    BY <1>12 DEF RemoveSource, JobGiven
  <2>2. survived' \subseteq Mutations
    BY <1>12, <2>1 DEF RemoveSource
  <2>3. source' \in [Mutations -> {"absent", "partial", "whole"}]
    BY <1>12, <2>1 DEF RemoveSource
  <2> QED
    BY <1>12, <2>2, <2>3 DEF RemoveSource, leaseVars, ledger, LeaseTypeOK
<1>13. ASSUME NEW p \in Processes, Crash(p) PROVE TypeOK'
  <2>1. LeaseTypeOK'
    <3> CASE Callers = {}
      BY <1>13, Released DEF Crash
    <3> CASE Callers # {}
      BY <1>13, LeaseTypes DEF Crash
    <3> QED
      OBVIOUS
  <2>2. cut' \subseteq Mutations
    BY <1>13 DEF Crash
  <2>3. child' \in [Callers -> {"none", "forked", "running", "ok", "bad"}]
    BY <1>13 DEF Crash
  <2>4. ticks' \in [Callers -> 0..(MaxTicks + 1)]
    BY <1>13 DEF Crash
  <2>5. success' \in [Callers -> BOOLEAN]
    BY <1>13, Zenon DEF Crash
  <2>6. pc' \in [Callers -> {"dead"} \cup {pc[c] : c \in Callers}]
    BY <1>13 DEF Crash
  <2> QED
    BY <1>13, <2>1, <2>2, <2>3, <2>4, <2>5, <2>6 DEF Crash, vault, ledger
<1>14. ASSUME NEW p \in Processes, Restart(p) PROVE TypeOK'
  BY <1>14 DEF Restart, leaseVars, vault, ledger, history, LeaseTypeOK
<1> QED
  BY <1>1, <1>2, <1>3, <1>4, <1>5, <1>6, <1>7, <1>8, <1>9, <1>10, <1>11,
     <1>12, <1>13, <1>14, StepCases


(* Every step keeps what an owner has to itself. *)
LEMMA OwnerStep == OwnerInv /\ [Next]_vars => OwnerInv'
<1> SUFFICES ASSUME OwnerInv, [Next]_vars, TypeOK' PROVE OwnerParts'
  BY TypeStep DEF OwnerInv, OwnerParts
<1> USE RunnerAssumption
    DEF vault, ledger, wait, history, Goto, Return,
        OwnerInv, OwnerParts, TypeOK, InLease, Waiting, Storing,
        Compiling, Ending, Holding, Owns,
        JobGiven, LimitAhead, ChildHeld, OneOwner, SourceHeld, BinaryHeld
<1>1. CASE UNCHANGED vars
  BY <1>1 DEF vars
<1>2. ASSUME NEW c \in Callers, NEW m \in Tries[c], Call(c, m) PROVE OwnerParts'
  BY <1>2 DEF Call
<1>3. ASSUME NEW c \in Callers,
             \/ Analyse(c) \/ Reject(c) \/ StoreFails(c) \/ CopyFails(c)
             \/ ForkCompilerFails(c)
      PROVE  OwnerParts'
  BY <1>3 DEF Analyse, Reject, StoreFails, CopyFails, ForkCompilerFails
<1>4. ASSUME NEW c \in Callers,
             \/ Store(c) \/ StoreByCopy(c) \/ CopyDone(c)
      PROVE  OwnerParts'
  BY <1>4 DEF Store, StoreByCopy, CopyDone
<1>5. ASSUME NEW c \in Callers, CheckBanned(c) PROVE OwnerParts'
  <2>1. CASE /\ Return(c, "check")
             /\ source' = [source EXCEPT ![job[c]] = "absent"]
             /\ UNCHANGED <<child, ticks, binary>>
    BY <2>1
  <2>2. CASE Goto(c, "check", "forkCompiler") /\ UNCHANGED <<job, wait, vault>>
    BY <2>2
  <2> QED
    BY <1>5, <2>1, <2>2 DEF CheckBanned
<1>6. ASSUME NEW c \in Callers, ForkCompiler(c) PROVE OwnerParts'
  BY <1>6 DEF ForkCompiler, Fork
<1>7. ASSUME NEW c \in Callers, ChildStarts(c) PROVE OwnerParts'
  BY <1>7 DEF ChildStarts
<1>8. ASSUME NEW c \in Callers, NEW r \in {"ok", "bad"}, ChildEnds(c, r)
       PROVE  OwnerParts'
  BY <1>8 DEF ChildEnds, LeftBy
<1>9. ASSUME NEW c \in Callers, PollEnded(c) PROVE OwnerParts'
  BY <1>9 DEF PollEnded, Verdict
<1>10. ASSUME NEW c \in Callers, PollAgain(c) PROVE OwnerParts'
  BY <1>10 DEF PollAgain
<1>11. ASSUME NEW c \in Callers, KillGroup(c) PROVE OwnerParts'
  BY <1>11 DEF KillGroup, LeftBy
<1>12. ASSUME NEW c \in Callers, WaitKilled(c) PROVE OwnerParts'
  BY <1>12 DEF WaitKilled, Verdict
<1>13. ASSUME NEW c \in Callers,
             \/ LeaseThrows(c) \/ AcquireFlock(c) \/ EnterMutating(c)
             \/ ForkMutationFails(c) \/ Unflag(c) \/ Unlock(c)
             \/ BanFailed(c)
      PROVE  OwnerParts'
  BY <1>13 DEF LeaseThrows, AcquireFlock, EnterMutating, ForkMutationFails, Unflag, Unlock, BanFailed
<1>14. ASSUME NEW c \in Callers, ForkMutation(c) PROVE OwnerParts'
  BY <1>14 DEF ForkMutation, Fork
<1>15. ASSUME NEW c \in Callers, RemoveBinary(c) PROVE OwnerParts'
  BY <1>15 DEF RemoveBinary
<1>16. ASSUME NEW c \in Callers, RemoveSource(c) PROVE OwnerParts'
  BY <1>16 DEF RemoveSource
<1>17. ASSUME NEW p \in Processes, Crash(p) PROVE OwnerParts'
  BY <1>17 DEF Crash
<1>18. ASSUME NEW p \in Processes, Restart(p) PROVE OwnerParts'
  BY <1>18 DEF Restart
<1> QED
  BY <1>1, <1>2, <1>3, <1>4, <1>5, <1>6, <1>7, <1>8, <1>9, <1>10, <1>11,
     <1>12, <1>13, <1>14, <1>15, <1>16, <1>17, <1>18, StepCases
-----------------------------------------------------------------------------
(* When the ledger can be read and written, every step keeps what the      *)
(* ledger, the vault and the steps of the callers tell about a mutation.   *)
LEMMA VerdictStep ==
    ASSUME "ledger" \notin Faults, "banwrite" \notin Faults
    PROVE  VerdictInv /\ [Next]_vars => VerdictInv'
<1> SUFFICES ASSUME VerdictInv, [Next]_vars, OwnerInv' PROVE VerdictParts'
  BY OwnerStep DEF VerdictInv, VerdictParts
<1>0. /\ \A m : Ban(m) => banned' = banned \cup {m} /\ announced' = announced \cup {m}
      /\ \A c \in Callers : Answers(c) = {job[c] \in banned}
  BY DEF Ban, Answers
<1> USE RunnerAssumption
    DEF vault, ledger, wait, history, Goto, Return,
        VerdictInv, VerdictParts, OwnerInv, OwnerParts, TypeOK, InLease,
        Waiting, Storing, Compiling, Ending, Holding, Owns,
        JobGiven, ChildHeld, OneOwner, SourceHeld,
        UnsafeOut, StepKnown, NotBanned, BannedIfRan, RanMarked, SurvivorKept, BannedHeld
<1>1. CASE UNCHANGED vars
  BY <1>1 DEF vars
<1>2. ASSUME NEW c \in Callers, NEW m \in Tries[c], Call(c, m) PROVE VerdictParts'
  BY <1>2, <1>0 DEF Call
<1>3. ASSUME NEW c \in Callers, Analyse(c) PROVE VerdictParts'
  BY <1>3, <1>0 DEF Analyse
<1>4. ASSUME NEW c \in Callers, Reject(c) PROVE VerdictParts'
  BY <1>4, <1>0 DEF Reject
<1>5. ASSUME NEW c \in Callers, Store(c) PROVE VerdictParts'
  BY <1>5, <1>0 DEF Store
<1>6. ASSUME NEW c \in Callers,
             \/ StoreFails(c) \/ CopyFails(c) \/ ForkCompilerFails(c)
      PROVE  VerdictParts'
  BY <1>6, <1>0 DEF StoreFails, CopyFails, ForkCompilerFails
<1>7. ASSUME NEW c \in Callers,
             \/ StoreByCopy(c) \/ CopyDone(c)
      PROVE  VerdictParts'
  BY <1>7, <1>0 DEF StoreByCopy, CopyDone
<1>8. ASSUME NEW c \in Callers, CheckBanned(c) PROVE VerdictParts'
  <2>1. CASE /\ job[c] \in banned
             /\ Return(c, "check")
             /\ source' = [source EXCEPT ![job[c]] = "absent"]
             /\ UNCHANGED <<child, ticks, binary, ledger, history>>
    BY <2>1
  <2>2. CASE /\ job[c] \notin banned
             /\ Goto(c, "check", "forkCompiler")
             /\ UNCHANGED <<job, wait, success, vault, ledger, history>>
    BY <2>2
  <2> HIDE DEF VerdictParts
  <2>3. Answers(c) = {job[c] \in banned}
    BY <1>0
  <2>4. TRUE \in Answers(c) => job[c] \in banned
    BY <2>3
  <2>5. FALSE \in Answers(c) => job[c] \notin banned
    BY <2>3
  <2> QED
    BY <1>8, <2>1, <2>2, <2>4, <2>5 DEF CheckBanned
<1>9. ASSUME NEW c \in Callers, ForkCompiler(c) PROVE VerdictParts'
  BY <1>9, <1>0 DEF ForkCompiler, Fork
<1>10. ASSUME NEW c \in Callers, ChildStarts(c) PROVE VerdictParts'
  BY <1>10, <1>0 DEF ChildStarts
<1>11. ASSUME NEW c \in Callers, NEW r \in {"ok", "bad"}, ChildEnds(c, r)
       PROVE  VerdictParts'
  BY <1>11, <1>0 DEF ChildEnds
<1>12. ASSUME NEW c \in Callers, PollEnded(c) PROVE VerdictParts'
  <2>1. UNCHANGED <<job, prog, source, banned, announced, ran, survived, cut>>
    BY <1>12 DEF PollEnded, Verdict
  <2>2. /\ pc[c] = "poll"
        /\ child' = [child EXCEPT ![c] = "none"]
    BY <1>12 DEF PollEnded, Verdict
  <2>3. CASE child[c] # "ok"
    <3>1. pc' = [pc EXCEPT ![c] = "ban"] /\ success' = [success EXCEPT ![c] = FALSE]
      BY <1>12, <2>3 DEF PollEnded, Verdict
    <3> QED
      BY <2>1, <2>2, <3>1
  <2>4. CASE child[c] = "ok" /\ prog[c] = "compiler"
    <3>1. pc' = [pc EXCEPT ![c] = "flock"] /\ success' = [success EXCEPT ![c] = FALSE]
      BY <1>12, <2>4 DEF PollEnded, Verdict
    <3> QED
      BY <2>1, <2>2, <2>4, <3>1
  <2>5. CASE child[c] = "ok" /\ prog[c] = "mutation"
    <3>1. pc' = [pc EXCEPT ![c] = "unflag"] /\ success' = [success EXCEPT ![c] = TRUE]
      BY <1>12, <2>5 DEF PollEnded, Verdict
    <3> QED
      BY <2>1, <2>2, <2>5, <3>1
  <2> QED
    BY <2>3, <2>4, <2>5
<1>13. ASSUME NEW c \in Callers, PollAgain(c) PROVE VerdictParts'
  BY <1>13, <1>0 DEF PollAgain
<1>14. ASSUME NEW c \in Callers, KillGroup(c) PROVE VerdictParts'
  BY <1>14, <1>0 DEF KillGroup
<1>15. ASSUME NEW c \in Callers, WaitKilled(c) PROVE VerdictParts'
  BY <1>15, <1>0
     DEF WaitKilled, Verdict
<1>16. ASSUME NEW c \in Callers,
             \/ LeaseThrows(c) \/ AcquireFlock(c) \/ EnterMutating(c)
      PROVE  VerdictParts'
  BY <1>16, <1>0 DEF LeaseThrows, AcquireFlock, EnterMutating
<1>17. ASSUME NEW c \in Callers, ForkMutation(c) PROVE VerdictParts'
  BY <1>17, <1>0 DEF ForkMutation, Fork
<1>18. ASSUME NEW c \in Callers,
             \/ ForkMutationFails(c) \/ Unflag(c) \/ Unlock(c)
      PROVE  VerdictParts'
  BY <1>18, <1>0 DEF ForkMutationFails, Unflag, Unlock
<1>19. ASSUME NEW c \in Callers, BanFailed(c) PROVE VerdictParts'
  BY <1>19, <1>0 DEF BanFailed
<1>20. ASSUME NEW c \in Callers, RemoveBinary(c) PROVE VerdictParts'
  BY <1>20, <1>0 DEF RemoveBinary
<1>21. ASSUME NEW c \in Callers, RemoveSource(c) PROVE VerdictParts'
  BY <1>21, <1>0 DEF RemoveSource
<1>22. ASSUME NEW p \in Processes, Crash(p) PROVE VerdictParts'
  BY <1>22 DEF Crash
<1>23. ASSUME NEW p \in Processes, Restart(p) PROVE VerdictParts'
  BY <1>23 DEF Restart
<1> HIDE DEF VerdictParts
<1> QED
  BY <1>1, <1>2, <1>3, <1>4, <1>5, <1>6, <1>7, <1>8, <1>9, <1>10, <1>11,
     <1>12, <1>13, <1>14, <1>15, <1>16, <1>17, <1>18, <1>19, <1>20, <1>21,
     <1>22, <1>23, StepCases
(* A ban that is not written leaves a source behind of which the ledger    *)
(* says nothing.                                                           *)
LEMMA HeldStep ==
    ASSUME "ledger" \notin Faults
    PROVE  HeldInv /\ [Next]_vars => HeldInv'
<1> SUFFICES ASSUME HeldInv, [Next]_vars, OwnerInv' PROVE HeldParts'
  BY OwnerStep DEF HeldInv, HeldParts
<1>0. /\ \A m : Ban(m) => banned' \in {banned, banned \cup {m}}
      /\ \A c \in Callers : Answers(c) = {job[c] \in banned}
  BY DEF Ban, Answers
<1> USE RunnerAssumption
    DEF vault, ledger, wait, history, Goto, Return,
        HeldInv, HeldParts, OwnerInv, OwnerParts, TypeOK, InLease,
        Waiting, Storing, Compiling, Ending, Holding, Owns,
        JobGiven, ChildHeld, OneOwner, SourceHeld,
        UnsafeOut, CleanSteps, NotBanned, BannedHeld
<1>1. CASE UNCHANGED vars
  BY <1>1 DEF vars
<1>2. ASSUME NEW c \in Callers, NEW m \in Tries[c], Call(c, m) PROVE HeldParts'
  BY <1>2, <1>0 DEF Call
<1>3. ASSUME NEW c \in Callers, Analyse(c) PROVE HeldParts'
  BY <1>3, <1>0 DEF Analyse
<1>4. ASSUME NEW c \in Callers, Reject(c) PROVE HeldParts'
  BY <1>4, <1>0 DEF Reject
<1>5. ASSUME NEW c \in Callers, Store(c) PROVE HeldParts'
  BY <1>5, <1>0 DEF Store
<1>6. ASSUME NEW c \in Callers,
             \/ StoreFails(c) \/ CopyFails(c) \/ ForkCompilerFails(c)
      PROVE  HeldParts'
  BY <1>6, <1>0 DEF StoreFails, CopyFails, ForkCompilerFails
<1>7. ASSUME NEW c \in Callers,
             \/ StoreByCopy(c) \/ CopyDone(c)
      PROVE  HeldParts'
  BY <1>7, <1>0 DEF StoreByCopy, CopyDone
<1>8. ASSUME NEW c \in Callers, CheckBanned(c) PROVE HeldParts'
  <2>1. CASE /\ job[c] \in banned
             /\ Return(c, "check")
             /\ source' = [source EXCEPT ![job[c]] = "absent"]
             /\ UNCHANGED <<child, ticks, binary, ledger, history>>
    BY <2>1
  <2>2. CASE /\ job[c] \notin banned
             /\ Goto(c, "check", "forkCompiler")
             /\ UNCHANGED <<job, wait, success, vault, ledger, history>>
    BY <2>2
  <2> HIDE DEF HeldParts
  <2>3. Answers(c) = {job[c] \in banned}
    BY <1>0
  <2>4. TRUE \in Answers(c) => job[c] \in banned
    BY <2>3
  <2>5. FALSE \in Answers(c) => job[c] \notin banned
    BY <2>3
  <2> QED
    BY <1>8, <2>1, <2>2, <2>4, <2>5 DEF CheckBanned
<1>9. ASSUME NEW c \in Callers, ForkCompiler(c) PROVE HeldParts'
  BY <1>9, <1>0 DEF ForkCompiler, Fork
<1>10. ASSUME NEW c \in Callers, ChildStarts(c) PROVE HeldParts'
  BY <1>10, <1>0 DEF ChildStarts
<1>11. ASSUME NEW c \in Callers, NEW r \in {"ok", "bad"}, ChildEnds(c, r)
       PROVE  HeldParts'
  BY <1>11, <1>0 DEF ChildEnds
<1>12. ASSUME NEW c \in Callers, PollEnded(c) PROVE HeldParts'
  <2>1. UNCHANGED <<job, prog, source, banned, announced, ran, survived, cut>>
    BY <1>12 DEF PollEnded, Verdict
  <2>2. /\ pc[c] = "poll"
        /\ child' = [child EXCEPT ![c] = "none"]
    BY <1>12 DEF PollEnded, Verdict
  <2>3. CASE child[c] # "ok"
    <3>1. pc' = [pc EXCEPT ![c] = "ban"] /\ success' = [success EXCEPT ![c] = FALSE]
      BY <1>12, <2>3 DEF PollEnded, Verdict
    <3> QED
      BY <2>1, <2>2, <3>1
  <2>4. CASE child[c] = "ok" /\ prog[c] = "compiler"
    <3>1. pc' = [pc EXCEPT ![c] = "flock"] /\ success' = [success EXCEPT ![c] = FALSE]
      BY <1>12, <2>4 DEF PollEnded, Verdict
    <3> QED
      BY <2>1, <2>2, <2>4, <3>1
  <2>5. CASE child[c] = "ok" /\ prog[c] = "mutation"
    <3>1. pc' = [pc EXCEPT ![c] = "unflag"] /\ success' = [success EXCEPT ![c] = TRUE]
      BY <1>12, <2>5 DEF PollEnded, Verdict
    <3> QED
      BY <2>1, <2>2, <2>5, <3>1
  <2> QED
    BY <2>3, <2>4, <2>5
<1>13. ASSUME NEW c \in Callers, PollAgain(c) PROVE HeldParts'
  BY <1>13, <1>0 DEF PollAgain
<1>14. ASSUME NEW c \in Callers, KillGroup(c) PROVE HeldParts'
  BY <1>14, <1>0 DEF KillGroup
<1>15. ASSUME NEW c \in Callers, WaitKilled(c) PROVE HeldParts'
  BY <1>15, <1>0
     DEF WaitKilled, Verdict
<1>16. ASSUME NEW c \in Callers,
             \/ LeaseThrows(c) \/ AcquireFlock(c) \/ EnterMutating(c)
      PROVE  HeldParts'
  BY <1>16, <1>0 DEF LeaseThrows, AcquireFlock, EnterMutating
<1>17. ASSUME NEW c \in Callers, ForkMutation(c) PROVE HeldParts'
  BY <1>17, <1>0 DEF ForkMutation, Fork
<1>18. ASSUME NEW c \in Callers,
             \/ ForkMutationFails(c) \/ Unflag(c) \/ Unlock(c)
      PROVE  HeldParts'
  BY <1>18, <1>0 DEF ForkMutationFails, Unflag, Unlock
<1>19. ASSUME NEW c \in Callers, BanFailed(c) PROVE HeldParts'
  BY <1>19, <1>0 DEF BanFailed
<1>20. ASSUME NEW c \in Callers, RemoveBinary(c) PROVE HeldParts'
  BY <1>20, <1>0 DEF RemoveBinary
<1>21. ASSUME NEW c \in Callers, RemoveSource(c) PROVE HeldParts'
  BY <1>21, <1>0 DEF RemoveSource
<1>22. ASSUME NEW p \in Processes, Crash(p) PROVE HeldParts'
  BY <1>22 DEF Crash
<1>23. ASSUME NEW p \in Processes, Restart(p) PROVE HeldParts'
  BY <1>23 DEF Restart
<1> HIDE DEF HeldParts
<1> QED
  BY <1>1, <1>2, <1>3, <1>4, <1>5, <1>6, <1>7, <1>8, <1>9, <1>10, <1>11,
     <1>12, <1>13, <1>14, <1>15, <1>16, <1>17, <1>18, <1>19, <1>20, <1>21,
     <1>22, <1>23, StepCases
-----------------------------------------------------------------------------
LEMMA OwnerInvariant == Spec => []OwnerInv
<1>1. Init => OwnerInv
  BY RunnerAssumption, PlacementAssumption
     DEF Init, LeaseInit, LeaseTypeOK, OwnerInv, OwnerParts, TypeOK, InLease, Waiting, Storing,
         Compiling, Ending, Holding, Owns,
         JobGiven, LimitAhead, ChildHeld, OneOwner, SourceHeld, BinaryHeld
<1>2. OwnerInv /\ [Next]_vars => OwnerInv'
  BY OwnerStep
<1> QED
  BY <1>1, <1>2, PTL DEF Spec

LEMMA VerdictInvariant ==
    ASSUME "ledger" \notin Faults, "banwrite" \notin Faults
    PROVE  Spec => []VerdictInv
<1>1. Init /\ OwnerInv => VerdictInv
  BY RunnerAssumption
     DEF Init, VerdictInv, VerdictParts, InLease, Waiting, Storing, Compiling, Ending, Holding,
         Owns, UnsafeOut, StepKnown, NotBanned, BannedIfRan, RanMarked,
         SurvivorKept, BannedHeld
<1>2. VerdictInv /\ [Next]_vars => VerdictInv'
  BY VerdictStep
<1> QED
  BY <1>1, <1>2, OwnerInvariant, PTL DEF Spec

LEMMA HeldInvariant ==
    ASSUME "ledger" \notin Faults
    PROVE  Spec => []HeldInv
<1>1. Init /\ OwnerInv => HeldInv
  BY RunnerAssumption
     DEF Init, HeldInv, HeldParts, InLease, Waiting, Storing, Compiling, Ending,
         Holding, UnsafeOut, CleanSteps, NotBanned, BannedHeld
<1>2. HeldInv /\ [Next]_vars => HeldInv'
  BY HeldStep
<1> QED
  BY <1>1, <1>2, OwnerInvariant, PTL DEF Spec

(* Every variable keeps its type, whatever fails. *)
THEOREM TypeCorrect == Spec => []TypeOK
<1>1. OwnerInv => TypeOK
  BY DEF OwnerInv
<1> QED
  BY <1>1, OwnerInvariant, PTL

(* The binary in the sandbox is a whole one, whatever fails: it is the     *)
(* caller's own from the exclusive store on.                               *)
THEOREM WholeBinary == Spec => []RunsWholeBinary
<1>1. OwnerInv => RunsWholeBinary
  BY DEF OwnerInv, OwnerParts, ChildHeld, BinaryHeld, RunsWholeBinary, Waiting
<1> QED
  BY <1>1, OwnerInvariant, PTL

(* A child enters the sandbox by ForkMutation and by nothing else. *)
LEMMA RunsByFork ==
    ASSUME TypeOK, [Next]_vars, NEW d \in Callers, Runs(d)
    PROVE  ForkMutation(d)
<1> USE DEF Runs, TypeOK
<1>1. ASSUME NEW c \in Callers, ForkCompiler(c) \/ ForkMutation(c)
      PROVE  ForkMutation(d)
  <2>1. c = d
    BY <1>1 DEF ForkCompiler, ForkMutation, Fork
  <2>2. ~ForkCompiler(d)
    BY DEF ForkCompiler, Fork
  <2> QED
    BY <1>1, <2>1, <2>2
<1>2. ASSUME NEW c \in Callers, NEW m \in Tries[c], Call(c, m) PROVE FALSE
  BY <1>2 DEF Call, wait
<1>3. ASSUME NEW c \in Callers,
             \/ Analyse(c) \/ Reject(c)
             \/ Store(c) \/ StoreFails(c) \/ StoreByCopy(c)
             \/ CopyDone(c) \/ CopyFails(c) \/ CheckBanned(c)
             \/ ForkCompilerFails(c)
      PROVE  FALSE
  BY <1>3 DEF Analyse, Reject, Store, StoreFails, StoreByCopy, CopyDone,
              CopyFails, CheckBanned, ForkCompilerFails, wait
<1>4. ASSUME NEW c \in Callers,
             \/ ChildStarts(c) \/ \E r \in {"ok", "bad"} : ChildEnds(c, r)
             \/ PollEnded(c) \/ PollAgain(c) \/ KillGroup(c) \/ WaitKilled(c)
      PROVE  FALSE
  BY <1>4 DEF ChildStarts, ChildEnds, PollEnded, PollAgain, KillGroup,
              WaitKilled, Verdict
<1>5. ASSUME NEW c \in Callers,
             \/ LeaseThrows(c) \/ AcquireFlock(c) \/ EnterMutating(c)
             \/ ForkMutationFails(c) \/ BanFailed(c) \/ Unflag(c) \/ Unlock(c)
             \/ RemoveBinary(c) \/ RemoveSource(c)
      PROVE  FALSE
  BY <1>5 DEF LeaseThrows, AcquireFlock, EnterMutating, ForkMutationFails,
              BanFailed, Unflag, Unlock, RemoveBinary, RemoveSource, wait
<1>6. ASSUME NEW p \in Processes, Crash(p) \/ Restart(p) PROVE FALSE
  <2>1. CASE Crash(p)
    <3>1. child'[d] \in {"none", child[d]}
      BY <2>1 DEF Crash
    <3> QED
      BY <3>1
  <2>2. CASE Restart(p)
    BY <2>2 DEF Restart
  <2> QED
    BY <1>6, <2>1, <2>2
<1>7. CASE UNCHANGED vars
  BY <1>7 DEF vars
<1> QED
  BY <1>1, <1>2, <1>3, <1>4, <1>5, <1>6, <1>7, StepCases

(* When the ledger can be read and written, no mutation enters the sandbox *)
(* twice: whoever is about to run it has had its source since before it    *)
(* was first run.                                                          *)
THEOREM AtMostOnce ==
    ASSUME "ledger" \notin Faults, "banwrite" \notin Faults
    PROVE  Spec => RunsAtMostOnce
<1>1. VerdictInv /\ [Next]_vars
      => [\A c \in Callers : Runs(c) => job[c] \notin ran]_vars
  <2> SUFFICES ASSUME VerdictInv, [Next]_vars, NEW c \in Callers, Runs(c)
               PROVE  job[c] \notin ran
    OBVIOUS
  <2>1. pc[c] = "forkMutation"
    BY RunsByFork DEF VerdictInv, OwnerInv, ForkMutation, Goto
  <2> QED
    BY <2>1 DEF VerdictInv, VerdictParts, StepKnown, Compiling
<1> QED
  BY <1>1, VerdictInvariant, PTL DEF Spec, RunsAtMostOnce

(* Under the same premise what was announced as banned never runs. *)
THEOREM BannedNeverRuns ==
    ASSUME "ledger" \notin Faults, "banwrite" \notin Faults
    PROVE  Spec => NeverRunsBanned
<1>1. VerdictInv /\ [Next]_vars
      => [\A c \in Callers : Runs(c) => job[c] \notin announced]_vars
  <2> SUFFICES ASSUME VerdictInv, [Next]_vars, NEW c \in Callers, Runs(c)
               PROVE  job[c] \notin announced
    OBVIOUS
  <2>1. pc[c] = "forkMutation"
    BY RunsByFork DEF VerdictInv, OwnerInv, ForkMutation, Goto
  <2> QED
    BY <2>1 DEF VerdictInv, VerdictParts, StepKnown, NotBanned, Compiling
<1> QED
  BY <1>1, VerdictInvariant, PTL DEF Spec, NeverRunsBanned

(* Under the same premise no mutation is a success and banned. *)
THEOREM VerdictIsOne ==
    ASSUME "ledger" \notin Faults, "banwrite" \notin Faults
    PROVE  Spec => []OneVerdict
<1>1. VerdictInv => OneVerdict
  BY DEF VerdictInv, VerdictParts, SurvivorKept, OneVerdict
<1> QED
  BY <1>1, VerdictInvariant, PTL

(* A banned mutation leaves no whole source behind, unless a crash cut a   *)
(* call short, or the ledger could not be read.  That a ban is not always  *)
(* written is no exception.                                                *)
THEOREM NoBannedSource ==
    ASSUME "ledger" \notin Faults
    PROVE  Spec => []BannedLeavesNoSource
<1>1. HeldInv => BannedLeavesNoSource
  BY DEF HeldInv, HeldParts, BannedHeld, BannedLeavesNoSource
<1> QED
  BY <1>1, HeldInvariant, PTL
=============================================================================
