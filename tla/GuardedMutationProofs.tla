------------------------ MODULE GuardedMutationProofs ------------------------
(***************************************************************************)
(* Theorems about run_guarded_mutation for any callers, processes, hosts   *)
(* and mutations, and any failures unless a theorem says otherwise.        *)
(***************************************************************************)
EXTENDS GuardedMutation, MutationLeaseProofs

(* Whoever is inside a lease owns its host's flock. *)
LeaseHeld == \A c \in Callers : pc[c] \in InLease => flockOwner[Host(c)] = c

(* An owner is inside a lease, or dead with a child that has not reached   *)
(* exec.                                                                   *)
HolderKnown ==
    \A h \in Hosts : \A c \in Callers :
        flockOwner[h] = c =>
            /\ h = Host(c)
            /\ pc[c] \in InLease \/ (pc[c] = "dead" /\ child[c] = "forked")

(* A flag that is set has a thread of its process between setting it and   *)
(* clearing it.                                                            *)
FlagHeld ==
    \A p \in Processes :
        isMutating[p] => \E c \in Callers : ProcOf[c] = p /\ pc[c] \in Flagged

(* A child has a caller that waits for it, or is an orphan. *)
ChildHeld == \A c \in Callers : child[c] # "none" => pc[c] \in {"wait", "dead"}

IInv == TypeOK /\ LeaseHeld /\ HolderKnown /\ FlagHeld /\ ChildHeld

(* What a lease leaves behind once its outcome is known. *)
VerdictRecorded ==
    \A c \in Callers :
        /\ outcome[c] # "none" => pc[c] \in {"record", "unflag", "unlock"}
        /\ pc[c] = "record" => outcome[c] = "signaled"
        /\ outcome[c] = "signaled" /\ pc[c] # "record"
           => job[c] \in ledger[Host(c)]

ConvictedRecorded == \A h \in Hosts : convicted[h] \subseteq ledger[h]

LateStops ==
    \A c \in Callers :
        late[c] => /\ job[c] \in convicted[Host(c)]
                   /\ pc[c] \in {"idle", "preflight", "dead"}
                   /\ child[c] = "none"

CInv == IInv /\ VerdictRecorded /\ ConvictedRecorded /\ LateStops
-----------------------------------------------------------------------------
(* Next, action by action. *)
LEMMA StepCases ==
    ASSUME [Next]_vars
    PROVE  \/ UNCHANGED vars
           \/ \E c \in Callers :
                 \/ \E m \in Mutations : Call(c, m)
                 \/ Preflight(c) \/ LeaseThrows(c) \/ AcquireFlock(c)
                 \/ EnterMutating(c) \/ ForkChild(c) \/ ForkFails(c)
                 \/ ChildExecs(c) \/ (\E r \in Results : ChildEnds(c, r))
                 \/ Reap(c) \/ WaitpidFails(c) \/ Record(c)
                 \/ Unflag(c) \/ Unlock(c)
           \/ \E p \in Processes : Crash(p) \/ Restart(p)
BY DEF Next, Advance, SystemCallFails

(* Every step keeps the types. *)
LEMMA TypeStep == TypeOK /\ [Next]_vars => TypeOK'
<1> SUFFICES ASSUME TypeOK, [Next]_vars PROVE TypeOK'
  OBVIOUS
<1> USE DEF TypeOK, LeaseTypeOK, Goto, InLease, Results
<1>1. CASE UNCHANGED vars
  BY <1>1 DEF vars
<1>2. ASSUME NEW c \in Callers, NEW m \in Mutations, Call(c, m)
      PROVE  TypeOK'
  BY <1>2 DEF Call, leaseVars
<1>3. ASSUME NEW c \in Callers,
             \/ Preflight(c) \/ LeaseThrows(c) \/ ForkChild(c) \/ ForkFails(c)
      PROVE  TypeOK'
  BY <1>3 DEF Preflight, LeaseThrows, ForkChild, ForkFails, leaseVars
<1>4. ASSUME NEW c \in Callers, AcquireFlock(c) PROVE TypeOK'
  BY <1>4 DEF AcquireFlock, TakeFlock
<1>5. ASSUME NEW c \in Callers, EnterMutating(c) PROVE TypeOK'
  <2>1. pc' \in [Callers -> InLease \cup {"idle", "preflight", "flock", "dead"}]
    BY <1>5 DEF EnterMutating
  <2>2. LeaseTypeOK'
    <3>1. CASE isMutating[ProcOf[c]]
      BY <1>5, <3>1, Released DEF EnterMutating, LockMutationState
    <3>2. CASE ~isMutating[ProcOf[c]]
      BY <1>5, <3>2 DEF EnterMutating, LockMutationState
    <3> QED
      BY <3>1, <3>2
  <2> QED
    BY <1>5, <2>1, <2>2 DEF EnterMutating
<1>6. ASSUME NEW c \in Callers, ChildExecs(c) PROVE TypeOK'
  BY <1>6, Released DEF ChildExecs
<1>7. ASSUME NEW c \in Callers, NEW r \in Results, ChildEnds(c, r)
      PROVE  TypeOK'
  BY <1>7, Released DEF ChildEnds
<1>8. ASSUME NEW c \in Callers, Reap(c) \/ WaitpidFails(c) PROVE TypeOK'
  BY <1>8 DEF Reap, WaitpidFails, leaseVars
<1>9. ASSUME NEW c \in Callers, Record(c) PROVE TypeOK'
  BY <1>9, Placement DEF Record, leaseVars
<1>10. ASSUME NEW c \in Callers, Unflag(c) PROVE TypeOK'
  BY <1>10 DEF Unflag, UnlockMutationState
<1>11. ASSUME NEW c \in Callers, Unlock(c) PROVE TypeOK'
  BY <1>11, Released, Placement DEF Unlock, ReleaseFlock
<1>12. ASSUME NEW p \in Processes, Crash(p) PROVE TypeOK'
  BY <1>12, Released DEF Crash, KernelReclaims
<1>13. ASSUME NEW p \in Processes, Restart(p) PROVE TypeOK'
  BY <1>13 DEF Restart, leaseVars
<1> QED
  BY <1>1, <1>2, <1>3, <1>4, <1>5, <1>6, <1>7, <1>8, <1>9, <1>10, <1>11,
     <1>12, <1>13, StepCases

(* Every step keeps the four parts of the invariant that tie callers,      *)
(* flocks, flags and children together.                                    *)
LEMMA LeaseStep == IInv /\ [Next]_vars => IInv'
<1> SUFFICES ASSUME IInv, [Next]_vars, TypeOK'
             PROVE  LeaseHeld' /\ HolderKnown' /\ FlagHeld' /\ ChildHeld'
  BY TypeStep DEF IInv
<1> USE DEF IInv, TypeOK, LeaseTypeOK, Goto, InLease, Flagged, Results,
            LeaseHeld, HolderKnown, FlagHeld, ChildHeld
<1>1. CASE UNCHANGED vars
  BY <1>1 DEF vars
<1>2. ASSUME NEW c \in Callers, NEW m \in Mutations, Call(c, m)
      PROVE  LeaseHeld' /\ HolderKnown' /\ FlagHeld' /\ ChildHeld'
  BY <1>2 DEF Call, leaseVars
<1>3. ASSUME NEW c \in Callers, Preflight(c) \/ LeaseThrows(c)
      PROVE  LeaseHeld' /\ HolderKnown' /\ FlagHeld' /\ ChildHeld'
  BY <1>3 DEF Preflight, LeaseThrows, leaseVars
<1>4. ASSUME NEW c \in Callers, AcquireFlock(c)
      PROVE  LeaseHeld' /\ HolderKnown' /\ FlagHeld' /\ ChildHeld'
  BY <1>4, Placement DEF AcquireFlock, TakeFlock
<1>5. ASSUME NEW c \in Callers, EnterMutating(c)
      PROVE  LeaseHeld' /\ HolderKnown' /\ FlagHeld' /\ ChildHeld'
  BY <1>5, Placement, Released DEF EnterMutating, LockMutationState
<1>6. ASSUME NEW c \in Callers, ForkChild(c) \/ ForkFails(c)
      PROVE  LeaseHeld' /\ HolderKnown' /\ FlagHeld' /\ ChildHeld'
  BY <1>6 DEF ForkChild, ForkFails, leaseVars
<1>7. ASSUME NEW c \in Callers, ChildExecs(c)
      PROVE  LeaseHeld' /\ HolderKnown' /\ FlagHeld' /\ ChildHeld'
  BY <1>7, Placement, Released DEF ChildExecs
<1>8. ASSUME NEW c \in Callers, NEW r \in Results, ChildEnds(c, r)
      PROVE  LeaseHeld' /\ HolderKnown' /\ FlagHeld' /\ ChildHeld'
  BY <1>8, Placement, Released DEF ChildEnds
<1>9. ASSUME NEW c \in Callers, Reap(c) \/ WaitpidFails(c)
      PROVE  LeaseHeld' /\ HolderKnown' /\ FlagHeld' /\ ChildHeld'
  BY <1>9 DEF Reap, WaitpidFails, leaseVars
<1>10. ASSUME NEW c \in Callers, Record(c)
       PROVE  LeaseHeld' /\ HolderKnown' /\ FlagHeld' /\ ChildHeld'
  BY <1>10 DEF Record, leaseVars
<1>11. ASSUME NEW c \in Callers, Unflag(c)
       PROVE  LeaseHeld' /\ HolderKnown' /\ FlagHeld' /\ ChildHeld'
  BY <1>11, Placement DEF Unflag, UnlockMutationState, Host
<1>12. ASSUME NEW c \in Callers, Unlock(c)
       PROVE  LeaseHeld' /\ HolderKnown' /\ FlagHeld' /\ ChildHeld'
  BY <1>12, Placement, Released DEF Unlock, ReleaseFlock
<1>13. ASSUME NEW p \in Processes, Crash(p)
       PROVE  LeaseHeld' /\ HolderKnown' /\ FlagHeld' /\ ChildHeld'
  BY <1>13, Placement, Released DEF Crash, KernelReclaims
<1>14. ASSUME NEW p \in Processes, Restart(p)
       PROVE  LeaseHeld' /\ HolderKnown' /\ FlagHeld' /\ ChildHeld'
  BY <1>14 DEF Restart, leaseVars
<1> QED
  BY <1>1, <1>2, <1>3, <1>4, <1>5, <1>6, <1>7, <1>8, <1>9, <1>10, <1>11,
     <1>12, <1>13, <1>14, StepCases

LEMMA LeaseInitially == Init => IInv
BY PlacementAssumption
   DEF Init, LeaseInit, IInv, TypeOK, LeaseTypeOK, InLease, Flagged, Results,
       LeaseHeld, HolderKnown, FlagHeld, ChildHeld

LEMMA LeaseInvariant == Spec => []IInv
<1>1. Init => IInv
  BY LeaseInitially
<1>2. IInv /\ [Next]_vars => IInv'
  BY LeaseStep
<1> QED
  BY <1>1, <1>2, PTL DEF Spec

(* Every variable keeps its type, whatever fails. *)
THEOREM TypeCorrect == Spec => []TypeOK
<1>1. IInv => TypeOK
  BY DEF IInv
<1> QED
  BY <1>1, LeaseInvariant, PTL

(* Two mutations whose supervisors live never run together on a host: both *)
(* callers would own its flock.                                            *)
THEOREM Exclusion == Spec => []SupervisedExclusion
<1>1. IInv => SupervisedExclusion
  <2> SUFFICES ASSUME IInv,
                      NEW c \in Callers, NEW d \in Callers, Host(c) = Host(d),
                      Alive(c), pc[c] # "dead", Alive(d), pc[d] # "dead"
               PROVE  c = d
    BY DEF SupervisedExclusion
  <2>1. pc[c] = "wait" /\ pc[d] = "wait"
    BY DEF IInv, ChildHeld, Alive
  <2>2. flockOwner[Host(c)] = c /\ flockOwner[Host(d)] = d
    BY <2>1 DEF IInv, LeaseHeld, InLease
  <2> QED
    BY <2>2
<1> QED
  BY <1>1, LeaseInvariant, PTL

(* The exception of AtomicGuard is dead code: a set flag has a holder in   *)
(* the same process, which owns the same flock, so it is the caller        *)
(* itself, and that one has not reached the flag yet.                      *)
THEOREM InProcessCheckIsDeadCode == Spec => []InProcessCheckNeverFires
<1>1. IInv => InProcessCheckNeverFires
  <2> SUFFICES ASSUME IInv, NEW c \in Callers, pc[c] = "enter",
                      isMutating[ProcOf[c]]
               PROVE  FALSE
    BY DEF InProcessCheckNeverFires
  <2>1. PICK d \in Callers : ProcOf[d] = ProcOf[c] /\ pc[d] \in Flagged
    BY Placement DEF IInv, FlagHeld
  <2>2. flockOwner[Host(c)] = c
    BY DEF IInv, LeaseHeld, InLease
  <2>3. flockOwner[Host(d)] = d
    BY <2>1 DEF IInv, LeaseHeld, InLease, Flagged
  <2>4. c = d
    BY <2>1, <2>2, <2>3 DEF Host
  <2> QED
    BY <2>1, <2>4 DEF Flagged
<1> QED
  BY <1>1, LeaseInvariant, PTL

(* A lock whose supervisor was killed is held by a child that has not      *)
(* reached exec, and by nothing else.                                      *)
THEOREM DeadLetGo == Spec => []DeadHoldersLetGo
<1>1. IInv => DeadHoldersLetGo
  BY DEF IInv, HolderKnown, DeadHoldersLetGo, InLease
<1> QED
  BY <1>1, LeaseInvariant, PTL
-----------------------------------------------------------------------------
(* The log of a host never loses a mutation; when it can be read and       *)
(* written, whatever a caller was told to be signalled is in it.           *)
LEMMA VerdictStep ==
    ASSUME "append" \notin Faults, "read" \notin Faults
    PROVE  CInv /\ [Next]_vars => CInv'
<1> SUFFICES ASSUME CInv, [Next]_vars, IInv'
             PROVE  VerdictRecorded' /\ ConvictedRecorded' /\ LateStops'
  BY LeaseStep DEF CInv
<1> USE DEF CInv, IInv, TypeOK, Goto, Results, InLease, ChildHeld,
            VerdictRecorded, ConvictedRecorded, LateStops
<1>1. CASE UNCHANGED vars
  BY <1>1 DEF vars
<1>2. ASSUME NEW c \in Callers, NEW m \in Mutations, Call(c, m)
      PROVE  VerdictRecorded' /\ ConvictedRecorded' /\ LateStops'
  <2> DEFINE known == m \in convicted[Host(c)]
  <2>1. late' = [late EXCEPT ![c] = known]
    BY <1>2 DEF Call
  <2>2. pc'[c] = "preflight" /\ job'[c] = m /\ child[c] = "none"
    BY <1>2 DEF Call
  <2>3. VerdictRecorded' /\ ConvictedRecorded'
    BY <1>2, Placement DEF Call
  <2>4. CASE known
    <3>1. late' = [late EXCEPT ![c] = TRUE]
      BY <2>1, <2>4
    <3> QED
      BY <1>2, <2>2, <2>3, <2>4, <3>1 DEF Call
  <2>5. CASE ~known
    <3>1. late' = [late EXCEPT ![c] = FALSE]
      BY <2>1, <2>5
    <3> QED
      BY <1>2, <2>2, <2>3, <3>1 DEF Call
  <2> QED
    BY <2>4, <2>5
<1>3. ASSUME NEW c \in Callers, Preflight(c)
      PROVE  VerdictRecorded' /\ ConvictedRecorded' /\ LateStops'
  <2>1. Answers(c) = {job[c] \in ledger[Host(c)]}
    BY "read" \notin Faults DEF Answers
  <2>2. late[c] => pc'[c] = "idle"
    BY <1>3, <2>1, Placement DEF Preflight
  <2> QED
    BY <1>3, <2>2 DEF Preflight
<1>4. ASSUME NEW c \in Callers,
             \/ LeaseThrows(c) \/ AcquireFlock(c) \/ EnterMutating(c)
             \/ ForkChild(c) \/ ForkFails(c) \/ Unflag(c)
      PROVE  VerdictRecorded' /\ ConvictedRecorded' /\ LateStops'
  BY <1>4 DEF LeaseThrows, AcquireFlock, EnterMutating, ForkChild, ForkFails,
              Unflag
<1>5. ASSUME NEW c \in Callers,
             ChildExecs(c) \/ \E r \in Results : ChildEnds(c, r)
      PROVE  VerdictRecorded' /\ ConvictedRecorded' /\ LateStops'
  BY <1>5 DEF ChildExecs, ChildEnds
<1>6. ASSUME NEW c \in Callers, Reap(c) \/ WaitpidFails(c)
      PROVE  VerdictRecorded' /\ ConvictedRecorded' /\ LateStops'
  BY <1>6 DEF Reap, WaitpidFails
<1>7. ASSUME NEW c \in Callers, Record(c)
      PROVE  VerdictRecorded' /\ ConvictedRecorded' /\ LateStops'
  <2>1. ledger' = [ledger EXCEPT ![Host(c)] = @ \cup {job[c]}]
    BY <1>7, "append" \notin Faults DEF Record
  <2> QED
    BY <1>7, <2>1, Placement DEF Record
<1>8. ASSUME NEW c \in Callers, Unlock(c)
      PROVE  VerdictRecorded' /\ ConvictedRecorded' /\ LateStops'
  BY <1>8, Placement DEF Unlock
<1>9. ASSUME NEW p \in Processes, Crash(p) \/ Restart(p)
      PROVE  VerdictRecorded' /\ ConvictedRecorded' /\ LateStops'
  BY <1>9 DEF Crash, Restart
<1> QED
  BY <1>1, <1>2, <1>3, <1>4, <1>5, <1>6, <1>7, <1>8, <1>9, StepCases

(* A mutation some call reported signalled is never forked by a call that  *)
(* starts later, provided the quarantine log can be read and appended to.  *)
THEOREM ConvictedStaysOut ==
    ASSUME "append" \notin Faults, "read" \notin Faults
    PROVE  Spec => []ConvictedNeverRunsAgain
<1>1. Init => CInv
  BY LeaseInitially
     DEF Init, CInv, VerdictRecorded, ConvictedRecorded, LateStops
<1>2. CInv /\ [Next]_vars => CInv'
  BY VerdictStep
<1>3. CInv => ConvictedNeverRunsAgain
  BY DEF CInv, LateStops, ConvictedNeverRunsAgain
<1> QED
  BY <1>1, <1>2, <1>3, PTL DEF Spec
=============================================================================
