-------------------------- MODULE MutationLeaseProofs --------------------------
(***************************************************************************)
(* Lemmas about the lease, for every module that uses it.                  *)
(***************************************************************************)
EXTENDS MutationLease, TLAPS

(* A caller's process and host are a process and a host. *)
LEMMA Placement ==
    ASSUME NEW c \in Callers
    PROVE  ProcOf[c] \in Processes /\ Host(c) \in Hosts /\ c # None
BY PlacementAssumption DEF Host

(* Giving back the flocks of some callers leaves every other owner alone. *)
LEMMA Released ==
    ASSUME LeaseTypeOK, NEW S
    PROVE  /\ FlockReleasedBy(S) \in [Hosts -> Callers \cup {None}]
           /\ \A h \in Hosts : FlockReleasedBy(S)[h] =
                 IF flockOwner[h] \in S THEN None ELSE flockOwner[h]
BY DEF LeaseTypeOK, FlockReleasedBy

(* Whatever a caller or the kernel does to the lease keeps its types. *)
LEMMA LeaseTypes ==
    ASSUME LeaseTypeOK, NEW c \in Callers, NEW p \in Processes, NEW S,
           \/ UNCHANGED leaseVars
           \/ TakeFlock(c) \/ LockMutationState(c)
           \/ UnlockMutationState(c) \/ ReleaseFlock(c)
           \/ KernelReclaims(p, S)
           \/ flockOwner' \in {FlockReleasedBy({c}), flockOwner} /\ UNCHANGED isMutating
    PROVE  LeaseTypeOK'
<1>1. CASE LockMutationState(c)
  <2>1. CASE isMutating[ProcOf[c]]
    BY <1>1, <2>1, Released DEF LockMutationState, LeaseTypeOK
  <2>2. CASE ~isMutating[ProcOf[c]]
    BY <1>1, <2>2 DEF LockMutationState, LeaseTypeOK
  <2> QED
    BY <2>1, <2>2
<1>2. CASE KernelReclaims(p, S)
  BY <1>2, Released DEF KernelReclaims, LeaseTypeOK
<1>3. CASE ReleaseFlock(c)
  BY <1>3, Released DEF ReleaseFlock, LeaseTypeOK
<1>4. CASE flockOwner' \in {FlockReleasedBy({c}), flockOwner} /\ UNCHANGED isMutating
  BY <1>4, Released DEF LeaseTypeOK
<1>5. CASE UNCHANGED leaseVars \/ TakeFlock(c) \/ UnlockMutationState(c)
  BY <1>5 DEF LeaseTypeOK, leaseVars, TakeFlock, UnlockMutationState
<1> QED
  BY <1>1, <1>2, <1>3, <1>4, <1>5
=============================================================================
