---------------------------- MODULE MutationLease ----------------------------
(***************************************************************************)
(* The RAII lease of include/core.hpp that serialises mutation runs:       *)
(* CrossProcessGuard (an exclusive flock on a lock file under /tmp),       *)
(* AtomicGuard (the in-process is_mutating_ flag) and MutationLease, which *)
(* takes the flock first and the flag second, and gives them back in the   *)
(* opposite order.                                                         *)
(*                                                                         *)
(* A caller is one thread executing a function that holds a lease.  Every  *)
(* attempt opens the lock file anew, so the lock belongs to the caller's   *)
(* own open file description, never to its process.  The lock file is in   *)
(* the /tmp of one host.                                                   *)
(***************************************************************************)
CONSTANTS
    Callers,    \* threads that ask for a lease
    Processes,  \* operating-system processes, one AtomicGuard object each
    Hosts,      \* machines or containers: whatever has a /tmp of its own
    ProcOf,     \* the process of a caller
    HostOf,     \* the host of a process
    None        \* no caller

ASSUME PlacementAssumption ==
    /\ ProcOf \in [Callers -> Processes]
    /\ HostOf \in [Processes -> Hosts]
    /\ None \notin Callers

VARIABLES
    flockOwner, \* per host, the caller whose description holds LOCK_EX
    isMutating  \* per process, AtomicGuard::is_mutating_

leaseVars == <<flockOwner, isMutating>>

Host(c) == HostOf[ProcOf[c]]

Neighbours(c) == {d \in Callers : ProcOf[d] = ProcOf[c]}

LeaseTypeOK ==
    /\ flockOwner \in [Hosts -> Callers \cup {None}]
    /\ isMutating \in [Processes -> BOOLEAN]

LeaseInit ==
    /\ flockOwner = [h \in Hosts |-> None]
    /\ isMutating = [p \in Processes |-> FALSE]

(* Mutant: LOCK_SH for LOCK_EX. *)
TakeSharedFlock(c) ==
    /\ flockOwner' = [flockOwner EXCEPT ![Host(c)] = c]
    /\ UNCHANGED isMutating

(* CrossProcessGuard's constructor: a blocking flock(LOCK_EX). *)
TakeFlock(c) ==
    /\ flockOwner[Host(c)] = None
    /\ flockOwner' = [flockOwner EXCEPT ![Host(c)] = c]
    /\ UNCHANGED isMutating

(* CrossProcessGuard::release, and the closing of a description's last     *)
(* descriptor by the kernel.                                               *)
FlockReleasedBy(S) ==
    [h \in Hosts |-> IF flockOwner[h] \in S THEN None ELSE flockOwner[h]]

(* AtomicGuard::lock_mutation_state throws when the flag is already set;   *)
(* the half-built lease then destroys its flock.                           *)
LockMutationState(c) ==
    IF isMutating[ProcOf[c]]
    THEN /\ flockOwner' = FlockReleasedBy({c})
         /\ UNCHANGED isMutating
    ELSE /\ isMutating' = [isMutating EXCEPT ![ProcOf[c]] = TRUE]
         /\ UNCHANGED flockOwner

(* ~MutationLease: its body clears the flag ... *)
UnlockMutationState(c) ==
    /\ isMutating' = [isMutating EXCEPT ![ProcOf[c]] = FALSE]
    /\ UNCHANGED flockOwner

(* ... and only then is the member xp_guard_ destroyed. *)
ReleaseFlock(c) ==
    /\ flockOwner' = FlockReleasedBy({c})
    /\ UNCHANGED isMutating

(* SIGKILL of a process: its memory is gone and the kernel closes its      *)
(* descriptors.  The descriptions in kept survive, because a forked child  *)
(* that has not reached exec still has a copy of the descriptor.           *)
KernelReclaims(p, kept) ==
    /\ isMutating' = [isMutating EXCEPT ![p] = FALSE]
    /\ flockOwner' = FlockReleasedBy({c \in Callers : ProcOf[c] = p} \ kept)
=============================================================================
