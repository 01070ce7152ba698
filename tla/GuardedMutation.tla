--------------------------- MODULE GuardedMutation ---------------------------
(***************************************************************************)
(* run_guarded_mutation of include/core.hpp: the pre-flight quarantine     *)
(* check, the lease, fork, the blocking waitpid, the recording of a        *)
(* signalled mutation, and the unwinding of the lease, for any number of   *)
(* threads in any number of processes.                                     *)
(*                                                                         *)
(* The quarantine log is a set of mutations per host here; the steps of    *)
(* one append or one look-up are in module QuarantineLog.                  *)
(***************************************************************************)
EXTENDS MutationLease

CONSTANTS
    Mutations, \* structural hashes of mutation sources
    Faults     \* which failures may happen, a subset of FaultKinds

FaultKinds == {
    "open",    \* open or flock of the lease's lock file fails (or EINTR)
    "fork",    \* fork() fails
    "waitpid", \* waitpid() fails with something other than EINTR
    "read",    \* the quarantine log cannot be opened for reading
    "append",  \* the append to the quarantine log fails
    "crash"}   \* the supervising process is killed

ASSUME FaultAssumption == Faults \subseteq FaultKinds

ASSUME MutationAssumption == Mutations # {}

VARIABLES
    pc,        \* where each caller is
    job,       \* mutation_source_path of its current call
    child,     \* the process it forked
    outcome,   \* what waitpid told it
    ledger,    \* per host, the hashes in the quarantine log
    convicted, \* history: per host, mutations reported signalled to a caller
    late       \* history: job was already convicted when the call began

vars == <<flockOwner, isMutating, pc, job, child, outcome, ledger, convicted,
          late>>

InLease == {"enter", "fork", "wait", "record", "unflag", "unlock"}
Flagged == {"fork", "wait", "record", "unflag"}
Results == {"ok", "failed", "signaled"}

TypeOK ==
    /\ LeaseTypeOK
    /\ pc \in [Callers -> InLease \cup {"idle", "preflight", "flock", "dead"}]
    /\ job \in [Callers -> Mutations]
    /\ child \in [Callers -> Results \cup {"none", "forked", "running"}]
    /\ outcome \in [Callers -> Results \cup {"none"}]
    /\ ledger \in [Hosts -> SUBSET Mutations]
    /\ convicted \in [Hosts -> SUBSET Mutations]
    /\ late \in [Callers -> BOOLEAN]

Init ==
    /\ LeaseInit
    /\ pc = [c \in Callers |-> "idle"]
    /\ job \in [Callers -> Mutations]
    /\ child = [c \in Callers |-> "none"]
    /\ outcome = [c \in Callers |-> "none"]
    /\ ledger = [h \in Hosts |-> {}]
    /\ convicted = ledger
    /\ late = [c \in Callers |-> FALSE]

Goto(c, from, to) == pc[c] = from /\ pc' = [pc EXCEPT ![c] = to]

Call(c, m) ==
    /\ Goto(c, "idle", "preflight")
    /\ job' = [job EXCEPT ![c] = m]
    /\ late' = [late EXCEPT ![c] = m \in convicted[Host(c)]]
    /\ UNCHANGED <<leaseVars, child, outcome, ledger, convicted>>

(* is_quarantined: a log that cannot be opened reads as an empty one. *)
Answers(c) ==
    {job[c] \in ledger[Host(c)]} \cup (IF "read" \in Faults THEN {FALSE} ELSE {})

Preflight(c) ==
    /\ \E found \in Answers(c) :
          Goto(c, "preflight", IF found THEN "idle" ELSE "flock")
    /\ UNCHANGED <<leaseVars, job, child, outcome, ledger, convicted, late>>

(* CrossProcessGuard's constructor throws before it holds anything. *)
LeaseThrows(c) ==
    /\ "open" \in Faults
    /\ Goto(c, "flock", "idle")
    /\ UNCHANGED <<leaseVars, job, child, outcome, ledger, convicted, late>>

AcquireFlock(c) ==
    /\ Goto(c, "flock", "enter")
    /\ TakeFlock(c)
    /\ UNCHANGED <<job, child, outcome, ledger, convicted, late>>

EnterMutating(c) ==
    /\ Goto(c, "enter", IF isMutating[ProcOf[c]] THEN "idle" ELSE "fork")
    /\ LockMutationState(c)
    /\ UNCHANGED <<job, child, outcome, ledger, convicted, late>>

ForkChild(c) ==
    /\ Goto(c, "fork", "wait")
    /\ child' = [child EXCEPT ![c] = "forked"]
    /\ UNCHANGED <<leaseVars, job, outcome, ledger, convicted, late>>

(* Mutant: the unwinding forgets the flag. *)
ForkFailsFlagged(c) ==
    /\ "fork" \in Faults
    /\ Goto(c, "fork", "unlock")
    /\ UNCHANGED <<leaseVars, job, child, outcome, ledger, convicted, late>>

(* The exception unwinds through ~MutationLease. *)
ForkFails(c) ==
    /\ "fork" \in Faults
    /\ Goto(c, "fork", "unflag")
    /\ UNCHANGED <<leaseVars, job, child, outcome, ledger, convicted, late>>

(* Mutant: the lock file opened without O_CLOEXEC. *)
ChildExecsInheriting(c) ==
    /\ child[c] = "forked"
    /\ child' = [child EXCEPT ![c] = "running"]
    /\ UNCHANGED <<leaseVars, pc, job, outcome, ledger, convicted, late>>

(* execvp closes the child's copy of the O_CLOEXEC lock descriptor: the    *)
(* last one if the supervisor is dead.                                     *)
ChildExecs(c) ==
    /\ child[c] = "forked"
    /\ child' = [child EXCEPT ![c] = "running"]
    /\ flockOwner' = IF pc[c] = "dead" THEN FlockReleasedBy({c}) ELSE flockOwner
    /\ UNCHANGED <<isMutating, pc, job, outcome, ledger, convicted, late>>

(* The mutation exits or is killed, before exec too (127 is a failure).    *)
(* Nobody waits for an orphan.                                             *)
ChildEnds(c, r) ==
    /\ child[c] \in {"forked", "running"}
    /\ child' = [child EXCEPT ![c] = IF pc[c] = "dead" THEN "none" ELSE r]
    /\ flockOwner' = IF pc[c] = "dead" THEN FlockReleasedBy({c}) ELSE flockOwner
    /\ UNCHANGED <<isMutating, pc, job, outcome, ledger, convicted, late>>

(* Mutant: waitpid with WNOHANG. *)
ReapWithoutWaiting(c) ==
    /\ Goto(c, "wait", IF child[c] = "signaled" THEN "record" ELSE "unflag")
    /\ outcome' = [outcome EXCEPT ![c] = child[c]]
    /\ child' = [child EXCEPT ![c] = "none"]
    /\ UNCHANGED <<leaseVars, job, ledger, convicted, late>>

Reap(c) ==
    /\ child[c] \in Results
    /\ Goto(c, "wait", IF child[c] = "signaled" THEN "record" ELSE "unflag")
    /\ outcome' = [outcome EXCEPT ![c] = child[c]]
    /\ child' = [child EXCEPT ![c] = "none"]
    /\ UNCHANGED <<leaseVars, job, ledger, convicted, late>>

(* Mutant: the early return does not give the lease back. *)
WaitpidFailsLeased(c) ==
    /\ "waitpid" \in Faults
    /\ child[c] \in Results
    /\ Goto(c, "wait", "idle")
    /\ child' = [child EXCEPT ![c] = "none"]
    /\ UNCHANGED <<leaseVars, job, outcome, ledger, convicted, late>>

(* The child is gone but its status is lost: nothing is recorded. *)
WaitpidFails(c) ==
    /\ "waitpid" \in Faults
    /\ child[c] \in Results
    /\ Goto(c, "wait", "unflag")
    /\ child' = [child EXCEPT ![c] = "none"]
    /\ UNCHANGED <<leaseVars, job, outcome, ledger, convicted, late>>

(* Mutant: the log is truncated instead of appended to. *)
RecordOnlyLast(c) ==
    /\ Goto(c, "record", "unflag")
    /\ ledger' = [ledger EXCEPT ![Host(c)] = {job[c]}]
    /\ UNCHANGED <<leaseVars, job, child, outcome, convicted, late>>

(* quarantine() is void: a failed append leaves no trace. *)
Record(c) ==
    /\ Goto(c, "record", "unflag")
    /\ \E written \in {TRUE} \cup (IF "append" \in Faults THEN {FALSE} ELSE {}) :
          ledger' = [ledger EXCEPT ![Host(c)] =
                        IF written THEN @ \cup {job[c]} ELSE @]
    /\ UNCHANGED <<leaseVars, job, child, outcome, convicted, late>>

Unflag(c) ==
    /\ Goto(c, "unflag", "unlock")
    /\ UnlockMutationState(c)
    /\ UNCHANGED <<job, child, outcome, ledger, convicted, late>>

Unlock(c) ==
    /\ Goto(c, "unlock", "idle")
    /\ ReleaseFlock(c)
    /\ outcome' = [outcome EXCEPT ![c] = "none"]
    /\ convicted' = [convicted EXCEPT ![Host(c)] =
                        IF outcome[c] = "signaled" THEN @ \cup {job[c]} ELSE @]
    /\ UNCHANGED <<job, child, ledger, late>>

(* SIGKILL of a supervisor.  Its children live on; a zombie is reaped. *)
Crash(p) ==
    /\ "crash" \in Faults
    /\ \E c \in Callers : ProcOf[c] = p /\ pc[c] # "dead"
    /\ pc' = [c \in Callers |-> IF ProcOf[c] = p THEN "dead" ELSE pc[c]]
    /\ outcome' = [c \in Callers |-> IF ProcOf[c] = p THEN "none" ELSE outcome[c]]
    /\ child' = [c \in Callers |->
                    IF ProcOf[c] = p /\ child[c] \in Results
                    THEN "none" ELSE child[c]]
    /\ KernelReclaims(p, {c \in Callers : child[c] = "forked"})
    /\ UNCHANGED <<job, ledger, convicted, late>>

(* A new supervisor in the place of a dead one whose orphans are gone; one *)
(* started beside an orphan is another element of Processes.               *)
Restart(p) ==
    /\ \A c \in Callers : ProcOf[c] = p => pc[c] = "dead" /\ child[c] = "none"
    /\ pc' = [c \in Callers |-> IF ProcOf[c] = p THEN "idle" ELSE pc[c]]
    /\ UNCHANGED <<leaseVars, job, child, outcome, ledger, convicted, late>>

Advance(c) ==
    \/ Preflight(c)
    \/ AcquireFlock(c)
    \/ EnterMutating(c)
    \/ ForkChild(c)
    \/ Reap(c)
    \/ Record(c)
    \/ Unflag(c)
    \/ Unlock(c)

SystemCallFails(c) ==
    \/ LeaseThrows(c)
    \/ ForkFails(c)
    \/ WaitpidFails(c)

Next ==
    \/ \E c \in Callers : \E m \in Mutations : Call(c, m)
    \/ \E c \in Callers : Advance(c)
    \/ \E c \in Callers : SystemCallFails(c)
    \/ \E c \in Callers : ChildExecs(c)
    \/ \E c \in Callers : \E r \in Results : ChildEnds(c, r)
    \/ \E p \in Processes : Crash(p)
    \/ \E p \in Processes : Restart(p)

(* A thread keeps running; a forked child reaches exec; the kernel hands a *)
(* lock that is released again and again to each waiter in turn.  Nothing  *)
(* makes a mutation end, as this function sets no time limit, and nothing  *)
(* makes a system call fail.                                               *)
Fairness ==
    \A c \in Callers :
        /\ WF_vars(Advance(c))
        /\ SF_vars(AcquireFlock(c))
        /\ WF_vars(ChildExecs(c))

Spec == Init /\ [][Next]_vars

FairSpec == Spec /\ Fairness
-----------------------------------------------------------------------------
(* README, Security Model: one mutation at a time.  Two supervised         *)
(* mutations never coexist on a host, in whatever processes their callers  *)
(* are, and whichever supervisors crash and come back.  An orphan whose    *)
(* supervisor was killed is the one thing that may overlap.                *)
Alive(c) == child[c] \in {"forked", "running"}

SupervisedExclusion ==
    \A c, d \in Callers :
        /\ Host(c) = Host(d)
        /\ Alive(c) /\ pc[c] # "dead"
        /\ Alive(d) /\ pc[d] # "dead"
        => c = d

(* The in-process check of AtomicGuard never throws: whoever holds the     *)
(* flock finds the flag clear, because the flag is cleared before the      *)
(* flock is given back.                                                    *)
InProcessCheckNeverFires ==
    \A c \in Callers : pc[c] = "enter" => ~isMutating[ProcOf[c]]

(* A killed supervisor does not take the lease with it: the lock outlives  *)
(* it only as long as its child has not reached exec.                      *)
DeadHoldersLetGo ==
    \A h \in Hosts : \A c \in Callers :
        flockOwner[h] = c /\ pc[c] = "dead" => child[c] = "forked"

(* A call that starts after some call has reported a signalled run of the  *)
(* mutation never forks it again, restarts of the supervisor included.     *)
ConvictedNeverRunsAgain ==
    \A c \in Callers : late[c] => child[c] = "none"

(* core.hpp, header comment: the look-up closes the window between check   *)
(* and fork, so what is forked is not in the log at that moment.           *)
NoForkOfQuarantined ==
    [][\A c \in Callers :
          child[c] = "none" /\ child'[c] = "forked"
          => job[c] \notin ledger[Host(c)]]_vars

(* While mutations end, nobody waits for the lease forever: every path out *)
(* of a lease, by return, exception or death, gives it back.               *)
MutationsEnd == \A c \in Callers : []<>(~Alive(c))

WaitersAreServed ==
    MutationsEnd => \A c \in Callers : pc[c] = "flock" ~> pc[c] # "flock"
=============================================================================
