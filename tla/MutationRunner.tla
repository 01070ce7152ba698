--------------------------- MODULE MutationRunner ---------------------------
(***************************************************************************)
(* MutationRunner::evaluate_and_execute (include/MutationRunner.hpp) with  *)
(* the calls it makes: the heuristic verdict, SecureArtifact's exclusive   *)
(* store of the source in the vault, the ban ledger of QuarantineRegistry, *)
(* the compiler and the sandboxed mutation as child processes under a      *)
(* polling time limit, and the lease around the second.                    *)
(*                                                                         *)
(* A mutation stands for a source text, its hash and its mutation_id,      *)
(* which the supervisor derives from the hash.                             *)
(***************************************************************************)
EXTENDS MutationLease, Integers

CONSTANTS
    Mutations,
    Unsafe,   \* those the HeuristicAnalyzer rejects
    Tries,    \* the mutations a caller is given
    MaxTicks, \* polls before the time limit: 600 and 30 in the code
    Prompt,   \* a forked child enters its process group within the limit
    Faults

FaultKinds == {
    "vault",    \* the source cannot be stored at all
    "exdev",    \* linkat fails with EXDEV or ENOENT, the source is copied
    "copy",     \* that copy fails half-way
    "fork",     \* a fork fails
    "open",     \* the lease's lock file cannot be opened or locked
    "ledger",   \* the ban ledger cannot be opened or locked
    "banwrite", \* an entry does not reach the ban ledger
    "crash"}    \* the process is killed

ASSUME RunnerAssumption ==
    /\ Unsafe \subseteq Mutations
    /\ Tries \in [Callers -> SUBSET Mutations]
    /\ MaxTicks \in Nat
    /\ Prompt \in BOOLEAN
    /\ Faults \subseteq FaultKinds

VARIABLES
    pc, job,
    prog,      \* what the caller's child runs
    child,     \* the state of that child
    ticks,     \* timeout_counter
    success,   \* execution_success
    source,    \* per mutation, vault/mut_<id>.cpp
    binary,    \* per mutation, vault/bin_<id>
    banned,    \* the ban ledger
    announced, \* history: "permanently banned" was printed
    ran,       \* history: forked into the sandbox
    survived,  \* history: evaluate_and_execute returned true
    cut        \* history: a crash interrupted a call on its source

vars == <<flockOwner, isMutating, pc, job, prog, child, ticks, success, source,
          binary, banned, announced, ran, survived, cut>>
vault == <<source, binary>>
ledger == <<banned, announced>>
wait == <<prog, child, ticks>>
history == <<ran, survived, cut>>

InLease == {"enter", "forkMutation", "ban", "unflag", "unlock"}
Waiting == {"poll", "kill", "reap"}

TypeOK ==
    /\ LeaseTypeOK
    /\ pc \in [Callers -> InLease \cup Waiting \cup
                  {"idle", "analyse", "reject", "store", "copy", "check",
                   "forkCompiler", "flock", "removeBinary", "removeSource",
                   "dead"}]
    /\ job \in [Callers -> Mutations \cup {None}]
    /\ prog \in [Callers -> {"compiler", "mutation"}]
    /\ child \in [Callers -> {"none", "forked", "running", "ok", "bad"}]
    /\ ticks \in [Callers -> 0..(MaxTicks + 1)]
    /\ success \in [Callers -> BOOLEAN]
    /\ source \in [Mutations -> {"absent", "partial", "whole"}]
    /\ binary \in [Mutations -> {"absent", "partial", "built"}]
    /\ banned \subseteq Mutations
    /\ announced \subseteq Mutations
    /\ ran \subseteq Mutations
    /\ survived \subseteq Mutations
    /\ cut \subseteq Mutations

Init ==
    /\ LeaseInit
    /\ pc = [c \in Callers |-> "idle"]
    /\ job = [c \in Callers |-> None]
    /\ prog = [c \in Callers |-> "compiler"]
    /\ child = [c \in Callers |-> "none"]
    /\ ticks = [c \in Callers |-> 0]
    /\ success = [c \in Callers |-> FALSE]
    /\ source = [m \in Mutations |-> "absent"]
    /\ binary = [m \in Mutations |-> "absent"]
    /\ banned = {} /\ announced = {}
    /\ ran = {} /\ survived = {} /\ cut = {}

Goto(c, from, to) == pc[c] = from /\ pc' = [pc EXCEPT ![c] = to]

(* The function returns from step from. *)
Return(c, from) ==
    /\ Goto(c, from, "idle")
    /\ job' = [job EXCEPT ![c] = None]
    /\ prog' = [prog EXCEPT ![c] = "compiler"]
    /\ success' = [success EXCEPT ![c] = FALSE]

Call(c, m) ==
    /\ Goto(c, "idle", "analyse")
    /\ job' = [job EXCEPT ![c] = m]
    /\ UNCHANGED <<leaseVars, wait, success, vault, ledger, history>>

Analyse(c) ==
    /\ Goto(c, "analyse", IF job[c] \in Unsafe THEN "reject" ELSE "store")
    /\ UNCHANGED <<leaseVars, job, wait, success, vault, ledger, history>>
-----------------------------------------------------------------------------
(* QuarantineRegistry::ban_mutation: an open or lock that fails is a       *)
(* return; a write that fails is a warning, and the ban is announced.      *)
Ban(m) ==
    \/ banned' = banned \cup {m} /\ announced' = announced \cup {m}
    \/ "ledger" \in Faults /\ UNCHANGED ledger
    \/ /\ "banwrite" \in Faults
       /\ announced' = announced \cup {m}
       /\ UNCHANGED banned

Reject(c) ==
    /\ Return(c, "reject")
    /\ Ban(job[c])
    /\ UNCHANGED <<leaseVars, child, ticks, vault, history>>

(* Mutant: an existing source is overwritten. *)
StoreOver(c) ==
    /\ Goto(c, "store", "check")
    /\ source' = [source EXCEPT ![job[c]] = "whole"]
    /\ UNCHANGED <<leaseVars, job, wait, success, binary, ledger, history>>

(* SecureArtifact::write_securely: an unnamed inode is linked to its name  *)
(* if that name is free.                                                   *)
Store(c) ==
    /\ Goto(c, "store", "check")
    /\ source[job[c]] = "absent"
    /\ source' = [source EXCEPT ![job[c]] = "whole"]
    /\ UNCHANGED <<leaseVars, job, wait, success, binary, ledger, history>>

StoreFails(c) ==
    /\ Return(c, "store")
    /\ source[job[c]] # "absent" \/ "vault" \in Faults
    /\ UNCHANGED <<leaseVars, child, ticks, vault, ledger, history>>

(* The fallback creates the name, exclusively too, and then fills the file. *)
StoreByCopy(c) ==
    /\ "exdev" \in Faults
    /\ Goto(c, "store", "copy")
    /\ source[job[c]] = "absent"
    /\ source' = [source EXCEPT ![job[c]] = "partial"]
    /\ UNCHANGED <<leaseVars, job, wait, success, binary, ledger, history>>

CopyDone(c) ==
    /\ Goto(c, "copy", "check")
    /\ source' = [source EXCEPT ![job[c]] = "whole"]
    /\ UNCHANGED <<leaseVars, job, wait, success, binary, ledger, history>>

(* The half-written file keeps its name. *)
CopyFails(c) ==
    /\ "copy" \in Faults
    /\ Return(c, "copy")
    /\ UNCHANGED <<leaseVars, child, ticks, vault, ledger, history>>

(* Mutant: the ledger is not looked at. *)
CheckNothing(c) ==
    /\ Goto(c, "check", "forkCompiler")
    /\ UNCHANGED <<leaseVars, job, wait, success, vault, ledger, history>>

(* is_banned is FALSE of a ledger it cannot open and TRUE of one it cannot *)
(* lock.                                                                   *)
Answers(c) ==
    {job[c] \in banned} \cup (IF "ledger" \in Faults THEN BOOLEAN ELSE {})

CheckBanned(c) ==
    \/ /\ TRUE \in Answers(c)
       /\ Return(c, "check")
       /\ source' = [source EXCEPT ![job[c]] = "absent"]
       /\ UNCHANGED <<leaseVars, child, ticks, binary, ledger, history>>
    \/ /\ FALSE \in Answers(c)
       /\ Goto(c, "check", "forkCompiler")
       /\ UNCHANGED <<leaseVars, job, wait, success, vault, ledger, history>>
-----------------------------------------------------------------------------
Fork(c, p) ==
    /\ child' = [child EXCEPT ![c] = "forked"]
    /\ prog' = [prog EXCEPT ![c] = p]
    /\ ticks' = [ticks EXCEPT ![c] = 0]

ForkCompiler(c) ==
    /\ Goto(c, "forkCompiler", "poll")
    /\ Fork(c, "compiler")
    /\ UNCHANGED <<leaseVars, job, success, vault, ledger, history>>

(* The early return leaves the source in the vault. *)
ForkCompilerFails(c) ==
    /\ "fork" \in Faults
    /\ Return(c, "forkCompiler")
    /\ UNCHANGED <<leaseVars, child, ticks, vault, ledger, history>>

(* The child leaves the supervisor's process group and reaches exec, which *)
(* closes its copy of the lease's descriptor.                              *)
ChildStarts(c) ==
    /\ child[c] = "forked"
    /\ child' = [child EXCEPT ![c] = "running"]
    /\ flockOwner' = IF pc[c] = "dead" THEN FlockReleasedBy({c}) ELSE flockOwner
    /\ UNCHANGED <<isMutating, pc, job, prog, ticks, success, vault, ledger,
                   history>>

(* Only a compiler that exits with 0 has linked the binary; another may    *)
(* leave a part of it.                                                     *)
LeftBy(c, r) ==
    IF prog[c] = "mutation" THEN {binary[job[c]]}
    ELSE IF r = "ok" THEN {"built"} ELSE {binary[job[c]], "partial"}

(* A child comes to its end by itself, before exec too.  Nobody waits for  *)
(* an orphan.                                                              *)
ChildEnds(c, r) ==
    /\ child[c] = "running" \/ (child[c] = "forked" /\ r = "bad")
    /\ child' = [child EXCEPT ![c] = IF pc[c] = "dead" THEN "none" ELSE r]
    /\ \E b \in LeftBy(c, r) : binary' = [binary EXCEPT ![job[c]] = b]
    /\ flockOwner' = IF pc[c] = "dead" THEN FlockReleasedBy({c}) ELSE flockOwner
    /\ UNCHANGED <<isMutating, pc, job, prog, ticks, success, source, ledger,
                   history>>

(* enforce_timeout has decided. *)
Verdict(c, from, ok) ==
    /\ Goto(c, from, IF ~ok THEN "ban"
                     ELSE IF prog[c] = "compiler" THEN "flock" ELSE "unflag")
    /\ child' = [child EXCEPT ![c] = "none"]
    /\ ticks' = [ticks EXCEPT ![c] = 0]
    /\ success' = [success EXCEPT ![c] = ok /\ prog[c] = "mutation"]
    /\ UNCHANGED <<leaseVars, job, prog, vault, ledger, history>>

(* Mutant: the exit status is not looked at. *)
PollAnyExit(c) ==
    /\ child[c] \in {"ok", "bad"}
    /\ Verdict(c, "poll", TRUE)

PollEnded(c) ==
    /\ child[c] \in {"ok", "bad"}
    /\ Verdict(c, "poll", child[c] = "ok")

(* Mutant: the limit is never reached. *)
PollForever(c) ==
    /\ child[c] \in {"forked", "running"}
    /\ ticks[c] < MaxTicks + 2
    /\ Goto(c, "poll", "poll")
    /\ ticks' = [ticks EXCEPT ![c] = @ + 1]
    /\ UNCHANGED <<leaseVars, job, prog, child, success, vault, ledger, history>>

PollAgain(c) ==
    /\ child[c] \in {"forked", "running"}
    /\ Prompt /\ ticks[c] = MaxTicks => child[c] = "running"
    /\ Goto(c, "poll", IF ticks[c] + 1 > MaxTicks THEN "kill" ELSE "poll")
    /\ ticks' = [ticks EXCEPT ![c] = @ + 1]
    /\ UNCHANGED <<leaseVars, job, prog, child, success, vault, ledger, history>>

(* Mutant: only SIGTERM, which a child may ignore. *)
KillPolitely(c) ==
    /\ Goto(c, "kill", "reap")
    /\ UNCHANGED <<leaseVars, job, wait, success, vault, ledger, history>>

(* SIGTERM, then SIGKILL to the group the child made for itself: if it has *)
(* not made it yet, there is no such group and nobody is killed.  If it    *)
(* ended in between, its answer comes too late.                            *)
KillGroup(c) ==
    /\ Goto(c, "kill", "reap")
    /\ child' = [child EXCEPT ![c] = IF @ = "running" THEN "bad" ELSE @]
    /\ \E b \in IF child[c] = "running" THEN LeftBy(c, "bad")
                                        ELSE {binary[job[c]]} :
          binary' = [binary EXCEPT ![job[c]] = b]
    /\ UNCHANGED <<leaseVars, job, prog, ticks, success, source, ledger, history>>

WaitKilled(c) ==
    /\ child[c] \in {"ok", "bad"}
    /\ Verdict(c, "reap", FALSE)
-----------------------------------------------------------------------------
LeaseThrows(c) ==
    /\ "open" \in Faults
    /\ Goto(c, "flock", "removeBinary")
    /\ UNCHANGED <<leaseVars, job, wait, success, vault, ledger, history>>

AcquireFlock(c) ==
    /\ Goto(c, "flock", "enter")
    /\ TakeFlock(c)
    /\ UNCHANGED <<job, wait, success, vault, ledger, history>>

EnterMutating(c) ==
    /\ Goto(c, "enter", IF isMutating[ProcOf[c]] THEN "removeBinary"
                                                 ELSE "forkMutation")
    /\ LockMutationState(c)
    /\ UNCHANGED <<job, wait, success, vault, ledger, history>>

ForkMutation(c) ==
    /\ Goto(c, "forkMutation", "poll")
    /\ Fork(c, "mutation")
    /\ ran' = ran \cup {job[c]}
    /\ UNCHANGED <<leaseVars, job, success, vault, ledger, survived, cut>>

ForkMutationFails(c) ==
    /\ "fork" \in Faults
    /\ Goto(c, "forkMutation", "unflag")
    /\ UNCHANGED <<leaseVars, job, wait, success, vault, ledger, history>>

(* The ban of a source that does not compile, or of a mutation that fails, *)
(* the second one inside the lease.                                        *)
BanFailed(c) ==
    /\ Goto(c, "ban", IF prog[c] = "compiler" THEN "removeSource" ELSE "unflag")
    /\ Ban(job[c])
    /\ UNCHANGED <<leaseVars, job, wait, success, vault, history>>

Unflag(c) ==
    /\ Goto(c, "unflag", "unlock")
    /\ UnlockMutationState(c)
    /\ UNCHANGED <<job, wait, success, vault, ledger, history>>

Unlock(c) ==
    /\ Goto(c, "unlock", "removeBinary")
    /\ ReleaseFlock(c)
    /\ UNCHANGED <<job, wait, success, vault, ledger, history>>

RemoveBinary(c) ==
    /\ Goto(c, "removeBinary", "removeSource")
    /\ binary' = [binary EXCEPT ![job[c]] = "absent"]
    /\ UNCHANGED <<leaseVars, job, wait, success, source, ledger, history>>

(* Mutant: the source goes whatever the outcome. *)
RemoveSourceAlways(c) ==
    /\ Return(c, "removeSource")
    /\ source' = [source EXCEPT ![job[c]] = "absent"]
    /\ survived' = IF success[c] THEN survived \cup {job[c]} ELSE survived
    /\ UNCHANGED <<leaseVars, child, ticks, binary, ledger, ran, cut>>

(* Mutant: the source of what did not compile stays. *)
RemoveSourceOfRun(c) ==
    /\ Return(c, "removeSource")
    /\ source' = [source EXCEPT ![job[c]] =
                     IF success[c] \/ prog[c] = "compiler" THEN @ ELSE "absent"]
    /\ survived' = IF success[c] THEN survived \cup {job[c]} ELSE survived
    /\ UNCHANGED <<leaseVars, child, ticks, binary, ledger, ran, cut>>

(* The source of a mutation that succeeded stays in the vault. *)
RemoveSource(c) ==
    /\ Return(c, "removeSource")
    /\ source' = [source EXCEPT ![job[c]] = IF success[c] THEN @ ELSE "absent"]
    /\ survived' = IF success[c] THEN survived \cup {job[c]} ELSE survived
    /\ UNCHANGED <<leaseVars, child, ticks, binary, ledger, ran, cut>>
-----------------------------------------------------------------------------
(* SIGKILL of a supervisor.  Its children live on; a zombie is reaped. *)
Crash(p) ==
    LET mine == {c \in Callers : ProcOf[c] = p}
    IN  /\ "crash" \in Faults
        /\ \E c \in mine : pc[c] \notin {"idle", "dead"}
        /\ pc' = [c \in Callers |-> IF c \in mine THEN "dead" ELSE pc[c]]
        /\ child' = [c \in Callers |-> IF c \in mine /\ child[c] \in {"ok", "bad"}
                                       THEN "none" ELSE child[c]]
        /\ ticks' = [c \in Callers |-> IF c \in mine THEN 0 ELSE ticks[c]]
        /\ success' = [c \in Callers |-> IF c \in mine THEN FALSE ELSE success[c]]
        /\ cut' = cut \cup {m \in Mutations : source[m] # "absent"
                                /\ \E c \in mine : job[c] = m}
        /\ KernelReclaims(p, {c \in Callers : child[c] = "forked"})
        /\ UNCHANGED <<job, prog, vault, ledger, ran, survived>>

(* A new supervisor in the place of a dead one whose orphans are gone. *)
Restart(p) ==
    LET mine == {c \in Callers : ProcOf[c] = p}
    IN  /\ mine # {} /\ \A c \in mine : pc[c] = "dead" /\ child[c] = "none"
        /\ pc' = [c \in Callers |-> IF c \in mine THEN "idle" ELSE pc[c]]
        /\ job' = [c \in Callers |-> IF c \in mine THEN None ELSE job[c]]
        /\ prog' = [c \in Callers |-> IF c \in mine THEN "compiler" ELSE prog[c]]
        /\ UNCHANGED <<leaseVars, child, ticks, success, vault, ledger, history>>

Advance(c) ==
    \/ Analyse(c) \/ Reject(c)
    \/ Store(c) \/ StoreFails(c) \/ CopyDone(c) \/ CheckBanned(c)
    \/ ForkCompiler(c) \/ PollEnded(c) \/ PollAgain(c)
    \/ KillGroup(c) \/ WaitKilled(c)
    \/ AcquireFlock(c) \/ EnterMutating(c) \/ ForkMutation(c)
    \/ BanFailed(c) \/ Unflag(c) \/ Unlock(c)
    \/ RemoveBinary(c) \/ RemoveSource(c)

Failure(c) ==
    \/ StoreByCopy(c) \/ CopyFails(c)
    \/ ForkCompilerFails(c) \/ LeaseThrows(c) \/ ForkMutationFails(c)

Next ==
    \/ \E c \in Callers : \E m \in Tries[c] : Call(c, m)
    \/ \E c \in Callers : Advance(c)
    \/ \E c \in Callers : Failure(c)
    \/ \E c \in Callers : ChildStarts(c)
    \/ \E c \in Callers, r \in {"ok", "bad"} : ChildEnds(c, r)
    \/ \E p \in Processes : Crash(p)
    \/ \E p \in Processes : Restart(p)

(* Callers run, a forked child starts, a lock that is given back again and *)
(* again reaches its waiters.  No child need ever end by itself.           *)
Fairness ==
    \A c \in Callers :
        /\ WF_vars(Advance(c))
        /\ SF_vars(AcquireFlock(c))
        /\ WF_vars(ChildStarts(c))

Spec == Init /\ [][Next]_vars

FairSpec == Spec /\ Fairness
-----------------------------------------------------------------------------
Runs(c) == child[c] = "none" /\ child'[c] = "forked" /\ prog'[c] = "mutation"

(* A mutation enters the sandbox at most once, ever: a success leaves its  *)
(* source in the way of the next exclusive store, and a failure is banned  *)
(* before its source makes room for another try.  Callers that race on the *)
(* same mutation, failing system calls and crashes at any step included.   *)
RunsAtMostOnce == [][\A c \in Callers : Runs(c) => job[c] \notin ran]_vars

(* "Malicious signature permanently banned" (QuarantineRegistry): nothing  *)
(* that was announced as banned enters the sandbox.                        *)
NeverRunsBanned == [][\A c \in Callers : Runs(c) => job[c] \notin announced]_vars

(* No mutation is both a success and banned, whoever judged it. *)
OneVerdict == survived \cap (banned \cup announced) = {}

(* The binary that enters the sandbox is a whole one: neither another      *)
(* caller nor an orphaned compiler has removed or half-written it.         *)
RunsWholeBinary ==
    \A c \in Callers :
        prog[c] = "mutation" /\ pc[c] # "dead" /\ child[c] \in {"forked", "running"}
        => binary[job[c]] = "built"

(* Once nobody works on it, a banned mutation has no whole source in the   *)
(* vault, unless a crash cut a call short.                                 *)
BannedLeavesNoSource ==
    \A m \in banned \ cut :
        (\A c \in Callers : job[c] # m) => source[m] # "whole"

(* Every call returns, though no compiler and no mutation need ever end by *)
(* itself: the time limit ends them, and no path keeps the lease.          *)
CallsReturn == \A c \in Callers : pc[c] = "analyse" ~> pc[c] \in {"idle", "dead"}
=============================================================================
