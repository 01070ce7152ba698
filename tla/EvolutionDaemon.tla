--------------------------- MODULE EvolutionDaemon ---------------------------
(***************************************************************************)
(* The engine: main (src/main.cpp) and Supervisor::orchestrate_evolution   *)
(* (include/Supervisor.hpp) around the sandbox run, the git commands and   *)
(* the ledgers.  Several instances may be started on one workspace; each   *)
(* makes one cycle with a mutation nobody made before and ends.            *)
(*                                                                         *)
(* The sandbox run is that of module MutationRunner, here one step with    *)
(* its possible outcomes.                                                  *)
(***************************************************************************)
EXTENDS GitWorkspace

CONSTANTS
    Daemons,
    Forge, \* the mutations the forge makes, one after the other
    None,
    Faults,
    Payload, \* chunks of a telemetry message
    Retries  \* max_retries of its send

FaultKinds == {
    "lockfile", \* /tmp/.swayam_daemon.lock cannot be opened
    "vault",    \* src/generated cannot be created or written
    "throw",    \* an exception leaves orchestrate_evolution
    "git",      \* a git command other than a checkout of main fails
    "checkout", \* a checkout of main fails
    "hive",     \* the hive ledger cannot be opened or locked
    "signal",   \* SIGINT or SIGTERM arrives
    "hangup",   \* the C2 host closes the connection
    "crash"}    \* the process is killed between two steps

ASSUME DaemonAssumption ==
    /\ None \notin Mutations \cup Daemons
    /\ IsFiniteSet(Daemons)
    /\ Forge \in Seq(Mutations) /\ IsInjective(Forge)
    /\ Faults \subseteq FaultKinds
    /\ {Payload, Retries} \subseteq Nat \ {0}

VARIABLES
    pc,
    lock,      \* who has /tmp/.swayam_daemon.lock
    running,   \* daemon_running
    job,       \* the mutation of the cycle
    succeeded, \* evolution_succeeded
    status,    \* the outcome in meta/status.json
    rationale, \* the mutation in meta/rationale.md
    drawn,     \* how many of them it has made
    ping,      \* what is still to be sent to the C2 host, and the tries left
    survived   \* history: those the sandbox run returned true for

process == <<lock, running, job, succeeded, ping>>
report == <<status, rationale>>
history == <<drawn, survived>>
vars == <<gitVars, pc, process, report, history>>

Steps == {"off", "open", "flock", "loop", "vault", "evolve", "analyse", "write",
          "sandbox", "approve", "failed", "gitStaging", "gitAdd", "gitCommit",
          "gitPush", "gitMain", "register", "ledgerAdd", "ledgerCommit",
          "ledgerPush", "refused", "published", "returned", "finish", "unlock",
          "threat", "sendThreat", "success", "sendSuccess"}

Telemetry == [unsent : 0..Payload, retries : 0..Retries, writable : BOOLEAN]
NoPing == [unsent |-> 0, retries |-> 0, writable |-> FALSE]

TypeOK ==
    /\ GitTypeOK
    /\ pc \in [Daemons -> Steps]
    /\ lock \in Daemons \cup {None}
    /\ running \in [Daemons -> BOOLEAN]
    /\ job \in [Daemons -> Mutations \cup {None}]
    /\ succeeded \in [Daemons -> BOOLEAN]
    /\ ping \in [Daemons -> Telemetry]
    /\ status \in {"none", "published", "quarantined"}
    /\ rationale \in Mutations \cup {None}
    /\ drawn \in 0..Len(Forge)
    /\ survived \subseteq Mutations

Init ==
    /\ GitInit
    /\ pc = [d \in Daemons |-> "off"]
    /\ lock = None
    /\ running = [d \in Daemons |-> TRUE]
    /\ job = [d \in Daemons |-> None]
    /\ succeeded = [d \in Daemons |-> FALSE]
    /\ ping = [d \in Daemons |-> NoPing]
    /\ status = "none"
    /\ rationale = None
    /\ drawn = 0
    /\ survived = {}

Goto(d, from, to) == pc[d] = from /\ pc' = [pc EXCEPT ![d] = to]

Move(d, from, to) ==
    Goto(d, from, to) /\ UNCHANGED <<gitVars, process, report, history>>

(* The process ends, and the kernel takes back its lock. *)
End(d) ==
    /\ pc' = [pc EXCEPT ![d] = "off"]
    /\ lock' = IF lock = d THEN None ELSE lock
    /\ running' = [running EXCEPT ![d] = TRUE]
    /\ job' = [job EXCEPT ![d] = None]
    /\ succeeded' = [succeeded EXCEPT ![d] = FALSE]
    /\ ping' = [ping EXCEPT ![d] = NoPing]

Fail(d) ==
    /\ End(d)
    /\ status' = "quarantined"
    /\ UNCHANGED <<gitVars, rationale, history>>

Report(d, from, to, outcome) ==
    /\ Goto(d, from, to)
    /\ status' = outcome
    /\ UNCHANGED <<gitVars, process, rationale, history>>
-----------------------------------------------------------------------------
(* The instances that have still to make their mutation. *)
Pending ==
    {d \in Daemons : pc[d] \in {"open", "flock", "loop", "vault", "evolve"}}

(* main.  Forge bounds the number of instances. *)
Start(d) ==
    /\ drawn + Cardinality(Pending) < Len(Forge)
    /\ Move(d, "off", "open")

OpenLock(d) == Move(d, "open", "flock")

OpenLockFails(d) ==
    /\ "lockfile" \in Faults
    /\ pc[d] = "open"
    /\ Fail(d)

(* Mutant: LOCK_SH for LOCK_EX. *)
TakeSharedLock(d) ==
    /\ Goto(d, "flock", "loop")
    /\ lock' = d
    /\ UNCHANGED <<gitVars, running, job, succeeded, ping, report, history>>

TakeLock(d) ==
    /\ Goto(d, "flock", "loop")
    /\ lock = None
    /\ lock' = d
    /\ UNCHANGED <<gitVars, running, job, succeeded, ping, report, history>>

(* LOCK_NB: an instance that finds the lock taken does not wait for it. *)
RefuseSecond(d) ==
    /\ pc[d] = "flock"
    /\ lock # None
    /\ Fail(d)

(* signal_handler, as long as the flag is still to be read: it is read at  *)
(* the head of the loop only.                                              *)
Signal(d) ==
    /\ "signal" \in Faults
    /\ pc[d] \in {"open", "flock", "loop"} /\ running[d]
    /\ running' = [running EXCEPT ![d] = FALSE]
    /\ UNCHANGED <<gitVars, pc, lock, job, succeeded, ping, report, history>>

LoopHead(d) == Move(d, "loop", IF running[d] THEN "vault" ELSE "finish")

(* Mutant: the loop is not left after a cycle. *)
CycleAgain(d) ==
    /\ Goto(d, "returned", "loop")
    /\ succeeded' = [succeeded EXCEPT ![d] = TRUE]
    /\ UNCHANGED <<gitVars, lock, running, job, ping, report, history>>

(* Whatever orchestrate_evolution did, it returned. *)
CycleReturns(d) ==
    /\ Goto(d, "returned", "finish")
    /\ succeeded' = [succeeded EXCEPT ![d] = TRUE]
    /\ UNCHANGED <<gitVars, lock, running, job, ping, report, history>>

(* The handlers of main: an exception of the forge or of the sandbox run. *)
CycleThrows(d) ==
    /\ "throw" \in Faults
    /\ pc[d] \in {"evolve", "sandbox"}
    /\ Fail(d)

Finish(d) ==
    Report(d, "finish", "unlock", IF succeeded[d] THEN "published" ELSE "quarantined")

Unlock(d) ==
    /\ pc[d] = "unlock"
    /\ End(d)
    /\ UNCHANGED <<gitVars, report, history>>
-----------------------------------------------------------------------------
(* Supervisor::orchestrate_evolution. *)
MakeVault(d) == Move(d, "vault", "evolve")

(* A threat, a vault or target file that cannot be made, or a failed run. *)
Quarantine(d) ==
    \/ Report(d, "failed", "returned", "quarantined")
    \/ /\ "vault" \in Faults
       /\ \/ Report(d, "vault", "returned", "quarantined")
          \/ Report(d, "write", "returned", "quarantined")

(* Mutant: the cycle goes on without a mutation. *)
EvolveUnnamed(d) ==
    /\ Goto(d, "evolve", "analyse")
    /\ drawn' = drawn + 1
    /\ UNCHANGED <<gitVars, process, report, survived>>

(* CognitiveForge::evolve_codebase, which draws from a random device. *)
Evolve(d) ==
    /\ Goto(d, "evolve", "analyse")
    /\ drawn' = drawn + 1
    /\ job' = [job EXCEPT ![d] = Forge[drawn']]
    /\ UNCHANGED <<gitVars, lock, running, succeeded, ping, report, survived>>

Analyse(d) ==
    Move(d, "analyse", "write") \/ Move(d, "analyse", "threat")

WriteTarget(d) ==
    /\ Goto(d, "write", "sandbox")
    /\ files' = files \cup {job[d]}
    /\ UNCHANGED <<repository, quarantine, hive, process, report, history>>

SandboxSucceeds(d) ==
    /\ Goto(d, "sandbox", "approve")
    /\ survived' = survived \cup {job[d]}
    /\ UNCHANGED <<gitVars, process, report, drawn>>

(* The run bans a mutation that failed, and not one it could not run.  The *)
(* target file stays.                                                      *)
SandboxFails(d) ==
    /\ Goto(d, "sandbox", "failed")
    /\ quarantine' \in {quarantine, quarantine \cup {job[d]}}
    /\ UNCHANGED <<repository, files, hive, process, report, history>>

Approve(d) ==
    /\ Goto(d, "approve", "gitStaging")
    /\ rationale' = job[d]
    /\ UNCHANGED <<gitVars, process, status, history>>

UploadFailed(d) == Report(d, "refused", "returned", "quarantined")

Published(d) == Report(d, "published", "returned", "published")
-----------------------------------------------------------------------------
(* One git command of a cycle at step from.  git may refuse it, or it fails *)
(* for another reason.                                                     *)
Command(d, from, to, otherwise, fault, allowed, effect) ==
    /\ UNCHANGED <<process, report, history>>
    /\ \/ allowed /\ effect /\ Goto(d, from, to)
       \/ /\ ~allowed \/ fault \in Faults
          /\ UNCHANGED gitVars
          /\ Goto(d, from, otherwise)

(* GitCortex::publish_evolution *)
Stage(d) ==
    Command(d, "gitStaging", "gitAdd", "refused", "git", TRUE, CheckoutStaging)
AddMutation(d) ==
    Command(d, "gitAdd", "gitCommit", "refused", "git", job[d] \in files, AddFile(job[d]))
CommitMutation(d) ==
    Command(d, "gitCommit", "gitPush", "refused", "git", CanCommit, Commit)
PushMutation(d) ==
    Command(d, "gitPush", "gitMain", "refused", "git", CanPush("staging"), Push("staging"))
BackToMain(d) ==
    Command(d, "gitMain", "register", "register", "checkout", CanCheckoutMain, CheckoutMain)

(* HiveMind::register_mutation_hash *)
Register(d) ==
    Command(d, "register", "success", "success", "hive", TRUE,
            /\ hive' = hive \cup {job[d]}
            /\ UNCHANGED <<repository, files, quarantine>>)

(* GitCortex::sync_ledgers *)
AddBothLedgers(d) ==
    Command(d, "ledgerAdd", "ledgerCommit", "ledgerCommit", "git", CanAddLedgers, AddLedgers)
CommitLedgers(d) ==
    Command(d, "ledgerCommit", "ledgerPush", "ledgerPush", "git", CanCommit, Commit)
PushLedgers(d) ==
    Command(d, "ledgerPush", "published", "published", "git", CanPush("main"), Push("main"))
-----------------------------------------------------------------------------
(* NexusC2::transmit_telemetry, called at step from of a cycle; sending is *)
(* its loop.  The host may not accept, or not within the second.           *)
Connect(d, from, sending, after) ==
    \/ Move(d, from, after)
    \/ /\ Goto(d, from, sending)
       /\ ping' = [ping EXCEPT ![d] =
                     [unsent |-> Payload, retries |-> Retries, writable |-> TRUE]]
       /\ UNCHANGED <<gitVars, lock, running, job, succeeded, report, history>>

Transmitting(d) == ping[d].unsent > 0 /\ ping[d].retries > 0

(* The socket's buffer takes some of the rest. *)
Send(d) ==
    /\ Transmitting(d) /\ ping[d].writable
    /\ \E rest \in 0..ping[d].unsent - 1, room \in BOOLEAN :
          ping' = [ping EXCEPT ![d].unsent = rest, ![d].writable = room]
    /\ UNCHANGED <<gitVars, pc, lock, running, job, succeeded, report, history>>

(* Mutant: a send that would block is not counted. *)
TryAgainForEver(d) ==
    /\ Transmitting(d) /\ ~ping[d].writable
    /\ UNCHANGED vars

(* EAGAIN: the buffer is full, and may still be after 50 ms. *)
TryAgain(d) ==
    /\ Transmitting(d) /\ ~ping[d].writable
    /\ ping' = [ping EXCEPT ![d].retries = @ - 1]
    /\ UNCHANGED <<gitVars, pc, lock, running, job, succeeded, report, history>>

(* The host reads, when it likes to. *)
HostReads(d) ==
    /\ Transmitting(d) /\ ~ping[d].writable
    /\ ping' = [ping EXCEPT ![d].writable = TRUE]
    /\ UNCHANGED <<gitVars, pc, lock, running, job, succeeded, report, history>>

Close(d, sending, after) ==
    /\ Goto(d, sending, after)
    /\ ping' = [ping EXCEPT ![d] = NoPing]
    /\ UNCHANGED <<gitVars, lock, running, job, succeeded, report, history>>

Transmit(d) ==
    \/ Connect(d, "threat", "sendThreat", "failed")
    \/ Connect(d, "success", "sendSuccess", "ledgerAdd")
    \/ Send(d) \/ TryAgain(d)
    \/ ~Transmitting(d) /\ Close(d, "sendThreat", "failed")
    \/ ~Transmitting(d) /\ Close(d, "sendSuccess", "ledgerAdd")

HangUp(d) ==
    /\ "hangup" \in Faults
    /\ Close(d, "sendThreat", "failed") \/ Close(d, "sendSuccess", "ledgerAdd")
-----------------------------------------------------------------------------
(* SIGKILL between two steps; a git command that outlives its supervisor   *)
(* is not modelled.                                                        *)
Crash(d) ==
    /\ "crash" \in Faults
    /\ pc[d] # "off"
    /\ End(d)
    /\ UNCHANGED <<gitVars, report, history>>

Publish(d) ==
    \/ Stage(d) \/ AddMutation(d) \/ CommitMutation(d) \/ PushMutation(d)
    \/ BackToMain(d) \/ Register(d)
    \/ AddBothLedgers(d) \/ CommitLedgers(d) \/ PushLedgers(d)

Cycle(d) ==
    \/ MakeVault(d) \/ Evolve(d) \/ Quarantine(d) \/ Analyse(d) \/ WriteTarget(d)
    \/ SandboxSucceeds(d) \/ SandboxFails(d)
    \/ Approve(d) \/ Publish(d) \/ UploadFailed(d) \/ Published(d)
    \/ Transmit(d)

Advance(d) ==
    \/ OpenLock(d) \/ TakeLock(d) \/ RefuseSecond(d)
    \/ LoopHead(d) \/ Cycle(d) \/ CycleReturns(d) \/ Finish(d) \/ Unlock(d)

Next ==
    \E d \in Daemons :
        \/ Start(d)
        \/ Advance(d)
        \/ OpenLockFails(d)
        \/ CycleThrows(d)
        \/ Signal(d)
        \/ HostReads(d)
        \/ HangUp(d)
        \/ Crash(d)

(* A started process runs; the sandbox run and the git commands it waits   *)
(* for come to an end.  Nothing makes anyone start another, or the C2 host  *)
(* read.                                                                   *)
Spec == Init /\ [][Next]_vars

FairSpec == Spec /\ \A d \in Daemons : WF_vars(Advance(d))
-----------------------------------------------------------------------------
(* Nothing reaches origin that did not survive the sandbox: the files of   *)
(* failed mutations stay in src/generated, and what one cycle leaves       *)
(* staged or committed is what the next one publishes.                     *)
OnlySurvivorsPushed ==
    \A b \in Branches :
        origin[b] # <<>> => Tip(origin[b]).gen \subseteq survived

(* The hive ledger ("Evolution Successfully Assimilated") lists only       *)
(* mutations that origin has, whatever failed or was refused on the way,   *)
(* and however instances followed each other.                              *)
HiveOnlyPublished ==
    \A m \in hive :
        origin["staging"] # <<>> /\ m \in Tip(origin["staging"]).gen

(* "Absolute Persistence" (GitCortex): no step takes an entry out of a     *)
(* ledger, the switches of branch under uncommitted entries included.      *)
LedgersOnlyGrow ==
    [][quarantine \subseteq quarantine' /\ hive \subseteq hive']_vars

(* What was published stays published although every cycle moves the local *)
(* evolution-staging back to main.                                         *)
PublishedStays ==
    [][\A b \in Branches :
          origin[b] # <<>> => Tip(origin[b]).gen \subseteq Tip(origin'[b]).gen]_vars

(* "One cycle per container run" (main): every instance ends.              *)
EveryRunEnds == \A d \in Daemons : pc[d] # "off" ~> pc[d] = "off"

(* "Mutations that survive all nine preceding phases are committed and     *)
(* pushed to the repository" (README.md:173-175): when the cycle of a      *)
(* survivor is over, origin has the survivor.                              *)
SurvivorsReachOrigin ==
    \A d \in Daemons :
        pc[d] = "returned" /\ job[d] \in survived =>
            origin["staging"] # <<>> /\ job[d] \in Tip(origin["staging"]).gen

(* "Published outcome missing rationale" is fatal to the workflow          *)
(* (sandboxed-mutation.yml): at the end of a run the outcome "published"   *)
(* comes with a rationale.                                                 *)
PublishedHasRationale ==
    status = "published" /\ (\A d \in Daemons : pc[d] = "off") => rationale # None
=============================================================================
