# A verification of SWAYAM-AGI

TLA+ models of the engine, TLC configurations that check them on small
instances, and theorems about them that TLAPS checks for every value of the
constants. Everything is translated from the code; where a document or a comment
says something else, the code counts, and the difference is listed under
*Disagreements*.

    tlc -workers 2 -config MCGuardedMutation.cfg MCGuardedMutation
    tlapm GuardedMutationProofs.tla

and likewise for the other configurations and the other modules of proofs.

`PROJECT.json` lists the runs, maps every definition to the lines it models,
names for every property a mutation of the model that breaks it, and lists the
hazards of the code.

## 1. The system

The engine (`src/main.cpp`) runs one evolution cycle per container: it makes a
mutation (a C++ source), analyses it, stores, compiles and runs it in a sandboxed
child process, and on success commits it, pushes it, and records it in ledgers.
Workflows and scripts outside of the engine pick up its status file, open a pull
request, and exchange quarantine logs between nodes.

| Component | State | Operations | Talks to |
|---|---|---|---|
| main loop (`main.cpp`) | `/tmp/.swayam_daemon.lock`, `daemon_running`, `status.json` | start, signal, one cycle, handlers, final status | Supervisor |
| Supervisor (`Supervisor.hpp`) | `status.json`, `rationale.md`, `src/generated` | `orchestrate_evolution` | everything below, by call |
| CognitiveForge, HeuristicAnalyzer | none | generate, judge a source | – |
| Mutation runner (`MutationRunner.hpp`) | `.swayam_vault` (sources, binaries), child processes | `evaluate_and_execute`, `enforce_timeout` | vault store, ban ledger, lease, SafeShell |
| Vault store (`SecureArtifact.hpp`) | files of the vault | `write_securely` | file system |
| Ban ledger (`QuarantineRegistry.hpp`) | `.swayam_quarantine.ledger` | `is_banned`, `ban_mutation` | flock |
| SafeShell | limits and filter of the child | `lockdown_process` | kernel |
| Mutation lease (`core.hpp`) | a flock in `/tmp`, `is_mutating_` | construct, destroy | kernel |
| Crash-safe supervisor (`core.hpp`) | child process | `run_guarded_mutation` | lease, quarantine log |
| Quarantine log (`core.hpp`) | log, temporaries, `<log>.lock` | append, look-up, migrate | file system |
| NodeRegistry | the quarantine log, peer files | import, export | quarantine log, without its lock |
| GitCortex | HEAD, index, branches, origin | publish, sync | git |
| HiveMind | `.swayam_hive.ledger` | register, look up | flock |
| NexusC2 | a socket | `transmit_telemetry` | the C2 host; called by the Supervisor inside a cycle |
| Moltbook, SwayamGitCortex, error.hpp | message files; –; – | post; git; format | nobody calls the first two |
| CAS scripts | a JSON counter in the repository | read, transform, PUT with a sha | GitHub |
| `hive_sync.sh` | one record per node id in the repository, files in `/tmp` | download all, upload the own one | NodeRegistry's files, GitHub |
| workflows, `safe_extract.py`, `structural_hash.py` | artifacts, a counter, branches, pull requests | validate, extract, count, publish | exit code, status and rationale of the engine |
| kill switch workflows | `KILL_SWITCH.lock` | create, delete | nobody reads it |

`main` reaches the runner and the lease through `MutationRunner`. Nothing in the
repository calls `run_guarded_mutation`, the V2 quarantine log, NodeRegistry,
Moltbook or SwayamGitCortex; the documents (`README.md`, "Crash-Safe Supervisor",
"Immune System") rest on the first two, so they are modelled as the library they
are: any number of threads and processes may call them.

What is hard in this code, and where:

* **Concurrency.** Threads and processes meet at flocks, at one `is_mutating_` flag,
  at a temporary named after the pid, at a vault whose names are exclusive, and at
  one git clone. Some writers do not take the lock the others take.
* **Crashes.** A killed supervisor leaves orphans, half-written files, a HEAD on the
  wrong branch. Locks go with the last descriptor, which a child may have.
* **Failing calls.** Results of `write`, streams, `rename`, `flock` and git commands
  are partly ignored; what that does to later calls is the question.
* **Time.** The runner polls a child under a limit and kills a process group that may
  not exist yet; `run_guarded_mutation` and GitCortex wait without a limit.

What makes each component correct:

* lease: at most one supervised mutation per host; given back on every path;
* crash-safe supervisor: a mutation that crashed once is never forked again;
* quarantine log: an atomic set that only grows, whatever the interleaving;
* runner: a mutation is run at most once, from a whole binary, and every call ends;
* engine: only survivors are published, ledgers only grow and tell the truth, every
  instance ends and its status says what happened;
* rate limit: no window of time grants more than the limit, and every call ends;
* hive: no peer starves another, the registry forgets nothing, and what is published
  is learnt;
* publication: only survivors are proposed, each pull request shows its own run, and
  there are no more of them than were counted.

## 2. Modules

| Module | Models | State corresponds to |
|---|---|---|
| `MutationLease` | `CrossProcessGuard`, `AtomicGuard`, `MutationLease` | `flockOwner` is the holder of LOCK_EX per host, `isMutating` the flag per process |
| `MutationLeaseProofs` | – | lemmas on the lease |
| `GuardedMutation` (extends `MutationLease`) | `run_guarded_mutation` | `pc` per thread, `child` the forked process, `ledger` the log as a set |
| `GuardedMutationProofs` | – | the theorems |
| `Ledger` | – | what a ledger promises: the abstract specification |
| `QuarantineLog` | `atomic_quarantine_append`, `is_quarantined`, `migrate_quarantine_if_needed`, one line of `merge_peer_signatures_guarded` | `log` and `tmp` are files as sequences of lines, `lockEx`/`lockSh` the flock |
| `QuarantineLogProofs` | – | the theorems |
| `MutationRunner` (extends `MutationLease`) | `evaluate_and_execute`, `enforce_timeout`, `SecureArtifact`, `QuarantineRegistry` | `source`, `binary` are the vault, `banned` the ledger, `child`, `prog`, `ticks` the polled child |
| `MutationRunnerProofs` | – | the theorems |
| `GitWorkspace` | the git commands of `GitCortex` on one clone and its origin | `branch`, `origin` are histories of trees, `index`, and the files on disk |
| `EvolutionDaemon` (extends `GitWorkspace`) | `main`, `orchestrate_evolution`, `register_mutation_hash`, `transmit_telemetry` | `lock`, `status`, `rationale`, `pc` per instance; `ping` is what is left to send and the tries left |
| `EvolutionDaemonProofs` | – | the theorems |
| `RateLimit` | – | what a rate limit promises: the abstract specification |
| `CasCommit` | `cas_commit.sh` with `rate_limit_transform.sh` | `file` is the counter on GitHub, `seen` and `new` are OLD and NEW of a call |
| `CasCommitProofs` | – | the theorems |
| `HiveSync` | export, guarded merge and scan of NodeRegistry, `hive_sync.sh` | `log`, `export`, `peers` are files in a container's `/tmp`, `registry` the directory on GitHub, all as sets of lines |
| `HiveSyncProofs` | – | the theorems |
| `Publication` | `sandboxed-mutation.yml`, `sign-and-open-pr.yml`, `safe_extract.py`, `cas_increment.sh` | `pc` and the job's files per run; `counter`, `remote`, `prs` are GitHub |
| `PublicationProofs` | – | the theorems |

Each action is one system call, or one stretch of code in which no other process
can see or change anything; `pc` names the step that comes next. Variables
marked *history* are read by properties only.

A mutation is a model value. It stands for a source text, its hash and its id: the
models take hashes to be free of collisions. `Publication` begins where
`EvolutionDaemon` ends: its `Endings` are the exit codes, outcomes and rationales that
an instance of the engine leaves behind. The scripts' GitHub is external code:
a PUT succeeds exactly when the file is what its sha names, a push when it is a
fast-forward.

## 3. The runs

| Run | Question | Instance | Distinct states |
|---|---|---|---|
| `guarded` | is the lease exclusive, and always given back? | 2 threads of one process and 1 of another, 2 mutations; faults open, fork, waitpid, crash | 71,968 |
| `quarantine_log` | does the log implement `Ledger`, do calls return? | 2 threads of one process and 1 of another, 2 hashes, at most 3 lines; faults lock, tmpopen, rename, crash | 25,844 |
| `runner` | does a mutation run at most once, and every call end? | 2 processes racing for one mutation, one mutation of their own each, one of them unsafe; faults exdev, copy, fork, open, crash | 239,866 |
| `daemon` | what do origin and the ledgers hold after any run? | 2 instances, 3 mutations, messages of 2 chunks and 2 tries, all faults but `checkout` | 63,497 |
| `rate_limit` | does `cas_commit.sh` implement `RateLimit`? | 2 runs, limit 2, windows of 1 second, 4 seconds, 2 attempts; all faults | 73,220 |
| `hive_sync` | are the budgets fair, and does everyone learn? | 2 nodes, 3 hashes, 2 lives of one node; 3 lines, 1 hash per peer, 2 per session | 44,830 |
| `publication` | what may a pull request contain, and how many are there? | 3 runs (symmetric), 2 seconds, 2 faults, 2 re-runs | 742,387 |
| `guarded_window` | is what is forked never in the log? | no faults; **violated** | – |
| `quarantine_disk_full` | is the log never partial? | fault diskfull; **violated** | – |
| `daemon_unpublished` | does a survivor reach origin? | no faults; **violated** | – |
| `daemon_rationale` | does "published" come with a rationale? | no faults; **violated** | – |
| `hive_outgrown` | is everything that is published learnt? | as `hive_sync`; **violated** | – |

### guarded

`SupervisedExclusion`: two mutations with a living supervisor never run at once on a
host. Orphans are excluded from it: `core.hpp` does nothing about them. An orphan
keeps the lock only until it reaches exec, which is `DeadHoldersLetGo`.
`InProcessCheckNeverFires`: the throw of `AtomicGuard` is unreachable, since the
destructor clears the flag before the flock goes. `ConvictedNeverRunsAgain`: a call
that begins after some call has reported the mutation as signalled never forks it.
It needs a log that can be read and appended to, so that run leaves out the
faults `read` and `append`. `WaitersAreServed`: while mutations end, no thread waits
for the lease forever.

### quarantine_log

`NoLostUpdate` and `ImplementsLedger` are the two sides of the same promise: what
an append has read is what it replaces, and the file is an atomic set that only
grows. The refinement maps `entries` to the hashes a reader finds in the log, and
a thread's request to its call; a record commits at the rename or at the end of
an import. `LogNeverPartial`: no torn line outside an import's own write.
`CallsReturn`: see *Fairness*.

`Orderly = TRUE` asks of the callers that migrations and imports run alone and an
import after a migration, as these two take no lock. With `Orderly = FALSE` the
model loses entries; this is listed under the hazards, and no document says
that they may be concurrent. Left out of the run are the faults that break one of the
properties: `read` (a log that exists and cannot be opened reads as empty) breaks
`NoLostUpdate` and `ImplementsLedger`, `diskfull` (a temporary cut short becomes the log)
breaks `ImplementsLedger` and `LogNeverPartial` (the run below), `freshopen` (a migration
that cannot open the fresh log leaves an import to make one without a header, which the
next migration discards) breaks `ImplementsLedger` only, and `mergecrash` (a kill
inside an import leaves its torn line) breaks `LogNeverPartial` only. The next append
glues its entry to a torn line and returns without having recorded anything; `Ledger`
allows that, as it allows a failing `rename`: the functions return nothing, and a call
may be without effect (`Fail`).

### runner

`RunsAtMostOnce` is the promise of the whole function: a success leaves its source
in the vault, where it stands in the way of the next exclusive store, and a failure
is banned before its source goes. `OneVerdict`: nothing is a success and banned.
`RunsWholeBinary`: nobody executes a binary that a killed or orphaned compiler left.
`BannedLeavesNoSource`: when nobody works on a banned mutation, the vault has no
whole source of it, crashes apart. `NeverRunsBanned`, `CallsReturn`.

The model has one deadline for both children, `MaxTicks` polls, and a child that
may end at any time or never; the code's 600 and 30 polls differ only in how often
the loop turns. The faults `ledger` and `banwrite` are left out of this run, since
each lets a banned mutation run again, and `vault`, a store that fails altogether, is an
early return that a taken name exercises too.

### daemon

`OnlySurvivorsPushed`: the files of failed mutations stay in `src/generated`, and a
cycle that fails leaves HEAD on the staging branch with things staged or committed
that the next cycle publishes; still, only survivors reach origin.
`HiveOnlyPublished`: the hive ledger lists only what origin has. `LedgersOnlyGrow`: a
`checkout main` under uncommitted entries never takes one away.
`PublishedStays`: no push takes back what an earlier one published.
The price of `PublishedStays` is what `daemon_unpublished` shows of a second survivor,
without any fault: a cycle after a publication starts staging from main again, main never
gets a mutation, nothing is fetched and the push is not forced. Every push of staging is
therefore refused from then on, from the same clone or a fresh one; the supervisor writes
"quarantined" (which `main` overwrites by "published"), and origin never has the survivor
(`SurvivorsReachOrigin`).
`EveryRunEnds`: the instance lock is given back, although a cycle sends telemetry twice
over a socket whose other end may stop reading; the bounded number of sends
that may be refused for a full buffer is what ends that loop.

The fault `checkout`, a checkout of main that fails by itself, is left out of this
run: its result is ignored in the code, the ledgers are then committed on staging,
and a later checkout replaces them by older ones, so that `LedgersOnlyGrow` fails.
The other safety properties hold with it.

### rate_limit

`WithinLimit` counts the calls that exited 0, by the window they belong to: however
two runs race, retry and time out around the end of a window, it is no more than the
limit. `NothingUncounted`: each of them has a unit of its own in the file. The
refinement `ImplementsLimit` says what the script does to the file and to its callers
taken together: each write takes one unit or opens a window after the old one is
over, and a lost answer may waste a unit and never double a grant. `CallsEnd`: six
attempts, and the call is over, whatever GitHub answers.

Time passes between the reading of the clock in the transform and the PUT, so that a
window may be opened late; the sha keeps two callers from opening two. The sha is
that of the content in the model: a file that has changed and changed back is
accepted, as by GitHub.

### hive_sync

`NoPeerStarvesAnother` is the promise of the comment on the budgets, for every order
in which a directory may be read. `RegistryOnlyGrows`: no upload takes a hash out of a
record; it rests on the id of a node and its log being lost together at the end of a
container. `PeersLearn`: what is published reaches every log, except when each
record that tells of it has more lines than a file may have. The exception is real:
an export is the whole log, imports included, so that the records grow by each
other, and the run `hive_outgrown` shows a hash that nobody ever learns.

A download takes the records one by one and may stop at any of them. A node does not
download its own record: all that is in there came from the export of the same life,
hence from a log that only grows (`OfThisLife` in `HiveSyncProofs`), so that a merge of it
finds nothing new. A log is a set of lines in the model; `atomic_quarantine_append` does
not look for a hash it has already, so that a real file may have more lines than the
model's and reach the limit sooner: `PeersLearn` then exempts more records.

### publication

Three runs may be anywhere between the end of the engine and the pull request, as
neither workflow has a concurrency group. `PrsAreCounted`: a job that is cancelled, or
never hears of its PUT, wastes a count, and no race or re-run opens a pull request
without one. What is counted is the PUTs of the counter that succeeded; as the first one
stores 0, the number in the file is one less. `OnlySurvivorsProposed`: a run that was
stopped has the exit code 0 and the outcome "quarantined", and starts a publishing job
as well. `PrShowsItsRun`: branches are named after the second, and a push of another
job's branch name is refused.
`SomeoneGetsThrough` is the converse, as an invariant on the states in which all jobs
have ended: without faults, and with proven runs only, at least one pull request
exists, the first counter included, which has no sha.

Deadlock is not checked in `publication` and `daemon`: every job ends, and the mutations
run out.

### The bounds

Exclusion, lost updates and double runs need two actors; three threads in two
processes add the case in which a flag or a temporary is shared by some and not
by others. Two mutations tell "the one that is convicted" from "another one". A log
of three lines is a header and an entry of each hash. Two polls (`MaxTicks = 1`) give
a child that ends before the limit, between the last poll and the kill, and after
it. Three mutations let one fail, one be published, and one come after both.
`Forge` has three elements and so bounds the number of instances of the engine that
are ever started. Nothing else is bounded in these four: threads call again and
again, and processes crash and restart without a limit, except in `daemon`, where
the mutations run out.

`rate_limit`: a limit of two units has a first, a last and a refused call; four seconds
with windows of one have calls at, before and after the end of a window, and three
windows in a row. Two attempts are one that is retried and one that is the last; the
code has six, and the theorems hold for any number. `hive_sync`: one hash
per peer and two per session make each budget the one that binds; a log with
a header and three hashes is one line too long; two hashes of one node
have to be imported in two merges, and the third, of the other, can be published
before or after. One restart shows the loss of `/tmp` and the new id. `publication`:
`MaxClock` gives two seconds, in which two jobs share a name and a third does not;
two faults and two re-runs let a job waste a count twice, or two jobs once each.

## 4. Fairness

* A process or thread that can take a step takes one (weak fairness of its steps).
* `flock` hands a lock that is given back again and again to each waiter (strong
  fairness of taking it): Linux queues the waiters of a flock.
* A forked child reaches exec or its end (weak fairness).
* Nothing makes a compiler, a mutation or the outside end, and nothing makes a call
  fail or a process crash or restart.

`run_guarded_mutation` waits without a limit, so `WaitersAreServed` has the premise
that mutations end. The runner kills what exceeds its limit, so its `CallsReturn` has no
such premise; it has another one, `Prompt`: a forked child enters its own process group
before the limit expires, since until then `killpg` finds no group and the blocking
`waitpid` after it waits for a child nobody has killed. An append needs the readers
to pause now and then (`QueriesPause`): flock lets new readers in while a writer
waits. In `EvolutionDaemon` the sandbox run ends, which is `CallsReturn` of the runner,
and git commands end, which nothing in the code ensures; the C2 host need never read.

In `CasCommit` requests are answered or fail (a job has a time limit), and nobody
needs to call. In `HiveSync` a node exports, uploads, downloads and merges again
and again, and now and then all requests of a cycle succeed: the cycle that `README.md` (Phase 4) and
`SECURITY_AUDIT.md:52` describe; no workflow calls the script. Weak fairness is
enough. `Publication` states no
fairness: its properties are invariants.

## 5. What is proved

`GuardedMutationProofs` proves, for any sets of callers, processes, hosts and
mutations, any placement and any set of faults:

* `TypeCorrect`: `Spec => []TypeOK`;
* `Exclusion`: `Spec => []SupervisedExclusion`;
* `InProcessCheckIsDeadCode`: `Spec => []InProcessCheckNeverFires`;
* `DeadLetGo`: `Spec => []DeadHoldersLetGo`;
* `ConvictedStaysOut`: without the faults `append` and `read`,
  `Spec => []ConvictedNeverRunsAgain`.

The assumptions are `PlacementAssumption`, `FaultAssumption` and
`MutationAssumption`. Exclusion is not inductive: that two children do not coexist says
nothing of the callers that are about to fork. The inductive invariant `IInv`
adds that whoever is inside the lease is the owner of its host's flock
(`LeaseHeld`), that the owner is inside the lease or dead with a child that has not
reached exec (`HolderKnown`), that the flag is set exactly while a caller of the
process is in the part of the lease that has it (`FlagHeld`), and that a supervised
child belongs to a caller that waits (`ChildHeld`). Two callers inside the lease on
one host then both own one lock, hence are the same. For `ConvictedStaysOut`
the invariant `CInv` adds that what waitpid reported as signalled is on record
before the caller leaves the lease, that all convicted mutations are on
record, and that a late call is stopped by the pre-flight check. The proof takes the
actions one by one; `StepCases` gives the split for all of them.

`CasCommitProofs` proves, under `LimitAssumption` (a natural limit and window, at least one
attempt), for any set of runs and any faults:

* `TypeCorrect`, `LimitHolds` (`WithinLimit`), `UnitsKept` (`NothingUncounted`);
* `ScriptImplementsLimit`: `Spec => ImplementsLimit`, the refinement of `RateLimit`.

`WithinLimit` alone says nothing of the call that is about to write. Its inductive
invariant adds that whoever is about to write has exactly a step of the abstract counter
over what it read (`WritesOneMore`; with the sha, what it read is what is there), that no
window begins after that of the file (`LatestWindow`), and `NothingUncounted`: the
units of the current window are at most its count, and the count at most the limit.
The refinement uses the same invariant: a write is a `TakeUnit`, everything else
a stutter or a `Tick`.

`PublicationProofs` proves, under `PublicationAssumption` (finitely many runs), for any
number of runs, seconds, faults and re-runs:

* `TypeCorrect`, `Counting` (`PrsAreCounted`), `OnlySurvivors`, `OwnPullRequests`
  (`PrShowsItsRun`), `RaceIsWon` (`SomeoneGetsThrough`).

The invariant counts the jobs that hold a count and have no pull request yet
together with the pull requests (`Covered`), follows the rationale from the engine to
the commit (`RationaleProven`), and knows that the branch of a job between push and
pull request is its own (`OwnBranch`), as a push needs a free name. `RaceIsWon` is a
theorem about the ways to lose: a PUT is refused because another job was counted, a
push because another job has the name. `RaceInv` says that without faults whatever stands
in somebody's way comes to something (`Progress`): once there is a counter, a pull request
exists, or a job with a count can still open one, or a stopped run has wasted the count; and
a branch that is taken has its pull request or gets it next.

`MutationRunnerProofs` proves, under `RunnerAssumption` and `PlacementAssumption`:

* `TypeCorrect` and `WholeBinary` (`RunsWholeBinary`), for any faults;
* `AtMostOnce` (`RunsAtMostOnce`), `BannedNeverRuns` (`NeverRunsBanned`) and `VerdictIsOne`
  (`OneVerdict`), when the ban ledger can be read and written (`ledger` and `banwrite` are
  not among the faults; TLC finds each of the three violated with either);
* `NoBannedSource` (`BannedLeavesNoSource`), when it can be read (`ledger` is not among the
  faults, and breaks it).

`OwnerInv` says what the exclusive store gives: the callers behind it, and a dead one
whose child still runs, own the source of their mutation, one caller per mutation
(`OneOwner`), so that nobody else can take away its source (`SourceHeld`) or replace its
binary (`BinaryHeld`). `VerdictInv` then follows a mutation by the step of its
owner: it is not banned while it waits for its run (`StepKnown`), once it ran it is banned
or has a source that stands in the way of the next store (`RanMarked`), a survivor keeps
both its source and its good name (`SurvivorKept`), and a banned one has a whole source
only while somebody is about to remove it (`BannedHeld`). `HeldInv` is the part of it that
survives a ban that was not written.

`MutationLeaseProofs` has the lemmas on the lease for whatever module extends it.

`QuarantineLogProofs` proves, under `LogAssumption` (a hash is not a header, a legacy line
or a torn one, and a missing file is no sequence of lines), for any threads, processes,
hashes and lengths of the log:

* `TypeCorrect`, for any faults and callers, and for `Orderly` callers:
* `UpdatesKept` (`NoLostUpdate`), without the fault `read`;
* `NeverPartial` (`LogNeverPartial`), without `diskfull` and `mergecrash`;
* `LogImplementsLedger` (`ImplementsLedger`), without `read`, `diskfull` and `freshopen`;
* `RecordsStay`, a corollary of the refinement: what a reader finds in the log is found
  in it ever after (`OnRecordStays`).

Each takes exactly the faults that do not break it. An append holds the lock from its read
to its rename (`LockHeld`), and imports and migrations are alone (`Alone`), so that nobody
changes the log in between: that is `UpdateInv`. `WholeInv` needs neither the lock nor
a log that can be read: every file is whole, except for the line an import has half
written. `LogInv`, for the refinement, does not say that the log is whole, since a death
inside an import is allowed; it says that the temporary an append renames is what it wrote
or gone (`TmpKept`), that an import writes to the live log (`HalfLive`), and that a log
without a header has no entries, so that the migration, which truncates such a log,
loses none (`Format`). A call is a `Begin`, a rename or the end of an import a `Commit`,
a scan an `Answer`, a failing step a `Fail`, a return an `End`, a crash an `Abort`,
and all else, the migration included, a stutter. What a reader finds after
a line was added, completed or glued to a torn one is stated by lemmas of their own
(`ParsedAppend`, `ParsedHeader`, `ParsedLast`, `ParsedEntry`, `HalfIsNoEntry`).

`EvolutionDaemonProofs` proves, under `DaemonAssumption` (finitely many instances, no
mutation twice in `Forge`), for any number of instances and mutations:

* `TypeCorrect`, `OnlySurvivorsReachOrigin` (`OnlySurvivorsPushed`), `PublishedForGood`
  (`PublishedStays`) and `HiveListsPublished` (`HiveOnlyPublished`), for any faults,
  `checkout` included;
* `LedgersGrow` (`LedgersOnlyGrow`), for any faults but `checkout`, which breaks it;
* `NothingAfterTheFirst`, for any faults but `checkout`: once the hive ledger has an entry,
  origin's staging branch never changes again. It is the reason for the violation that
  `daemon_unpublished` shows.

`HistoryInv` looks at all histories, of the clone and of origin, and at the index: their
files are survivors (`OnlySurvivors`), and no commit has fewer than the one before
(`NothingTakenBack`). A cycle that failed may leave its file staged, and the next commit
takes it along; it is a survivor too, since nothing is added before the sandbox has
approved it. `HiveInv` adds that one instance works at a time (`LockHeld`), that the hive
ledger on disk, in the index and in every commit of the clone lists what origin
shows (`HiveShown`: a checkout that restores an older ledger restores a true one), and
that a push brings the mutation of its cycle to origin (`OnItsWay`). `OnceInv`, for the
last two, describes the clone before and after the one publication: main never has a
mutation (`MainBare`), and no commit has a ledger before the first entry (`NoLedgersYet`), so
that nothing is in the way of a checkout of main, which finds its ledgers empty or as they
are; afterwards the mutation that was registered is in no tree from which git could push
(`OutOfReach`), so that every push of staging is refused, and nobody is on the way to a second
registration (`Parted`).

`HiveSyncProofs` proves, under `HiveAssumption` (finitely many nodes and hashes, natural
bounds and budgets, an assignment of crashes, restarts):

* `TypeCorrect`, `NobodyStarves` (`NoPeerStarvesAnother`), `RegistryForgetsNothing`
  (`RegistryOnlyGrows`);
* `MergesBounded`: whatever lies in `/tmp` and in whatever order it is read, a merge
  drops nothing from the log, adds no more than the session's budget, and takes
  nothing from a file that is too long;
* `NoHashMadeUp`: every hash in a log, an export or a record is one whose mutation has crashed
  on some node.

The outcomes of a merge are a recursive function on the set of files that are still to be
read. Finiteness is what makes it one: `AfterDef` shows that the recursion has a solution,
`FairShare` and `MergeBounds` what every order of the files yields. The prover has no
induction rule it could use; the lemmas go by a least counterexample instead
(`SubsetInduction` and `NumberInduction`, from `WFMin` and the well-foundedness of the
strict subsets of a finite set). `RegInv` says that what is on disk or in the registry is
of the life that has the id (`OfThisLife`, `Unborn`), for which `RegistryForgetsNothing` needs
the id and the log to be lost together (`LivesLeft` bounds the lives).

The proofs take the actions one by one; each module has a lemma that splits its `Next`
(`StepCases`). In `EvolutionDaemonProofs` most actions are alike for the
invariants, and `StepKinds` sorts them into a few kinds first.

Every safety property that a passing run checks is thus a theorem, and so are the two
refinements. Only model-checked are:

* everything temporal, since liveness under fairness is beyond the prover:
  `WaitersAreServed`, the `CallsReturn` of both modules, `EveryRunEnds`, `CallsEnd`,
  `PeersLearn`;
* the violations.

## 6. Disagreements

* `core.hpp:16-17` says that the shared lock of `is_quarantined` closes the window
  between check and fork; it is given back before the lease is even asked for
  (`guarded_window`).
* `core.hpp:13-15` says that the log is never in a partial state; the stream that
  writes the temporary is not checked (`quarantine_disk_full`).
* `README.md:173-175` says that mutations that survive are committed and pushed to the
  repository; from the second survivor on, every push is refused (`daemon_unpublished`). The
  heading of that section also names `SwayamGitCortex`, which nobody calls: the engine
  publishes through `GitCortex`.
* `main.cpp:91-92` overwrites a quarantined outcome with "published", which
  `sandboxed-mutation.yml:54-57` refuses as fatal for want of a rationale
  (`daemon_rationale`). It is the ordinary case: the base genome of `main.cpp:61-62` has
  neither `try` nor `catch`, so `HeuristicAnalyzer.hpp:46-48` rejects it
  whenever the forge adds none, and it never does.
* `SECURITY_AUDIT.md:52` says that peers learn of a quarantined mutation on their next
  sync cycle; once the logs together have more lines than a file may have, the record
  of a node that has merged is rejected by everyone (`hive_outgrown`).

Seen while modelling, and in the models as the code has it, without a run of their own:

* `QuarantineRegistry.hpp:87-98` announces a permanent ban after a write that failed. With
  the fault `banwrite`, `NeverRunsBanned`, `RunsAtMostOnce` and `OneVerdict` do not hold.
* `core.hpp:8-10` says that the lease keeps two independent GitHub Actions runners
  from running mutations at once. It is a lock on a file in one host's `/tmp`, and
  `SupervisedExclusion` is a statement per host.
* `cas_commit.sh:21` means to stop without a token. As there is a blank after the colon,
  `${GH_TOKEN: ?...}` is a substring expansion: bash 5.2 reports a syntax error in it and goes
  on when the token is set, even to nothing; an unset one is caught by `set -u`.
* `cas_commit.sh:11-12`: "Retries only happen on a genuine 409". Every answer but 200 and
  201 is retried, and one to a PUT that was applied wastes a unit.
* `cas_commit.sh:14-16` names `cas_increment.sh` among its users, which has a PUT of its
  own; and the README's "distributed rate-limit enforcer" (`README.md:96`) is
  that script, which compares its count with nothing.
* `NexusC2.hpp:75`, "Zero Telemetry Drop": the rest of a message is dropped after
  `max_retries` sends that find the buffer full.
* A run that was stopped starts a publishing job, which takes a count and fails at its
  commit, while `sandboxed-mutation.yml` says "Nothing to publish this cycle".
* `safe_extract.py` lets `rationale.md` and headers through; the engine writes `.cpp` files
  only. A pull request therefore shows the rationale and no source.
* `derive_node_id` is described as stable across restarts, and has its seed in `/tmp`.
  `RegistryOnlyGrows` depends on its not being so.

## 7. What is not modelled

The texts of sources, regular expressions, the seccomp filter, hashes, the encoding
of telemetry, the token guard (straight-line code), Moltbook and SwayamGitCortex (called
by nothing; the second has the include guard of `GitCortex.hpp`), and the build. A
waitpid with WNOHANG that fails, a child that leaves its process group, the instant
in which a killed instance's child still has the instance lock, and two
writes of one status file that interleave inside the write. A git command does not
outlive its supervisor here: the end of the container takes both.

In `HiveSync`, a record that `hive_sync.sh` reads while the node rewrites its export or
that a lost connection cuts short, and a hash that is in a log twice. In
`CasCommit`, clocks of different runners that disagree. In `Publication`, the limits of
`safe_extract.py` on sizes and members, the structural hash (its failure is ignored, and
its input never exists), and a re-run of a sandbox job. The textual match of a hash
in a ledger is taken for the intended one. `PROJECT.json` says it component by
component.

## 8. Plan

1. Done: the modules of section 2 and the theorems of section 5.
2. Theorems that remain: that no query denies what was on record before its call, from
   `Ledger` with the history of a call; and what callers of the log may still rely on when
   they are not `Orderly`.
3. Hazards that no property covers, each with its reason in `PROJECT.json`. Some are steps
   for which the code does nothing: an orphan beside the next supervisor (`core.hpp:339`),
   a log or ledger that cannot be read or written (`core.hpp:213`, `QuarantineRegistry.hpp:46`
   and `:87`), a fork that fails (`MutationRunner.hpp:82`), a checkout that fails
   (`GitCortex.hpp:48`), a crash between push and registration (`Supervisor.hpp:157`),
   imports and migrations beside other callers (`NodeRegistry.hpp:165`, `core.hpp:167`). A
   property would state what the code does not promise. Others are the premises of the
   liveness properties (`core.hpp:349` and `:298`, `MutationRunner.hpp:85`).
4. `LedgerMatch`: the textual match of a hash as an operator checked against the intended
   one. Moltbook, should anything call it.
