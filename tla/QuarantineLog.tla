---------------------------- MODULE QuarantineLog ----------------------------
(***************************************************************************)
(* The V2 quarantine log of include/core.hpp, system call by system call:  *)
(* atomic_quarantine_append (lock, read, write a temporary, rename),       *)
(* is_quarantined (shared lock, read), migrate_quarantine_if_needed and    *)
(* the import of a peer's hash (include/NodeRegistry.hpp), which takes no  *)
(* lock and appends in place.                                              *)
(*                                                                         *)
(* A file is a sequence of lines.  A line is the version header, an entry, *)
(* reduced to its hash, a legacy (V1) entry, a torn entry, cut before its  *)
(* first comma, or a junk one: an entry glued to a torn one.               *)
(***************************************************************************)
EXTENDS Integers, Sequences

CONSTANTS
    Threads, Processes, ProcOf, \* callers; a process is one pid, one tmp name
    Does,     \* the calls a thread makes, of an operation with a hash
    Hashes,
    NoFile,   \* a file that does not exist
    None,     \* nobody
    MaxLines, \* bound: no new record is asked for in a log this long
    Orderly,  \* callers migrate and merge alone, and merge after migrating
    Faults

FaultKinds == {
    "lock",       \* the lock file cannot be opened or locked (or EINTR)
    "read",       \* the log exists and cannot be opened
    "tmpopen",    \* the temporary cannot be opened
    "diskfull",   \* the temporary is cut short: the stream is not checked
    "rename",     \* rename() fails
    "freshopen",  \* the log that a migration makes cannot be opened
    "crash",      \* a process is killed outside a merge
    "mergecrash"} \* a process is killed inside one too

Ops == {"append", "query", "migrate", "merge"}

Lines == Hashes \cup {"header", "legacy", "torn", "junk"}

ASSUME LogAssumption ==
    /\ Hashes \cap {"header", "legacy", "torn", "junk"} = {}
    /\ NoFile \notin Seq(Lines)
    /\ Does \in [Threads -> SUBSET (Ops \X Hashes)]
    /\ ProcOf \in [Threads -> Processes]
    /\ None \notin Threads \cup Hashes
    /\ MaxLines \in Nat
    /\ Orderly \in BOOLEAN
    /\ Faults \subseteq FaultKinds

VARIABLES
    log,      \* the log file
    tmp,      \* per process, <log>.tmp.<pid>
    lockEx,   \* the holder of LOCK_EX on <log>.lock
    lockSh,   \* the holders of LOCK_SH
    pc, op, arg,
    buf,      \* what an append has read
    found,    \* what a query has read
    stream,   \* a merge's open file: the live log, or one renamed over
    migrated  \* a migration has returned

vars == <<log, tmp, lockEx, lockSh, pc, op, arg, buf, found, stream, migrated>>
files == <<log, tmp>>
locks == <<lockEx, lockSh>>
locals == <<op, arg, buf, found, stream, migrated>>

AppendSteps == {"lock", "read", "write", "rename", "unlock"}
QuerySteps == {"lockSh", "scan", "unlockSh"}
MigrateSteps == {"check", "backup", "truncate", "fresh"}
MergeSteps == {"open", "half", "rest"}

TypeOK ==
    /\ log \in Seq(Lines) \cup {NoFile}
    /\ tmp \in [Processes -> Seq(Lines) \cup {NoFile}]
    /\ lockEx \in Threads \cup {None}
    /\ lockSh \subseteq Threads
    /\ pc \in [Threads -> AppendSteps \cup QuerySteps \cup MigrateSteps
                             \cup MergeSteps \cup {"idle", "return"}]
    /\ op \in [Threads -> Ops \cup {"none"}]
    /\ arg \in [Threads -> Hashes \cup {None}]
    /\ buf \in [Threads -> Seq(Lines)]
    /\ found \in [Threads -> BOOLEAN]
    /\ stream \in [Threads -> {"closed", "live", "stale"}]
    /\ migrated \in BOOLEAN

(* No log, or a V1 log. *)
Init ==
    /\ log \in {NoFile, <<"legacy">>}
    /\ tmp = [p \in Processes |-> NoFile]
    /\ lockEx = None
    /\ lockSh = {}
    /\ pc = [t \in Threads |-> "idle"]
    /\ op = [t \in Threads |-> "none"]
    /\ arg = [t \in Threads |-> None]
    /\ buf = [t \in Threads |-> <<>>]
    /\ found = [t \in Threads |-> FALSE]
    /\ stream = [t \in Threads |-> "closed"]
    /\ migrated = FALSE

Goto(t, from, to) == pc[t] = from /\ pc' = [pc EXCEPT ![t] = to]

Contents(f) == IF f = NoFile THEN <<>> ELSE f

(* The hashes a reader that splits lines at their first comma finds. *)
Parsed(f) == IF f = NoFile THEN {} ELSE {f[i] : i \in DOMAIN f} \cap Hashes

WithHeader(s) ==
    IF s # <<>> /\ s[1] = "header" THEN s ELSE <<"header">> \o s

(* An entry written after a torn one continues its line. *)
WithEntry(s, h) ==
    IF s # <<>> /\ s[Len(s)] = "torn"
    THEN [s EXCEPT ![Len(s)] = "junk"]
    ELSE Append(s, h)

Unparsed(x) == x \in {"torn", "junk"}
-----------------------------------------------------------------------------
FirstStep(o) ==
    IF o = "append" THEN "lock" ELSE IF o = "query" THEN "lockSh"
    ELSE IF o = "migrate" THEN "check" ELSE "open"

(* What Orderly asks of the callers. *)
MayStart(t, o) ==
    /\ o = "merge" => migrated
    /\ \A u \in Threads \ {t} :
          \/ op[u] = "none"
          \/ {o, op[u]} \subseteq {"append", "query"}

Call(t, o, h) ==
    /\ <<o, h>> \in Does[t]
    /\ Goto(t, "idle", FirstStep(o))
    /\ Orderly => MayStart(t, o)
    /\ o \in {"append", "merge"} => Len(Contents(log)) < MaxLines
    /\ op' = [op EXCEPT ![t] = o]
    /\ arg' = [arg EXCEPT ![t] = h]
    /\ UNCHANGED <<files, locks, buf, found, stream, migrated>>

(* The locals of some threads go out of scope. *)
Forget(S) ==
    /\ op' = [t \in Threads |-> IF t \in S THEN "none" ELSE op[t]]
    /\ arg' = [t \in Threads |-> IF t \in S THEN None ELSE arg[t]]
    /\ buf' = [t \in Threads |-> IF t \in S THEN <<>> ELSE buf[t]]
    /\ found' = [t \in Threads |-> IF t \in S THEN FALSE ELSE found[t]]
    /\ stream' = [t \in Threads |-> IF t \in S THEN "closed" ELSE stream[t]]

Return(t) ==
    /\ Goto(t, "return", "idle")
    /\ migrated' = (migrated \/ op[t] = "migrate")
    /\ Forget({t})
    /\ UNCHANGED <<files, locks>>
-----------------------------------------------------------------------------
(* Mutant: a lock that cannot be had is done without, as a query does. *)
AppendLockAnyway(t) ==
    /\ Goto(t, "lock", "read")
    /\ lockEx' = t
    /\ UNCHANGED <<files, lockSh, locals>>

(* atomic_quarantine_append. *)
AppendLock(t) ==
    /\ lockEx = None /\ lockSh = {}
    /\ Goto(t, "lock", "read")
    /\ lockEx' = t
    /\ UNCHANGED <<files, lockSh, locals>>

(* The guard's constructor throws, and the handler unlinks the temporary   *)
(* of the whole process, which another of its threads may be using.        *)
AppendLockThrows(t) ==
    /\ "lock" \in Faults
    /\ Goto(t, "lock", "return")
    /\ tmp' = [tmp EXCEPT ![ProcOf[t]] = NoFile]
    /\ UNCHANGED <<log, locks, locals>>

(* Mutant: a log that does not exist is not an empty one. *)
AppendReadUnchecked(t) ==
    /\ Goto(t, "read", "write")
    /\ buf' = [buf EXCEPT ![t] = log]
    /\ UNCHANGED <<files, locks, op, arg, found, stream, migrated>>

AppendRead(t) ==
    /\ Goto(t, "read", "write")
    /\ \E s \in {Contents(log)} \cup (IF "read" \in Faults THEN {<<>>} ELSE {}) :
          buf' = [buf EXCEPT ![t] = s]
    /\ UNCHANGED <<files, locks, op, arg, found, stream, migrated>>

(* Every way a disk that fills up can cut s short. *)
CutShort(s) ==
    LET whole == {SubSeq(s, 1, n) : n \in 0..(Len(s) - 1)}
    IN  whole \cup {Append(w, "torn") : w \in whole}

(* Mutant: the entry is written in place. *)
AppendWriteInPlace(t) ==
    /\ Goto(t, "write", "rename")
    /\ log' = Append(WithHeader(buf[t]), "torn")
    /\ tmp' = [tmp EXCEPT ![ProcOf[t]] = WithEntry(WithHeader(buf[t]), arg[t])]
    /\ UNCHANGED <<locks, locals>>

AppendWrite(t) ==
    /\ Goto(t, "write", "rename")
    /\ LET full == WithEntry(WithHeader(buf[t]), arg[t])
       IN  \E s \in {full} \cup (IF "diskfull" \in Faults THEN CutShort(full) ELSE {}) :
              tmp' = [tmp EXCEPT ![ProcOf[t]] = s]
    /\ UNCHANGED <<log, locks, locals>>

(* Mutant: the early return keeps the lock. *)
AppendTmpFailsLocked(t) ==
    /\ "tmpopen" \in Faults
    /\ Goto(t, "write", "return")
    /\ UNCHANGED <<files, locks, locals>>

AppendTmpFails(t) ==
    /\ "tmpopen" \in Faults
    /\ Goto(t, "write", "unlock")
    /\ UNCHANGED <<files, locks, locals>>

Renamed == [u \in Threads |-> IF stream[u] = "live" THEN "stale" ELSE stream[u]]

(* rename() finds no temporary if another thread has unlinked it. *)
AppendRename(t) ==
    /\ tmp[ProcOf[t]] # NoFile
    /\ Goto(t, "rename", "unlock")
    /\ log' = tmp[ProcOf[t]]
    /\ tmp' = [tmp EXCEPT ![ProcOf[t]] = NoFile]
    /\ stream' = Renamed
    /\ UNCHANGED <<locks, op, arg, buf, found, migrated>>

AppendRenameFails(t) ==
    /\ tmp[ProcOf[t]] = NoFile \/ "rename" \in Faults
    /\ Goto(t, "rename", "unlock")
    /\ tmp' = [tmp EXCEPT ![ProcOf[t]] = NoFile]
    /\ UNCHANGED <<log, locks, locals>>

AppendUnlock(t) ==
    /\ Goto(t, "unlock", "return")
    /\ lockEx' = None
    /\ UNCHANGED <<files, lockSh, locals>>
-----------------------------------------------------------------------------
(* is_quarantined. *)
QueryLock(t) ==
    /\ lockEx = None
    /\ Goto(t, "lockSh", "scan")
    /\ lockSh' = lockSh \cup {t}
    /\ UNCHANGED <<files, lockEx, locals>>

(* The results of open and flock are not looked at: it reads unlocked. *)
QueryLockFails(t) ==
    /\ "lock" \in Faults
    /\ Goto(t, "lockSh", "scan")
    /\ UNCHANGED <<files, locks, locals>>

QueryScan(t) ==
    /\ Goto(t, "scan", "unlockSh")
    /\ \E f \in {log} \cup (IF "read" \in Faults THEN {NoFile} ELSE {}) :
          found' = [found EXCEPT ![t] = arg[t] \in Parsed(f)]
    /\ UNCHANGED <<files, locks, op, arg, buf, stream, migrated>>

QueryUnlock(t) ==
    /\ Goto(t, "unlockSh", "return")
    /\ lockSh' = lockSh \ {t}
    /\ UNCHANGED <<files, lockEx, locals>>
-----------------------------------------------------------------------------
(* Mutant: a V2 log is backed up like a V1 one. *)
MigrateCheckAlways(t) ==
    /\ Goto(t, "check", IF log = NoFile THEN "truncate" ELSE "backup")
    /\ UNCHANGED <<files, locks, locals>>

(* migrate_quarantine_if_needed, without any lock. *)
MigrateCheck(t) ==
    /\ \E f \in {log} \cup (IF "read" \in Faults THEN {NoFile} ELSE {}) :
          Goto(t, "check", IF f = NoFile THEN "truncate"
                           ELSE IF WithHeader(f) = f THEN "return" ELSE "backup")
    /\ UNCHANGED <<files, locks, locals>>

(* The log becomes the backup, unless rename() fails, which is only told. *)
MigrateBackup(t) ==
    /\ Goto(t, "backup", "truncate")
    /\ \E kept \in {FALSE} \cup (IF "rename" \in Faults THEN {TRUE} ELSE {}) :
          /\ log' = IF kept THEN log ELSE NoFile
          /\ stream' = IF kept THEN stream ELSE Renamed
    /\ UNCHANGED <<tmp, locks, op, arg, buf, found, migrated>>

(* Nobody is told if the log cannot be opened, and there is no fresh one. *)
MigrateTruncate(t) ==
    /\ \E opened \in {TRUE} \cup (IF "freshopen" \in Faults THEN {FALSE} ELSE {}) :
          /\ Goto(t, "truncate", IF opened THEN "fresh" ELSE "return")
          /\ log' = IF opened THEN <<>> ELSE log
    /\ UNCHANGED <<tmp, locks, locals>>

MigrateFresh(t) ==
    /\ Goto(t, "fresh", "return")
    /\ log' = <<"header">>
    /\ UNCHANGED <<tmp, locks, locals>>
-----------------------------------------------------------------------------
(* merge_peer_signatures_guarded for one line of a peer's file: load the   *)
(* hashes on record, open the log for appending, write if the hash is new. *)
MergeOpen(t) ==
    /\ Goto(t, "open", IF arg[t] \in Parsed(log) THEN "return" ELSE "half")
    /\ log' = Contents(log)
    /\ stream' = [stream EXCEPT ![t] = "live"]
    /\ UNCHANGED <<tmp, locks, op, arg, buf, found, migrated>>

(* The stream's buffer reaches the file in more than one write. *)
MergeHalf(t) ==
    /\ Goto(t, "half", "rest")
    /\ log' = IF stream[t] = "live" THEN WithEntry(log, "torn") ELSE log
    /\ UNCHANGED <<tmp, locks, locals>>

MergeRest(t) ==
    /\ Goto(t, "rest", "return")
    /\ log' = IF stream[t] # "live" THEN log
              ELSE IF log # <<>> /\ log[Len(log)] = "torn"
                   THEN [log EXCEPT ![Len(log)] = arg[t]]
                   ELSE Append(log, "junk")
    /\ UNCHANGED <<tmp, locks, locals>>
-----------------------------------------------------------------------------
(* SIGKILL, and the start of another process in its place.  The kernel     *)
(* releases the locks.  A temporary stays behind under the dead pid, where *)
(* nothing reads it: the new pid has another name, and every append        *)
(* truncates its temporary first.                                          *)
Crash(p) ==
    LET mine == {t \in Threads : ProcOf[t] = p}
    IN  /\ "crash" \in Faults
        /\ \E t \in mine : pc[t] # "idle"
        /\ "mergecrash" \in Faults \/ \A t \in mine : pc[t] \notin MergeSteps
        /\ pc' = [t \in Threads |-> IF t \in mine THEN "idle" ELSE pc[t]]
        /\ Forget(mine)
        /\ lockEx' = IF lockEx \in mine THEN None ELSE lockEx
        /\ lockSh' = lockSh \ mine
        /\ tmp' = [tmp EXCEPT ![p] = NoFile]
        /\ UNCHANGED <<log, migrated>>

AppendStep(t) ==
    \/ AppendLock(t)
    \/ AppendRead(t)
    \/ AppendWrite(t)
    \/ AppendRename(t)
    \/ AppendRenameFails(t)
    \/ AppendUnlock(t)

QueryStep(t) ==
    \/ QueryLock(t)
    \/ QueryScan(t)
    \/ QueryUnlock(t)

SyncStep(t) ==
    \/ MigrateCheck(t)
    \/ MigrateBackup(t)
    \/ MigrateTruncate(t)
    \/ MigrateFresh(t)
    \/ MergeOpen(t)
    \/ MergeHalf(t)
    \/ MergeRest(t)

Failure(t) ==
    \/ AppendLockThrows(t)
    \/ AppendTmpFails(t)
    \/ QueryLockFails(t)

Next ==
    \/ \E t \in Threads, o \in Ops, h \in Hashes : Call(t, o, h)
    \/ \E t \in Threads : AppendStep(t)
    \/ \E t \in Threads : QueryStep(t)
    \/ \E t \in Threads : SyncStep(t)
    \/ \E t \in Threads : Failure(t)
    \/ \E t \in Threads : Return(t)
    \/ \E p \in Processes : Crash(p)

(* Threads run, and a lock given back again and again reaches its waiters. *)
Fairness ==
    \A t \in Threads :
        /\ WF_vars(AppendStep(t) \/ QueryStep(t) \/ SyncStep(t) \/ Return(t))
        /\ SF_vars(AppendLock(t) \/ QueryLock(t))

Spec == Init /\ [][Next]_vars

FairSpec == Spec /\ Fairness
-----------------------------------------------------------------------------
(* core.hpp, FIX-2: "the log is never in a partial state.  A SIGKILL       *)
(* mid-write orphans the temp file, not the live log."  Nobody finds an    *)
(* entry cut short in the log outside the in-place write of a merge.       *)
LogNeverPartial ==
    \/ log = NoFile
    \/ \A i \in DOMAIN log : ~Unparsed(log[i])
    \/ \E t \in Threads : pc[t] \in MergeSteps

(* What an append has read is what it is about to replace: nobody changes  *)
(* the log between its read and its rename, so no update is lost.          *)
NoLostUpdate ==
    \A t \in Threads :
        pc[t] \in {"write", "rename"} => buf[t] = Contents(log)

(* The log implements the abstract ledger: records take effect once, at    *)
(* the rename or the end of a merge; a query answers from one instant of   *)
(* its call; nothing on record is ever lost.                               *)
RequestOf(t) ==
    LET state == IF pc[t] \in {"unlock", "unlockSh", "return"}
                 THEN "done" ELSE "pending"
    IN  IF op[t] \in {"none", "migrate"}
        THEN [op |-> "none"]
        ELSE [op |-> IF op[t] = "query" THEN "query" ELSE "record",
              hash |-> arg[t], state |-> state, found |-> found[t]]

L == INSTANCE Ledger WITH
         entries <- Parsed(log),
         request <- [t \in Threads |-> RequestOf(t)]

ImplementsLedger == L!LedgerSpec

(* Every call returns: no path, by error, return or death, keeps a lock    *)
(* from the others.  An append needs the queries to pause: flock lets a    *)
(* new reader in beside others while a writer waits.                       *)
QueriesPause == []<>(lockSh = {})

CallsReturn ==
    QueriesPause => \A t \in Threads : pc[t] # "idle" ~> pc[t] = "idle"
=============================================================================
