-------------------------- MODULE QuarantineLogProofs --------------------------
(***************************************************************************)
(* Theorems about the quarantine log, for any threads and processes and    *)
(* any number of lines.                                                    *)
(***************************************************************************)
EXTENDS QuarantineLog, SequenceTheorems, TLAPS

Headed(s) == s # <<>> /\ s[1] = "header"

Full(t) == WithEntry(WithHeader(buf[t]), arg[t])

(* What holds of the calls, whoever makes them and whatever fails. *)
CallKnown ==
    \A t \in Threads :
        /\ pc[t] = "idle" <=> op[t] = "none"
        /\ pc[t] \in AppendSteps => op[t] = "append"
        /\ pc[t] \in QuerySteps => op[t] = "query"
        /\ pc[t] \in MigrateSteps => op[t] = "migrate"
        /\ pc[t] \in MergeSteps => op[t] = "merge"
        /\ op[t] # "none" => arg[t] \in Hashes
        /\ found[t] => op[t] = "query" /\ pc[t] \in {"unlockSh", "return"}
        /\ stream[t] = "live" => log # NoFile

(* An append has the lock from its read to its rename. *)
LockHeld ==
    \A t \in Threads : pc[t] \in {"read", "write", "rename", "unlock"} => lockEx = t

(* The temporary that an append has written is its own or gone. *)
TmpKept ==
    \A t \in Threads : pc[t] = "rename" => tmp[ProcOf[t]] \in {NoFile, Full(t)}

(* Orderly callers migrate and merge alone, and merge after migrating. *)
Alone ==
    \A t, u \in Threads :
        t # u /\ op[t] \in {"migrate", "merge"} => op[u] = "none"

(* A merge writes to the live log: nobody renames another over it. *)
HalfLive == \A t \in Threads : pc[t] \in {"half", "rest"} => stream[t] = "live"

(* A log without a header has no entries, and once there has been a        *)
(* migration there is a header.                                            *)
HasHeader == log # NoFile /\ Headed(log)

Format ==
    /\ HasHeader \/ Parsed(log) = {}
    /\ migrated => HasHeader
    /\ \A t \in Threads :
          /\ op[t] = "merge" => migrated
          /\ op[t] = "migrate" /\ pc[t] = "return" => HasHeader
          /\ pc[t] \in {"backup", "truncate", "fresh"} => Parsed(log) = {} /\ ~migrated

TypeInv == TypeOK /\ CallKnown

LogInv ==
    /\ TypeInv
    /\ LockHeld /\ TmpKept /\ Alone /\ HalfLive /\ Format /\ NoLostUpdate
-----------------------------------------------------------------------------
(* What a reader finds in a log with one more line, or with a header. *)
LEMMA ParsedAppend ==
    ASSUME NEW s \in Seq(Lines), NEW x \in Lines
    PROVE  /\ Append(s, x) \in Seq(Lines)
           /\ Parsed(Append(s, x)) = Parsed(s) \cup ({x} \cap Hashes)
           /\ Headed(s) => Headed(Append(s, x))
<1> DEFINE a == Append(s, x)
<1>1. /\ a \in Seq(Lines) /\ Len(a) = Len(s) + 1 /\ Len(s) \in Nat
      /\ \A i \in 1..Len(s) : a[i] = s[i]
      /\ a[Len(s) + 1] = x
  BY AppendProperties
<1>2. DOMAIN s = 1..Len(s) /\ DOMAIN a = 1..(Len(s) + 1)
  BY <1>1, LenProperties
<1>3. {a[i] : i \in DOMAIN a} = {s[i] : i \in DOMAIN s} \cup {x}
  BY <1>1, <1>2
<1>4. s # NoFile /\ a # NoFile
  BY <1>1, LogAssumption
<1>5. Headed(s) => Headed(a)
  <2>1. Headed(s) => Len(s) # 0
    BY EmptySeq DEF Headed
  <2>2. Len(s) # 0 => a[1] = s[1]
    BY <1>1
  <2>3. a # <<>>
    BY <1>1
  <2> QED
    BY <2>1, <2>2, <2>3 DEF Headed
<1> QED
  BY <1>1, <1>3, <1>4, <1>5 DEF Parsed

LEMMA ParsedHeader ==
    ASSUME NEW s \in Seq(Lines)
    PROVE  /\ WithHeader(s) \in Seq(Lines)
           /\ Parsed(WithHeader(s)) = Parsed(s)
           /\ Headed(WithHeader(s))
<1>1. CASE Headed(s)
  BY <1>1 DEF WithHeader, Headed
<1>2. CASE ~Headed(s)
  <2> DEFINE a == <<"header">> \o s
  <2>1. WithHeader(s) = a
    BY <1>2 DEF WithHeader, Headed
  <2>2. <<"header">> \in Seq(Lines) /\ Len(<<"header">>) = 1
    BY DEF Lines
  <2>3. /\ a \in Seq(Lines) /\ Len(a) = 1 + Len(s) /\ Len(s) \in Nat
        /\ a[1] = "header"
        /\ \A i \in 1..Len(s) : a[i + 1] = s[i]
    BY <2>2, ConcatProperties
  <2>4. DOMAIN s = 1..Len(s) /\ DOMAIN a = 1..(Len(s) + 1)
    BY <2>3, LenProperties
  <2>5. {a[i] : i \in DOMAIN a} = {s[i] : i \in DOMAIN s} \cup {"header"}
    <3>1. ASSUME NEW i \in DOMAIN a, i # 1 PROVE a[i] \in {s[j] : j \in DOMAIN s}
      <4>1. i - 1 \in 1..Len(s) /\ (i - 1) + 1 = i
        BY <2>3, <2>4, <3>1
      <4> QED
        BY <2>3, <2>4, <4>1
    <3>2. ASSUME NEW j \in DOMAIN s PROVE s[j] \in {a[i] : i \in DOMAIN a}
      <4>1. j + 1 \in DOMAIN a /\ a[j + 1] = s[j]
        BY <2>3, <2>4, <3>2
      <4> QED
        BY <4>1
    <3>3. 1 \in DOMAIN a
      BY <2>3, <2>4
    <3> HIDE DEF a
    <3> QED
      BY <2>3, <3>1, <3>2, <3>3
  <2>6. s # NoFile /\ a # NoFile /\ "header" \notin Hashes
    BY <2>3, LogAssumption
  <2>7. a # <<>>
    BY <2>3
  <2> HIDE DEF a
  <2>8. Parsed(a) = Parsed(s)
    BY <2>5, <2>6 DEF Parsed
  <2> QED
    BY <2>1, <2>3, <2>7, <2>8 DEF Headed
<1> QED
  BY <1>1, <1>2

(* A line that is written, torn or completed leaves a sequence of lines. *)
LEMMA LineTypes ==
    ASSUME NEW s \in Seq(Lines)
    PROVE  /\ \A x \in Lines : WithEntry(s, x) \in Seq(Lines)
           /\ \A w \in CutShort(s) : w \in Seq(Lines)
           /\ \A x \in Lines : s # <<>> => [s EXCEPT ![Len(s)] = x] \in Seq(Lines)
<1>1. {"junk", "torn"} \subseteq Lines
  BY DEF Lines
<1>2. s # <<>> => Len(s) \in 1..Len(s)
  BY EmptySeq, LenProperties
<1>3. ASSUME NEW x \in Lines, s # <<>> PROVE [s EXCEPT ![Len(s)] = x] \in Seq(Lines)
  BY <1>2, <1>3, ExceptSeq
<1>4. ASSUME NEW x \in Lines PROVE WithEntry(s, x) \in Seq(Lines)
  BY <1>1, <1>3, AppendProperties DEF WithEntry
<1>5. ASSUME NEW w \in CutShort(s) PROVE w \in Seq(Lines)
  <2>1. ASSUME NEW n \in 0..(Len(s) - 1) PROVE SubSeq(s, 1, n) \in Seq(Lines)
    <3>1. Len(s) \in Nat /\ \A i \in 1..n : s[i] \in Lines
      BY <2>1, ElementOfSeq, LenProperties
    <3> QED
      BY <2>1, <3>1, SubSeqProperties
  <2>2. ASSUME NEW v \in {SubSeq(s, 1, n) : n \in 0..(Len(s) - 1)}
        PROVE  v \in Seq(Lines) /\ Append(v, "torn") \in Seq(Lines)
    <3>1. v \in Seq(Lines)
      BY <2>1
    <3> QED
      BY <1>1, <3>1, AppendProperties
  <2> QED
    BY <1>5, <2>2 DEF CutShort
<1> QED
  BY <1>3, <1>4, <1>5

(* Another line in the place of a torn one, and an entry, which a torn     *)
(* line before it may swallow.                                             *)
LEMMA ParsedLast ==
    ASSUME NEW s \in Seq(Lines), NEW x \in Lines, s # <<>>, s[Len(s)] = "torn"
    PROVE  LET r == [s EXCEPT ![Len(s)] = x]
           IN  /\ r \in Seq(Lines)
               /\ Parsed(r) = Parsed(s) \cup ({x} \cap Hashes)
               /\ Headed(s) => Headed(r)
<1> DEFINE r == [s EXCEPT ![Len(s)] = x]
<1>1. Len(s) \in 1..Len(s) /\ DOMAIN s = 1..Len(s)
  BY EmptySeq, LenProperties
<1>2. /\ r \in Seq(Lines) /\ Len(r) = Len(s)
      /\ \A i \in 1..Len(s) : r[i] = IF i = Len(s) THEN x ELSE s[i]
  BY <1>1, ExceptSeq
<1> HIDE DEF r
<1>3. DOMAIN r = DOMAIN s /\ r # <<>>
  BY <1>1, <1>2, EmptySeq, LenProperties
<1>4. "torn" \notin Hashes /\ s # NoFile /\ r # NoFile
  BY <1>2, LogAssumption
<1>5. {r[i] : i \in DOMAIN r} \cap Hashes = ({s[i] : i \in DOMAIN s} \cap Hashes) \cup ({x} \cap Hashes)
  BY <1>1, <1>2, <1>3, <1>4
<1>6. Headed(s) => Headed(r)
  <2>1. s[1] = "header" => Len(s) # 1
    OBVIOUS
  <2>2. 1 \in 1..Len(s)
    BY <1>1
  <2> QED
    BY <1>2, <1>3, <2>1, <2>2 DEF Headed
<1> QED
  BY <1>2, <1>4, <1>5, <1>6 DEF Parsed, r

LEMMA ParsedEntry ==
    ASSUME NEW s \in Seq(Lines), NEW x \in Lines
    PROVE  /\ WithEntry(s, x) \in Seq(Lines)
           /\ Parsed(WithEntry(s, x)) \in {Parsed(s), Parsed(s) \cup ({x} \cap Hashes)}
           /\ Headed(s) => Headed(WithEntry(s, x))
<1>1. "junk" \in Lines /\ {"junk"} \cap Hashes = {}
  BY LogAssumption DEF Lines
<1>2. CASE s # <<>> /\ s[Len(s)] = "torn"
  <2> DEFINE r == [s EXCEPT ![Len(s)] = "junk"]
  <2>1. /\ r \in Seq(Lines) /\ Parsed(r) = Parsed(s) \cup ({"junk"} \cap Hashes)
        /\ Headed(s) => Headed(r)
    BY <1>1, <1>2, ParsedLast
  <2>2. WithEntry(s, x) = r
    BY <1>2 DEF WithEntry
  <2> HIDE DEF r
  <2> QED
    BY <1>1, <2>1, <2>2
<1>3. CASE ~(s # <<>> /\ s[Len(s)] = "torn")
  <2>1. WithEntry(s, x) = Append(s, x)
    BY <1>3 DEF WithEntry
  <2> QED
    BY <2>1, ParsedAppend
<1> QED
  BY <1>2, <1>3
-----------------------------------------------------------------------------
(* Next, action by action. *)
LEMMA StepCases ==
    ASSUME [Next]_vars
    PROVE  \/ UNCHANGED vars
           \/ \E t \in Threads :
                 \/ \E o \in Ops, h \in Hashes : Call(t, o, h)
                 \/ AppendLock(t) \/ AppendLockThrows(t) \/ AppendRead(t)
                 \/ AppendWrite(t) \/ AppendTmpFails(t)
                 \/ AppendRename(t) \/ AppendRenameFails(t) \/ AppendUnlock(t)
                 \/ QueryLock(t) \/ QueryLockFails(t) \/ QueryScan(t) \/ QueryUnlock(t)
                 \/ MigrateCheck(t) \/ MigrateBackup(t)
                 \/ MigrateTruncate(t) \/ MigrateFresh(t)
                 \/ MergeOpen(t) \/ MergeHalf(t) \/ MergeRest(t)
                 \/ Return(t)
           \/ \E p \in Processes : Crash(p)
BY DEF Next, AppendStep, QueryStep, SyncStep, Failure

(* Every step keeps the types, and knows whose call it is part of. *)
LEMMA TypeStep == TypeInv /\ [Next]_vars => TypeInv'
<1> SUFFICES ASSUME TypeInv, [Next]_vars PROVE TypeInv'
  OBVIOUS
<1> USE LogAssumption DEF TypeInv, TypeOK, CallKnown, Goto,
        AppendSteps, QuerySteps, MigrateSteps, MergeSteps
<1>seq. /\ <<>> \in Seq(Lines) /\ <<"header">> \in Seq(Lines)
        /\ Contents(log) \in Seq(Lines) /\ Contents(log) # NoFile
  <2>1. <<>> \in Seq(Lines) /\ <<"header">> \in Seq(Lines)
    BY DEF Lines
  <2> QED
    BY <2>1 DEF Contents
<1>1. CASE UNCHANGED vars
  BY <1>1 DEF vars
<1>2. ASSUME NEW t \in Threads, NEW o \in Ops, NEW h \in Hashes, Call(t, o, h)
      PROVE  TypeInv'
  <2>1. /\ o # "none" /\ o \in Ops
        /\ FirstStep(o) = IF o = "append" THEN "lock" ELSE IF o = "query" THEN "lockSh"
                          ELSE IF o = "migrate" THEN "check" ELSE "open"
        /\ o \notin {"append", "query", "migrate"} => o = "merge"
    BY DEF Ops, FirstStep
  <2> QED
    BY <1>2, <2>1 DEF Call, files, locks
<1>3. ASSUME NEW t \in Threads, AppendLock(t) \/ AppendUnlock(t) PROVE TypeInv'
  <2>1. lockEx' \in Threads \cup {None} /\ UNCHANGED <<files, lockSh, locals>>
    BY <1>3 DEF AppendLock, AppendUnlock
  <2>2. /\ pc[t] \in {"lock", "unlock"}
        /\ \E to \in {"read", "return"} : pc' = [pc EXCEPT ![t] = to]
    BY <1>3 DEF AppendLock, AppendUnlock
  <2> QED
    BY <2>1, <2>2 DEF files, locals
<1>4. ASSUME NEW t \in Threads,
             AppendLockThrows(t) \/ AppendTmpFails(t) \/ AppendRenameFails(t)
      PROVE  TypeInv'
  <2>1. /\ tmp' \in [Processes -> Seq(Lines) \cup {NoFile}]
        /\ UNCHANGED <<log, locks, locals>>
    BY <1>4 DEF AppendLockThrows, AppendTmpFails, AppendRenameFails, files
  <2>2. /\ pc[t] \in {"lock", "write", "rename"}
        /\ \E to \in {"unlock", "return"} : pc' = [pc EXCEPT ![t] = to]
    BY <1>4 DEF AppendLockThrows, AppendTmpFails, AppendRenameFails
  <2> QED
    BY <2>1, <2>2 DEF locks, locals
<1>5. ASSUME NEW t \in Threads, AppendRead(t) PROVE TypeInv'
  <2>1. PICK s \in Seq(Lines) : buf' = [buf EXCEPT ![t] = s]
    <3>1. PICK s \in {Contents(log)} \cup (IF "read" \in Faults THEN {<<>>} ELSE {}) :
             buf' = [buf EXCEPT ![t] = s]
      BY <1>5 DEF AppendRead
    <3>2. s \in Seq(Lines)
      BY <1>seq
    <3> QED
      BY <3>1, <3>2
  <2> QED
    BY <1>5, <2>1 DEF AppendRead, files, locks
<1>6. ASSUME NEW t \in Threads, AppendWrite(t) PROVE TypeInv'
  <2>1. Full(t) \in Seq(Lines)
    <3>1. arg[t] \in Lines /\ WithHeader(buf[t]) \in Seq(Lines)
      BY <1>6, ParsedHeader DEF AppendWrite, Lines
    <3> QED
      BY <3>1, LineTypes DEF Full
  <2>2. tmp' \in [Processes -> Seq(Lines) \cup {NoFile}]
    BY <1>6, <2>1, LineTypes DEF AppendWrite, Full
  <2> QED
    BY <1>6, <2>2 DEF AppendWrite, locks, locals
<1>7. ASSUME NEW t \in Threads, AppendRename(t) PROVE TypeInv'
  <2>1. /\ log' \in Seq(Lines) /\ log' # NoFile
        /\ tmp' \in [Processes -> Seq(Lines) \cup {NoFile}]
    BY <1>7 DEF AppendRename
  <2>2. stream' \in [Threads -> {"closed", "live", "stale"}]
    BY <1>7 DEF AppendRename, Renamed
  <2> QED
    BY <1>7, <2>1, <2>2 DEF AppendRename, locks
<1>8. ASSUME NEW t \in Threads, QueryLock(t) \/ QueryLockFails(t) \/ QueryUnlock(t)
      PROVE  TypeInv'
  BY <1>8 DEF QueryLock, QueryLockFails, QueryUnlock, files, locks, locals
<1>9. ASSUME NEW t \in Threads, QueryScan(t) PROVE TypeInv'
  <2>1. PICK b \in BOOLEAN : found' = [found EXCEPT ![t] = b]
    <3>1. PICK f : found' = [found EXCEPT ![t] = arg[t] \in Parsed(f)]
      BY <1>9 DEF QueryScan
    <3>2. (arg[t] \in Parsed(f)) \in BOOLEAN
      OBVIOUS
    <3> QED
      BY <3>1, <3>2, Zenon
  <2> QED
    BY <1>9, <2>1 DEF QueryScan, files, locks
<1>10. ASSUME NEW t \in Threads, MigrateCheck(t) PROVE TypeInv'
  BY <1>10 DEF MigrateCheck, files, locks, locals
<1>11. ASSUME NEW t \in Threads, MigrateBackup(t) PROVE TypeInv'
  <2>1. /\ log' = log \/ (\A u \in Threads : stream'[u] # "live")
        /\ log' \in {log, NoFile}
        /\ stream' \in [Threads -> {"closed", "live", "stale"}]
        /\ log' = log => \A u \in Threads : stream'[u] = "live" => stream[u] = "live"
    BY <1>11 DEF MigrateBackup, Renamed
  <2> QED
    BY <1>11, <2>1 DEF MigrateBackup, locks
<1>12. ASSUME NEW t \in Threads, MigrateTruncate(t) \/ MigrateFresh(t)
       PROVE  TypeInv'
  <2>1. /\ log' = log \/ (log' \in Seq(Lines) /\ log' # NoFile)
        /\ UNCHANGED <<tmp, locks, locals>>
    <3>1. log' \in {log, <<>>, <<"header">>} /\ UNCHANGED <<tmp, locks, locals>>
      BY <1>12 DEF MigrateTruncate, MigrateFresh
    <3>2. <<>> \in Seq(Lines) /\ <<"header">> \in Seq(Lines)
      BY <1>seq
    <3> QED
      BY <1>seq, <3>1, <3>2, LogAssumption
  <2>2. /\ pc[t] \in {"truncate", "fresh"}
        /\ \E to \in {"fresh", "return"} : pc' = [pc EXCEPT ![t] = to]
    BY <1>12 DEF MigrateTruncate, MigrateFresh
  <2> QED
    BY <2>1, <2>2 DEF locks, locals
<1>13. ASSUME NEW t \in Threads, MergeOpen(t) PROVE TypeInv'
  BY <1>13, <1>seq DEF MergeOpen, locks
<1>14. ASSUME NEW t \in Threads, MergeHalf(t) \/ MergeRest(t) PROVE TypeInv'
  <2>1. arg[t] \in Lines /\ {"torn", "junk"} \subseteq Lines
    BY <1>14 DEF MergeHalf, MergeRest, Lines
  <2>2. log' = log \/ (stream[t] = "live" /\ log' \in Seq(Lines))
    <3>1. stream[t] = "live" => log \in Seq(Lines)
      OBVIOUS
    <3>2. CASE MergeHalf(t)
      BY <2>1, <3>1, <3>2, LineTypes DEF MergeHalf
    <3>3. CASE MergeRest(t)
      BY <2>1, <3>1, <3>3, LineTypes, AppendProperties DEF MergeRest
    <3> QED
      BY <1>14, <3>2, <3>3
  <2> QED
    <3>1. /\ pc[t] \in {"half", "rest"}
          /\ \E to \in {"rest", "return"} : pc' = [pc EXCEPT ![t] = to]
          /\ UNCHANGED <<tmp, locks, locals>>
      BY <1>14 DEF MergeHalf, MergeRest
    <3>2. log' = log \/ log' # NoFile
      BY <2>2
    <3> QED
      BY <2>2, <3>1, <3>2 DEF locks, locals
<1>15. ASSUME NEW t \in Threads, Return(t) PROVE TypeInv'
  BY <1>15, <1>seq DEF Return, Forget, files, locks
<1>16. ASSUME NEW p \in Processes, Crash(p) PROVE TypeInv'
  BY <1>16, <1>seq DEF Crash, Forget
<1> QED
  BY StepCases, <1>1, <1>2, <1>3, <1>4, <1>5, <1>6, <1>7, <1>8, <1>9, <1>10,
     <1>11, <1>12, <1>13, <1>14, <1>15, <1>16

LEMMA InitTypes == Init => TypeInv
<1> SUFFICES ASSUME Init PROVE TypeInv
  OBVIOUS
<1>1. <<>> \in Seq(Lines) /\ <<"legacy">> \in Seq(Lines)
  BY DEF Lines
<1> QED
  BY <1>1 DEF Init, TypeInv, TypeOK, CallKnown,
              AppendSteps, QuerySteps, MigrateSteps, MergeSteps

(* core.hpp's file formats: whoever calls what, and whatever fails, every  *)
(* file is a sequence of known lines and every caller is inside its call.  *)
THEOREM TypeCorrect == Spec => []TypeOK
<1>1. TypeInv => TypeOK
  BY DEF TypeInv
<1> QED
  BY InitTypes, TypeStep, <1>1, PTL DEF Spec
-----------------------------------------------------------------------------
FileInv == HalfLive /\ Format

Premise == Orderly /\ Faults \cap {"read", "diskfull", "freshopen"} = {}

(* Orderly callers let nobody beside a migration or a merge. *)
LEMMA AloneStep == Orderly /\ TypeInv /\ Alone /\ [Next]_vars => Alone'
<1> SUFFICES ASSUME Orderly, TypeInv, Alone, [Next]_vars PROVE Alone'
  OBVIOUS
<1> USE DEF TypeInv, TypeOK, Alone
<1>1. CASE op' = op
  BY <1>1
<1>2. ASSUME NEW t \in Threads, NEW o \in Ops, NEW h \in Hashes, Call(t, o, h)
      PROVE  Alone'
  <2>1. \A u \in Threads \ {t} :
           op[u] = "none" \/ (o \notin {"migrate", "merge"} /\ op[u] \notin {"migrate", "merge"})
    BY <1>2 DEF Call, MayStart
  <2> QED
    BY <1>2, <2>1 DEF Call
<1>3. ASSUME NEW t \in Threads, Return(t) PROVE Alone'
  BY <1>3 DEF Return, Forget
<1>4. ASSUME NEW p \in Processes, Crash(p) PROVE Alone'
  BY <1>4 DEF Crash, Forget
<1>5. \/ op' = op
      \/ \E t \in Threads, o \in Ops, h \in Hashes : Call(t, o, h)
      \/ \E t \in Threads : Return(t)
      \/ \E p \in Processes : Crash(p)
  BY StepCases DEF vars, locals, AppendLock, AppendLockThrows, AppendRead, AppendWrite,
     AppendTmpFails, AppendRename, AppendRenameFails, AppendUnlock, QueryLock,
     QueryLockFails, QueryScan, QueryUnlock, MigrateCheck, MigrateBackup,
     MigrateTruncate, MigrateFresh, MergeOpen, MergeHalf, MergeRest
<1> QED
  BY <1>1, <1>2, <1>3, <1>4, <1>5

LEMMA AloneOp ==
    ASSUME TypeInv, Alone
    PROVE  /\ \A t, u \in Threads :
                 t # u /\ pc[t] \in MigrateSteps \cup MergeSteps => pc[u] = "idle"
           /\ \A t, u \in Threads :
                 op[t] \in {"append", "query"} =>
                    op[u] \notin {"migrate", "merge"}
                    /\ pc[u] \notin MigrateSteps \cup MergeSteps
BY DEF TypeInv, TypeOK, CallKnown, Alone

(* The lock excludes other writers, whatever fails. *)
LEMMA LockStep == TypeInv /\ LockHeld /\ [Next]_vars => LockHeld'
<1> SUFFICES ASSUME TypeInv, LockHeld, [Next]_vars PROVE LockHeld'
  OBVIOUS
<1> USE LogAssumption DEF TypeInv, TypeOK, LockHeld, Goto
<1>1. CASE UNCHANGED vars
  BY <1>1 DEF vars
<1>2. ASSUME NEW t \in Threads, NEW o \in Ops, NEW h \in Hashes, Call(t, o, h)
      PROVE  LockHeld'
  <2>1. FirstStep(o) \notin {"read", "write", "rename", "unlock"}
    BY DEF FirstStep
  <2> QED
    BY <1>2, <2>1 DEF Call, locks
<1>3. ASSUME NEW t \in Threads, AppendLock(t) \/ AppendUnlock(t) PROVE LockHeld'
  BY <1>3 DEF AppendLock, AppendUnlock
<1>4. ASSUME NEW t \in Threads,
             \/ AppendRead(t) \/ AppendWrite(t) \/ AppendLockThrows(t) \/ AppendTmpFails(t)
             \/ AppendRenameFails(t) \/ AppendRename(t)
      PROVE  LockHeld'
  <2>1. /\ lockEx' = lockEx
        /\ \/ pc[t] = "lock" /\ pc' = [pc EXCEPT ![t] = "return"]
           \/ /\ pc[t] \in {"read", "write", "rename"}
              /\ \E to \in {"write", "rename", "unlock"} : pc' = [pc EXCEPT ![t] = to]
    BY <1>4 DEF AppendRead, AppendWrite, AppendLockThrows, AppendTmpFails,
                AppendRenameFails, AppendRename, locks
  <2> QED
    BY <2>1
<1>5. ASSUME NEW t \in Threads,
             \/ QueryLock(t) \/ QueryLockFails(t) \/ QueryScan(t) \/ QueryUnlock(t)
             \/ MigrateCheck(t) \/ MigrateBackup(t) \/ MigrateTruncate(t) \/ MigrateFresh(t)
             \/ MergeOpen(t) \/ MergeHalf(t) \/ MergeRest(t)
      PROVE  LockHeld'
  <2>1. /\ lockEx' = lockEx
        /\ \E to \in {"scan", "unlockSh", "backup", "truncate", "fresh", "half", "rest", "return"} :
              pc' = [pc EXCEPT ![t] = to]
    BY <1>5 DEF QueryLock, QueryLockFails, QueryScan, QueryUnlock, MigrateCheck,
       MigrateBackup, MigrateTruncate, MigrateFresh, MergeOpen, MergeHalf, MergeRest, locks
  <2> QED
    BY <2>1
<1>6. ASSUME NEW t \in Threads, Return(t) PROVE LockHeld'
  BY <1>6 DEF Return, locks
<1>7. ASSUME NEW p \in Processes, Crash(p) PROVE LockHeld'
  BY <1>7 DEF Crash
<1> QED
  BY StepCases, <1>1, <1>2, <1>3, <1>4, <1>5, <1>6, <1>7

(* The temporary of the one that has the lock stays its own. *)
LEMMA TmpStep == Premise /\ TypeInv /\ LockHeld /\ TmpKept /\ [Next]_vars => TmpKept'
<1> SUFFICES ASSUME Premise, TypeInv, LockHeld, TmpKept, [Next]_vars PROVE TmpKept'
  OBVIOUS
<1> USE LogAssumption DEF TypeInv, TypeOK, LockHeld, TmpKept, Goto
<1>1. CASE UNCHANGED vars
  BY <1>1 DEF vars, Full
<1>same. \A u \in Threads :
            buf'[u] = buf[u] /\ arg'[u] = arg[u] => Full(u)' = Full(u)
  BY DEF Full
<1>2. ASSUME NEW t \in Threads, NEW o \in Ops, NEW h \in Hashes, Call(t, o, h)
      PROVE  TmpKept'
  <2>1. FirstStep(o) \notin {"read", "write", "rename", "unlock"}
    BY DEF FirstStep
  <2> QED
    BY <1>2, <1>same, <2>1 DEF Call, files, locks
<1>3. ASSUME NEW t \in Threads, AppendLock(t) \/ AppendUnlock(t) PROVE TmpKept'
  <2>1. CASE AppendLock(t)
    BY <2>1, <1>same DEF AppendLock, files, locals
  <2>2. CASE AppendUnlock(t)
    BY <2>2, <1>same DEF AppendUnlock, files, locals
  <2> QED
    BY <1>3, <2>1, <2>2
<1>4. ASSUME NEW t \in Threads,
             AppendLockThrows(t) \/ AppendTmpFails(t) \/ AppendRenameFails(t) \/ AppendRename(t)
      PROVE  TmpKept'
  <2>1. /\ tmp' = tmp \/ tmp' = [tmp EXCEPT ![ProcOf[t]] = NoFile]
        /\ UNCHANGED <<lockEx, arg, buf>>
    BY <1>4 DEF AppendLockThrows, AppendTmpFails, AppendRenameFails, AppendRename,
                files, locks, locals
  <2>2. \/ pc[t] = "lock" /\ pc' = [pc EXCEPT ![t] = "return"]
        \/ pc[t] \in {"write", "rename"} /\ pc' = [pc EXCEPT ![t] = "unlock"]
    BY <1>4 DEF AppendLockThrows, AppendTmpFails, AppendRenameFails, AppendRename
  <2> QED
    BY <1>same, <2>1, <2>2
<1>5. ASSUME NEW t \in Threads, AppendRead(t) PROVE TmpKept'
  <2>1. /\ pc[t] = "read" /\ pc' = [pc EXCEPT ![t] = "write"]
        /\ UNCHANGED <<tmp, lockEx, arg>>
        /\ \A u \in Threads : u # t => buf'[u] = buf[u]
    BY <1>5 DEF AppendRead, files, locks
  <2> QED
    BY <1>same, <2>1
<1>6. ASSUME NEW t \in Threads, AppendWrite(t) PROVE TmpKept'
  <2>1. tmp' = [tmp EXCEPT ![ProcOf[t]] = Full(t)]
    BY <1>6 DEF AppendWrite, Full, Premise
  <2>2. /\ pc[t] = "write" /\ pc' = [pc EXCEPT ![t] = "rename"]
        /\ UNCHANGED <<lockEx, arg, buf>>
    BY <1>6 DEF AppendWrite, locks, locals
  <2>3. \A u \in Threads : pc'[u] = "rename" => u = t
    BY <2>2
  <2>4. ProcOf[t] \in Processes
    OBVIOUS
  <2> QED
    BY <1>same, <2>1, <2>2, <2>3, <2>4
<1>7. ASSUME NEW t \in Threads,
             \/ QueryLock(t) \/ QueryLockFails(t) \/ QueryScan(t) \/ QueryUnlock(t)
             \/ MigrateCheck(t) \/ MigrateBackup(t) \/ MigrateTruncate(t) \/ MigrateFresh(t)
             \/ MergeOpen(t) \/ MergeHalf(t) \/ MergeRest(t)
      PROVE  TmpKept'
  <2>1. /\ UNCHANGED <<tmp, lockEx, arg, buf>>
        /\ \E to \in {"scan", "unlockSh", "backup", "truncate", "fresh", "half", "rest", "return"} :
              pc' = [pc EXCEPT ![t] = to]
    BY <1>7 DEF QueryLock, QueryLockFails, QueryScan, QueryUnlock, MigrateCheck,
       MigrateBackup, MigrateTruncate, MigrateFresh, MergeOpen, MergeHalf, MergeRest,
       files, locks, locals
  <2> QED
    BY <1>same, <2>1
<1>8. ASSUME NEW t \in Threads, Return(t) PROVE TmpKept'
  BY <1>8, <1>same DEF Return, Forget, files, locks
<1>9. ASSUME NEW p \in Processes, Crash(p) PROVE TmpKept'
  BY <1>9, <1>same DEF Crash, Forget
<1> QED
  BY StepCases, <1>1, <1>2, <1>3, <1>4, <1>5, <1>6, <1>7, <1>8, <1>9
-----------------------------------------------------------------------------
(* What a rename puts in place is the log with its entry, or with the      *)
(* entry lost behind one that a dead merge left torn.                      *)
LEMMA RenameEffect ==
    ASSUME TypeInv, TmpKept, NoLostUpdate, NEW t \in Threads, AppendRename(t)
    PROVE  /\ Headed(log') /\ log' # NoFile
           /\ Parsed(log') \in {Parsed(log), Parsed(log) \cup {arg[t]}}
<1> USE DEF TypeInv, TypeOK, CallKnown, Goto
<1>1. pc[t] = "rename" /\ op[t] = "append" /\ arg[t] \in Hashes
  BY DEF AppendRename, AppendSteps
<1>2. log' = Full(t) /\ buf[t] = Contents(log)
  BY <1>1 DEF AppendRename, TmpKept, NoLostUpdate
<1>3. buf[t] \in Seq(Lines) /\ Parsed(buf[t]) = Parsed(log)
  <2>1. CASE log = NoFile
    <3>1. buf[t] = <<>> /\ <<>> \in Seq(Lines)
      BY <1>2, <2>1 DEF Contents
    <3>2. DOMAIN <<>> = {}
      OBVIOUS
    <3>3. Parsed(<<>>) = {}
      BY <3>2 DEF Parsed
    <3> QED
      BY <2>1, <3>1, <3>3 DEF Parsed
  <2>2. CASE log # NoFile
    BY <1>2, <2>2 DEF Contents
  <2> QED
    BY <2>1, <2>2
<1> DEFINE s == WithHeader(buf[t])
<1>4. s \in Seq(Lines) /\ Headed(s) /\ Parsed(s) = Parsed(log)
  BY <1>3, ParsedHeader
<1> HIDE DEF s
<1>5. Full(t) = WithEntry(s, arg[t])
  BY DEF Full, s
<1>6. arg[t] \in Lines /\ {arg[t]} \cap Hashes = {arg[t]}
  BY <1>1 DEF Lines
<1>7. /\ WithEntry(s, arg[t]) \in Seq(Lines)
      /\ Parsed(WithEntry(s, arg[t])) \in {Parsed(s), Parsed(s) \cup {arg[t]}}
      /\ Headed(WithEntry(s, arg[t]))
  BY <1>4, <1>6, ParsedEntry
<1> QED
  BY <1>2, <1>4, <1>5, <1>7, LogAssumption

(* Neither half of a merged entry is an entry of its own. *)
LEMMA HalfIsNoEntry ==
    ASSUME NEW s \in Seq(Lines), Headed(s)
    PROVE  /\ Headed(WithEntry(s, "torn")) /\ Parsed(WithEntry(s, "torn")) = Parsed(s)
           /\ Headed(Append(s, "junk")) /\ Parsed(Append(s, "junk")) = Parsed(s)
           /\ WithEntry(s, "torn") \in Seq(Lines) /\ Append(s, "junk") \in Seq(Lines)
<1>1. "torn" \in Lines /\ "junk" \in Lines
  BY DEF Lines
<1>2. {"torn"} \cap Hashes = {} /\ {"junk"} \cap Hashes = {}
  BY LogAssumption
<1>3. /\ WithEntry(s, "torn") \in Seq(Lines) /\ Headed(WithEntry(s, "torn"))
      /\ Parsed(WithEntry(s, "torn")) \in {Parsed(s), Parsed(s) \cup ({"torn"} \cap Hashes)}
  BY <1>1, ParsedEntry
<1>4. /\ Append(s, "junk") \in Seq(Lines) /\ Headed(Append(s, "junk"))
      /\ Parsed(Append(s, "junk")) = Parsed(s) \cup ({"junk"} \cap Hashes)
  BY <1>1, ParsedAppend
<1>5. Parsed(s) \cup {} = Parsed(s)
  OBVIOUS
<1> QED
  BY <1>2, <1>3, <1>4, <1>5

(* The two halves of an entry that is merged into a log with a header. *)
LEMMA MergeEffect ==
    ASSUME TypeInv, HalfLive, Format, NEW t \in Threads
    PROVE  /\ MergeOpen(t) => log' = log /\ log # NoFile /\ Headed(log)
           /\ MergeHalf(t) => Parsed(log') = Parsed(log) /\ Headed(log') /\ log' # NoFile
           /\ MergeRest(t) => /\ Headed(log') /\ log' # NoFile
                              /\ Parsed(log') \in {Parsed(log), Parsed(log) \cup {arg[t]}}
<1> USE DEF TypeInv, TypeOK, CallKnown, Goto, MergeSteps
<1>1. pc[t] \in MergeSteps =>
         log # NoFile /\ log \in Seq(Lines) /\ Headed(log) /\ arg[t] \in Hashes
  BY DEF Format, HasHeader
<1>2. MergeOpen(t) => log' = log
  BY <1>1 DEF MergeOpen, Contents
<1>3. ASSUME MergeHalf(t)
      PROVE  Parsed(log') = Parsed(log) /\ Headed(log') /\ log' # NoFile
  <2>1. pc[t] = "half" /\ log' = WithEntry(log, "torn")
    BY <1>3 DEF MergeHalf, HalfLive
  <2>2. /\ WithEntry(log, "torn") \in Seq(Lines) /\ Headed(WithEntry(log, "torn"))
        /\ Parsed(WithEntry(log, "torn")) = Parsed(log)
    BY <1>1, <2>1, HalfIsNoEntry
  <2> QED
    BY <2>1, <2>2, LogAssumption
<1>4. ASSUME MergeRest(t)
      PROVE  /\ Headed(log') /\ log' # NoFile
             /\ Parsed(log') \in {Parsed(log), Parsed(log) \cup {arg[t]}}
  <2>1. pc[t] = "rest" /\ stream[t] = "live"
    BY <1>4 DEF MergeRest, HalfLive
  <2>2. arg[t] \in Lines /\ {arg[t]} \cap Hashes = {arg[t]}
    BY <1>1, <2>1 DEF Lines
  <2>3. CASE log # <<>> /\ log[Len(log)] = "torn"
    <3> DEFINE r == [log EXCEPT ![Len(log)] = arg[t]]
    <3>1. r \in Seq(Lines) /\ Parsed(r) = Parsed(log) \cup {arg[t]} /\ Headed(r)
      BY <1>1, <2>1, <2>2, <2>3, ParsedLast
    <3>2. log' = r
      BY <1>4, <2>1, <2>3 DEF MergeRest
    <3> HIDE DEF r
    <3> QED
      BY <3>1, <3>2, LogAssumption
  <2>4. CASE ~(log # <<>> /\ log[Len(log)] = "torn")
    <3>1. log' = Append(log, "junk")
      BY <1>4, <2>1, <2>4 DEF MergeRest
    <3>2. /\ Append(log, "junk") \in Seq(Lines) /\ Headed(Append(log, "junk"))
          /\ Parsed(Append(log, "junk")) = Parsed(log)
      BY <1>1, <2>1, HalfIsNoEntry
    <3> QED
      BY <3>1, <3>2, LogAssumption
  <2> QED
    BY <2>3, <2>4
<1> QED
  BY <1>1, <1>2, <1>3, <1>4 DEF MergeOpen

(* A migration leaves an empty log, or the V1 one, and gives it a header. *)
LEMMA MigrateEffect ==
    ASSUME TypeInv, Format, NEW t \in Threads
    PROVE  /\ MigrateBackup(t) \/ MigrateTruncate(t) \/ MigrateFresh(t) =>
                Parsed(log) = {} /\ Parsed(log') = {}
           /\ MigrateFresh(t) => Headed(log') /\ log' # NoFile
<1> USE DEF TypeInv, TypeOK, CallKnown, Goto, MigrateSteps
<1>1. ASSUME MigrateBackup(t) \/ MigrateTruncate(t) \/ MigrateFresh(t)
      PROVE  Parsed(log) = {} /\ log' \in {log, NoFile, <<>>, <<"header">>}
  <2>1. pc[t] \in {"backup", "truncate", "fresh"}
    BY <1>1 DEF MigrateBackup, MigrateTruncate, MigrateFresh
  <2>2. Parsed(log) = {}
    BY <2>1 DEF Format
  <2>3. log' \in {log, NoFile, <<>>, <<"header">>}
    BY <1>1 DEF MigrateBackup, MigrateTruncate, MigrateFresh
  <2> QED
    BY <2>2, <2>3
<1>2. /\ <<>> \in Seq(Lines) /\ <<"header">> \in Seq(Lines)
      /\ <<"header">> = WithHeader(<<>>)
  <2>1. "header" \in Lines
    BY DEF Lines
  <2> QED
    BY <2>1 DEF WithHeader
<1>3. Parsed(<<>>) = {} /\ Parsed(NoFile) = {}
  <2>1. DOMAIN <<>> = {}
    OBVIOUS
  <2> QED
    BY <2>1 DEF Parsed
<1>4. Parsed(<<"header">>) = {} /\ Headed(<<"header">>)
  BY <1>2, <1>3, ParsedHeader
<1>5. MigrateFresh(t) => log' = <<"header">>
  BY DEF MigrateFresh
<1> QED
  BY <1>1, <1>2, <1>3, <1>4, <1>5, LogAssumption
-----------------------------------------------------------------------------
(* A step that leaves the log and its format alone. *)
LEMMA QuietStep ==
    ASSUME TypeInv, FileInv, NEW t \in Threads,
           UNCHANGED <<log, stream, migrated>>,
           NEW to \in {"lock", "read", "write", "rename", "unlock", "lockSh", "scan",
                       "unlockSh", "check", "truncate", "open", "return"},
           pc' = [pc EXCEPT ![t] = to],
           \A u \in Threads \ {t} : op'[u] = op[u],
           op'[t] = "merge" => migrated,
           op'[t] = "migrate" /\ to = "return" => HasHeader,
           to = "truncate" => Parsed(log) = {} /\ ~migrated
    PROVE  FileInv'
<1> USE DEF TypeInv, TypeOK, FileInv
<1>1. Parsed(log)' = Parsed(log) /\ HasHeader' = HasHeader
  BY DEF Parsed, HasHeader, Headed
<1>2. HalfLive'
  BY DEF HalfLive
<1>3. Format'
  BY <1>1 DEF Format
<1> QED
  BY <1>2, <1>3

(* The log gets a header before its first entry. *)
LEMMA FileStep == Premise /\ LogInv /\ [Next]_vars => FileInv'
<1> SUFFICES ASSUME Premise, LogInv, [Next]_vars PROVE FileInv'
  OBVIOUS
<1> USE LogAssumption DEF LogInv, TypeInv, TypeOK, FileInv, Goto
<1>0. /\ HasHeader' <=> log' # NoFile /\ Headed(log')
      /\ Parsed(log)' = Parsed(log')
  BY DEF HasHeader, Headed, Parsed
<1>1. CASE UNCHANGED vars
  <2>1. Parsed(log)' = Parsed(log) /\ HasHeader' = HasHeader
    BY <1>1 DEF vars, Parsed, HasHeader, Headed
  <2> QED
    BY <1>1, <2>1 DEF vars, HalfLive, Format
<1>2. ASSUME NEW t \in Threads, NEW o \in Ops, NEW h \in Hashes, Call(t, o, h)
      PROVE  FileInv'
  <2>1. FirstStep(o) \in {"lock", "lockSh", "check", "open"} /\ pc[t] = "idle"
    BY <1>2 DEF FirstStep, Call
  <2>2. o = "merge" => migrated
    BY <1>2 DEF Call, MayStart, Premise
  <2> QED
    BY <1>2, <2>1, <2>2, QuietStep DEF Call, files
<1>3. ASSUME NEW t \in Threads,
             \/ AppendLock(t) \/ AppendLockThrows(t) \/ AppendRead(t) \/ AppendWrite(t)
             \/ AppendTmpFails(t) \/ AppendRenameFails(t) \/ AppendUnlock(t)
             \/ QueryLock(t) \/ QueryLockFails(t) \/ QueryScan(t) \/ QueryUnlock(t)
      PROVE  FileInv'
  <2>1. /\ UNCHANGED <<log, stream, migrated, op>>
        /\ pc[t] \in AppendSteps \cup QuerySteps
        /\ \E to \in {"read", "write", "rename", "unlock", "scan", "unlockSh", "return"} :
              pc' = [pc EXCEPT ![t] = to]
    BY <1>3 DEF AppendLock, AppendLockThrows, AppendRead, AppendWrite, AppendTmpFails,
       AppendRenameFails, AppendUnlock, QueryLock, QueryLockFails, QueryScan,
       QueryUnlock, files, locks, locals, AppendSteps, QuerySteps
  <2>2. op[t] \in {"append", "query"}
    BY <2>1 DEF CallKnown, AppendSteps, QuerySteps
  <2> QED
    BY <2>1, <2>2, QuietStep
<1>4. ASSUME NEW t \in Threads, AppendRename(t) PROVE FileInv'
  <2>1. HasHeader'
    BY <1>0, <1>4, RenameEffect
  <2>2. \A u \in Threads : pc'[u] \notin MigrateSteps \cup MergeSteps
    BY <1>4, AloneOp DEF AppendRename, AppendSteps, MigrateSteps, MergeSteps, CallKnown
  <2>3. op' = op /\ migrated' = migrated
    BY <1>4 DEF AppendRename
  <2>4. HalfLive'
    BY <2>2 DEF HalfLive, MergeSteps
  <2> QED
    BY <2>1, <2>2, <2>3, <2>4 DEF Format, MigrateSteps
<1>5. ASSUME NEW t \in Threads, MigrateCheck(t) PROVE FileInv'
  <2>1. /\ UNCHANGED <<log, stream, migrated, op>> /\ pc[t] = "check"
        /\ pc' = [pc EXCEPT ![t] = IF log = NoFile THEN "truncate"
                                   ELSE IF WithHeader(log) = log THEN "return" ELSE "backup"]
    BY <1>5 DEF MigrateCheck, files, locals, Premise
  <2>2. op[t] = "migrate"
    BY <2>1 DEF CallKnown, MigrateSteps
  <2>3. CASE log # NoFile /\ WithHeader(log) = log
    <3>1. HasHeader
      BY <2>3, ParsedHeader DEF HasHeader
    <3> QED
      BY <2>1, <2>2, <2>3, <3>1, QuietStep
  <2>4. CASE log = NoFile \/ WithHeader(log) # log
    <3>1. ~HasHeader
      BY <2>4 DEF HasHeader, Headed, WithHeader
    <3>2. Parsed(log) = {} /\ ~migrated
      BY <3>1 DEF Format
    <3>3. CASE log = NoFile
      BY <2>1, <2>2, <3>2, <3>3, QuietStep
    <3>4. CASE log # NoFile
      <4>1. pc' = [pc EXCEPT ![t] = "backup"]
        BY <2>1, <2>4, <3>4
      <4>2. HalfLive'
        BY <2>1, <4>1 DEF HalfLive
      <4>3. Parsed(log)' = {} /\ ~migrated'
        BY <2>1, <3>2, <1>0
      <4>4. \A u \in Threads : op'[u] = "merge" => migrated'
        BY <2>1 DEF Format
      <4>5. \A u \in Threads :
               op'[u] = "migrate" /\ pc'[u] = "return" => HasHeader'
        BY <2>1, <4>1, <1>0 DEF Format, HasHeader
      <4> QED
        BY <4>2, <4>3, <4>4, <4>5 DEF Format
    <3> QED
      BY <3>3, <3>4
  <2> QED
    BY <2>3, <2>4
<1>6. ASSUME NEW t \in Threads, MigrateBackup(t) \/ MigrateTruncate(t) \/ MigrateFresh(t)
      PROVE  FileInv'
  <2>1. Parsed(log') = {} /\ (MigrateFresh(t) => HasHeader')
    BY <1>0, <1>6, MigrateEffect
  <2>2. /\ pc[t] \in {"backup", "truncate", "fresh"}
        /\ \E to \in {"truncate", "fresh", "return"} :
              /\ pc' = [pc EXCEPT ![t] = to]
              /\ to = "return" => MigrateFresh(t)
        /\ UNCHANGED <<op, migrated>>
    BY <1>6 DEF MigrateBackup, MigrateTruncate, MigrateFresh, locals, Premise
  <2>3. \A u \in Threads \ {t} : pc'[u] = "idle" /\ op'[u] = "none"
    BY <2>2, AloneOp DEF MigrateSteps, CallKnown
  <2>4. ~migrated' /\ op'[t] = "migrate"
    BY <2>2 DEF Format, CallKnown, MigrateSteps
  <2>5. HalfLive'
    BY <2>2, <2>3 DEF HalfLive
  <2>6. Format'
    BY <1>0, <2>1, <2>2, <2>3, <2>4 DEF Format
  <2> QED
    BY <2>5, <2>6
<1>7. ASSUME NEW t \in Threads, MergeOpen(t) \/ MergeHalf(t) \/ MergeRest(t)
      PROVE  FileInv'
  <2>1. HasHeader'
    BY <1>0, <1>7, MergeEffect
  <2>2. /\ pc[t] \in MergeSteps /\ UNCHANGED <<op, migrated>>
        /\ \E to \in {"half", "rest", "return"} : pc' = [pc EXCEPT ![t] = to]
    BY <1>7 DEF MergeOpen, MergeHalf, MergeRest, MergeSteps, locals
  <2>3. \A u \in Threads \ {t} : pc'[u] = "idle" /\ op'[u] = "none"
    BY <2>2, AloneOp DEF CallKnown
  <2>4. op'[t] = "merge" /\ migrated'
    BY <2>2 DEF Format, CallKnown
  <2>5. Format'
    BY <2>1, <2>2, <2>3, <2>4 DEF Format
  <2>6. stream'[t] = "live" \/ pc'[t] \notin {"half", "rest"}
    BY <1>7 DEF MergeOpen, MergeHalf, MergeRest, HalfLive, locals
  <2>7. HalfLive'
    BY <2>2, <2>3, <2>6 DEF HalfLive
  <2> QED
    BY <2>5, <2>7
<1>8. ASSUME NEW t \in Threads, Return(t) PROVE FileInv'
  <2>1. /\ log' = log /\ pc[t] = "return" /\ pc' = [pc EXCEPT ![t] = "idle"]
        /\ migrated' = (migrated \/ op[t] = "migrate")
        /\ op'[t] = "none"
        /\ \A u \in Threads \ {t} : op'[u] = op[u] /\ stream'[u] = stream[u]
    BY <1>8 DEF Return, Forget, files
  <2>2. HalfLive'
    BY <2>1 DEF HalfLive
  <2>3. Parsed(log)' = Parsed(log) /\ HasHeader' = HasHeader
    BY <1>0, <2>1 DEF HasHeader
  <2>4. op[t] = "migrate" => HasHeader
    BY <2>1 DEF Format
  <2>5. op[t] = "migrate" =>
           \A u \in Threads \ {t} : pc[u] \notin {"backup", "truncate", "fresh"}
    BY DEF Alone, CallKnown, MigrateSteps
  <2>6. Format'
    BY <2>1, <2>3, <2>4, <2>5 DEF Format
  <2> QED
    BY <2>2, <2>6
<1>9. ASSUME NEW p \in Processes, Crash(p) PROVE FileInv'
  <2> DEFINE mine == {t \in Threads : ProcOf[t] = p}
  <2>1. /\ log' = log /\ migrated' = migrated
        /\ \A t \in Threads : pc'[t] = IF t \in mine THEN "idle" ELSE pc[t]
        /\ \A t \in Threads : op'[t] = IF t \in mine THEN "none" ELSE op[t]
        /\ \A t \in Threads : stream'[t] = IF t \in mine THEN "closed" ELSE stream[t]
    BY <1>9 DEF Crash, Forget
  <2> HIDE DEF mine
  <2>2. HalfLive'
    BY <2>1 DEF HalfLive
  <2>3. Parsed(log)' = Parsed(log) /\ HasHeader' = HasHeader
    BY <1>0, <2>1 DEF HasHeader
  <2>4. Format'
    BY <2>1, <2>3 DEF Format
  <2> QED
    BY <2>2, <2>4
<1> QED
  BY StepCases, <1>1, <1>2, <1>3, <1>4, <1>5, <1>6, <1>7, <1>8, <1>9
-----------------------------------------------------------------------------
(* Whoever is about to replace the log holds the lock, and those who take  *)
(* no lock are not beside it.                                              *)
UpdateInv == TypeInv /\ LockHeld /\ Alone /\ NoLostUpdate

LEMMA UpdateStep ==
    "read" \notin Faults /\ UpdateInv /\ [Next]_vars => NoLostUpdate'
<1> SUFFICES ASSUME "read" \notin Faults, UpdateInv, [Next]_vars PROVE NoLostUpdate'
  OBVIOUS
<1> USE LogAssumption DEF UpdateInv, TypeInv, TypeOK, NoLostUpdate, Goto
<1>0. Contents(log)' = Contents(log')
  BY DEF Contents
<1>1. CASE UNCHANGED vars
  BY <1>1 DEF vars, Contents
<1>2. ASSUME NEW t \in Threads, NEW o \in Ops, NEW h \in Hashes, Call(t, o, h)
      PROVE  NoLostUpdate'
  <2>1. FirstStep(o) \notin {"write", "rename"}
    BY DEF FirstStep
  <2> QED
    BY <1>0, <1>2, <2>1 DEF Call, files
<1>3. ASSUME NEW t \in Threads,
             \/ AppendLock(t) \/ AppendLockThrows(t) \/ AppendWrite(t)
             \/ AppendTmpFails(t) \/ AppendRenameFails(t) \/ AppendUnlock(t)
             \/ QueryLock(t) \/ QueryLockFails(t) \/ QueryScan(t) \/ QueryUnlock(t)
             \/ MigrateCheck(t)
      PROVE  NoLostUpdate'
  <2>1. /\ UNCHANGED <<log, buf>>
        /\ \E to \in {"read", "rename", "unlock", "scan", "unlockSh", "truncate",
                      "backup", "return"} :
              /\ pc' = [pc EXCEPT ![t] = to]
              /\ to = "rename" => pc[t] = "write"
    BY <1>3 DEF AppendLock, AppendLockThrows, AppendWrite, AppendTmpFails,
       AppendRenameFails, AppendUnlock, QueryLock, QueryLockFails, QueryScan,
       QueryUnlock, MigrateCheck, files, locks, locals
  <2> QED
    BY <1>0, <2>1
<1>4. ASSUME NEW t \in Threads, AppendRead(t) PROVE NoLostUpdate'
  <2>1. log' = log /\ buf' = [buf EXCEPT ![t] = Contents(log)]
    BY <1>4 DEF AppendRead, files
  <2>2. Contents(log) \in Seq(Lines)
    BY DEF Contents
  <2> QED
    BY <1>0, <1>4, <2>1, <2>2 DEF AppendRead
<1>5. ASSUME NEW t \in Threads, AppendRename(t) PROVE NoLostUpdate'
  BY <1>5 DEF AppendRename, LockHeld
<1>6. ASSUME NEW t \in Threads,
             \/ MigrateBackup(t) \/ MigrateTruncate(t) \/ MigrateFresh(t)
             \/ MergeOpen(t) \/ MergeHalf(t) \/ MergeRest(t)
      PROVE  NoLostUpdate'
  <2>1. /\ pc[t] \in MigrateSteps \cup MergeSteps
        /\ \E to \in {"truncate", "fresh", "half", "rest", "return"} :
              pc' = [pc EXCEPT ![t] = to]
    BY <1>6 DEF MigrateBackup, MigrateTruncate, MigrateFresh, MergeOpen, MergeHalf,
       MergeRest, MigrateSteps, MergeSteps
  <2>2. \A u \in Threads \ {t} : pc[u] = "idle"
    BY <2>1, AloneOp
  <2> QED
    BY <2>1, <2>2
<1>7. ASSUME NEW t \in Threads, Return(t) PROVE NoLostUpdate'
  BY <1>0, <1>7 DEF Return, Forget, files
<1>8. ASSUME NEW p \in Processes, Crash(p) PROVE NoLostUpdate'
  BY <1>0, <1>8 DEF Crash, Forget
<1> QED
  BY StepCases, <1>1, <1>2, <1>3, <1>4, <1>5, <1>6, <1>7, <1>8

LEMMA InitLog == Init => LogInv
<1> SUFFICES ASSUME Init PROVE LogInv
  OBVIOUS
<1>1. Parsed(log) = {}
  <2>1. CASE log = NoFile
    BY <2>1 DEF Parsed
  <2>2. CASE log = <<"legacy">>
    <3>1. "legacy" \notin Hashes /\ {log[i] : i \in DOMAIN log} = {"legacy"}
      BY <2>2, LogAssumption
    <3> QED
      BY <3>1 DEF Parsed
  <2> QED
    BY <2>1, <2>2 DEF Init
<1>2. TypeInv
  BY InitTypes
<1> QED
  BY <1>1, <1>2 DEF Init, LogInv, LockHeld, TmpKept, Alone, HalfLive, Format, NoLostUpdate

LEMMA LogStep == Premise /\ LogInv /\ [Next]_vars => LogInv'
<1>1. Premise => Orderly /\ "read" \notin Faults
  BY DEF Premise
<1> QED
  BY <1>1, TypeStep, AloneStep, LockStep, TmpStep, FileStep, UpdateStep
     DEF LogInv, FileInv, UpdateInv

LEMMA LogAlways == Premise => (Spec => []LogInv)
<1>1. Premise /\ LogInv /\ [Next]_vars => LogInv'
  BY LogStep
<1>2. Init => LogInv
  BY InitLog
<1> QED
  <2> SUFFICES ASSUME Premise PROVE Spec => []LogInv
    OBVIOUS
  <2>1. LogInv /\ [Next]_vars => LogInv'
    BY <1>1
  <2> QED
    BY <1>2, <2>1, PTL DEF Spec

(* core.hpp, FIX-2: with callers that migrate and merge alone, as the      *)
(* synchronisation before the evolution cycle does, no update of the log   *)
(* is lost, unless the log cannot be read.                                 *)
THEOREM UpdatesKept ==
    ASSUME Orderly, "read" \notin Faults
    PROVE  Spec => []NoLostUpdate
<1>1. Init => UpdateInv
  BY InitLog DEF LogInv, UpdateInv
<1>2. UpdateInv /\ [Next]_vars => UpdateInv'
  BY TypeStep, AloneStep, LockStep, UpdateStep DEF UpdateInv
<1>3. UpdateInv => NoLostUpdate
  BY DEF UpdateInv
<1> QED
  BY <1>1, <1>2, <1>3, PTL DEF Spec
-----------------------------------------------------------------------------
(* No file of the log is ever cut short.  This takes neither the lock nor  *)
(* a log that can be read: each append writes a whole temporary, whatever  *)
(* it has read, and the rename is atomic.                                  *)
Whole == Hashes \cup {"header", "legacy"}

LogWhole ==
    \/ log = NoFile
    \/ log \in Seq(Whole)
    \/ \E t \in Threads : pc[t] = "rest"

HalfWhole ==
    \A t \in Threads :
        /\ pc[t] \in {"half", "rest"} => stream[t] = "live"
        /\ pc[t] = "rest" => \E s \in Seq(Whole) : log = Append(s, "torn")

TmpWhole == \A p \in Processes : tmp[p] = NoFile \/ tmp[p] \in Seq(Whole)

BufWhole == \A t \in Threads : buf[t] \in Seq(Whole)

WholeInv == TypeInv /\ Alone /\ LogWhole /\ HalfWhole /\ TmpWhole /\ BufWhole

(* In a whole log an entry is a line of its own, and a whole one. *)
LEMMA WholeEntry ==
    ASSUME NEW s \in Seq(Whole)
    PROVE  /\ s \in Seq(Lines)
           /\ WithHeader(s) \in Seq(Whole)
           /\ \A x : WithEntry(s, x) = Append(s, x)
           /\ \A h \in Hashes : Append(s, h) \in Seq(Whole)
<1>1. s \in Seq(Lines)
  <2>1. Whole \subseteq Lines
    BY DEF Whole, Lines
  <2> QED
    BY <2>1, SeqMonotonic
<1>2. WithHeader(s) \in Seq(Whole)
  <2>1. <<"header">> \in Seq(Whole)
    BY DEF Whole
  <2> QED
    BY <2>1, ConcatProperties DEF WithHeader
<1>3. ASSUME NEW x PROVE WithEntry(s, x) = Append(s, x)
  <2>1. s # <<>> => s[Len(s)] \in Whole
    BY EmptySeq, LenProperties, ElementOfSeq
  <2>2. "torn" \notin Whole
    BY LogAssumption DEF Whole
  <2> QED
    BY <2>1, <2>2 DEF WithEntry
<1>4. ASSUME NEW h \in Hashes PROVE Append(s, h) \in Seq(Whole)
  BY AppendProperties DEF Whole
<1> QED
  BY <1>1, <1>2, <1>3, <1>4

(* The rest of an entry completes the line that its half has begun. *)
LEMMA RestCompletes ==
    ASSUME NEW s \in Seq(Lines), NEW h \in Lines
    PROVE  LET a == Append(s, "torn")
           IN  /\ a # <<>> /\ a[Len(a)] = "torn"
               /\ [a EXCEPT ![Len(a)] = h] = Append(s, h)
<1> DEFINE a == Append(s, "torn")
           b == Append(s, h)
           c == [a EXCEPT ![Len(a)] = h]
<1>1. "torn" \in Lines /\ Len(s) \in Nat
  BY LenProperties DEF Lines
<1>2. /\ a \in Seq(Lines) /\ a # <<>> /\ Len(a) = Len(s) + 1
      /\ \A i \in 1..Len(s) : a[i] = s[i]
      /\ a[Len(s) + 1] = "torn"
  BY <1>1, AppendProperties
<1>3. /\ b \in Seq(Lines) /\ Len(b) = Len(s) + 1
      /\ \A i \in 1..Len(s) : b[i] = s[i]
      /\ b[Len(s) + 1] = h
  BY AppendProperties
<1> HIDE DEF a, b
<1>4. /\ c \in Seq(Lines) /\ Len(c) = Len(a)
      /\ \A i \in 1..Len(a) : c[i] = IF i = Len(a) THEN h ELSE a[i]
  BY <1>1, <1>2, ExceptSeq
<1> HIDE DEF c
<1>5. c = b
  BY <1>1, <1>2, <1>3, <1>4, SeqEqual
<1> QED
  BY <1>2, <1>5 DEF a, b, c

(* Nothing is half merged beside an append or a migration. *)
LEMMA NoneHalf ==
    ASSUME WholeInv, NEW t \in Threads, pc[t] \in AppendSteps \cup MigrateSteps \cup {"open", "half"}
    PROVE  /\ \A u \in Threads \ {t} : pc[u] \notin {"half", "rest"}
           /\ log = NoFile \/ log \in Seq(Whole)
           /\ Contents(log) \in Seq(Whole)
<1>1. \A u \in Threads \ {t} : pc[u] \notin {"half", "rest"}
  BY AloneOp DEF WholeInv, TypeInv, TypeOK, CallKnown, AppendSteps, MigrateSteps, MergeSteps
<1>2. pc[t] # "rest"
  BY DEF AppendSteps, MigrateSteps
<1>3. log = NoFile \/ log \in Seq(Whole)
  BY <1>1, <1>2 DEF WholeInv, LogWhole
<1> QED
  BY <1>1, <1>3 DEF Contents

LEMMA WholeStep ==
    Orderly /\ Faults \cap {"diskfull", "mergecrash"} = {} /\ WholeInv /\ [Next]_vars
        => WholeInv'
<1> SUFFICES ASSUME Orderly, Faults \cap {"diskfull", "mergecrash"} = {}, WholeInv, [Next]_vars
             PROVE  LogWhole' /\ HalfWhole' /\ TmpWhole' /\ BufWhole'
  BY TypeStep, AloneStep DEF WholeInv
<1> DEFINE Goal == LogWhole' /\ HalfWhole' /\ TmpWhole' /\ BufWhole'
<1> USE LogAssumption DEF TypeInv, TypeOK, Goto
<1>0. /\ TypeInv /\ LogWhole /\ HalfWhole /\ TmpWhole /\ BufWhole
      /\ <<>> \in Seq(Whole) /\ <<"header">> \in Seq(Whole)
  BY DEF WholeInv, Whole
<1>1. CASE UNCHANGED vars
  BY <1>0, <1>1 DEF vars, LogWhole, HalfWhole, TmpWhole, BufWhole
<1>2. ASSUME NEW t \in Threads, NEW o \in Ops, NEW h \in Hashes, Call(t, o, h)
      PROVE  Goal
  <2>1. FirstStep(o) \notin {"half", "rest"}
    BY DEF FirstStep
  <2> QED
    BY <1>0, <1>2, <2>1 DEF Call, files, LogWhole, HalfWhole, TmpWhole, BufWhole
<1>3. ASSUME NEW t \in Threads,
             \/ AppendLock(t) \/ AppendLockThrows(t) \/ AppendTmpFails(t)
             \/ AppendRenameFails(t) \/ AppendUnlock(t)
             \/ QueryLock(t) \/ QueryLockFails(t) \/ QueryScan(t) \/ QueryUnlock(t)
             \/ MigrateCheck(t)
      PROVE  Goal
  <2>1. /\ UNCHANGED <<log, stream, buf>>
        /\ tmp' = tmp \/ tmp' = [tmp EXCEPT ![ProcOf[t]] = NoFile]
        /\ pc[t] \notin {"half", "rest"}
        /\ \E to \in {"read", "unlock", "scan", "unlockSh", "truncate", "backup", "return"} :
              pc' = [pc EXCEPT ![t] = to]
    BY <1>3 DEF AppendLock, AppendLockThrows, AppendTmpFails,
       AppendRenameFails, AppendUnlock, QueryLock, QueryLockFails, QueryScan,
       QueryUnlock, MigrateCheck, files, locks, locals
  <2> QED
    BY <1>0, <2>1 DEF LogWhole, HalfWhole, TmpWhole, BufWhole
<1>4. ASSUME NEW t \in Threads, AppendRead(t) PROVE Goal
  <2>1. /\ pc[t] = "read" /\ pc' = [pc EXCEPT ![t] = "write"]
        /\ UNCHANGED <<log, tmp, stream>>
        /\ \E s \in {Contents(log), <<>>} : buf' = [buf EXCEPT ![t] = s]
    BY <1>4 DEF AppendRead, files
  <2>2. Contents(log) \in Seq(Whole)
    BY <2>1, NoneHalf DEF AppendSteps
  <2> QED
    BY <1>0, <2>1, <2>2 DEF LogWhole, HalfWhole, TmpWhole, BufWhole
<1>5. ASSUME NEW t \in Threads, AppendWrite(t) PROVE Goal
  <2>1. /\ pc[t] = "write" /\ pc' = [pc EXCEPT ![t] = "rename"]
        /\ UNCHANGED <<log, buf, stream>>
        /\ tmp' = [tmp EXCEPT ![ProcOf[t]] = Full(t)]
    BY <1>5 DEF AppendWrite, Full, locals
  <2>2. arg[t] \in Hashes
    BY <1>0, <2>1 DEF CallKnown, AppendSteps
  <2>3. Full(t) \in Seq(Whole)
    <3>1. WithHeader(buf[t]) \in Seq(Whole)
      BY <1>0, WholeEntry DEF BufWhole
    <3> QED
      <4>1. /\ WithEntry(WithHeader(buf[t]), arg[t]) = Append(WithHeader(buf[t]), arg[t])
            /\ Append(WithHeader(buf[t]), arg[t]) \in Seq(Whole)
        BY <2>2, <3>1, WholeEntry
      <4> QED
        BY <4>1 DEF Full
  <2> QED
    BY <1>0, <2>1, <2>3 DEF LogWhole, HalfWhole, TmpWhole, BufWhole
<1>6. ASSUME NEW t \in Threads, AppendRename(t) PROVE Goal
  <2>1. /\ pc[t] = "rename" /\ pc' = [pc EXCEPT ![t] = "unlock"]
        /\ log' = tmp[ProcOf[t]] /\ tmp[ProcOf[t]] # NoFile
        /\ tmp' = [tmp EXCEPT ![ProcOf[t]] = NoFile]
        /\ buf' = buf
    BY <1>6 DEF AppendRename
  <2>2. log' \in Seq(Whole) /\ TmpWhole' /\ BufWhole'
    BY <1>0, <2>1 DEF TmpWhole, BufWhole
  <2>3. \A u \in Threads : pc'[u] \notin {"half", "rest"}
    BY <2>1, NoneHalf DEF AppendSteps
  <2> QED
    BY <2>2, <2>3 DEF LogWhole, HalfWhole
<1>7. ASSUME NEW t \in Threads, MigrateBackup(t) \/ MigrateTruncate(t) \/ MigrateFresh(t)
      PROVE  Goal
  <2>1. /\ pc[t] \in MigrateSteps
        /\ \E to \in {"truncate", "fresh", "return"} : pc' = [pc EXCEPT ![t] = to]
        /\ UNCHANGED <<tmp, buf>>
        /\ log' \in {log, NoFile, <<>>, <<"header">>}
    BY <1>7 DEF MigrateBackup, MigrateTruncate, MigrateFresh, MigrateSteps, locals
  <2>2. log = NoFile \/ log \in Seq(Whole)
    BY <2>1, NoneHalf
  <2>3. log' = NoFile \/ log' \in Seq(Whole)
    BY <1>0, <2>1, <2>2
  <2>4. \A u \in Threads : pc'[u] \notin {"half", "rest"}
    <3>1. \A u \in Threads \ {t} : pc[u] \notin {"half", "rest"}
      BY <2>1, NoneHalf
    <3> QED
      BY <1>0, <2>1, <3>1
  <2> QED
    BY <1>0, <2>1, <2>3, <2>4 DEF LogWhole, HalfWhole, TmpWhole, BufWhole
<1>8. ASSUME NEW t \in Threads, MergeOpen(t) PROVE Goal
  <2>1. /\ pc[t] = "open" /\ pc' \in {[pc EXCEPT ![t] = "return"], [pc EXCEPT ![t] = "half"]}
        /\ log' = Contents(log) /\ stream' = [stream EXCEPT ![t] = "live"]
        /\ UNCHANGED <<tmp, buf>>
    BY <1>8 DEF MergeOpen
  <2>2. log' \in Seq(Whole) /\ \A u \in Threads : u # t => pc'[u] \notin {"half", "rest"}
    <3>1. /\ Contents(log) \in Seq(Whole)
          /\ \A u \in Threads \ {t} : pc[u] \notin {"half", "rest"}
      BY <2>1, NoneHalf
    <3> QED
      BY <1>0, <2>1, <3>1
  <2> QED
    BY <1>0, <2>1, <2>2 DEF LogWhole, HalfWhole, TmpWhole, BufWhole
<1>9. ASSUME NEW t \in Threads, MergeHalf(t) PROVE Goal
  <2>1. /\ pc[t] = "half" /\ pc' = [pc EXCEPT ![t] = "rest"]
        /\ UNCHANGED <<tmp, buf, stream>> /\ stream[t] = "live"
        /\ log' = WithEntry(log, "torn")
    BY <1>0, <1>9 DEF MergeHalf, HalfWhole, locals
  <2>2. log \in Seq(Whole) /\ \A u \in Threads : u # t => pc[u] \notin {"half", "rest"}
    BY <1>0, <2>1, NoneHalf DEF CallKnown
  <2>3. log' = Append(log, "torn")
    BY <2>1, <2>2, WholeEntry
  <2> QED
    BY <1>0, <2>1, <2>2, <2>3 DEF LogWhole, HalfWhole, TmpWhole, BufWhole
<1>10. ASSUME NEW t \in Threads, MergeRest(t) PROVE Goal
  <2>1. /\ pc[t] = "rest" /\ pc' = [pc EXCEPT ![t] = "return"]
        /\ UNCHANGED <<tmp, buf, stream>> /\ stream[t] = "live"
    BY <1>0, <1>10 DEF MergeRest, HalfWhole, locals
  <2>2. PICK s \in Seq(Whole) : log = Append(s, "torn")
    BY <1>0, <2>1 DEF HalfWhole
  <2>3. arg[t] \in Hashes /\ arg[t] \in Lines
    BY <1>0, <2>1 DEF CallKnown, MergeSteps, Lines
  <2>4. s \in Seq(Lines) /\ Append(s, arg[t]) \in Seq(Whole)
    BY <2>3, WholeEntry
  <2>5. log' = Append(s, arg[t])
    BY <1>10, <2>1, <2>2, <2>3, <2>4, RestCompletes DEF MergeRest
  <2>6. \A u \in Threads : u # t => pc[u] \notin {"half", "rest"}
    BY <1>0, <2>1, AloneOp DEF WholeInv, MergeSteps
  <2> QED
    BY <1>0, <2>1, <2>4, <2>5, <2>6 DEF LogWhole, HalfWhole, TmpWhole, BufWhole
<1>11. ASSUME NEW t \in Threads, Return(t) PROVE Goal
  BY <1>0, <1>11 DEF Return, Forget, files, LogWhole, HalfWhole, TmpWhole, BufWhole
<1>12. ASSUME NEW p \in Processes, Crash(p) PROVE Goal
  <2>1. \A t \in Threads : ProcOf[t] = p => pc[t] \notin MergeSteps
    BY <1>12 DEF Crash
  <2>2. /\ log' = log /\ tmp' = [tmp EXCEPT ![p] = NoFile]
        /\ \A t \in Threads : ProcOf[t] # p => pc'[t] = pc[t] /\ stream'[t] = stream[t]
        /\ \A t \in Threads : ProcOf[t] = p => pc'[t] = "idle"
        /\ \A t \in Threads : buf'[t] \in {buf[t], <<>>}
    BY <1>12 DEF Crash, Forget
  <2>3. TmpWhole' /\ BufWhole'
    BY <1>0, <2>2 DEF TmpWhole, BufWhole
  <2>4. LogWhole' /\ HalfWhole'
    BY <1>0, <2>1, <2>2 DEF LogWhole, HalfWhole, MergeSteps
  <2> QED
    BY <2>3, <2>4
<1> QED
  BY StepCases, <1>1, <1>2, <1>3, <1>4, <1>5, <1>6, <1>7, <1>8, <1>9, <1>10, <1>11, <1>12

(* core.hpp, FIX-2: "the log is never in a partial state", whichever       *)
(* process is killed outside a merge and whatever it could not read, if    *)
(* the disk does not fill up.                                              *)
THEOREM NeverPartial ==
    ASSUME Orderly, Faults \cap {"diskfull", "mergecrash"} = {}
    PROVE  Spec => []LogNeverPartial
<1>1. Init => WholeInv
  <2> SUFFICES ASSUME Init PROVE WholeInv
    OBVIOUS
  <2>1. TypeInv /\ Alone
    BY InitLog DEF LogInv
  <2>2. <<>> \in Seq(Whole) /\ <<"legacy">> \in Seq(Whole)
    BY DEF Whole
  <2> QED
    BY <2>1, <2>2 DEF Init, WholeInv, LogWhole, HalfWhole, TmpWhole, BufWhole
<1>2. WholeInv /\ [Next]_vars => WholeInv'
  BY WholeStep
<1>3. WholeInv => LogNeverPartial
  <2> SUFFICES ASSUME WholeInv PROVE LogNeverPartial
    OBVIOUS
  <2>1. CASE log \in Seq(Whole)
    <3>1. \A i \in DOMAIN log : log[i] \in Whole
      BY <2>1, LenProperties, ElementOfSeq
    <3>2. \A x \in Whole : ~Unparsed(x)
      BY LogAssumption DEF Whole, Unparsed
    <3> QED
      BY <3>1, <3>2 DEF LogNeverPartial
  <2>2. CASE \E t \in Threads : pc[t] = "rest"
    BY <2>2 DEF LogNeverPartial, MergeSteps
  <2> QED
    BY <2>1, <2>2 DEF WholeInv, LogWhole, LogNeverPartial
<1> QED
  BY <1>1, <1>2, <1>3, PTL DEF Spec
-----------------------------------------------------------------------------
(* The abstract request of a thread, while its call is under way. *)
Asked(t) ==
    [op |-> IF op[t] = "query" THEN "query" ELSE "record", hash |-> arg[t],
     state |-> "pending", found |-> FALSE]

Answered(t, b) ==
    [op |-> IF op[t] = "query" THEN "query" ELSE "record", hash |-> arg[t],
     state |-> "done", found |-> b]

Over == {"unlock", "unlockSh", "return"}

Requests == [t \in Threads |-> RequestOf(t)]

LEMMA RequestCases ==
    ASSUME TypeInv, NEW t \in Threads
    PROVE  /\ op[t] \in {"none", "migrate"} => RequestOf(t) = [op |-> "none"]
           /\ op[t] \notin {"none", "migrate"} /\ pc[t] \notin Over =>
                 RequestOf(t) = Asked(t)
           /\ op[t] \notin {"none", "migrate"} /\ pc[t] \in Over =>
                 RequestOf(t) = Answered(t, found[t])
<1> USE DEF TypeInv, TypeOK, CallKnown, Over
<1>1. op[t] \in {"none", "migrate"} => RequestOf(t) = [op |-> "none"]
  BY DEF RequestOf
<1>2. op[t] \notin {"none", "migrate"} /\ pc[t] \notin Over =>
         RequestOf(t) = Asked(t)
  <2>1. pc[t] \notin Over => found[t] = FALSE
    OBVIOUS
  <2> QED
    BY <2>1 DEF RequestOf, Asked
<1>3. op[t] \notin {"none", "migrate"} /\ pc[t] \in Over =>
         RequestOf(t) = Answered(t, found[t])
  BY DEF RequestOf, Answered
<1> QED
  BY <1>1, <1>2, <1>3

(* A step of one thread does not change what the others ask for. *)
LEMMA OthersAsk ==
    ASSUME NEW u \in Threads, op'[u] = op[u], arg'[u] = arg[u], found'[u] = found[u],
           pc'[u] \in Over <=> pc[u] \in Over
    PROVE  RequestOf(u)' = RequestOf(u)
BY DEF RequestOf, Over

(* Init and Next of the ledger, with the mapping written out. *)
LEMMA Committed ==
    ASSUME NEW t \in Threads, RequestOf(t) = Asked(t), op[t] # "query",
           RequestOf(t)' = Answered(t, FALSE),
           \A u \in Threads \ {t} : RequestOf(u)' = RequestOf(u),
           Parsed(log)' \in {Parsed(log), Parsed(log) \cup {arg[t]}}
    PROVE  L!LedgerNext
<1>1. Requests' = [Requests EXCEPT ![t] = Answered(t, FALSE)]
  BY DEF Requests
<1>2. Requests[t] = Asked(t)
  BY DEF Requests
<1>3. Asked(t).op = "record" /\ Asked(t).hash = arg[t] /\ Asked(t).state = "pending"
  BY DEF Asked
<1>4. L!Pending(t, "record") /\ L!Done(t, FALSE)
  <2>1. Answered(t, FALSE) =
           [op |-> Asked(t).op, hash |-> Asked(t).hash, state |-> "done", found |-> FALSE]
    BY DEF Answered, Asked
  <2> QED
    BY <1>1, <1>2, <1>3, <2>1 DEF L!Pending, L!Done, Requests
<1>5. CASE Parsed(log)' = Parsed(log)
  BY <1>4, <1>5 DEF L!Fail, L!LedgerNext
<1>6. CASE Parsed(log)' = Parsed(log) \cup {arg[t]}
  BY <1>2, <1>3, <1>4, <1>6 DEF L!Commit, L!LedgerNext, Requests
<1> QED
  BY <1>5, <1>6

LEMMA Stuttered ==
    ASSUME \A u \in Threads : RequestOf(u)' = RequestOf(u), Parsed(log)' = Parsed(log)
    PROVE  UNCHANGED L!ledgerVars
BY DEF L!ledgerVars

(* Every step of the log is one of the ledger, or none. *)
LEMMA MapStep ==
    Premise /\ LogInv /\ TypeInv' /\ [Next]_vars => [L!LedgerNext]_(L!ledgerVars)
<1> SUFFICES ASSUME Premise, LogInv, TypeInv', [Next]_vars
             PROVE  L!LedgerNext \/ UNCHANGED L!ledgerVars
  OBVIOUS
<1> DEFINE Mapped == L!LedgerNext \/ UNCHANGED L!ledgerVars
<1> HIDE DEF Mapped
<1> USE LogAssumption DEF LogInv
<1>0. Parsed(log)' = Parsed(log')
  BY DEF Parsed
<1>1. CASE UNCHANGED vars
  <2>1. \A u \in Threads : RequestOf(u)' = RequestOf(u)
    BY <1>1, OthersAsk DEF vars
  <2>2. Parsed(log)' = Parsed(log)
    BY <1>0, <1>1 DEF vars
  <2> QED
    BY <2>1, <2>2, Stuttered DEF Mapped
<1>2. ASSUME NEW t \in Threads, NEW o \in Ops, NEW h \in Hashes, Call(t, o, h)
      PROVE  Mapped
  <2>1. /\ pc[t] = "idle" /\ op[t] = "none" /\ log' = log
        /\ pc'[t] = FirstStep(o) /\ op'[t] = o /\ arg'[t] = h /\ found' = found
        /\ \A u \in Threads \ {t} : pc'[u] = pc[u] /\ op'[u] = op[u] /\ arg'[u] = arg[u]
    BY <1>2 DEF Call, Goto, TypeInv, TypeOK, CallKnown, files
  <2>2. \A u \in Threads \ {t} : RequestOf(u)' = RequestOf(u)
    BY <2>1, OthersAsk
  <2>3. RequestOf(t) = [op |-> "none"]
    BY <2>1, RequestCases
  <2>4. CASE o = "migrate"
    <3>1. RequestOf(t)' = [op |-> "none"]
      BY <2>1, <2>4 DEF RequestOf
    <3> QED
      BY <1>0, <2>1, <2>2, <2>3, <3>1, Stuttered DEF Mapped
  <2>5. CASE o # "migrate"
    <3>1. found[t] = FALSE /\ FirstStep(o) \notin Over
      BY <2>1 DEF TypeInv, TypeOK, CallKnown, FirstStep, Over
    <3>2. RequestOf(t)' = Asked(t)'
      BY <2>1, <2>5, <3>1 DEF RequestOf, Asked, Over, Ops
    <3> DEFINE a == IF o = "query" THEN "query" ELSE "record"
    <3>3. Asked(t)' = L!Asking(a, h)
      BY <2>1 DEF Asked, L!Asking
    <3>4. Requests' = [Requests EXCEPT ![t] = L!Asking(a, h)] /\ Requests[t] = L!Idle
      BY <2>2, <2>3, <3>2, <3>3 DEF Requests, L!Idle
    <3>5. L!Begin(t, a, h)
      BY <1>0, <2>1, <3>4 DEF L!Begin, Requests
    <3>6. a \in {"record", "query"}
      OBVIOUS
    <3> HIDE DEF a
    <3> QED
      BY <3>5, <3>6 DEF Mapped, L!LedgerNext
  <2> QED
    BY <2>4, <2>5
<1>3. ASSUME NEW t \in Threads,
             \/ AppendLock(t) \/ AppendRead(t) \/ AppendWrite(t) \/ AppendUnlock(t)
             \/ QueryLock(t) \/ QueryLockFails(t) \/ QueryUnlock(t)
      PROVE  Mapped
  <2>1. /\ log' = log /\ UNCHANGED <<op, arg, found>>
        /\ \/ pc[t] \notin Over /\ pc'[t] \notin Over
           \/ pc[t] \in Over /\ pc'[t] \in Over
        /\ \A u \in Threads \ {t} : pc'[u] = pc[u]
    BY <1>3 DEF AppendLock, AppendRead, AppendWrite, AppendUnlock, QueryLock,
       QueryLockFails, QueryUnlock, Goto, TypeInv, TypeOK, Over, files, locks, locals
  <2>2. \A u \in Threads : RequestOf(u)' = RequestOf(u)
    BY <2>1, OthersAsk
  <2> QED
    BY <1>0, <2>1, <2>2, Stuttered DEF Mapped
<1>4. ASSUME NEW t \in Threads,
             \/ AppendLockThrows(t) \/ AppendTmpFails(t) \/ AppendRenameFails(t)
             \/ AppendRename(t)
      PROVE  Mapped
  <2>1. /\ UNCHANGED <<op, arg, found>>
        /\ pc[t] \in AppendSteps \ Over /\ pc'[t] \in Over
        /\ \A u \in Threads \ {t} : pc'[u] = pc[u]
    BY <1>4 DEF AppendLockThrows, AppendTmpFails, AppendRenameFails, AppendRename, Goto,
       TypeInv, TypeOK, AppendSteps, Over, files, locks, locals
  <2>2. op[t] = "append" /\ found[t] = FALSE
    BY <2>1 DEF TypeInv, TypeOK, CallKnown
  <2>3. \A u \in Threads \ {t} : RequestOf(u)' = RequestOf(u)
    BY <2>1, OthersAsk
  <2>4. RequestOf(t) = Asked(t)
    BY <2>1, <2>2, RequestCases
  <2>5. RequestOf(t)' = Answered(t, FALSE)
    BY <2>1, <2>2 DEF RequestOf, Answered, Over
  <2>6. Parsed(log)' \in {Parsed(log), Parsed(log) \cup {arg[t]}}
    BY <1>0, <1>4, RenameEffect
       DEF AppendLockThrows, AppendTmpFails, AppendRenameFails, files
  <2> QED
    BY <2>2, <2>3, <2>4, <2>5, <2>6, Committed DEF Mapped
<1>5. ASSUME NEW t \in Threads, QueryScan(t) PROVE Mapped
  <2> DEFINE b == arg[t] \in Parsed(log)
  <2>1. /\ UNCHANGED <<log, op, arg>> /\ found' = [found EXCEPT ![t] = b]
        /\ pc[t] = "scan" /\ pc'[t] = "unlockSh"
        /\ \A u \in Threads \ {t} : pc'[u] = pc[u]
    BY <1>5 DEF QueryScan, Goto, TypeInv, TypeOK, Premise, files
  <2> HIDE DEF b
  <2>2. op[t] = "query" /\ found'[t] = b
    BY <2>1 DEF TypeInv, TypeOK, CallKnown, QuerySteps
  <2>3. \A u \in Threads \ {t} : RequestOf(u)' = RequestOf(u)
    BY <2>1, OthersAsk DEF TypeInv, TypeOK
  <2>4. RequestOf(t) = Asked(t)
    BY <2>1, <2>2, RequestCases DEF Over
  <2>5. RequestOf(t)' = Answered(t, b)
    BY <2>1, <2>2 DEF RequestOf, Answered, Over
  <2>6. Requests' = [Requests EXCEPT ![t] = Answered(t, b)] /\ Requests[t] = Asked(t)
    BY <2>3, <2>4, <2>5 DEF Requests
  <2>7. /\ Asked(t).op = "query" /\ Asked(t).state = "pending" /\ Asked(t).hash = arg[t]
        /\ Answered(t, b) =
              [op |-> Asked(t).op, hash |-> Asked(t).hash, state |-> "done", found |-> b]
    BY <2>2 DEF Asked, Answered
  <2>8. Parsed(log)' = Parsed(log)
    BY <1>0, <2>1
  <2>9. L!Pending(t, "query") /\ L!Done(t, b)
    BY <2>6, <2>7 DEF L!Pending, L!Done, Requests
  <2>10. Requests[t].hash = arg[t]
    BY <2>6, <2>7
  <2>11. L!Answer(t)
    BY <2>8, <2>9, <2>10 DEF L!Answer, Requests, b
  <2> QED
    BY <2>11 DEF Mapped, L!LedgerNext
<1>6. ASSUME NEW t \in Threads,
             \/ MigrateCheck(t) \/ MigrateBackup(t) \/ MigrateTruncate(t) \/ MigrateFresh(t)
      PROVE  Mapped
  <2>1. /\ UNCHANGED <<op, arg, found>> /\ pc[t] \in MigrateSteps
        /\ \A u \in Threads \ {t} : pc'[u] = pc[u]
    <3>1. CASE MigrateTruncate(t)
      <4>1. /\ UNCHANGED <<op, arg, found>> /\ pc[t] = "truncate"
            /\ \E to \in {"fresh", "return"} : pc' = [pc EXCEPT ![t] = to]
        BY <3>1 DEF MigrateTruncate, Goto, locals
      <4> QED
        BY <4>1 DEF TypeInv, TypeOK, MigrateSteps
    <3>2. CASE MigrateCheck(t) \/ MigrateBackup(t) \/ MigrateFresh(t)
      BY <3>2 DEF MigrateCheck, MigrateBackup, MigrateFresh, Goto,
         TypeInv, TypeOK, MigrateSteps, locals
    <3> QED
      BY <1>6, <3>1, <3>2
  <2>2. op[t] = "migrate"
    BY <2>1 DEF TypeInv, CallKnown
  <2>3. RequestOf(t)' = RequestOf(t)
    BY <2>1, <2>2 DEF RequestOf
  <2>4. \A u \in Threads : RequestOf(u)' = RequestOf(u)
    BY <2>1, <2>3, OthersAsk
  <2>5. Parsed(log)' = Parsed(log)
    BY <1>0, <1>6, MigrateEffect DEF MigrateCheck, files
  <2> QED
    BY <2>4, <2>5, Stuttered DEF Mapped
<1>7. ASSUME NEW t \in Threads, MergeOpen(t) \/ MergeHalf(t) \/ MergeRest(t)
      PROVE  Mapped
  <2>1. /\ UNCHANGED <<op, arg, found>> /\ pc[t] \in MergeSteps
        /\ \A u \in Threads \ {t} : pc'[u] = pc[u]
    BY <1>7 DEF MergeOpen, MergeHalf, MergeRest, Goto, TypeInv, TypeOK, MergeSteps, locals
  <2>2. op[t] = "merge" /\ found[t] = FALSE /\ pc[t] \notin Over
    BY <2>1 DEF TypeInv, TypeOK, CallKnown, MergeSteps, Over
  <2>3. \A u \in Threads \ {t} : RequestOf(u)' = RequestOf(u)
    BY <2>1, OthersAsk
  <2>4. CASE pc'[t] \notin Over
    <3>1. Parsed(log)' = Parsed(log)
      BY <1>0, <1>7, <2>4, MergeEffect DEF MergeRest, Goto, Over, TypeInv, TypeOK
    <3>2. RequestOf(t)' = RequestOf(t)
      BY <2>1, <2>2, <2>4, OthersAsk
    <3> QED
      BY <2>3, <3>1, <3>2, Stuttered DEF Mapped
  <2>5. CASE pc'[t] \in Over
    <3>1. RequestOf(t) = Asked(t)
      BY <2>2, RequestCases
    <3>2. RequestOf(t)' = Answered(t, FALSE)
      BY <2>1, <2>2, <2>5 DEF RequestOf, Answered, Over
    <3>3. Parsed(log)' \in {Parsed(log), Parsed(log) \cup {arg[t]}}
      BY <1>0, <1>7, MergeEffect
    <3> QED
      BY <2>2, <2>3, <3>1, <3>2, <3>3, Committed DEF Mapped
  <2> QED
    BY <2>4, <2>5
<1>8. ASSUME NEW t \in Threads, Return(t) PROVE Mapped
  <2>1. /\ log' = log /\ pc[t] = "return" /\ op'[t] = "none"
        /\ \A u \in Threads \ {t} :
              pc'[u] = pc[u] /\ op'[u] = op[u] /\ arg'[u] = arg[u] /\ found'[u] = found[u]
    BY <1>8 DEF Return, Goto, Forget, TypeInv, TypeOK, files
  <2>2. \A u \in Threads \ {t} : RequestOf(u)' = RequestOf(u)
    BY <2>1, OthersAsk
  <2>3. RequestOf(t)' = [op |-> "none"]
    BY <2>1 DEF RequestOf
  <2>4. CASE op[t] \in {"none", "migrate"}
    <3>1. RequestOf(t) = [op |-> "none"]
      BY <2>4, RequestCases
    <3> QED
      BY <1>0, <2>1, <2>2, <2>3, <3>1, Stuttered DEF Mapped
  <2>5. CASE op[t] \notin {"none", "migrate"}
    <3>1. RequestOf(t) = Answered(t, found[t])
      BY <2>1, <2>5, RequestCases DEF Over
    <3>2. Answered(t, found[t]).state = "done" /\ Answered(t, found[t]).op # "none"
      BY DEF Answered
    <3>3. Requests[t] # L!Idle /\ Requests[t].state = "done"
      BY <3>1, <3>2 DEF Requests, L!Idle
    <3>4. Requests' = [Requests EXCEPT ![t] = L!Idle]
      BY <2>2, <2>3 DEF Requests, L!Idle
    <3>5. L!End(t)
      BY <1>0, <2>1, <3>3, <3>4 DEF L!End, Requests
    <3> QED
      BY <3>5 DEF Mapped, L!LedgerNext
  <2> QED
    BY <2>4, <2>5
<1>9. ASSUME NEW p \in Processes, Crash(p) PROVE Mapped
  <2> DEFINE mine == {t \in Threads : ProcOf[t] = p}
  <2>1. /\ log' = log
        /\ \A t \in Threads : pc'[t] = IF t \in mine THEN "idle" ELSE pc[t]
        /\ \A t \in Threads : op'[t] = IF t \in mine THEN "none" ELSE op[t]
        /\ \A t \in Threads \ mine : arg'[t] = arg[t] /\ found'[t] = found[t]
    BY <1>9 DEF Crash, Forget
  <2>2. mine \in SUBSET Threads
    OBVIOUS
  <2> HIDE DEF mine
  <2>3. \A t \in Threads \ mine : RequestOf(t)' = RequestOf(t)
    BY <2>1, OthersAsk
  <2>4. \A t \in mine : RequestOf(t)' = [op |-> "none"]
    BY <2>1, <2>2 DEF RequestOf
  <2>5. Requests' = [t \in Threads |-> IF t \in mine THEN L!Idle ELSE Requests[t]]
    BY <2>3, <2>4 DEF Requests, L!Idle
  <2>6. L!Abort(mine)
    BY <1>0, <2>1, <2>5 DEF L!Abort, Requests
  <2> QED
    BY <2>2, <2>6 DEF Mapped, L!LedgerNext
<1> QED
  BY StepCases, <1>1, <1>2, <1>3, <1>4, <1>5, <1>6, <1>7, <1>8, <1>9 DEF Mapped

(* The log implements the ledger that its callers are promised: records    *)
(* take effect at one instant of their call or not at all, a query tells   *)
(* the truth of one instant of its call, and nothing on record is lost,    *)
(* whatever other calls fail and whoever is killed, in an import too.      *)
THEOREM LogImplementsLedger ==
    ASSUME Orderly, Faults \cap {"read", "diskfull", "freshopen"} = {}
    PROVE  Spec => ImplementsLedger
<1>1. Premise
  BY DEF Premise
<1>2. Spec => []LogInv
  BY <1>1, LogAlways
<1>3. Init => L!LedgerInit
  <2> SUFFICES ASSUME Init PROVE L!LedgerInit
    OBVIOUS
  <2>1. Parsed(log) = {}
    BY InitLog DEF LogInv, Format, HasHeader, Headed, Init
  <2>2. \A t \in Threads : RequestOf(t) = [op |-> "none"]
    BY DEF Init, RequestOf
  <2> QED
    BY <2>1, <2>2 DEF L!LedgerInit, L!Idle
<1>4. LogInv /\ LogInv' /\ [Next]_vars => [L!LedgerNext]_(L!ledgerVars)
  BY <1>1, MapStep DEF LogInv
<1> QED
  BY <1>2, <1>3, <1>4, PTL DEF Spec, ImplementsLedger, L!LedgerSpec

(* core.hpp, FIX-2, as the ledger has it: what a reader finds in the log    *)
(* is found ever after, through appends, imports, migrations and deaths.   *)
OnRecordStays == [][Parsed(log) \subseteq Parsed(log')]_log

LEMMA LedgerGrows ==
    ASSUME [L!LedgerNext]_(L!ledgerVars)
    PROVE  Parsed(log) \subseteq Parsed(log)'
BY DEF L!LedgerNext, L!ledgerVars, L!Begin, L!Commit, L!Fail, L!Answer, L!End, L!Abort

THEOREM RecordsStay ==
    ASSUME Orderly, Faults \cap {"read", "diskfull", "freshopen"} = {}
    PROVE  Spec => OnRecordStays
<1>1. Premise
  BY DEF Premise
<1>2. Spec => []LogInv
  BY <1>1, LogAlways
<1>3. LogInv /\ LogInv' /\ [Next]_vars => [Parsed(log) \subseteq Parsed(log')]_log
  <2>1. Parsed(log)' = Parsed(log')
    BY DEF Parsed
  <2> QED
    BY <1>1, <2>1, MapStep, LedgerGrows DEF LogInv
<1> QED
  BY <1>2, <1>3, PTL DEF Spec, OnRecordStays
=============================================================================
