---------------------------- MODULE CasCommitProofs ----------------------------
(***************************************************************************)
(* Theorems about cas_commit.sh under the rate limit, for any number of    *)
(* runs, any limit, window and number of attempts, and any faults.         *)
(***************************************************************************)
EXTENDS CasCommit, TLAPS

(* What a transform may make of a counter. *)
Extends(old, next) ==
    \/ /\ old # NoFile
       /\ old.count < Max
       /\ next = [count |-> old.count + 1, start |-> old.start]
    \/ /\ next.count = 1
       /\ next.start <= clock
       /\ old # NoFile => next.start - old.start > Window

(* Whoever is about to write has a unit more than what it read. *)
WritesOneMore ==
    \A r \in Runs : pc[r] = "put" => new[r] \in Contents /\ Extends(seen[r], new[r])

(* The window of the file has begun, and no later one has. *)
LatestWindow ==
    /\ file # NoFile => file.start <= clock
    /\ \A w \in 0..MaxTime : file = NoFile \/ w > file.start => granted[w] = 0

IInv == TypeOK /\ WritesOneMore /\ LatestWindow /\ WithinLimit /\ NothingUncounted
-----------------------------------------------------------------------------
(* Next, action by action; the end of a PUT is not told apart from what    *)
(* becomes of the script then.                                             *)
LEMMA StepCases ==
    ASSUME [Next]_vars
    PROVE  \/ UNCHANGED vars
           \/ Tick
           \/ \E r \in Runs :
                 \/ Call(r) \/ Get(r) \/ GetFails(r) \/ Transform(r) \/ Reject(r)
                 \/ PutSucceeds(r) \/ PutUnheard(r) \/ PutFails(r) \/ Cancel(r)
BY DEF Next, Advance

LEMMA NoFileIsNone == NoFile \notin Contents
BY LimitAssumption DEF Contents

LocalsOK ==
    /\ pc \in [Runs -> {"idle", "get", "transform", "put"}]
    /\ attempt \in [Runs -> 1..MaxAttempts]
    /\ seen \in [Runs -> Contents \cup {NoFile}]
    /\ new \in [Runs -> Contents \cup {NoFile}]

(* The end of a call and another attempt keep the types. *)
LEMMA EndTypes == ASSUME LocalsOK, NEW r \in Runs, End(r) PROVE LocalsOK'
<1>1. 1 \in 1..MaxAttempts
  BY LimitAssumption
<1> QED
  BY <1>1 DEF LocalsOK, End

LEMMA RetryTypes == ASSUME LocalsOK, NEW r \in Runs, Retry(r) PROVE LocalsOK'
<1>1. CASE End(r)
  BY <1>1, EndTypes
<1>2. CASE attempt[r] < MaxAttempts /\ ~End(r)
  <2>1. attempt[r] + 1 \in 1..MaxAttempts
    BY <1>2, LimitAssumption DEF LocalsOK
  <2> QED
    BY <1>2, <2>1 DEF LocalsOK, Retry
<1> QED
  BY <1>1, <1>2 DEF Retry

(* Every step keeps the types. *)
LEMMA TypeStep == TypeOK /\ WritesOneMore /\ [Next]_vars => TypeOK'
<1> SUFFICES ASSUME TypeOK, WritesOneMore, [Next]_vars PROVE TypeOK'
  OBVIOUS
<1> USE LimitAssumption DEF TypeOK
<1> LocalsOK
  BY DEF LocalsOK
<1>1. CASE UNCHANGED vars
  BY <1>1 DEF vars, locals
<1>2. CASE Tick
  BY <1>2 DEF Tick, locals
<1>3. ASSUME NEW r \in Runs, Call(r) \/ Get(r) PROVE TypeOK'
  BY <1>3 DEF Call, Get
<1>3a. ASSUME NEW r \in Runs, GetFails(r) \/ Reject(r) \/ Cancel(r) PROVE TypeOK'
  <2>1. End(r) /\ UNCHANGED <<file, clock, granted>>
    BY <1>3a DEF GetFails, Reject, Cancel
  <2> QED
    BY <2>1, EndTypes DEF LocalsOK
<1>4. ASSUME NEW r \in Runs, Transform(r) PROVE TypeOK'
  <2>1. Used(seen[r]) \in Nat
    BY DEF Used, NewWindow, Contents
  <2>2. (IF NewWindow(seen[r]) THEN clock ELSE seen[r].start) \in 0..MaxTime
    BY DEF NewWindow, Contents
  <2>3. new'[r] \in Contents
    BY <1>4, <2>1, <2>2 DEF Transform, Contents
  <2> QED
    BY <1>4, <2>3 DEF Transform
<1>5. ASSUME NEW r \in Runs, PutSucceeds(r) PROVE TypeOK'
  <2>1. new[r] \in Contents
    BY <1>5 DEF PutSucceeds, WritesOneMore
  <2>2. granted' \in [0..MaxTime -> Nat]
    BY <1>5, <2>1 DEF PutSucceeds, Contents
  <2>3. LocalsOK'
    BY <1>5, EndTypes DEF PutSucceeds
  <2> QED
    BY <1>5, <2>1, <2>2, <2>3 DEF PutSucceeds, LocalsOK
<1>6. ASSUME NEW r \in Runs, PutUnheard(r) PROVE TypeOK'
  <2>1. new[r] \in Contents
    BY <1>6 DEF PutUnheard, WritesOneMore
  <2>2. LocalsOK'
    BY <1>6, EndTypes, RetryTypes DEF PutUnheard
  <2> QED
    BY <1>6, <2>1, <2>2 DEF PutUnheard, LocalsOK
<1>7. ASSUME NEW r \in Runs, PutFails(r) PROVE TypeOK'
  <2>1. LocalsOK'
    BY <1>7, RetryTypes DEF PutFails
  <2> QED
    BY <1>7, <2>1 DEF PutFails, LocalsOK
<1> QED
  BY <1>1, <1>2, <1>3, <1>3a, <1>4, <1>5, <1>6,
     <1>7, StepCases

(* Every step keeps what is about to be written one unit ahead. *)
LEMMA WritesStep == IInv /\ [Next]_vars => WritesOneMore'
<1> SUFFICES ASSUME IInv, [Next]_vars PROVE WritesOneMore'
  OBVIOUS
<1> USE LimitAssumption DEF IInv, TypeOK, WritesOneMore, End
<1>1. CASE UNCHANGED vars
  BY <1>1 DEF vars, locals, Extends
<1>2. CASE Tick
  BY <1>2 DEF Tick, locals, Extends, Contents
<1>3. ASSUME NEW r \in Runs,
             Call(r) \/ Get(r) \/ GetFails(r) \/ Reject(r) \/ Cancel(r)
      PROVE  WritesOneMore'
  BY <1>3 DEF Call, Get, GetFails, Reject, Cancel, Extends
<1>4. ASSUME NEW r \in Runs, Transform(r) PROVE WritesOneMore'
  <2>1. Used(seen[r]) \in Nat
    BY DEF Used, NewWindow, Contents
  <2>2. (IF NewWindow(seen[r]) THEN clock ELSE seen[r].start) \in 0..MaxTime
    BY DEF NewWindow, Contents
  <2>3. new'[r] \in Contents
    BY <1>4, <2>1, <2>2 DEF Transform, Contents
  <2>4. new'[r] = [count |-> Used(seen[r]) + 1,
                   start |-> IF NewWindow(seen[r]) THEN clock ELSE seen[r].start]
    BY <1>4 DEF Transform
  <2>5. Extends(seen[r], new'[r])
    BY <1>4, <2>4, NoFileIsNone DEF Transform, Extends, Used, NewWindow, Contents
  <2> QED
    BY <1>4, <2>3, <2>5 DEF Transform, Extends
<1>5. ASSUME NEW r \in Runs, PutSucceeds(r) \/ PutUnheard(r) \/ PutFails(r)
      PROVE  WritesOneMore'
  BY <1>5 DEF PutSucceeds, PutUnheard, PutFails, Retry, Extends
<1> QED
  BY <1>1, <1>2, <1>3, <1>4, <1>5, StepCases

(* A PUT that is accepted opens a later window or takes another unit of    *)
(* the one of the file.                                                    *)
LEMMA AcceptedPut ==
    ASSUME IInv, NEW r \in Runs, pc[r] = "put", Matches(r), file' = new[r]
    PROVE  /\ file' \in Contents /\ file' # NoFile
           /\ file'.start <= clock
           /\ granted[file'.start] < file'.count
           /\ \A w \in 0..MaxTime : w > file'.start => granted[w] = 0
           /\ file = NoFile \/ file.start < file'.start
                            \/ (file.start = file'.start /\ file.count < file'.count)
<1> USE LimitAssumption, NoFileIsNone DEF IInv, TypeOK, Contents
<1>1. new[r] \in Contents /\ Extends(file, new[r])
  BY DEF WritesOneMore, Matches
<1>2. CASE /\ file # NoFile
           /\ new[r] = [count |-> file.count + 1, start |-> file.start]
  BY <1>1, <1>2 DEF LatestWindow, NothingUncounted
<1>3. CASE /\ new[r].count = 1
           /\ new[r].start <= clock
           /\ file # NoFile => new[r].start - file.start > Window
  BY <1>1, <1>3 DEF LatestWindow
<1> QED
  BY <1>1, <1>2, <1>3 DEF Extends

(* Every step keeps the counter ahead of what was granted. *)
LEMMA LimitStep ==
    IInv /\ [Next]_vars => LatestWindow' /\ WithinLimit' /\ NothingUncounted'
<1> DEFINE Goal == LatestWindow' /\ WithinLimit' /\ NothingUncounted'
<1> SUFFICES ASSUME IInv, [Next]_vars PROVE Goal
  OBVIOUS
<1> USE LimitAssumption DEF IInv, TypeOK, LatestWindow, WithinLimit, NothingUncounted
<1>1. CASE UNCHANGED <<file, clock, granted>>
  BY <1>1
<1>2. CASE Tick
  BY <1>2 DEF Tick, Contents
<1>3. ASSUME NEW r \in Runs, PutSucceeds(r) PROVE Goal
  <2>1. pc[r] = "put" /\ Matches(r) /\ file' = new[r] /\ clock' = clock
    BY <1>3 DEF PutSucceeds
  <2>2. granted' = [granted EXCEPT ![file'.start] = @ + 1]
    BY <1>3, <2>1 DEF PutSucceeds
  <2>3. /\ file' \in Contents /\ file' # NoFile
        /\ file'.start <= clock
        /\ granted[file'.start] < file'.count
        /\ \A w \in 0..MaxTime : w > file'.start => granted[w] = 0
    BY <2>1, AcceptedPut
  <2> QED
    BY <2>1, <2>2, <2>3 DEF Contents
<1>4. ASSUME NEW r \in Runs, PutUnheard(r) PROVE Goal
  <2>1. pc[r] = "put" /\ Matches(r) /\ file' = new[r]
    BY <1>4 DEF PutUnheard
  <2>2. clock' = clock /\ granted' = granted
    BY <1>4 DEF PutUnheard
  <2>3. /\ file' \in Contents /\ file' # NoFile
        /\ file'.start <= clock
        /\ granted[file'.start] < file'.count
        /\ \A w \in 0..MaxTime : w > file'.start => granted[w] = 0
    BY <2>1, AcceptedPut
  <2> QED
    BY <2>2, <2>3 DEF Contents
<1>5. ASSUME NEW r \in Runs,
             Call(r) \/ Get(r) \/ GetFails(r) \/ Transform(r) \/ Reject(r)
             \/ PutFails(r) \/ Cancel(r)
      PROVE  UNCHANGED <<file, clock, granted>>
  BY <1>5 DEF Call, Get, GetFails, Transform, Reject, PutFails, Cancel
<1> QED
  BY <1>1, <1>2, <1>3, <1>4, <1>5, StepCases DEF vars

LEMMA InitInv == Init => IInv
BY LimitAssumption
   DEF Init, IInv, TypeOK, WritesOneMore, LatestWindow, WithinLimit, NothingUncounted

(* The invariant that everything below follows from. *)
THEOREM Inductive == Spec => []IInv
<1>1. IInv /\ [Next]_vars => IInv'
  BY TypeStep, WritesStep, LimitStep DEF IInv
<1> QED
  BY <1>1, InitInv, PTL DEF Spec

(* The state of the script and of its file is what the module says. *)
THEOREM TypeCorrect == Spec => []TypeOK
<1>1. IInv => TypeOK
  BY DEF IInv
<1> QED
  BY <1>1, Inductive, PTL

(* However calls race, retry, die and time out, and whatever answers are   *)
(* lost, no window grants more than its limit.                             *)
THEOREM LimitHolds == Spec => []WithinLimit
<1>1. IInv => WithinLimit
  BY DEF IInv
<1> QED
  BY <1>1, Inductive, PTL

(* No concurrent update loses the unit of a call that succeeded. *)
THEOREM UnitsKept == Spec => []NothingUncounted
<1>1. IInv => NothingUncounted
  BY DEF IInv
<1> QED
  BY <1>1, Inductive, PTL
-----------------------------------------------------------------------------
(* A PUT that is accepted takes a unit of the rate limit, whether the      *)
(* script hears of it or not.                                              *)
LEMMA PutTakesUnit ==
    ASSUME IInv, NEW r \in Runs, pc[r] = "put", Matches(r), file' = new[r],
           clock' = clock,
           UNCHANGED granted \/ granted' = [granted EXCEPT ![file'.start] = @ + 1]
    PROVE  Limit!TakeUnit
<1> USE LimitAssumption DEF IInv, TypeOK, Contents
<1>1. new[r] \in Contents /\ Extends(file, new[r])
  BY DEF WritesOneMore, Matches
<1>2. CASE /\ file # NoFile
           /\ file.count < Max
           /\ new[r] = [count |-> file.count + 1, start |-> file.start]
  <2>1. new[r] = [file EXCEPT !.count = @ + 1]
    BY <1>2
  <2> QED
    BY <1>2, <2>1 DEF Limit!TakeUnit
<1>3. CASE /\ new[r].count = 1
           /\ new[r].start <= clock
           /\ file # NoFile => new[r].start - file.start > Window
  <2>1. new[r].start \in 0..clock
    BY <1>1, <1>3
  <2>2. new[r] = [count |-> 1, start |-> new[r].start]
    BY <1>1, <1>3
  <2> QED
    BY <1>3, <2>1, <2>2 DEF Limit!TakeUnit
<1> QED
  BY <1>1, <1>2, <1>3 DEF Extends

(* Every step is one of the rate limit, or none. *)
LEMMA StepRefines ==
    IInv /\ [Next]_vars => [Limit!Next]_<<clock, file, granted>>
<1> SUFFICES ASSUME IInv, [Next]_vars
             PROVE  Limit!Next \/ UNCHANGED <<clock, file, granted>>
  OBVIOUS
<1>1. CASE UNCHANGED vars
  BY <1>1 DEF vars
<1>2. CASE Tick
  BY <1>2 DEF Tick, Limit!Next, Limit!Tick
<1>3. ASSUME NEW r \in Runs, PutSucceeds(r) PROVE Limit!Next
  BY <1>3, PutTakesUnit DEF PutSucceeds, Limit!Next
<1>4. ASSUME NEW r \in Runs, PutUnheard(r) PROVE Limit!Next
  BY <1>4, PutTakesUnit DEF PutUnheard, Limit!Next
<1>5. ASSUME NEW r \in Runs,
             Call(r) \/ Get(r) \/ GetFails(r) \/ Transform(r) \/ Reject(r)
             \/ PutFails(r) \/ Cancel(r)
      PROVE  UNCHANGED <<clock, file, granted>>
  BY <1>5 DEF Call, Get, GetFails, Transform, Reject, PutFails, Cancel
<1> QED
  BY <1>1, <1>2, <1>3, <1>4, <1>5, StepCases

(* The script implements a rate limit, for any number of runs, any limit,  *)
(* and any faults.                                                         *)
THEOREM ScriptImplementsLimit == Spec => ImplementsLimit
<1>1. Init => Limit!Init
  BY DEF Init, Limit!Init
<1> QED
  BY <1>1, StepRefines, Inductive, PTL DEF Spec, ImplementsLimit, Limit!Spec
=============================================================================
