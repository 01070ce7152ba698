------------------------------ MODULE CasCommit ------------------------------
(***************************************************************************)
(* scripts/cas_commit.sh with scripts/transforms/rate_limit_transform.sh:  *)
(* read a JSON file through the GitHub Contents API, transform it, and     *)
(* write it back with the sha of what was read.  The sha is that of the    *)
(* content, so a write succeeds exactly when the file is (again) what was  *)
(* read.  Another answer than 200 or 201 is taken for a lost race.         *)
(***************************************************************************)
EXTENDS Integers

CONSTANTS
    Runs,        \* processes that call the script, each again and again
    Max,         \* MAX_MUTATIONS_PER_HOUR
    Window,      \* 3600 seconds
    MaxAttempts, \* 6
    MaxTime,     \* bound: the clock stops here
    NoFile,
    Faults

FaultKinds == {
    "get",     \* GET answers neither 200 nor 404, or curl fails
    "refused", \* PUT is refused for another reason than the sha
    "lost",    \* PUT is applied, and answered with an error
    "cancel"}  \* the process ends early, perhaps right after an applied PUT

ASSUME LimitAssumption ==
    /\ Max \in Nat /\ Window \in Nat /\ MaxTime \in Nat
    /\ MaxAttempts \in Nat \ {0}
    /\ NoFile \notin [count: 1..Max, start: 0..MaxTime]
    /\ Faults \subseteq FaultKinds

VARIABLES
    file,    \* the counter in the repository
    clock,
    pc,
    attempt,
    seen,    \* what the GET returned: old_content and its sha
    new,     \* new_content
    granted  \* history: calls that exited 0, by the start of their window

locals == <<pc, attempt, seen, new>>
vars == <<file, clock, locals, granted>>

Contents == [count: 1..Max, start: 0..MaxTime]

TypeOK ==
    /\ file \in Contents \cup {NoFile}
    /\ clock \in 0..MaxTime
    /\ pc \in [Runs -> {"idle", "get", "transform", "put"}]
    /\ attempt \in [Runs -> 1..MaxAttempts]
    /\ seen \in [Runs -> Contents \cup {NoFile}]
    /\ new \in [Runs -> Contents \cup {NoFile}]
    /\ granted \in [0..MaxTime -> Nat]

Init ==
    /\ file = NoFile
    /\ clock = 0
    /\ pc = [r \in Runs |-> "idle"]
    /\ attempt = [r \in Runs |-> 1]
    /\ seen = [r \in Runs |-> NoFile]
    /\ new = [r \in Runs |-> NoFile]
    /\ granted = [w \in 0..MaxTime |-> 0]

Tick ==
    /\ clock < MaxTime
    /\ clock' = clock + 1
    /\ UNCHANGED <<file, locals, granted>>

End(r) ==
    /\ pc' = [pc EXCEPT ![r] = "idle"]
    /\ attempt' = [attempt EXCEPT ![r] = 1]
    /\ seen' = [seen EXCEPT ![r] = NoFile]
    /\ new' = [new EXCEPT ![r] = NoFile]

Call(r) ==
    /\ pc[r] = "idle"
    /\ pc' = [pc EXCEPT ![r] = "get"]
    /\ UNCHANGED <<file, clock, attempt, seen, new, granted>>

Get(r) ==
    /\ pc[r] = "get"
    /\ seen' = [seen EXCEPT ![r] = file]
    /\ pc' = [pc EXCEPT ![r] = "transform"]
    /\ UNCHANGED <<file, clock, attempt, new, granted>>

GetFails(r) ==
    /\ "get" \in Faults
    /\ pc[r] = "get"
    /\ End(r)
    /\ UNCHANGED <<file, clock, granted>>
-----------------------------------------------------------------------------
(* Mutant: >= for >. *)
NewWindowEarly(old) == old = NoFile \/ clock - old.start >= Window

(* rate_limit_transform.sh: the units used in the window, none in a new one *)
NewWindow(old) == old = NoFile \/ clock - old.start > Window
Used(old) == IF NewWindow(old) THEN 0 ELSE old.count

(* Mutant: count > max for count >= max. *)
TransformOneMore(r) ==
    LET old == seen[r] IN
    /\ pc[r] = "transform"
    /\ Used(old) <= Max
    /\ new' = [new EXCEPT ![r] =
                  [count |-> Used(old) + 1,
                   start |-> IF NewWindow(old) THEN clock ELSE old.start]]
    /\ pc' = [pc EXCEPT ![r] = "put"]
    /\ UNCHANGED <<file, clock, attempt, seen, granted>>

Transform(r) ==
    LET old == seen[r] IN
    /\ pc[r] = "transform"
    /\ Used(old) < Max
    /\ new' = [new EXCEPT ![r] =
                  [count |-> Used(old) + 1,
                   start |-> IF NewWindow(old) THEN clock ELSE old.start]]
    /\ pc' = [pc EXCEPT ![r] = "put"]
    /\ UNCHANGED <<file, clock, attempt, seen, granted>>

Reject(r) ==
    /\ pc[r] = "transform"
    /\ Used(seen[r]) >= Max
    /\ End(r)
    /\ UNCHANGED <<file, clock, granted>>
-----------------------------------------------------------------------------
(* Mutant: the attempts are not counted. *)
RetryForEver(r) ==
    /\ pc' = [pc EXCEPT ![r] = "get"]
    /\ seen' = [seen EXCEPT ![r] = NoFile]
    /\ new' = [new EXCEPT ![r] = NoFile]
    /\ UNCHANGED attempt

(* After a sleep, unless this was the last attempt. *)
Retry(r) ==
    \/ /\ attempt[r] < MaxAttempts
       /\ attempt' = [attempt EXCEPT ![r] = @ + 1]
       /\ pc' = [pc EXCEPT ![r] = "get"]
       /\ seen' = [seen EXCEPT ![r] = NoFile]
       /\ new' = [new EXCEPT ![r] = NoFile]
    \/ attempt[r] = MaxAttempts /\ End(r)

(* Mutant: a PUT that overwrites whatever is there. *)
MatchesAnything(r) == r \in Runs

(* Of a PUT with a sha, or without one where there was no file. *)
Matches(r) == file = seen[r]

PutSucceeds(r) ==
    /\ pc[r] = "put"
    /\ Matches(r)
    /\ file' = new[r]
    /\ granted' = [granted EXCEPT ![new[r].start] = @ + 1]
    /\ End(r)
    /\ UNCHANGED clock

PutUnheard(r) ==
    /\ pc[r] = "put"
    /\ Matches(r)
    /\ file' = new[r]
    /\ \/ "lost" \in Faults /\ Retry(r)
       \/ "cancel" \in Faults /\ End(r)
    /\ UNCHANGED <<clock, granted>>

PutFails(r) ==
    /\ pc[r] = "put"
    /\ ~Matches(r) \/ "refused" \in Faults
    /\ Retry(r)
    /\ UNCHANGED <<file, clock, granted>>

Cancel(r) ==
    /\ "cancel" \in Faults
    /\ pc[r] # "idle"
    /\ End(r)
    /\ UNCHANGED <<file, clock, granted>>

Advance(r) ==
    \/ Get(r) \/ GetFails(r) \/ Transform(r) \/ Reject(r)
    \/ PutSucceeds(r) \/ PutUnheard(r) \/ PutFails(r)

Next == Tick \/ \E r \in Runs : Call(r) \/ Advance(r) \/ Cancel(r)

Spec == Init /\ [][Next]_vars

(* curl and the sleeps end; nothing makes anyone call, or time pass. *)
FairSpec == Spec /\ \A r \in Runs : WF_vars(Advance(r))
-----------------------------------------------------------------------------
(* No more calls succeed in a window than the limit, however they race,    *)
(* retry, and time out around its end.                                     *)
WithinLimit == \A w \in 0..MaxTime : granted[w] <= Max

(* Every call that succeeded has a unit of its own in the file: none is    *)
(* lost to a concurrent update.                                            *)
NothingUncounted == file # NoFile => granted[file.start] <= file.count

(* The script implements a rate limit: lost answers and retries may waste  *)
(* a unit, and nothing else.                                               *)
Limit == INSTANCE RateLimit WITH budget <- file
ImplementsLimit == Limit!Spec

(* Six attempts, and the call is over. *)
CallsEnd == \A r \in Runs : pc[r] # "idle" ~> pc[r] = "idle"
=============================================================================
