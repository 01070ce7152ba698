------------------------------ MODULE RateLimit ------------------------------
(***************************************************************************)
(* What a rate limit promises: at most Max units in a window of time, a    *)
(* new window only after the old one is over, and nothing granted without  *)
(* a unit of its own.  A unit may be taken and not granted: whoever asked  *)
(* never heard of it.                                                      *)
(***************************************************************************)
EXTENDS Integers

CONSTANTS Max, Window, MaxTime, NoFile

VARIABLES
    clock,
    budget, \* units taken in the window that began at start; NoFile at first
    granted \* units granted, by the start of their window

TypeOK ==
    /\ clock \in 0..MaxTime
    /\ budget \in {NoFile} \cup [count: 1..Max, start: 0..MaxTime]
    /\ granted \in [0..MaxTime -> 0..Max]

Init == clock = 0 /\ budget = NoFile /\ granted = [w \in 0..MaxTime |-> 0]

Tick == clock' = clock + 1 /\ UNCHANGED <<budget, granted>>

TakeUnit ==
    /\ \/ /\ budget # NoFile
          /\ budget.count < Max
          /\ budget' = [budget EXCEPT !.count = @ + 1]
       \/ \E s \in 0..clock :
             /\ budget # NoFile => s - budget.start > Window
             /\ budget' = [count |-> 1, start |-> s]
    /\ \/ UNCHANGED granted
       \/ granted' = [granted EXCEPT ![budget'.start] = @ + 1]
    /\ UNCHANGED clock

Next == Tick \/ TakeUnit

Spec == Init /\ [][Next]_<<clock, budget, granted>>
=============================================================================
