------------------------------- MODULE Ledger -------------------------------
(***************************************************************************)
(* What a quarantine ledger promises its callers: a set of hashes that     *)
(* only grows, in which a record takes effect at one instant between its   *)
(* call and its return or not at all, and of which a query tells the truth *)
(* at one instant between its call and its return.                         *)
(***************************************************************************)
CONSTANTS Threads, Hashes

VARIABLES
    entries, \* the hashes on record
    request  \* what each thread is asking for

ledgerVars == <<entries, request>>

Idle == [op |-> "none"]

Asking(op, h) == [op |-> op, hash |-> h, state |-> "pending", found |-> FALSE]

Pending(t, op) == request[t].op = op /\ request[t].state = "pending"

Done(t, found) == request' =
    [request EXCEPT ![t] =
        [op |-> @.op, hash |-> @.hash, state |-> "done", found |-> found]]

LedgerInit ==
    /\ entries = {}
    /\ request = [t \in Threads |-> Idle]

Begin(t, op, h) ==
    /\ request[t] = Idle
    /\ request' = [request EXCEPT ![t] = Asking(op, h)]
    /\ UNCHANGED entries

Commit(t) ==
    /\ Pending(t, "record")
    /\ entries' = entries \cup {request[t].hash}
    /\ Done(t, FALSE)

Fail(t) ==
    /\ Pending(t, "record")
    /\ Done(t, FALSE)
    /\ UNCHANGED entries

Answer(t) ==
    /\ Pending(t, "query")
    /\ Done(t, request[t].hash \in entries)
    /\ UNCHANGED entries

End(t) ==
    /\ request[t] # Idle /\ request[t].state = "done"
    /\ request' = [request EXCEPT ![t] = Idle]
    /\ UNCHANGED entries

(* Some threads die: what they asked for is done or is not. *)
Abort(S) ==
    /\ request' = [t \in Threads |-> IF t \in S THEN Idle ELSE request[t]]
    /\ UNCHANGED entries

LedgerNext ==
    \/ \E t \in Threads, op \in {"record", "query"}, h \in Hashes : Begin(t, op, h)
    \/ \E t \in Threads : Commit(t) \/ Fail(t) \/ Answer(t) \/ End(t)
    \/ \E S \in SUBSET Threads : Abort(S)

LedgerSpec == LedgerInit /\ [][LedgerNext]_ledgerVars
=============================================================================
