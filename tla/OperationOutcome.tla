-------------------------- MODULE OperationOutcome --------------------------
(***************************************************************************)
(* What durable dispatch promises for an operation, whatever happens to    *)
(* connections and processes: an action that must not be repeated is       *)
(* started at most once, and the outcome the relay stores for an operation *)
(* is stored once and never replaced.                                      *)
(***************************************************************************)
EXTENDS Naturals

CONSTANTS Ops, Unsafe, Results, Null

VARIABLES
    runs,      \* how often the tool handler was started for an operation
    outcome    \* the stored outcome, Null while there is none

Init ==
    /\ runs = [o \in Ops |-> 0]
    /\ outcome = [o \in Ops |-> Null]

Run(o) ==
    /\ o \in Unsafe => runs[o] = 0
    /\ runs' = [runs EXCEPT ![o] = @ + 1]
    /\ UNCHANGED outcome

Settle(o) ==
    /\ outcome[o] = Null
    /\ \E r \in Results : outcome' = [outcome EXCEPT ![o] = r]
    /\ UNCHANGED runs

Next == \E o \in Ops : Run(o) \/ Settle(o)

Spec == Init /\ [][Next]_<<runs, outcome>>
=============================================================================
