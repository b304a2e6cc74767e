---------------------------- MODULE HydroBinding ----------------------------
(***************************************************************************)
(* What the hydrology worker promises about a catch: it is tried a bounded *)
(* number of times, and then it is settled for good, either bound to its   *)
(* snapshot of weather and tide or given up.                               *)
(***************************************************************************)
EXTENDS Integers

CONSTANTS Catches, MaxAttempts

VARIABLE binding    \* binding[c]: the state of catch c and the tries counted

Settled == {"BOUND", "FAILED"}

Init == binding = [c \in Catches |-> [state |-> "ABSENT", tries |-> 0]]

(* The catch is entered.                                                   *)
Submit(c) ==
    /\ binding[c].state = "ABSENT"
    /\ binding' = [binding EXCEPT ![c].state = "PENDING"]

(* A try that fails for the time being; there must be one more to come.    *)
Try(c) ==
    /\ binding[c].state = "PENDING"
    /\ binding[c].tries + 1 < MaxAttempts
    /\ binding' = [binding EXCEPT ![c].tries = @ + 1]

(* A try that settles the catch.                                           *)
Settle(c, state) ==
    /\ binding[c].state = "PENDING"
    /\ binding[c].tries < MaxAttempts
    /\ binding' = [binding EXCEPT ![c] = [state |-> state, tries |-> @.tries + 1]]

Next ==
    \E c \in Catches :
        \/ Submit(c)
        \/ Try(c)
        \/ \E state \in Settled : Settle(c, state)

Spec == Init /\ [][Next]_binding
=============================================================================
