------------------------------ MODULE MCSession ------------------------------
(* A small instance of Session for TLC.                                    *)
EXTENDS Session

CONSTANTS c1, c2, c3, alice, bob

(* The calls are named in the order in which they are made, and the user   *)
(* who has signed in before is Alice.                                      *)
InOrder == /\ pc[c2] # "idle" => pc[c1] # "idle"
           /\ pc[c3] # "idle" => pc[c2] # "idle"

OrderedSpec ==
    /\ Init /\ shown # bob
    /\ [][Next /\ InOrder']_vars
    /\ \A c \in Calls : WF_vars(Serve(c)) /\ WF_vars(Receive(c))
=============================================================================
