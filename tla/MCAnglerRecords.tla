--------------------------- MODULE MCAnglerRecords ---------------------------
(* A small instance of AnglerRecords for TLC.                              *)
EXTENDS AnglerRecords

CONSTANTS r1, r2, r3, alice, bob, nickname, lure_pref

(* The shorter one is newer.                                               *)
Perch == [species |-> "PERCH", length |-> 1, released |-> TRUE, day |-> 2]
Bass  == [species |-> "BASS",  length |-> 2, released |-> FALSE, day |-> 1]
Catch == {Perch, Bass}

(* The requests are named in the order in which they come.                 *)
InOrder == /\ pc[r2] # "idle" => pc[r1] # "idle"
           /\ pc[r3] # "idle" => pc[r2] # "idle"

OrderedSpec ==
    /\ Init /\ [][Next /\ InOrder']_vars
    /\ \A r \in Requests : WF_vars(Proceed(r))
=============================================================================
