---------------------------- MODULE MCSpotSight ----------------------------
(* Small instances of SpotSight for TLC.  Anna's club is there from the    *)
(* start; ben is her friend and cleo nobody's.                             *)
EXTENDS SpotSight, TLC

CONSTANTS anna, ben, cleo, c1, c2, s1, r1, r2, r3

AnnaAndBen == {{anna, ben}}
AnnasClub == [c \in Clubs |-> IF c = c1 THEN anna ELSE NoUser]
JustAnna == {<<c1, anna>>}
Symmetry == Permutations(Requests)

(* The counters of two callers have nothing to do with each other: only    *)
(* cleo searches nearby.  And cleo, who has no friends, creates no spot of *)
(* her own: ben is as much an outsider to anna's club as she is.           *)
CleoScans ==
    \A r \in Requests :
        /\ pc'[r] = "scan" => req'[r].user = cleo
        /\ req'[r].op = "create" => req'[r].user # cleo

ScanSpec == Init /\ [][Next /\ CleoScans]_vars
=============================================================================
