------------------------------ MODULE SlotHold ------------------------------
(***************************************************************************)
(* What booking promises about the slots of an activity, with no request,  *)
(* lock, transaction or clock in sight.  A slot is free, or it belongs to  *)
(* one user and sits at one stage of the slot state machine of             *)
(* internal/booking/statemachine.go (CanSlot).  A slot changes hands only  *)
(* through OPEN, and only a lease that was never confirmed can lapse.      *)
(***************************************************************************)
CONSTANTS Users, Slots, NoUser

VARIABLE lease      \* lease[s]: the stage of slot s and the user who holds it

Stages == {"OPEN", "LOCKED", "CONFIRMED", "CHECKED_IN"}

Free == [stage |-> "OPEN", holder |-> NoUser]

TypeOK == lease \in [Slots -> [stage : Stages, holder : Users \cup {NoUser}]]

Init == lease = [s \in Slots |-> Free]

(* OPEN -> LOCKED, by whoever comes first.                                 *)
Claim(s, u) ==
    /\ lease[s].stage = "OPEN"
    /\ lease' = [lease EXCEPT ![s] = [stage |-> "LOCKED", holder |-> u]]

(* LOCKED -> CONFIRMED; the holder stays.                                  *)
Confirm(s) ==
    /\ lease[s].stage = "LOCKED"
    /\ lease' = [lease EXCEPT ![s].stage = "CONFIRMED"]

(* The holder gives the slot up; a checked-in slot cannot be given up.     *)
Release(s) ==
    /\ lease[s].stage \in {"LOCKED", "CONFIRMED"}
    /\ lease' = [lease EXCEPT ![s] = Free]

(* CONFIRMED -> CHECKED_IN (checking in again changes nothing).            *)
CheckIn(s) ==
    /\ lease[s].stage = "CONFIRMED"
    /\ lease' = [lease EXCEPT ![s].stage = "CHECKED_IN"]

(* Unconfirmed leases lapse, any number of them at once.                   *)
Expire(S) ==
    /\ \A s \in S : lease[s].stage = "LOCKED"
    /\ lease' = [s \in Slots |-> IF s \in S THEN Free ELSE lease[s]]

Next ==
    \/ \E s \in Slots, u \in Users : Claim(s, u)
    \/ \E s \in Slots : Confirm(s) \/ Release(s) \/ CheckIn(s)
    \/ \E S \in SUBSET Slots : Expire(S)

Spec == Init /\ [][Next]_lease
=============================================================================
