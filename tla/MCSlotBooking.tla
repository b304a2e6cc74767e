---------------------------- MODULE MCSlotBooking ----------------------------
(* Small instances of SlotBooking for TLC.                                 *)
EXTENDS SlotBooking, TLC

CONSTANTS u1, u2, s1, s2, a1, a2, r1, r2, r3, r4

(* Every slot belongs to one activity.                                     *)
OneActivity == [s \in Slots |-> a1]

(* One slot in each of two activities.                                     *)
OwnActivity == (s1 :> a1) @@ (s2 :> a2)

Symmetry == Permutations(Requests) \cup Permutations(Users)

(* What still matters of a state: a finished request other than a winning  *)
(* claim has no further part in any action or property.                    *)
Forgotten(r) == pc[r] = "done" /\ ~(call[r].op = "claim" /\ verdict[r] = "OK")

Footprint ==
    <<db, rowLock, key, now, pc,
      [r \in Requests |-> IF Forgotten(r) THEN NoCall ELSE call[r]],
      [r \in Requests |-> IF Forgotten(r) THEN NoView ELSE tx[r]],
      [r \in Requests |-> IF Forgotten(r) THEN "NONE" ELSE verdict[r]]>>
=============================================================================
