----------------------------- MODULE MCHydroJobs -----------------------------
(* Small instances of HydroJobs for TLC.                                   *)
EXTENDS HydroJobs

CONSTANTS c1, c2, c3, w1, w2
=============================================================================
