--------------------------- MODULE MCHydroRefusals ---------------------------
(***************************************************************************)
(* HydroJobs with a history variable: the catches for which the provider   *)
(* has answered that it will not (AUTH, VALIDATION, BOUNDS).               *)
(***************************************************************************)
EXTENDS MCHydroJobs

VARIABLE refused

Refuse(w) == FailOrRetry(w, "PERMANENT") \/ RefusedUnstorably(w)

InitRefusals == Init /\ refused = {}

NextRefusals ==
    \/ \E w \in Workers : Refuse(w) /\ refused' = refused \cup {Current(w)}
    \/ Next /\ ~(\E w \in Workers : Refuse(w)) /\ UNCHANGED refused

SpecRefusals == InitRefusals /\ [][NextRefusals]_<<vars, refused>>

(* retry_test.go:41, TestAuthAndValidationRetryCountZero: a provider that  *)
(* refuses is called once ("provider calls=%d want 1") and never again.    *)
RefusalNotRetried ==
    \A w \in Workers : pc[w] = "retro" => Current(w) \notin refused
=============================================================================
