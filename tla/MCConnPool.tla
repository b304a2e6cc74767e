------------------------------ MODULE MCConnPool ------------------------------
(* Small instances of ConnPool for TLC.                                    *)
EXTENDS ConnPool

CONSTANTS l1, l2, l3, q1, q2
=============================================================================
