------------------------------ MODULE MCStartup ------------------------------
(* Small instances of Startup for TLC.                                     *)
EXTENDS Startup

CONSTANTS sv1, sv2, sv3
=============================================================================
