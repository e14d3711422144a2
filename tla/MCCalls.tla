------------------------------ MODULE MCCalls -------------------------------
(* Small instances of Calls for TLC. *)
EXTENDS Calls
Both == {"ETS", "1TR6"}
=============================================================================
