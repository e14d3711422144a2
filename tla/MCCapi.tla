------------------------------- MODULE MCCapi -------------------------------
(* Small instances of Capi for TLC. *)
EXTENDS Capi
=============================================================================
