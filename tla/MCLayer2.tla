------------------------------ MODULE MCLayer2 ------------------------------
(* Small instances of Layer2 for TLC. *)
EXTENDS Layer2
All == Events \ {"inuse", "reattach"}
=============================================================================
