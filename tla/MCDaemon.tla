------------------------------ MODULE MCDaemon ------------------------------
(* Small instances of Daemon for TLC. *)
EXTENDS Daemon

CONSTANTS Cheap, Dear   \* the steps that cost one and two
MCCost == [h \in Rare |-> IF h \in Cheap THEN 1 ELSE IF h \in Dear THEN 2 ELSE Budget + 1]
=============================================================================
