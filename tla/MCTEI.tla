------------------------------- MODULE MCTEI --------------------------------
(* A small instance of TEI for TLC: everything may happen around layer 3.  *)
EXTENDS TEI

Everything == AllEvents
=============================================================================
