------------------------------ MODULE MCStream ------------------------------
EXTENDS Stream, TLC
Sym == Permutations(Procs)
(* The head takes two messages before it is full, the others one. *)
Marks == [q \in Queue |-> IF q \in {"wh", "rh"} THEN 1 ELSE 0]
Zero == [q \in Queue |-> 0]
=============================================================================
