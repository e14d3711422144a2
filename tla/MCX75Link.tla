----------------------------- MODULE MCX75Link ------------------------------
(* Small instances of X75Link for TLC: two stations, and per-side bounds. *)
EXTENDS X75Link

CONSTANTS A, B

Sides == {A, B}
PerSide(a, b) == [s \in Sides |-> IF s = A THEN a ELSE b]

OneByA == PerSide(1, 0)
TwoByA == PerSide(2, 0)
TwoAndOne == PerSide(2, 1)
=============================================================================
