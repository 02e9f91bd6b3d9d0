----------------------------- MODULE MCReadCycle -----------------------------
(* Instances of ReadCycle for TLC: a field variable, read in two requests, *)
(* and one of the others, with two values each.                            *)
EXTENDS ReadCycle

MCVal == {0, 1}
=============================================================================
