------------------------- MODULE MCPositionLifecycle -------------------------
(* Instances of PositionLifecycle for TLC: the engine threads are model    *)
(* values, everything else is given its value in the configurations.       *)
EXTENDS PositionLifecycle

CONSTANTS t1, t2
=============================================================================
