------------------------------- MODULE MCEngine -------------------------------
EXTENDS Engine, TLC

CONSTANTS e1, e2

\* The engines differ in nothing; for the run without liveness only.
MCSymmetry == Permutations(Engines)
=============================================================================
