------------------------------ MODULE MCLedger ------------------------------
(* Ledger for TLC: the callers are interchangeable. *)
EXTENDS Ledger, TLC

Symmetry == Permutations(Callers)
=============================================================================
