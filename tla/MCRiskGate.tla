----------------------------- MODULE MCRiskGate -----------------------------
(* RiskGate for TLC: the engines are interchangeable. *)
EXTENDS RiskGate, TLC

TradeResults == {-1, 1}
Symmetry == Permutations(Engines)
=============================================================================
