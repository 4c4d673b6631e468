----------------------------- MODULE MCFundingArb -----------------------------
(* Instances of FundingArb for TLC: every constant has its value in the    *)
(* configurations.                                                         *)
EXTENDS FundingArb
=============================================================================
