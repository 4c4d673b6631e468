-------------------------- MODULE MCWalletRecovery --------------------------
(* WalletRecovery with every call that may raise, for TLC.                 *)
EXTENDS WalletRecovery

AllFaults == Faults

\* Bound: three operations, two crashes and a mishap, but not all of them.
MCBounded == ops + crashes + mishaps <= 5
=============================================================================
