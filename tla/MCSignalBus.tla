----------------------------- MODULE MCSignalBus -----------------------------
(* Instances of SignalBus for TLC. *)
EXTENDS SignalBus

CONSTANTS n1, n2, w1, w2, sym1

OneSymbol == [m \in Msgs |-> sym1]

(* One standalone worker (docker-compose runs one execution-worker). *)
OneName == [w \in Workers |-> n1]

(* The engine's in-process consumer beside a standalone worker. *)
OwnNames == [w \in Workers |-> IF w = w1 THEN n1 ELSE n2]
=============================================================================
