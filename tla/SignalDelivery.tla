---------------------------- MODULE SignalDelivery ----------------------------
(***************************************************************************)
(* What the signal bus promises to a strategy that emits a signal:         *)
(* at-least-once execution.  A signal is queued, may be run to completion  *)
(* any number of times while it is queued, may be excused (refused by the  *)
(* risk gate or dead-lettered), and is settled only after one of the two;  *)
(* nothing happens to a settled signal.                                    *)
(***************************************************************************)
EXTENDS Naturals

CONSTANT Msgs

VARIABLES
  status,   \* [Msgs -> {"unsent", "queued", "settled"}]
  runs,     \* [Msgs -> Nat] executions that returned
  excused   \* signals with a documented reason not to run

svars == <<status, runs, excused>>

DInit ==
  /\ status = [m \in Msgs |-> "unsent"]
  /\ runs = [m \in Msgs |-> 0]
  /\ excused = {}

Send(m) ==
  /\ status[m] = "unsent"
  /\ status' = [status EXCEPT ![m] = "queued"]
  /\ UNCHANGED <<runs, excused>>

Run(m) ==
  /\ status[m] = "queued"
  /\ runs' = [runs EXCEPT ![m] = @ + 1]
  /\ UNCHANGED <<status, excused>>

Excuse(m) ==
  /\ status[m] = "queued"
  /\ excused' = excused \cup {m}
  /\ UNCHANGED <<status, runs>>

Settle(m) ==
  /\ status[m] = "queued"
  /\ runs[m] > 0 \/ m \in excused
  /\ status' = [status EXCEPT ![m] = "settled"]
  /\ UNCHANGED <<runs, excused>>

DNext == \E m \in Msgs : Send(m) \/ Run(m) \/ Excuse(m) \/ Settle(m)

Delivery == DInit /\ [][DNext]_svars
=============================================================================
