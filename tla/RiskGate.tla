------------------------------ MODULE RiskGate ------------------------------
(***************************************************************************)
(* The RiskManager of a process, the threads that share it and the file    *)
(* that outlives it.  One engine thread per symbol asks can_trade, enters  *)
(* a position and then records it; whoever closes a position has its event *)
(* recorded by the engine of the symbol; guards trip the kill switch.      *)
(*                                                                         *)
(* Every change of a manager ends in _save_state: the state is copied,     *)
(* written to a temporary file and renamed over risk_state_{mode}.json.    *)
(* The copy is taken in the step that changes the manager, the rename is a *)
(* step of its own.                                                        *)
(*                                                                         *)
(* The engine's ExchangeStateReconciler holds the manager the engine was   *)
(* constructed with, not the shared one it was given afterwards.           *)
(*                                                                         *)
(* Gates on prices and on the clock (velocity, daily drawdown, cooldown,   *)
(* maximum drawdown, leverage) may refuse an entry at any time.            *)
(***************************************************************************)
EXTENDS Integers, FiniteSets

CONSTANTS
  Engines,          \* one engine thread per symbol
  WalletPublishes,  \* the wallet has the event bus: every close is announced
  MaxDaily,         \* max_daily_trades
  MaxConsecutive,   \* max_consecutive_losses
  InitialBalance,   \* of the wallet
  LossDivisor,      \* a day's loss of opening balance / LossDivisor halts
  Results,          \* profit or loss of a closed trade
  MaxTrades,        \* bound: positions opened
  MaxDays,          \* bound: days
  MaxMishaps        \* bound: failed entries, tripped guards, failed saves, crashes

ASSUME RiskConstants ==
  /\ IsFiniteSet(Engines)
  /\ WalletPublishes \in BOOLEAN
  /\ {MaxDaily, MaxConsecutive, InitialBalance, LossDivisor, MaxDays} \subseteq Nat \ {0}
  /\ Results \subseteq Int
  /\ {MaxTrades, MaxMishaps} \subseteq Nat

VARIABLES
  up,         \* the process runs
  day,        \* UTC date
  positions,  \* symbols with an open position
  balance,    \* wallet_balance
  shared,     \* the RiskManager every engine trades by
  own,        \* own[e]: the one e's ExchangeStateReconciler holds
  file,       \* risk_state_{mode}.json
  pc,         \* pc[e]: where e's thread stands
  copy,       \* copy[e]: the state e is about to write
  closing,    \* the close being recorded
  trades, mishaps,  \* spent bounds
  opened,     \* history: positions this process opened today
  late,       \* history: positions it opened with the shared switch on
  dayStart,   \* history: balance the day began with
  clean       \* history: no restart and no failed save in a close today

account == <<positions, balance>>
bounds  == <<trades, mishaps>>
history == <<opened, late, dayStart, clean>>
vars    == <<up, day, account, shared, own, file, pc, copy, closing, bounds, history>>

Managers == [count : Nat, day : 0 .. MaxDays, pnl : Int, losses : Nat, kill : BOOLEAN]
Fresh == [count |-> 0, day |-> 0, pnl |-> 0, losses |-> 0, kill |-> FALSE]

(* dead: an exception left the engine loop. *)
Stages == {"idle", "peak", "enter", "opened", "save", "trip", "killsave", "dead"}

(* pnl: the trade's result; bal: the balance its handler read.             *)
Closings ==
  [stage : {"idle", "booked", "save", "check", "killsave"}, pnl : Int, bal : Int, copy : Managers]
NoClosing == [stage |-> "idle", pnl |-> 0, bal |-> 0, copy |-> Fresh]

ManagerType ==
  /\ shared \in Managers /\ own \in [Engines -> Managers] /\ file \in Managers
  /\ copy \in [Engines -> Managers]
  /\ closing \in Closings
ProcessType ==
  /\ up \in BOOLEAN
  /\ day \in 1 .. MaxDays
  /\ positions \subseteq Engines /\ balance \in Int
  /\ pc \in [Engines -> Stages]
HistoryType ==
  /\ trades \in 0 .. MaxTrades /\ mishaps \in 0 .. MaxMishaps
  /\ opened \in Nat /\ late \in Nat /\ dayStart \in Int
FlagType == clean \in BOOLEAN

TypeOK == ManagerType /\ ProcessType /\ HistoryType /\ FlagType

Init ==
  /\ up = TRUE /\ day = 1
  /\ positions = {} /\ balance = InitialBalance
  /\ shared = Fresh /\ own = [e \in Engines |-> Fresh] /\ file = Fresh
  /\ pc = [e \in Engines |-> "idle"] /\ copy = [e \in Engines |-> Fresh]
  /\ closing = NoClosing
  /\ trades = 0 /\ mishaps = 0
  /\ opened = 0 /\ late = 0 /\ dayStart = InitialBalance
  /\ clean = TRUE

-----------------------------------------------------------------------------
Goto(e, stage) == pc' = [pc EXCEPT ![e] = stage]

Mishap == mishaps < MaxMishaps /\ mishaps' = mishaps + 1

(* _save_state up to the temporary file. *)
CopyOf(e, m) == copy' = [copy EXCEPT ![e] = m]

(* Writing or renaming the temporary file fails and raises. *)
SaveFails == Mishap /\ UNCHANGED file
Saves(m) == file' = m /\ UNCHANGED mishaps

(* _reset_daily_stats_if_new_day *)
Rolled(m) ==
  IF m.day = day THEN m ELSE [m EXCEPT !.count = 0, !.pnl = 0, !.day = day]

(* Mutant: the kill switch is not part of the gate. *)
CanTradeKilled(m) == m.count < MaxDaily /\ m.losses < MaxConsecutive

(* Mutant: one trade too many. *)
CanTradeOneMore(m) == ~m.kill /\ m.count <= MaxDaily /\ m.losses < MaxConsecutive

(* can_trade *)
CanTrade(m) == ~m.kill /\ m.count < MaxDaily /\ m.losses < MaxConsecutive

(* One signal tick asks the gate.  When it passes, update_peak_balance may *)
(* save a new high; open positions are looked at, and then comes the entry.*)
Gate(e) ==
  /\ up /\ pc[e] = "idle"
  /\ shared' = Rolled(shared)
  /\ \/ UNCHANGED <<pc, copy>>
     \/ CanTrade(shared') /\ Goto(e, "enter") /\ UNCHANGED copy
     \/ CanTrade(shared') /\ Goto(e, "peak") /\ CopyOf(e, shared')
  /\ UNCHANGED <<up, day, account, own, file, closing, bounds, history>>

(* A save that fails here raises out of the engine loop. *)
SavePeak(e) ==
  /\ up /\ pc[e] = "peak"
  /\ \/ Saves(copy[e]) /\ Goto(e, "enter")
     \/ SaveFails /\ Goto(e, "dead")
  /\ CopyOf(e, Fresh)
  /\ UNCHANGED <<up, day, account, shared, own, closing, trades, history>>

(* The entry: a position, none, or a failure that may have left one.  A    *)
(* close books and announces under the wallet's lock, if it announces.     *)
Enter(e) ==
  /\ up /\ pc[e] = "enter"
  /\ \/ /\ e \notin positions /\ trades < MaxTrades
        /\ WalletPublishes => closing.stage = "idle"
        /\ positions' = positions \cup {e}
        /\ trades' = trades + 1
        /\ opened' = opened + 1
        /\ late' = IF shared.kill THEN late + 1 ELSE late
        /\ Goto(e, "opened")
        /\ UNCHANGED mishaps
     \/ /\ \/ Goto(e, "idle") /\ UNCHANGED mishaps
           \/ Goto(e, "trip") /\ Mishap
        /\ UNCHANGED <<positions, trades, opened, late>>
  /\ UNCHANGED <<up, day, balance, shared, own, file, copy, closing,
                 dayStart, clean>>

(* record_open *)
RecordOpen(e) ==
  LET m == [Rolled(shared) EXCEPT !.count = @ + 1] IN
  /\ up /\ pc[e] = "opened"
  /\ shared' = m /\ CopyOf(e, m) /\ Goto(e, "save")
  /\ UNCHANGED <<up, day, account, own, file, closing, bounds, history>>

(* A save that fails after the entry counts as a failed entry. *)
SaveOpen(e) ==
  /\ up /\ pc[e] = "save"
  /\ \/ Saves(copy[e]) /\ Goto(e, "idle")
     \/ SaveFails /\ Goto(e, "trip")
  /\ CopyOf(e, Fresh)
  /\ UNCHANGED <<up, day, account, shared, own, closing, trades, history>>

(* trigger_kill_switch on the shared manager: a failed entry, the margin   *)
(* guard, the thread supervisor.                                           *)
Trip(e) ==
  LET m == [shared EXCEPT !.kill = TRUE] IN
  /\ up
  /\ \/ pc[e] = "trip" /\ UNCHANGED mishaps
     \/ pc[e] = "idle" /\ Mishap
  /\ shared' = m /\ CopyOf(e, m) /\ Goto(e, "killsave")
  /\ UNCHANGED <<up, day, account, own, file, closing, trades, history>>

(* trigger_kill_switch by reconcile_symbol, on the engine's own manager. *)
ReconcilerTrip(e) ==
  LET m == [own[e] EXCEPT !.kill = TRUE] IN
  /\ up /\ pc[e] = "idle" /\ Mishap
  /\ own' = [own EXCEPT ![e] = m] /\ CopyOf(e, m) /\ Goto(e, "killsave")
  /\ UNCHANGED <<up, day, account, shared, file, closing, trades, history>>

SaveKill(e) ==
  /\ up /\ pc[e] = "killsave"
  /\ Saves(copy[e]) \/ SaveFails
  /\ Goto(e, "idle") /\ CopyOf(e, Fresh)
  /\ UNCHANGED <<up, day, account, shared, own, closing, trades, history>>

-----------------------------------------------------------------------------
(* A position is closed by the monitor thread, which announces it when the *)
(* wallet does not, or by anyone else: engine, venue fill, liquidation.    *)
(* One close is recorded at a time: the wallet's lock sees to it where the *)
(* wallet announces, and elsewhere there is only one symbol to trade.      *)
Close(e) ==
  /\ up /\ e \in positions /\ closing.stage = "idle"
  /\ positions' = positions \ {e}
  /\ \E r \in Results, heard \in {TRUE, WalletPublishes} :
       /\ balance' = balance + r
       /\ closing' = IF heard THEN [stage |-> "booked", pnl |-> r, bal |-> balance', copy |-> Fresh]
                              ELSE NoClosing
  /\ UNCHANGED <<up, day, shared, own, file, pc, copy, bounds, history>>

(* Mutant: a close is added to yesterday's total. *)
RecordCloseNoRoll ==
  LET m == [shared EXCEPT !.pnl = @ + closing.pnl,
                          !.losses = IF closing.pnl > 0 THEN 0 ELSE @ + 1] IN
  /\ up /\ closing.stage = "booked"
  /\ shared' = m
  /\ closing' = [closing EXCEPT !.stage = "save", !.copy = m]
  /\ UNCHANGED <<up, day, account, own, file, pc, copy, bounds, history>>

(* record_close *)
RecordClose ==
  LET m == [Rolled(shared) EXCEPT !.pnl = @ + closing.pnl,
                                  !.losses = IF closing.pnl > 0 THEN 0 ELSE @ + 1] IN
  /\ up /\ closing.stage = "booked"
  /\ shared' = m
  /\ closing' = [closing EXCEPT !.stage = "save", !.copy = m]
  /\ UNCHANGED <<up, day, account, own, file, pc, copy, bounds, history>>

(* A failure leaves the handler before the daily loss is looked at. *)
SaveClose ==
  /\ up /\ closing.stage = "save"
  /\ \/ /\ Saves(closing.copy)
        /\ closing' = [closing EXCEPT !.stage = "check", !.copy = Fresh]
        /\ UNCHANGED clean
     \/ SaveFails /\ closing' = NoClosing /\ clean' = FALSE
  /\ UNCHANGED <<up, day, account, shared, own, pc, copy, trades,
                 opened, late, dayStart>>

(* The day's opening balance is what the balance would be without its pnl. *)
CheckDailyLoss ==
  LET opening == closing.bal - shared.pnl
      m == [shared EXCEPT !.kill = TRUE]
  IN
  /\ up /\ closing.stage = "check"
  /\ IF opening # 0 /\ shared.pnl * LossDivisor <= -opening
       THEN shared' = m /\ closing' = [closing EXCEPT !.stage = "killsave", !.copy = m]
       ELSE UNCHANGED shared /\ closing' = NoClosing
  /\ UNCHANGED <<up, day, account, own, file, pc, copy, bounds, history>>

SaveHalt ==
  /\ up /\ closing.stage = "killsave"
  /\ Saves(closing.copy) \/ SaveFails
  /\ closing' = NoClosing
  /\ UNCHANGED <<up, day, account, shared, own, pc, copy, trades, history>>

-----------------------------------------------------------------------------
(* Midnight.  A close booked but not yet recorded counts for the new day,  *)
(* for the manager and for dayStart.                                       *)
Midnight ==
  /\ day < MaxDays
  /\ day' = day + 1
  /\ opened' = 0
  /\ dayStart' = IF closing.stage = "booked" THEN balance - closing.pnl ELSE balance
  /\ clean' = TRUE
  /\ UNCHANGED <<up, account, shared, own, file, pc, copy, closing, bounds, late>>

Crash ==
  /\ up /\ Mishap
  /\ up' = FALSE
  /\ pc' = [e \in Engines |-> "idle"] /\ copy' = [e \in Engines |-> Fresh]
  /\ closing' = NoClosing
  /\ shared' = Fresh /\ own' = [e \in Engines |-> Fresh]
  /\ opened' = 0 /\ late' = 0 /\ clean' = FALSE
  /\ UNCHANGED <<day, account, file, trades, dayStart>>

(* Every RiskManager of the new process loads the file. *)
Restart ==
  /\ ~up
  /\ up' = TRUE
  /\ shared' = file /\ own' = [e \in Engines |-> file]
  /\ UNCHANGED <<day, account, file, pc, copy, closing, bounds,
                 opened, late, dayStart>>
  /\ clean' = FALSE

(* scripts/clear_risk, run while the process is down: a running one would  *)
(* not notice, and write its own switch over the file again.               *)
ClearRisk ==
  /\ ~up
  /\ file' = [file EXCEPT !.kill = FALSE, !.losses = 0]
  /\ UNCHANGED <<up, day, account, shared, own, pc, copy, closing, bounds, history>>

Engine(e) ==
  \/ Gate(e) \/ SavePeak(e) \/ Enter(e) \/ RecordOpen(e) \/ SaveOpen(e)
  \/ Trip(e) \/ ReconcilerTrip(e) \/ SaveKill(e)

Handler == RecordClose \/ SaveClose \/ CheckDailyLoss \/ SaveHalt

Next ==
  \/ \E e \in Engines : Engine(e) \/ Close(e)
  \/ Handler \/ Midnight \/ Crash \/ Restart \/ ClearRisk

Spec == Init /\ [][Next]_vars

-----------------------------------------------------------------------------
(* Properties.                                                             *)

(* The gate is passed before a position is opened and the position counted *)
(* after, by several threads: "Daily trade limit reached" is overshot by   *)
(* at most one position for every other engine.                            *)
DailyTradesBounded == opened <= MaxDaily + Cardinality(Engines) - 1

(* Once the shared switch is on, only entries already past the gate are    *)
(* made: no more than one per engine.                                      *)
KillStopsEntries == late <= Cardinality(Engines)

(* record_close: "enforce the daily-loss limit as a hard HALT".  When no   *)
(* close is being recorded and the day's loss has reached the limit, the   *)
(* switch is on, whichever threads closed the positions and wherever       *)
(* midnight fell.                                                          *)
DailyLossHalts ==
  up /\ clean /\ closing.stage = "idle" /\ dayStart > 0
     /\ (balance - dayStart) * LossDivisor <= -dayStart
  => shared.kill
=============================================================================
