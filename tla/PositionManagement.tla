------------------------- MODULE PositionManagement -------------------------
(***************************************************************************)
(* One symbol under the AI position manager: the reassessment loop (price  *)
(* read, snapshot, assessment by a model that may take seconds, policy     *)
(* guard, executor) beside the monitor of the WebSocket feed and the       *)
(* engine's candle tick, which exit the same position on their own.  All   *)
(* of them name a position by its symbol only.                             *)
(*                                                                         *)
(* The manager acts in live mode alone (elsewhere it is a dry run).  An    *)
(* exit is one step here, its two phases are those of PositionLifecycle,   *)
(* but it has their outcomes: it drops the venue stop first, and the order *)
(* that follows may be refused.  Quantities are left out.                  *)
(***************************************************************************)
EXTENDS Integers

CONSTANTS
  Prices,      \* what the feed may show, in units that keep 0.1% whole
  Risk,        \* distance of an entry's stop
  Reach1, Reach2,  \* distances of the take-profit levels of an entry
  Setups,      \* <<side, playbook>> of the signals
  Advised,     \* decisions the model may come to
  TrailGap, Buffer,  \* ATR distances of a computed trail and breakeven stop
  BackupBps,   \* software_sl_backup_bps
  DryRun,      \* POSITION_MANAGER_AUDIT_ONLY
  Defer,       \* WS_PM_DEFER_EXITS
  RequireSl,   \* COINDCX_REQUIRE_VENUE_SL
  MaxTrades,   \* bound: positions opened
  MaxQueue,    \* bound: triggers waiting
  MaxRefusals  \* bound: calls the venue refuses, HALT tripped elsewhere

Sides == {"LONG", "SHORT"}
Levels == {"TP1", "TP2"}

Holds == {"KEEP_OPEN", "HOLD_AND_MONITOR", "PAUSE_MANAGEMENT"}
Tight == {"TIGHTEN_SL", "TRAIL_SL", "MOVE_SL_TO_BREAKEVEN"}
Actions == Holds \cup Tight \cup
  {"LOOSEN_SL", "TAKE_PARTIAL_PROFIT", "FULL_EXIT", "SCALE_IN", "SCALE_OUT",
   "REVERSE_AND_REOPEN"}
Types == {"keep", "modify_stop", "partial_exit", "full_exit", "scale_in", "other"}

\* stop = 0: no new_stop_loss.  pct is exit_qty_pct: missing, below 0.01,
\* within [0.01, 1.0] or above.
Pcts == {"none", "low", "in", "high"}
Decision == [action : Actions, type : Types, stop : Nat, pct : Pcts]

ASSUME ManagementConstants ==
  /\ Prices \subseteq Nat /\ \A p \in Prices : p >= 1000
  /\ {Risk, Reach1, Reach2, TrailGap, Buffer, BackupBps} \subseteq Nat
  /\ \A p \in Prices : Risk < p /\ Buffer < p /\ TrailGap < p
  /\ Setups \subseteq Sides \X {"INTRADAY", "SWING"}
  /\ Advised \subseteq Decision
  /\ {DryRun, Defer, RequireSl} \subseteq BOOLEAN
  /\ {MaxTrades, MaxQueue, MaxRefusals} \subseteq Nat

VARIABLES
  price,    \* the last price of the feed, 0: none yet
  trade,    \* the wallet's position
  venueSl,  \* price of the stop the wallet knows on the venue, 0: none
  queue,    \* triggers in _force_queue
  recent,   \* _last_eval is less than min_reassess_interval_s ago
  loop,     \* the reassessment loop: [at, left, forced, ltp, seen]
  mon,      \* the monitor: [at, want, entry], at TP1 the entry it has seen
  unseen,   \* history: a price move was queued and no evaluation read since
  haltFile, \* the HALT file
  running,  \* the engine runs, and with it the feed and the monitor
  opened, refusals   \* spent bounds

outlook == <<haltFile, running, refusals>>
held == <<trade, venueSl, opened, outlook>>
manager == <<queue, recent, loop, unseen>>
managerVars == <<price, held, manager, mon>>

Trade == [id : 0..MaxTrades, side : Sides, book : {"INTRADAY", "SWING"},
          entry : Prices \cup {0}, sl : Nat, hits : SUBSET Levels]
NoTrade == [id |-> 0, side |-> "LONG", book |-> "SWING", entry |-> 0,
            sl |-> 0, hits |-> {}]
\* What the assessment and the clamps use of a snapshot.
Snapshot(t) == [id |-> t.id, side |-> t.side, entry |-> t.entry, sl |-> t.sl]
Snapshots == [id : 0..MaxTrades, side : Sides, entry : Prices \cup {0}, sl : Nat]
Unseen == Snapshot(NoTrade)
Asleep == [at |-> "sleep", left |-> 0, forced |-> FALSE, ltp |-> 0, seen |-> Unseen]
Idle == [at |-> "idle", want |-> "none", entry |-> 0]

-----------------------------------------------------------------------------
(* Prices                                                                  *)

Apart(a, b) == IF a > b THEN a - b ELSE b - a
Behind(side, p, d) == IF side = "LONG" THEN p - d ELSE p + d
Ahead(side, p, d) == IF side = "LONG" THEN p + d ELSE p - d
Reaches(side, p, level) == IF side = "LONG" THEN p >= level ELSE p <= level
Through(side, p, level) == IF side = "LONG" THEN p <= level ELSE p >= level

\* _software_sl_level: the software exit waits BackupBps beyond the stop while
\* the wallet knows one on the venue.
Backup == IF venueSl # 0 THEN BackupBps ELSE 0
Breached ==
  /\ trade.id # 0 /\ price # 0
  /\ IF trade.side = "LONG" THEN price * 10000 <= trade.sl * (10000 - Backup)
     ELSE price * 10000 >= trade.sl * (10000 + Backup)

Target(t, level) ==
  Ahead(t.side, t.entry, IF level = "TP1" THEN Reach1 ELSE Reach2)
Hit(t, p) == {l \in Levels \ t.hits : Reaches(t.side, p, Target(t, l))}
FirstHit(t, p) == IF "TP1" \in Hit(t, p) THEN "TP1" ELSE "TP2"

-----------------------------------------------------------------------------
(* Assessment, policy guard and the parameters the executor is given       *)

Trailed(s, ltp) ==
  LET to == Behind(s.side, ltp, TrailGap)
  IN  IF Through(s.side, s.sl, to) THEN to ELSE s.sl

\* Without a model the scorer decides, by its band of the score.
Scored ==
  {[action |-> "KEEP_OPEN", type |-> "keep", stop |-> 0, pct |-> "none"],
   [action |-> "HOLD_AND_MONITOR", type |-> "keep", stop |-> 0, pct |-> "none"],
   [action |-> "TAKE_PARTIAL_PROFIT", type |-> "partial_exit", stop |-> 0, pct |-> "in"],
   [action |-> "FULL_EXIT", type |-> "full_exit", stop |-> 0, pct |-> "in"]}

Decisions == Scored \cup Advised

\* _dict_to_decision computes a stop the model left out.
Completed(d, s, ltp) ==
  IF d.stop # 0 THEN d
  ELSE IF d.action = "TRAIL_SL" THEN [d EXCEPT !.stop = Trailed(s, ltp)]
  ELSE IF d.action = "MOVE_SL_TO_BREAKEVEN"
    THEN [d EXCEPT !.stop = Ahead(s.side, s.entry, Buffer)]
  ELSE d

Widening(d, s) ==
  5 * Apart(s.entry, d.stop) > 6 * Apart(s.entry, s.sl)

\* LOOSEN_SL: no playbook permits it.  What lets a SCALE_IN or a REVERSE
\* through (margin, profit, confidence) is left open.
Approved(d, s) ==
  \/ d.action = "FULL_EXIT"
  \/ /\ d.action \in Tight \cup {"LOOSEN_SL"} => d.stop # 0
     /\ d.stop # 0 /\ s.sl # 0 => ~Widening(d, s) /\ d.action # "LOOSEN_SL"

Snapped(stop, s, ltp) ==
  IF stop # 0 /\ Through(s.side, ltp, stop)
  THEN (ltp * (IF s.side = "LONG" THEN 999 ELSE 1001)) \div 1000
  ELSE stop

Reverted(stop, action, s) ==
  IF stop # 0 /\ action \in Tight /\ Apart(s.entry, stop) > Apart(s.entry, s.sl)
  THEN s.sl ELSE stop

\* Mutant: the stop is held to the present one before it is moved off the price.
ClampedStopSwapped(d, s, ltp) == Snapped(Reverted(d.stop, d.action, s), s, ltp)

ClampedStop(d, s, ltp) == Reverted(Snapped(d.stop, s, ltp), d.action, s)

\* modified_params: nothing where the clamps changed nothing, and then the
\* executor takes type "keep".
Params(d, s, ltp) ==
  LET stop == ClampedStop(d, s, ltp)
      same == stop = d.stop /\ d.pct \in {"none", "in"}
  IN  IF d.action = "FULL_EXIT" \/ same
      THEN [type |-> "keep", stop |-> 0]
      ELSE [type |-> d.type, stop |-> stop]

-----------------------------------------------------------------------------
(* What the wallet and the venue do for the actors                         *)

\* Ways an exit ends: nothing is left ("closed": close_position, or
\* partial_close whose rest is dust or none); its order is refused; a slice is
\* sold ("sliced"), and its stop is refused ("bare") or the order for the dust
\* is ("rest").
Closings == {"closed", "refused"}
Ways == Closings \cup {"sliced", "bare", "rest"}

Refusal == refusals < MaxRefusals /\ refusals' = refusals + 1

\* Under HALT no order passes (a close of what the venue has closed already is
\* ClosedOutside); what the venue refuses is counted.
Ends(way) ==
  IF trade.id = 0 THEN way = "closed" /\ UNCHANGED refusals
  ELSE /\ way # "refused" => ~haltFile
       /\ way = "bare" => venueSl # 0
       /\ IF haltFile \/ way \in {"closed", "sliced"} THEN UNCHANGED refusals ELSE Refusal

\* The trade that is left; level: what the slice takes.
Left(level, way) ==
  CASE way = "closed" -> NoTrade
    [] way = "refused" -> trade
    [] OTHER -> [trade EXCEPT !.hits = @ \cup level]

\* The stop was dropped before the order; a slice puts it back if there was
\* one.  A required stop that is refused halts; the emergency close comes after
\* that and is refused itself.
Dropped(way) ==
  /\ venueSl' = IF way = "sliced" /\ venueSl # 0 THEN trade.sl ELSE 0
  /\ haltFile' = (haltFile \/ (way = "bare" /\ RequireSl))
  /\ UNCHANGED opened

Exits(level, way) == Ends(way) /\ Dropped(way) /\ trade' = Left(level, way)

Raises(way) == way \in {"refused", "rest"} \/ (way = "bare" /\ RequireSl)

\* Mutant: the executor would write the position of its snapshot back.
StopAtSnapshot(s) ==
  trade' = IF trade.id # 0 THEN [trade EXCEPT !.id = loop.seen.id, !.side = loop.seen.side, !.sl = s]
           ELSE trade

StopAt(s) == trade' = IF trade.id # 0 THEN [trade EXCEPT !.sl = s] ELSE trade

-----------------------------------------------------------------------------
(* The feed, time and the engine                                           *)

ManagerInit ==
  /\ price = 0
  /\ trade = NoTrade /\ venueSl = 0 /\ opened = 0
  /\ haltFile = FALSE /\ running = TRUE /\ refusals = 0
  /\ queue = 0 /\ recent = FALSE /\ unseen = FALSE
  /\ loop = Asleep
  /\ mon = Idle

\* on_tick: a move of 1% (a "tick") or of 3% (a "shock") queues a trigger.
Moves(p) == price # 0 /\ 100 * Apart(p, price) >= price

Tick(p) ==
  /\ running /\ p # price
  /\ price' = p
  /\ IF Moves(p) THEN queue < MaxQueue /\ queue' = queue + 1 /\ unseen' = TRUE
     ELSE UNCHANGED <<queue, unseen>>
  /\ UNCHANGED <<held, recent, loop, mon>>

\* on_candle_close, on_fill, force_reassess.
Nudge ==
  /\ queue < MaxQueue
  /\ queue' = queue + 1
  /\ UNCHANGED <<price, held, recent, loop, unseen, mon>>

\* min_reassess_interval_s pass; only a turn asks whether they have.
Elapse ==
  /\ recent /\ loop.at = "turn"
  /\ recent' = FALSE
  /\ UNCHANGED <<price, held, queue, loop, unseen, mon>>

\* The engine's guards, its other symbols and the operator share the file.
TripHalt ==
  /\ ~haltFile /\ Refusal
  /\ haltFile' = TRUE
  /\ UNCHANGED <<price, trade, venueSl, opened, running, manager, mon>>

ClearHalt ==
  /\ haltFile
  /\ haltFile' = FALSE
  /\ UNCHANGED <<price, trade, venueSl, opened, running, refusals, manager, mon>>

\* open_position; the venue may refuse the stop, which halts if it is required.
Enter(side, playbook, rests) ==
  /\ running /\ ~haltFile
  /\ trade.id = 0 /\ price # 0 /\ opened < MaxTrades
  /\ opened' = opened + 1
  /\ trade' = [id |-> opened + 1, side |-> side, book |-> playbook, entry |-> price,
               sl |-> Behind(side, price, Risk), hits |-> {}]
  /\ venueSl' = IF rests THEN Behind(side, price, Risk) ELSE 0
  /\ IF rests THEN UNCHANGED refusals ELSE Refusal
  /\ haltFile' = (~rests /\ RequireSl)
  /\ UNCHANGED <<price, running, manager, mon>>

\* A close without an order, or of the venue's or a user's: its stop fires and
\* the fill is booked, the wallet liquidates, a close finds the venue flat.
ClosedOutside ==
  /\ trade.id # 0
  /\ trade' = NoTrade /\ venueSl' = 0
  /\ UNCHANGED <<price, opened, outlook, manager, mon>>

\* What follows a slice at TP1.
AtEntry(t, way) == IF t.id # 0 /\ ~Raises(way) THEN [t EXCEPT !.sl = t.entry] ELSE t

\* update_positions, under the lock throughout: one take-profit of a SWING
\* or a close (target, stop, time, trailing, reversal, margin).  What it raises
\* ends run_loop; the engine stops feed and monitor.
CandleTick(way) ==
  /\ running /\ trade.id # 0 /\ price # 0
  /\ LET takes == trade.book = "SWING" /\ Hit(trade, price) # {}
         level == IF takes THEN {FirstHit(trade, price)} ELSE {}
         t == Left(level, way)
     IN  /\ takes \/ way \in Closings
         /\ Ends(way) /\ Dropped(way)
         /\ trade' = IF level = {"TP1"} THEN AtEntry(t, way) ELSE t
  /\ running' = ~Raises(way)
  /\ UNCHANGED <<price, manager, mon>>

-----------------------------------------------------------------------------
(* The monitor: it looks at a position without the lock, then acts on      *)
(* whatever position the symbol has by then                                *)

Watching ==
  /\ mon.at = "idle" /\ running /\ ~Defer
  /\ price # 0 /\ trade.id # 0

Decides(want) ==
  /\ mon' = [at |-> "act", want |-> want,
             entry |-> IF want = "TP1" THEN trade.entry ELSE 0]
  /\ UNCHANGED <<price, held, manager>>

\* Exits by margin and by what the price has given back: catastrophic loss,
\* windfall, peak and trailing stop.
LookAtProfit == Watching /\ Decides("close")

\* Mutant: the software stop is for positions with a stop on the venue.
LookAtLevelsBacked ==
  /\ Watching /\ venueSl # 0
  /\ \/ /\ trade.book = "SWING" /\ Hit(trade, price) # {}
        /\ Decides(FirstHit(trade, price))
     \/ /\ trade.book = "SWING" /\ Hit(trade, price) = {} /\ Breached
        /\ Decides("close")
     \/ /\ trade.book = "INTRADAY"
        /\ Reaches(trade.side, price, Target(trade, "TP1")) \/ Breached
        /\ Decides("close")

\* _check_intraday and _check_swing: a target, else the stop.
LookAtLevels ==
  /\ Watching
  /\ \/ /\ trade.book = "SWING" /\ Hit(trade, price) # {}
        /\ Decides(FirstHit(trade, price))
     \/ /\ trade.book = "SWING" /\ Hit(trade, price) = {} /\ Breached
        /\ Decides("close")
     \/ /\ trade.book = "INTRADAY"
        /\ Reaches(trade.side, price, Target(trade, "TP1")) \/ Breached
        /\ Decides("close")

\* What is raised ends the iteration; the next one looks again.
Exit(way) ==
  /\ mon.at = "act"
  /\ mon.want = "close" => way \in Closings
  /\ Exits(IF mon.want = "close" THEN {} ELSE {mon.want}, way)
  /\ mon' = IF mon.want = "TP1" /\ ~Raises(way) THEN [mon EXCEPT !.at = "move"] ELSE Idle
  /\ UNCHANGED <<price, running, manager>>

\* adjust_sl_price to the entry of the position it looked at.
ToBreakeven ==
  /\ mon.at = "move"
  /\ StopAt(mon.entry)
  /\ mon' = Idle
  /\ UNCHANGED <<price, venueSl, opened, outlook, manager>>

-----------------------------------------------------------------------------
(* The reassessment loop                                                   *)

TakeQueue ==
  /\ loop.at = "sleep" /\ queue > 0
  /\ loop' = [loop EXCEPT !.at = "turn", !.left = queue, !.forced = TRUE]
  /\ queue' = 0
  /\ UNCHANGED <<price, held, recent, unseen, mon>>

\* An iteration begins with the queue; then _evaluate_all, if
\* scheduled_interval_s have passed.
Sweep ==
  /\ loop.at = "done" \/ (loop.at = "sleep" /\ queue = 0)
  /\ trade.id # 0
  /\ loop' = [loop EXCEPT !.at = "turn", !.left = 1, !.forced = FALSE]
  /\ UNCHANGED <<price, held, queue, recent, unseen, mon>>

Rest ==
  /\ loop.at = "done"
  /\ loop' = Asleep
  /\ UNCHANGED <<price, held, queue, recent, unseen, mon>>

\* Mutant: a forced evaluation is debounced too.
DebouncedAlways(forced) == recent

Debounced(forced) == recent /\ ~forced

\* The evaluation ends; the loop goes on with the next, if there is one.
Over(l) ==
  [l EXCEPT !.at = IF l.left > 0 THEN "turn" ELSE IF l.forced THEN "done" ELSE "sleep",
            !.ltp = 0, !.seen = Unseen]
Counted(l) == [l EXCEPT !.left = @ - 1]

\* _evaluate_symbol up to the price: it is read before candles are fetched.
Begin ==
  /\ loop.at = "turn"
  /\ IF Debounced(loop.forced) \/ price = 0
     THEN loop' = Over(Counted(loop)) /\ UNCHANGED <<recent, unseen>>
     ELSE /\ loop' = [Counted(loop) EXCEPT !.at = "context", !.ltp = price]
          /\ recent' = TRUE /\ unseen' = FALSE
  /\ UNCHANGED <<price, held, queue, mon>>

\* build_snapshot, once the market context is there.
Snap ==
  /\ loop.at = "context"
  /\ loop' = IF trade.id = 0 THEN Over(loop)
             ELSE [loop EXCEPT !.at = "assess", !.seen = Snapshot(trade)]
  /\ UNCHANGED <<price, held, queue, recent, unseen, mon>>

\* Stale market data (PAUSE_MANAGEMENT), a rejected decision, an error: the
\* evaluation ends without an effect.
NoAction ==
  /\ loop.at \in {"context", "assess"}
  /\ loop' = Over(loop)
  /\ UNCHANGED <<price, held, queue, recent, unseen, mon>>

\* executor.apply, by symbol.  Of a stop moved only the wallet hears
\* (_exchange_replace_sl: the cancel takes an id alone, raises and is
\* swallowed, and there is no place_stop_market); what an exit raises is
\* swallowed too.
Executed(action, p, s) ==
  IF DryRun \/ action \in Holds THEN UNCHANGED held
  ELSE CASE p.type = "modify_stop" /\ p.stop \notin {0, s.sl} ->
              StopAt(p.stop) /\ UNCHANGED <<venueSl, opened, outlook>>
         [] p.type = "partial_exit" -> UNCHANGED running /\ \E way \in Ways : Exits({}, way)
         [] p.type = "full_exit" -> UNCHANGED running /\ \E way \in Closings : Exits({}, way)
         [] OTHER -> UNCHANGED held

\* The answer arrives, is validated and carried out.  An expansion without the
\* confidence for it becomes a hold: that is NoAction.
Act(advice) ==
  LET s == loop.seen
      d == Completed(advice, s, loop.ltp)
  IN  /\ loop.at = "assess"
      /\ loop' = Over(loop)
      /\ Approved(d, s)
      /\ Executed(d.action, Params(d, s, loop.ltp), s)
      /\ UNCHANGED <<price, queue, recent, unseen, mon>>

-----------------------------------------------------------------------------
Manage == TakeQueue \/ Rest \/ Begin \/ Snap \/ NoAction
          \/ \E d \in Decisions : Act(d)
MonitorStep == LookAtLevels \/ ToBreakeven \/ \E way \in Ways : Exit(way)

ManagerNext ==
  \/ \E p \in Prices : Tick(p)
  \/ Nudge \/ Elapse \/ TripHalt \/ ClearHalt
  \/ \E setup \in Setups, rests \in BOOLEAN : Enter(setup[1], setup[2], rests)
  \/ ClosedOutside
  \/ \E way \in Ways : CandleTick(way)
  \/ LookAtProfit \/ MonitorStep
  \/ Sweep \/ Manage

\* The loop keeps running, and while the engine lives the monitor, on fresh
\* prices (a stale feed stops it until the feed is back); nothing obliges the
\* market, the engine, the venue, the operator or the scheduled sweep.
ManagerSpec ==
  /\ ManagerInit /\ [][ManagerNext]_managerVars
  /\ WF_managerVars(Manage) /\ WF_managerVars(MonitorStep)

-----------------------------------------------------------------------------
(* Properties                                                              *)

\* Every variable keeps its type; prices and entries are prices of the feed.
ManagerTypeOK ==
  /\ price \in Prices \cup {0} /\ trade \in Trade /\ venueSl \in Nat /\ opened \in 0..MaxTrades
  /\ haltFile \in BOOLEAN /\ running \in BOOLEAN /\ refusals \in 0..MaxRefusals
  /\ queue \in 0..MaxQueue /\ recent \in BOOLEAN /\ unseen \in BOOLEAN
  /\ loop \in [at : {"sleep", "turn", "context", "assess", "done"}, left : 0..MaxQueue + 1,
               forced : BOOLEAN, ltp : Prices \cup {0}, seen : Snapshots]
  /\ mon \in [at : {"idle", "act", "move"}, want : Levels \cup {"none", "close"},
              entry : Prices \cup {0}]

\* A stop the manager moves on the position it assessed, while nobody else
\* moved it, stays off the price it was assessed at, and a tightening one
\* gets no farther from the entry (policy_guard.py:250-283).
MovesSafely ==
  [][/\ trade'.sl # trade.sl /\ trade'.id = trade.id
     /\ trade.id = loop.seen.id /\ trade.sl = loop.seen.sl
     => \A d \in Decisions : Act(d) =>
          /\ ~Through(trade.side, loop.ltp, trade'.sl)
          /\ d.action \in Tight =>
               Apart(trade.entry, trade'.sl) <= Apart(trade.entry, trade.sl)]_managerVars

Trades == INSTANCE PositionContract WITH
            current <- trade.id,
            side <- IF trade.id = 0 THEN "none" ELSE trade.side,
            opened <- opened,
            closed <- IF trade.id = 0 THEN opened ELSE opened - 1

\* Manager, monitor and candle tick act by symbol on what they looked at some
\* steps ago; none brings back a position closed since or turns one over: with
\* exits of one step this module keeps the contract that PositionLifecycle
\* keeps with exits of several.
TradesKeepContract == Trades!Contract

\* A price move that queued a reassessment is followed by an evaluation that
\* reads a price at least as recent, however often evaluations are debounced
\* (reassessment_loop.py:137-148).
MoveIsSeen == unseen ~> ~unseen

\* A position whose price is beyond the software stop does not stay open and
\* beyond it, although the manager moves the stop, and although exits of all
\* three actors drop the venue stop and are then refused: unless orders are
\* halted, or the engine ended (ws_client.py:610-668, _wallet.py:1480).
BreachIsActedOn == Breached ~> (~Breached \/ haltFile \/ ~running)
=============================================================================
