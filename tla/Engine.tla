-------------------------------- MODULE Engine --------------------------------
(***************************************************************************)
(* The engines of one live process, an engine per symbol: each has a loop  *)
(* (supervision, reconciliation, signal tick, entry), a monitor beside it  *)
(* that exits and checks the account's margin, and a command handler.      *)
(* They share the wallet and its margin, the risk manager's kill switch    *)
(* and the HALT file; an engine's own _halted is not shared, and neither   *)
(* is the risk manager its reconciler was constructed with, which trades   *)
(* nothing: the engine was given the shared one afterwards.                *)
(*                                                                         *)
(* A position is its margin.  How an exit and its protective orders go is  *)
(* PositionLifecycle's matter, what the risk gate counts RiskGate's: here  *)
(* an exit succeeds or raises, and the gate may refuse.                    *)
(***************************************************************************)
EXTENDS Integers, FiniteSets

CONSTANTS
  Engines,      \* symbols, one engine each
  Balance,      \* margin of the account
  Initial,      \* the configured initial_balance, which the reducer started from
  Sizes,        \* margins the sizing of an entry may come to
  MaxUsed,      \* used margin above which entries are refused
  MaxFaults,    \* bound: calls and threads that fail
  MaxEntries,   \* bound: orders sent
  MaxCommands   \* bound: acts of the operator

ASSUME EngineConstants ==
  /\ IsFiniteSet(Engines)
  /\ Sizes \subseteq Nat \ {0}
  /\ {Balance, Initial, MaxUsed, MaxFaults, MaxEntries, MaxCommands} \subseteq Nat

VARIABLES
  at,       \* where the engine's loop is, see Places
  halted,   \* _halted of the engine
  want,     \* margin of the entry under way, 0: none
  book,     \* margin of the wallet's position, 0: none
  balance,  \* what the wallet takes for its balance
  venue,    \* margin of the venue's position, 0: none
  watch,    \* the engine's feed and monitor: "on", "off" (reconnecting), "dead"
  misses,   \* _consecutive_health_failures, from 3 on the same
  kill,     \* the kill switch; nothing in the process resets it
  alarm,    \* the kill switch of the reconciler's manager
  halt,     \* the HALT file
  danger,   \* the account's margin ratio is above max_margin_ratio
  late,     \* history: entries filled since the engine was told to stop
  faults, entries, commands   \* spent bounds

loops  == <<at, want, late>>
money  == <<book, balance, venue>>
guards == <<halted, kill, alarm, halt>>
health == <<watch, misses>>
spent  == <<faults, entries, commands>>
vars   == <<loops, money, guards, health, danger, spent>>

(* "top" of an iteration, supervised ("run"), past the risk gate ("gated"),*)
(* order decided ("send"), filled ("book"), the entry raised ("failed"),   *)
(* loop ended ("gone").                                                    *)
Places == {"top", "run", "gated", "send", "book", "failed", "gone"}

\* The engines' margin, unit by unit, and its sum.
Units(f) == UNION {{e} \X (1 .. f[e]) : e \in Engines}
Total(f) == Cardinality(Units(f))
Used == Total(book)

\* An engine that may not enter any more.
Told(e) == halted[e] \/ kill

Orphan(e) == venue[e] # 0 /\ book[e] = 0

Init ==
  /\ at = [e \in Engines |-> "top"]
  /\ want = [e \in Engines |-> 0]
  /\ book = [e \in Engines |-> 0] /\ balance = Balance /\ venue = [e \in Engines |-> 0]
  /\ halted = [e \in Engines |-> FALSE] /\ kill = FALSE
  /\ alarm = [e \in Engines |-> FALSE] /\ halt = FALSE
  /\ watch = [e \in Engines |-> "on"] /\ misses = [e \in Engines |-> 0]
  /\ danger = FALSE
  /\ late = [e \in Engines |-> 0]
  /\ faults = 0 /\ entries = 0 /\ commands = 0

-----------------------------------------------------------------------------
(* Shared steps                                                            *)

\* Every event of the wallet sets its balance from the reducer's, which no sync
\* with the account has touched (fees and results left out).
Books(e, margin) == book' = [book EXCEPT ![e] = margin] /\ balance' = Initial

Goes(e, place) == at' = [at EXCEPT ![e] = place]

Fault == faults < MaxFaults /\ faults' = faults + 1 /\ UNCHANGED <<entries, commands>>

\* close_position: without a venue position it sends nothing, else its order
\* has to pass the HALT file.
CanClose(e) == venue[e] = 0 \/ ~halt

Close(e) ==
  /\ Books(e, 0)
  /\ venue' = [venue EXCEPT ![e] = IF @ > book[e] THEN @ - book[e] ELSE 0]

\* It raises: the HALT file refuses its order, or the venue does.
CloseFails(e) ==
  /\ UNCHANGED money
  /\ \/ ~CanClose(e) /\ UNCHANGED spent
     \/ CanClose(e) /\ Fault

\* What a guard does with the position of its engine, if there is one.
Flattens(e) ==
  \/ book[e] = 0 /\ UNCHANGED <<money, spent>>
  \/ book[e] # 0 /\ CanClose(e) /\ Close(e) /\ UNCHANGED spent
  \/ book[e] # 0 /\ CloseFails(e)

-----------------------------------------------------------------------------
(* The loop                                                                *)

\* _supervise_threads, at the top of each iteration of run_loop.
Supervise(e) ==
  /\ at[e] = "top" /\ watch[e] # "dead"
  /\ Goes(e, "run")
  /\ UNCHANGED <<want, late, money, guards, health, danger, spent>>

FailStop(e) ==
  /\ at[e] = "top" /\ watch[e] = "dead"
  /\ Goes(e, "gone")
  /\ halt' = TRUE /\ kill' = TRUE /\ halted' = [halted EXCEPT ![e] = TRUE]
  /\ UNCHANGED <<want, late, money, alarm, health, danger, spent>>

\* Mutant: a position the wallet does not know is left to be.
OutOfStepGhost(e) == book[e] # 0 /\ venue[e] = 0

\* The two sides disagree on whether there is a position.
OutOfStep(e) == (book[e] = 0) # (venue[e] = 0)

\* The wallet's balance is overwritten by what sync_balance reads: with USDT
\* margin, the default, what is free of the account's.
Synced == balance' = Balance - Total(venue)

\* A position only one side has trips the switch, a difference of quantities
\* is aligned to the venue.
Compared(e) ==
  /\ alarm' = [alarm EXCEPT ![e] = @ \/ OutOfStep(e)]
  /\ book' = IF book[e] # 0 /\ venue[e] # 0
             THEN [book EXCEPT ![e] = venue[e]] ELSE book

\* reconcile_symbol.  A read that fails is logged and nothing else.
Reconcile(e) ==
  /\ at[e] = "run"
  /\ Goes(e, "top")
  /\ \/ Synced /\ Compared(e) /\ UNCHANGED spent
     \/ Synced /\ UNCHANGED <<alarm, book>> /\ Fault
     \/ Compared(e) /\ UNCHANGED balance /\ Fault
  /\ UNCHANGED <<want, late, venue, halted, kill, halt, health, danger>>

\* Mutant: the tick does not look at _halted.
MayTickAlways(e) == ~kill

\* _signal_tick looks at _halted, then (data fetched) the gate at the kill
\* switch; neither is looked at again.
MayTick(e) == ~halted[e] /\ ~kill

Gate(e) ==
  /\ at[e] = "run" /\ MayTick(e)
  /\ Goes(e, "gated")
  /\ UNCHANGED <<want, late, money, guards, health, danger, spent>>

\* No tick due, or no market data for it.
Skip(e) ==
  /\ at[e] = "run"
  /\ Goes(e, "top")
  /\ UNCHANGED <<want, late, money, guards, health, danger, spent>>

\* Refused by the gate, no signal, or a veto of _execute_entry: funding, scope,
\* stale feed, basis, size, margin, leverage, fees.
NoEntry(e) ==
  /\ at[e] = "gated"
  /\ Goes(e, "top")
  /\ UNCHANGED <<want, late, money, guards, health, danger, spent>>

\* _update_open_position closes; an entry may follow in the same tick.
TickExit(e) ==
  /\ at[e] = "gated" /\ book[e] # 0 /\ CanClose(e)
  /\ Close(e)
  /\ UNCHANGED <<loops, guards, health, danger, spent>>

\* Its close raises, through _signal_tick and run_loop: run_engine logs it and
\* stops feed and monitor.
Crash(e) ==
  /\ at[e] = "gated" /\ book[e] # 0
  /\ CloseFails(e)
  /\ Goes(e, "gone")
  /\ watch' = [watch EXCEPT ![e] = "dead"]
  /\ UNCHANGED <<want, late, guards, misses, danger>>

\* _evaluate_and_enter and _execute_entry up to the order.
Decide(e) ==
  /\ at[e] = "gated" /\ book[e] = 0
  /\ Used <= MaxUsed
  /\ \E m \in Sizes : want' = [want EXCEPT ![e] = m]
  /\ Goes(e, "send")
  /\ UNCHANGED <<late, money, guards, health, danger, spent>>

Fills(e) ==
  /\ venue' = [venue EXCEPT ![e] = @ + want[e]]
  /\ late' = [late EXCEPT ![e] = IF Told(e) THEN @ + 1 ELSE @]

Affords(e) == Total(venue) + want[e] <= Balance

Sent == entries < MaxEntries /\ entries' = entries + 1 /\ UNCHANGED commands

\* The venue fills the entry; the wallet's lock is not held.
Send(e) ==
  /\ at[e] = "send" /\ ~halt
  /\ Affords(e) /\ Fills(e) /\ Sent
  /\ Goes(e, "book")
  /\ UNCHANGED <<want, book, balance, guards, health, danger, faults>>

\* Nothing was sent or filled: a 4xx, or a passive order that was cancelled.
Refused(e) ==
  /\ at[e] = "send" /\ ~halt
  /\ Goes(e, "top")
  /\ want' = [want EXCEPT ![e] = 0]
  /\ UNCHANGED <<late, money, guards, health, danger, spent>>

\* Timeout or 5xx, filled or not; or the HALT file refused the order.
Doubtful(e) ==
  /\ at[e] = "send"
  /\ Goes(e, "failed")
  /\ want' = [want EXCEPT ![e] = 0]
  /\ \/ halt /\ UNCHANGED <<venue, late, spent>>
     \/ ~halt /\ Fault /\ UNCHANGED <<venue, late>>
     \/ ~halt /\ Fault /\ Affords(e) /\ Fills(e)
  /\ UNCHANGED <<book, balance, guards, health, danger>>

\* A passive order times out, its cancel and the status read after it both
\* fail: the entry counts as skipped, the order still rests and fills.
SkippedButFilled(e) ==
  /\ at[e] = "send" /\ ~halt
  /\ Affords(e) /\ Fills(e) /\ Fault
  /\ Goes(e, "top")
  /\ want' = [want EXCEPT ![e] = 0]
  /\ UNCHANGED <<book, balance, guards, health, danger>>

\* Mutant: booked without looking at the balance again.
BookableAlways(e) == TRUE

Bookable(e) == want[e] <= balance - Used

\* open_position, second phase.  A fill the balance no longer covers is
\* dropped: open_position returns None and the tick ends.
Book(e) ==
  /\ at[e] = "book"
  /\ Goes(e, "top")
  /\ IF Bookable(e) THEN Books(e, want[e]) ELSE UNCHANGED <<book, balance>>
  /\ want' = [want EXCEPT ![e] = 0]
  /\ UNCHANGED <<late, venue, guards, health, danger, spent>>

\* The stop is refused: HALT first, so the emergency close is refused too,
\* then the exception.
StopRefused(e) ==
  /\ at[e] = "book" /\ Bookable(e)
  /\ Fault
  /\ Books(e, want[e])
  /\ want' = [want EXCEPT ![e] = 0]
  /\ halt' = TRUE
  /\ Goes(e, "failed")
  /\ UNCHANGED <<late, venue, halted, kill, alarm, health, danger>>

\* The handler of what an entry raised, other than a 4xx.
EntryFailure(e) ==
  /\ at[e] = "failed"
  /\ Goes(e, "top")
  /\ halted' = [halted EXCEPT ![e] = TRUE] /\ kill' = TRUE /\ halt' = TRUE
  /\ UNCHANGED <<want, late, money, alarm, health, danger, spent>>

-----------------------------------------------------------------------------
(* The monitor's thread                                                    *)

MonitorExit(e) ==
  /\ watch[e] = "on" /\ book[e] # 0 /\ CanClose(e)
  /\ Close(e)
  /\ UNCHANGED <<loops, guards, health, danger, spent>>

\* Mutant: the guard halts without flattening.
FlattensNothing(e) == UNCHANGED <<money, spent>>

GuardFlattens(e) == Flattens(e)

\* _check_authoritative_health; only while the feed is connected.
HealthBad(e) ==
  /\ watch[e] = "on" /\ danger
  /\ misses' = [misses EXCEPT ![e] = 0]
  /\ kill' = TRUE /\ halted' = [halted EXCEPT ![e] = TRUE]
  /\ GuardFlattens(e)
  /\ UNCHANGED <<loops, alarm, halt, watch, danger>>

HealthGood(e) ==
  /\ watch[e] = "on" /\ ~danger /\ misses[e] # 0
  /\ misses' = [misses EXCEPT ![e] = 0]
  /\ UNCHANGED <<loops, money, guards, watch, danger, spent>>

\* The read raised: a timeout, no connection, the circuit, a number that is
\* none.  Failures in a row are one fault.  The third with a position trips the
\* switch, and flattens nothing.
HealthUnread(e) ==
  /\ watch[e] = "on"
  /\ IF misses[e] \in 1..2 THEN UNCHANGED spent ELSE Fault
  /\ misses' = [misses EXCEPT ![e] = IF @ < 3 THEN @ + 1 ELSE 3]
  /\ LET trip == misses'[e] = 3 /\ book[e] # 0
     IN  /\ kill' = (kill \/ trip)
         /\ halted' = [halted EXCEPT ![e] = @ \/ trip]
  /\ UNCHANGED <<loops, money, alarm, halt, watch, danger>>

\* The venue refused the read: the check goes by without counting it.
HealthSilent(e) ==
  /\ watch[e] = "on" /\ Fault
  /\ UNCHANGED <<loops, money, guards, health, danger>>

-----------------------------------------------------------------------------
(* Operator, venue and threads                                             *)

Command == commands < MaxCommands /\ commands' = commands + 1

\* KILL: the handler runs in the bus's thread and flattens.
Kill(e) ==
  /\ Command
  /\ halted' = [halted EXCEPT ![e] = TRUE]
  /\ \/ book[e] = 0 /\ UNCHANGED <<money, faults>>
     \/ book[e] # 0 /\ CanClose(e) /\ Close(e) /\ UNCHANGED faults
     \/ book[e] # 0 /\ ~CanClose(e) /\ UNCHANGED <<money, faults>>
     \/ book[e] # 0 /\ CanClose(e) /\ UNCHANGED money
        /\ faults < MaxFaults /\ faults' = faults + 1
  /\ UNCHANGED <<loops, kill, alarm, halt, health, danger, entries>>

\* RESUME lifts _halted whatever set it.
Resume(e) ==
  /\ halted[e] /\ Command
  /\ halted' = [halted EXCEPT ![e] = FALSE]
  /\ late' = [late EXCEPT ![e] = 0]
  /\ UNCHANGED <<at, want, money, kill, alarm, halt, health, danger, faults, entries>>

\* The HALT file is removed by hand.
Clear ==
  /\ halt /\ Command
  /\ halt' = FALSE
  /\ UNCHANGED <<loops, money, halted, kill, alarm, health, danger, faults, entries>>

\* The venue's stop or a liquidation; in this process nobody books its fill.
VenueCloses(e) ==
  /\ venue[e] # 0
  /\ venue' = [venue EXCEPT ![e] = 0]
  /\ UNCHANGED <<loops, book, balance, guards, health, danger, spent>>

MarginTurns ==
  /\ danger \/ \E e \in Engines : venue[e] # 0
  /\ danger' = ~danger
  /\ UNCHANGED <<loops, money, guards, health, spent>>

Disconnect(e) ==
  /\ watch[e] = "on" /\ Fault
  /\ watch' = [watch EXCEPT ![e] = "off"]
  /\ UNCHANGED <<loops, money, guards, misses, danger>>

Reconnect(e) ==
  /\ watch[e] = "off"
  /\ watch' = [watch EXCEPT ![e] = "on"]
  /\ UNCHANGED <<loops, money, guards, misses, danger, spent>>

ThreadDies(e) ==
  /\ watch[e] # "dead" /\ Fault
  /\ watch' = [watch EXCEPT ![e] = "dead"]
  /\ UNCHANGED <<loops, money, guards, misses, danger>>

-----------------------------------------------------------------------------
Loop(e) ==
  \/ Supervise(e) \/ FailStop(e) \/ Gate(e) \/ Skip(e) \/ NoEntry(e)
  \/ TickExit(e) \/ Crash(e) \/ Decide(e)
  \/ Send(e) \/ Refused(e) \/ Doubtful(e) \/ SkippedButFilled(e)
  \/ Book(e) \/ StopRefused(e) \/ EntryFailure(e)

Monitor(e) == HealthBad(e) \/ HealthUnread(e) \/ HealthSilent(e) \/ Reconnect(e)

Next ==
  \/ \E e \in Engines :
       \/ Loop(e) \/ Reconcile(e)
       \/ Monitor(e) \/ MonitorExit(e) \/ HealthGood(e)
       \/ Kill(e) \/ Resume(e) \/ VenueCloses(e)
       \/ Disconnect(e) \/ ThreadDies(e)
  \/ Clear \/ MarginTurns

\* A loop goes on, reconciles every 60 s however its ticks turn out (strong:
\* it is at "run" again and again), the monitor checks the margin every 5 s
\* while connected, and a lost connection is tried again.
Fairness ==
  \A e \in Engines :
    WF_vars(Loop(e)) /\ SF_vars(Reconcile(e)) /\ WF_vars(Monitor(e))

Spec == Init /\ [][Next]_vars /\ Fairness

-----------------------------------------------------------------------------
(* Properties                                                              *)

\* What the wallet may at most take for its balance.
Larger == IF Initial > Balance THEN Initial ELSE Balance

\* Every variable keeps its type.
TypeOK ==
  /\ at \in [Engines -> Places] /\ want \in [Engines -> Nat]
  /\ book \in [Engines -> Nat] /\ balance \in 0..Larger /\ venue \in [Engines -> Nat]
  /\ halted \in [Engines -> BOOLEAN] /\ kill \in BOOLEAN
  /\ alarm \in [Engines -> BOOLEAN] /\ halt \in BOOLEAN
  /\ watch \in [Engines -> {"on", "off", "dead"}] /\ misses \in [Engines -> 0..3]
  /\ danger \in BOOLEAN /\ late \in [Engines -> Nat]
  /\ faults \in 0..MaxFaults /\ entries \in 0..MaxEntries /\ commands \in 0..MaxCommands

\* An engine told to stop (KILL, the kill switch, a guard) fills at most the
\* one entry that had passed the gate by then (engine_ws.py:941, 2112).
OneLateEntry == \A e \in Engines : late[e] <= 1

\* A position is opened only within the larger of the account's balance and the
\* configured one, although two engines decide and fill beside one another
\* (_wallet.py:1155-1177): within the account's, that is, where initial_balance is
\* not above it (the next event, 2144, undoes the sync of multi_engine.py:375).
FitsTheBalance ==
  [][ \A e \in Engines : book[e] = 0 /\ book'[e] # 0 => Total(book') <= Larger ]_vars

\* A position of the venue that the wallet does not know is found, or goes,
\* while its engine's loop lives (reconciliation.py:89-94).
OrphanIsFound ==
  \A e \in Engines : Orphan(e) ~> (~Orphan(e) \/ alarm[e] \/ at[e] = "gone")

\* With the margin ratio of a USDT account above its limit an engine's position
\* is flattened, unless orders are halted or its threads are dead
\* (engine_ws.py:493-525).  Of an INR account the check reads nothing.
BadMarginIsCut ==
  \A e \in Engines :
    (danger /\ book[e] # 0) ~> (~danger \/ book[e] = 0 \/ halt \/ watch[e] = "dead")
=============================================================================
