# crypto-trader in TLA+

TLA+ models of the parts of crypto-trader that decide about money and keep
state while other threads, processes and venues act: the signal bus, the life
of a position, the wallet's event store and its recovery, the engines and their
guards, the client through which orders reach the venue, the AI position manager,
the delta-neutral funding arbitrage, the risk gate and the double-entry ledger.  Each model is checked by TLC on small
instances; every safety property a run checks is also proved by TLAPS, for all
values of the constants, and liveness is left to TLC.

All paths below are relative to the repository; `crypto_trader/` is the Python
package.

## 1. The system

| Part | State it keeps | Operations | Talks to |
|---|---|---|---|
| **Signal bus** `execution/signal_bus.py`, `infra/redis_streams.py`, `execution/run_consumer.py` | a Redis stream, a consumer group with its pending list (PEL), idempotency keys with a TTL, a dead-letter stream | `emit`, `read_pending`, `read_new`, the handler chain (poison pill, parse, duplicate, risk gate, adapter, execute), ack | engines publish, workers execute through the wallet |
| **Wallet** `wallet/_wallet.py`, `wallet_cache.py`, `storage/` | positions, balance, ids of protective orders; an event table, a reducer over it, snapshots in Postgres, Redis and a file, a read model | `open_position`, `close_position`, `partial_close`, `adopt_venue_position`, `apply_external_fill`, trailing and stop moves, liquidation; `_load_state` at start-up | engines, position monitor, user stream, Reconciler; the venue through an execution engine |
| **Reconciler** `execution/reconciler.py` | none | a pass: read orders and positions, compare, adopt, align, re-place stops, cancel orphans, trip the kill switch | wallet, venue, risk manager; boot and the user stream's reconnect |
| **Engine** `engine_ws.py`, `multi_engine.py`, `engine_live.py` | `_halted`, timers | signal tick, monitor, margin guard, supervisor, periodic reconciliation, KILL/RESUME | everything below |
| **Risk gate** `risk.py` | daily count and PnL, loss streak, peak balance, kill switch; `risk_state_{mode}.json` | `can_trade`, `record_open`, `record_close`, `trigger_kill_switch`, `update_peak_balance` | shared by all engine threads |
| **Venue client** `exchanges/coindcx_client.py`, `patterns/circuit_breaker.py`, `exchanges/coindcx_execution.py` | the circuit: state, failures, time of the last | `_send` with retries, order calls, confirmation of fills | every thread that trades or reads the account |
| **HALT file** `safe_mode.py` | a file | trip, clear, refuse orders | every order |
| **Funding arb** `funding_arb_manager.py`, `arb_book.py`, `exchanges/coindcx_spot_execution.py` | one arb per symbol in memory, its events and snapshot in Postgres | enter, resolve, roll back, accrue, unwind | futures and spot venue, HALT file |
| **Position management** `position_management/` | queue of triggers, snapshots, protection state, audit trail | sync, reassess, guard, execute | wallet, venue, LLM; audit-only by default |
| **Ledger** `ledger/` | double-entry accounts, locked margin | post, lock, release, adjust, project | tests only, at this commit |
| **Feeds, strategies, AI, API, UI** | candles, regimes, caches | numeric evaluation, I/O | choose what the parts above do |

What makes them hard:

- *Threads.* A candle loop and a 1 s position monitor per symbol, the user
  stream's thread, the Reconciler and Telegram commands act on one wallet; its
  lock is released while an order is at the venue.
- *The venue.* It moves on its own (stops fire), loses notices, fills orders
  whose confirmation times out, and offers neither reduce-only orders nor
  cancel by position.
- *Crashes.* The processes run under `restart: unless-stopped`; each part
  persists after it acted, so every gap between an effect and its record is a
  state a restart can find.
- *Partial failure.* Operations are two or three remote calls long; each may be
  refused, and the repair may be refused as well -- the HALT file blocks the
  exit order that should repair.

What makes each part correct: a signal is neither lost nor run without bound;
wallet and venue agree when nothing is in progress, an open position has its
stop, and no exit opens the opposite position; an arb's book says what the
venues hold; limits and kill switch hold across threads, midnight and restarts;
a restart rebuilds what the journal amounts to; an engine told to stop stops, and
a position no thread manages is found; a lost answer
does not become a second order, an outage opens the circuit and its end closes it;
a position is managed as one trade under its number whoever names its symbol, and a
breach of its levels is acted on; accounts are the sum of their entries.

## 2. Modules

| Module | Models | Proofs |
|---|---|---|
| `SignalBus`, `SignalDelivery` (what the bus promises) | the bus and its workers | `SignalBusProofs` |
| `PositionLifecycle` | wallet, venue, stream, Reconciler, one symbol | `PositionLifecycleProofs` |
| `PositionContract` | what the wallet promises of one symbol's position | implemented by `PositionLifecycle` and `PositionManagement` |
| `FundingArb` | arb manager and book, one symbol | `FundingArbProofs` |
| `RiskGate` | risk manager, its file, the threads sharing it | `RiskGateProofs` |
| `Engine` | engine loops, monitors, margin guard, supervisor, reconciliation, commands | `EngineProofs` |
| `VenueClient` | calls with retries, the circuit breaker, entries by market and passive limit order | `VenueClientProofs` |
| `WalletRecovery` | events, reducer, snapshots, read model, start-up | `WalletRecoveryProofs` |
| `PositionManagement` | reassessment loop beside monitor and candle tick | `EngineProofs` (last part) |
| `Ledger` | accounts, margin, positions | `LedgerProofs` |

`MC*` modules give TLC the model values and symmetry; `*.cfg` are the runs.
Each operator that models code is named after it where TLA+ allows; the
definitions called *mutants* are deliberately wrong variants of the operator
that follows them, kept to show that a property notices.

### SignalBus

One worker is a loop with a program counter `stage`: read the backlog, read new
messages, take the next one, walk the handler chain, ack.  Every Redis call is
a step, so a crash (`Crash`, also an uncaught Redis error ending
`run_forever`) can fall between execution and key, or key and ack.  A message is
an index into the stream and a kind (well formed, malformed, of a mode no adapter
serves).  The adapter opens, does nothing, has an entry filled that the wallet then
declines to book (`ExecuteDrops`), raises, or raises over an order whose fill it could
not confirm and which nobody cancels (`ExecuteUnconfirmed`).  `delivery_count` may
misread as 1.

`SignalDelivery` is the contract: a signal is queued, run any number of times
while queued, excused by the gate or the dead-letter stream, and settled only
after one of the two.  `DeliversAtLeastOnce` is the refinement.

### PositionLifecycle

One symbol.  `open`, `close` and `partial` have the code's phases: checked under
the lock, order sent with the lock released, booked under the lock again.
`update_positions` holds the lock throughout (`hold`).  Cancelling the legs and
reading the venue are one step with the check because both happen under the
lock; booking and placing the new stop likewise.

A market order fills where it is sent, unless `_resolve_market_fill` gives up on it or
the process dies: nobody cancels it then, and as one of `late` it fills at any later
moment or never (`SettleLate`).  The second look of `open_position` may decline what
the venue has filled (`EntryDeclined`: can_open, a halted wallet, margin other symbols
took); `dropped` counts it.

Abstractions.  Quantities are small integers, LONG positive; orders fill
completely; a partial takes half, never the last unit.  A crash falls between
steps.  A restart finds the booked position and its protective orders' ids, which
is what `WalletRecovery` shows of a restart from the database.  A target placed although its stop was
rejected is taken as not placed.  With position-attached legs the venue replaces
the pair as a whole, which over-approximates what can be left behind.

`PositionContract` is what the wallet promises to everyone who names a position by
its symbol: one at a time, each under its own number and on one side until it is
closed, each booked closed once (`Open`, `Close`, and `TakeBack` for an entry that
cannot be protected).  `PositionLifecycle` implements it with exits of several steps
(`BooksKeepContract`: the number is the generation `opens`, the side the sign of the
quantity), `PositionManagement` with exits of one (`TradesKeepContract`); this is what
lets the second leave out the phases the first is about.

### FundingArb

`on_signal_tick` as a sequence of orders and book writes, a step each; the
process may die between any two and restart from the snapshot.  The clock moves
between ticks only.  Two history variables name what no book can know: `torn`, a
fill the book was never told of, and `halfRolled`, a roll-back begun and not
carried through.  Fees, PnL and partial spot fills are left out;
`ST_PLACING_PERP` is never persisted, so `_resolve`'s branch for it cannot be
reached and is not modelled.

### RiskGate

The shared manager, the manager each engine's `ExchangeStateReconciler` was
constructed with, and the file all of them save to.  A change and the copy for
its save are one step, the rename is another; between the two any thread may run.
(In CPython 3.11 neither `+=` on an attribute nor the copy's plain attribute
reads yield to another thread; a switch between change and copy only makes the
copy fresher.)  A close is announced by the wallet, under its lock, when it has
the event bus (`multi_engine`), or by the position monitor only
(`LiveTradingSystem`): constant `WalletPublishes`.  Gates on prices and clock may
refuse at any time; an engine that set `_halted` is one that takes no more ticks.
`clear_risk` runs while the process is down, since a running one keeps its own
switch and saves it back.  Balance moves by the closed trade's result alone;
fees, funding and partial exits, which move it apart from `daily_pnl`, are not
modelled.

### Engine

Where `PositionLifecycle` has one position and every order, `Engine` has several
engines and one account; a position is its margin, and an exit succeeds or
raises.  `at` is the place of an engine's loop: supervision, the gate, the
decision, the order, the booking, the handler of a failed entry.  The wallet's
lock is released while the order fills (`Send`, then `Book` or
`SkippedButFilled`), so engines overlap there.  The monitor exits and checks the
margin ratio between any two steps of the loop.  Four switches differ in who
sets and who reads them: `halted` (one engine), `kill` (all), `halt` (the file,
read by every order) and `alarm`, the switch of the manager the reconciler was
constructed with, which the engine no longer asks.  The margin in use
(`Total`) is the number of units the engines' positions hold (`Units`).  Two balances
meet in the wallet.  The account's (`Balance`) is written by the sync at start-up and,
less what is in use, by `Reconcile` (`Synced`); the reducer's started from the
configured `initial_balance` (`Initial`) and knows no sync, and the wallet's next event
brings it back (`Books`).  Fees and results, which move both, are left out.
The margin check reads, raises, which counts (`HealthUnread`: a timeout, the open
circuit), or is refused by the venue, which does not (`HealthSilent`: a `CoinDCXError`
is swallowed); margin is in USDT, of an INR account it reads nothing at all.  An exit of the signal tick that raises ends the loop (`Crash`).
The signal is a free choice: `Skip`, `NoEntry` or `Decide`.

### VenueClient

One level below `PositionLifecycle`, whose orders succeed or raise.  A thread's
`call` is what it asks the venue for, whether it passed the gate (`wire`) and how
often it tried.  The gate is the HALT file and the circuit (`Blocked`, `Rejected`,
`Admitted`); an attempt is answered, refused with a 4xx, or not answered
(`Unanswered`: 429, 5xx, timeout, broken connection), in which case the venue may
have carried it out (`Carried`).  `Raised` says how each caller goes on: it is
where `acquire_live_entry_fill` and `_resolve_market_fill` catch an exception or
let it through, and which kind they catch (`CircuitOpenError` and
`LiveTradingBlocked` are no `CoinDCXError`).  Orders fill in parts.  `stray` is what
was ordered without an id coming back; `excuse` names what kept an entry from
knowing better.  `recovery_timeout` passes as an action (`Cool`), and a failure
restarts it.  The two reads of `get_order_status` are one request, and signed reads
are never refused with a 4xx; backoff and the rate limiter only delay.

### WalletRecovery

An operation is a list of events (`todo`), each appended to the table and then
applied, and ends with file, snapshot and cache; a crash may fall between any two
of these.  `Restart` follows `_load_state`: the cache as it is, else snapshot and
replay, else the file, else nothing.  Rows are counted, not named: a snapshot
remembers how many events it has seen, and the replay skips that many.  Three
mishaps make the count slip -- a row written although the call raised
(`Abort`), an event emitted by a thread without the wallet's lock between another's
append and its apply (`AsideAppend`), a row of another wallet in the same table
(`ForeignAppend`) -- and `slipped` notes it.  The reconcilers write past the journal:
both set the quantity of a position to the venue's in the runtime and in the reducer,
without an event and without the lock (`AlignQuantity`; its assignments are one step),
and then save on their own (`SaveAligned`), between any two steps of an operation;
`reconcile_symbol` also sets the runtime balance to the account's (`SyncBalance`).  The
next event takes that back from the reducer, but a `_save_state` before it writes
the account's balance into the image, where a restart takes it for the reducer's
(`Written`).  `aligned` and `synced` are the histories of it.  What a partial close sells,
and whether that is all, is decided when it begins.  `past` holds what each prefix of the
journal amounts to and is what the properties compare with.

### PositionManagement

The reassessment loop by its stages -- take the queue or sweep, read the price,
build the snapshot, assess, act -- with the market, the monitor and the candle
tick moving between them.  The model's decision is any element of `Advised`; the
policy guard and the executor are operators on stops and prices
(`Params`, `ClampedStop`, `Executed`).  An exit ends in one of `Ways`: done; or, the
protective orders cancelled first, refused by the venue or the HALT file (`Refusal`), with
the position left open and bare; a slice may leave what remains with its stop or
without.  An entry's stop rests or is refused, which trips HALT where it is required
(`RequireSl`, off by default); anybody else may trip it too (`TripHalt`), and it is
cleared by hand.  What an exit raises the executor swallows and the monitor survives; in
the candle tick it ends the engine, and with it feed and monitor (`running`).  Refusals
are bounded (`MaxRefusals`).  Its specification is `ManagerSpec`, named apart
from the engine's so that one module can speak of both.  Prices are units in which the guard's
0.1 % is whole.  Quantities and scores are left out.

### Ledger

Two callers of `LedgerService` and `PositionEngine`.  A method that checks in one
transaction and posts in the next is two steps; a transaction is atomic and may
be refused whole.  Nothing is locked in between: `RedisLayer.lock` has no caller.
The tables are made by either `schema`, Postgres's with its CHECKs or the one of
SQLite that the tests use, without any.  `adjusted`, `corrected`, `charged`, `filled`
and `raced` are histories; margin, PnL and fees may be in INR or USDT, as the
methods take any currency.

## 3. Runs

| Run | Bounds | Shows |
|---|---|---|
| `bus_safety` | 2 workers, 2 messages, 1 crash | nothing is acked without an outcome; attempts bounded; a completed run is repeated only after a crash, a fill only after a crash or an unconfirmed one; every step is a step of the contract |
| `bus_live` | 1 worker, 2 messages, 1 crash, 1 misread each | every message is acked in the end |
| `pos_books` | 2 threads closing and slicing, 2 entries the wallet may decline, 1 fire, 2 failed placements or orders given up on, 1 crash, 1 pass | closed once per open; no flip by a close that read the venue, left no leg behind and ran alone, even when its order fills late; undisturbed, the venue holds what the wallet holds and the entries it declined |
| `pos_stops` | 2 threads, quantity 4, one refused or failing call, a declined entry, 2 passes (one at boot) with adoption | a required stop rests at every rest; the wallet keeps the position's contract, adoption and alignment included |
| `arb_book` | 2 failures of any kind, 1 crash, 4 hours | the book is true, funding booked once per interval, a naked short resolved |
| `risk_limits` | 2 engines, 3 trades, 2 days, 1 mishap | overshoot bounded by the engines in flight; the daily loss halts |
| `ledger_books` | 2 callers, 5 operations, 2 positions, 1 fault | balances are replays, no check on a stale balance overdraws, margin is released twice within a bound, the available balance is backed, a row nobody wrote over tells its fills |
| `recovery_replay` | 3 operations, 2 crashes, 1 mishap (a fault, an event aside, an alignment, ...), of these at most 5 | what a restart rebuilds is what the journal amounts to; stops and read model follow |
| `pm_managed` | 2 positions (three of the four kinds of side and playbook), 1 waiting trigger, 2 prices, 1 refusal or halt, stop not required | the position's contract holds, no unsafe stop move, every move is seen, every breach of the software stop acted on |
| `engine_guards` | 2 engines, 2 orders, 1 fault, 2 commands | at most one late entry; positions within the larger of the account's balance and the configured one |
| `engine_live` | 1 engine, 3 orders, 2 faults, 2 commands | orphans are found, a bad margin ratio is cut |
| `venue_calls` | 1 entry of quantity 2, 2 readers, 2 retries, threshold 2, 2 polls, 1 outage | no order twice, no doubled entry but by the ways named, the booking is what filled; load behind an open circuit bounded; the circuit opens on an outage and closes after it |

Section 5 lists the places where the code and a text of the repository disagree.

*Why the bounds suffice.*  Each property is about two actors, or one actor and
its successor after a crash.  Two workers, threads or engines, two messages or
entries, and one fault on top of a full sequence make every pair of steps meet;
a second crash repeats the first's state with smaller counters, save in
`recovery_replay`, where it interrupts the recovery from the first.  The daily
limit is 1 and three trades are possible, so the limit can be overshot by more
than the bound allows.  `pos_stops` uses quantity 4 so that two slices can be
taken; orders that fill after they were given up on are in `pos_books`, since for the
stop they are a failed exit like any other.  In `pm_managed` the fourth kind, LONG and INTRADAY, repeats the
two branches the others take; the halt a required stop trips is left to `pos_stops`.  In
`engine_guards` the account covers one of the two entries, so that the
second booking is refused, and the configured balance is above it, so that two
positions may be booked over an account of 3; in `engine_live` it covers two, so that reconciliation
may overwrite the balance under a position.  In `venue_calls` three threads are
inside calls when the circuit opens, its threshold is above one, quantity 2 has a
partial fill, and one outage meets every place of an entry.  Deadlock is not checked where the
bounded system really ends: all entries used, or every engine loop dead.

*Fairness.*  `bus_live` and `arb_book` assume weak fairness of a worker's (the
manager's) next step and of a restart: `run_forever` and `run_loop` have no exit
but an exception, and docker-compose restarts the services.  `pm_managed` assumes
it of the manager's loop, a thread that catches what a cycle raises, and of the monitor as
long as its engine runs: one whose candle tick raised has stopped its monitor.
`engine_live` assumes it of an engine's loop and of the monitor with its health
check (every 5 s) and reconnect, and strong fairness of the periodic
reconciliation: `run_loop` makes it every 60 s whatever its ticks do, but it is
enabled only at one place of the loop.  `venue_calls` assumes it of a thread's next
step in its call (requests have timeouts, retries are counted), of the readers'
next read (reconciliation and account sync are periodic) and of time passing.  No fairness is assumed of the venue, of
Redis, of whoever clears HALT, of the operator, or of new signals.  The other
runs are about safety and need none.

## 4. Proofs

`TypeOK` is proved invariant in every module.  Each theorem rests on its
module's named assumption on the constants and on the hypotheses it states; no
proof bounds the number of threads, engines, orders, faults or crashes.

- **SignalBus** (from `BusConstants`).  `OutcomeInv`: a key, or a worker past the
  adapter, vouches for a completed run, a worker about to ack for an outcome --
  without it the duplicate handler's ack could not be justified.  `OwnershipInv`: what a
  worker has read is in the PEL under its name; `AttemptsInv`: every attempt
  spends a delivery; `RepeatInv`: a message in the PEL completed no more often
  than workers crashed; `FillsInv`: a fill is a completion's or an unconfirmed one.  All but the first and the last need `OwnConsumerNames`, one name
  per worker.  The refinement follows from `OutcomeInv` and `OwnershipInv`.
- **PositionLifecycle** (from `LifecycleConstants`).  `ClosedOncePerOpen` is
  inductive with the type invariant; the work is in the lemmas on what placing
  protective orders may do to the wallet (`ProtectKeepsOrCloses`, `ProtectTyped`).
  `BooksKeepContract` adds that an open position is not empty (`Filled`) and goes
  over what each step is to the contract; half a position and an aligned one stay on
  their side (`SliceKeepsSide`, `AlignKeepsSide`), a failed protection closes or takes
  back (`BookedClosed`, `BookedOpen`).
  `NoFlip`, on a venue that starts flat or LONG: `OneExit` says that while every exit
  was sized by the venue and ran alone, one close at most is under way or given up and
  still to fill, and it is
  `Covered` -- no protective order rests that could take the quantity from
  under it, none is placed for a position without a stop, and the venue holds what
  the order will sell.  An exit that starts while an earlier one may still fill is a
  `late` one: without that excuse TLC finds the second sale and the flip.  An earlier form of the property is false, in 23 steps, beyond
  the bounds of `pos_books`: the user stream looks a fill up without the lock, and
  `apply_external_fill` closes whatever position it then finds -- perhaps a later one,
  while that one's exit is under way.  A booking by
  the stream beside an exit is therefore an `overlap`, and a close that leaves any
  order behind a `leg`.
  `Agreement`, with one thread that opens (`engine.py:251` builds one loop per system)
  and a Reconciler that reports: `Agreed` gives for each place of an operation the
  difference between wallet and venue (`Entry`, `Exit`) beside what was `dropped`, with one
  operation at work and nothing in the stream.  Adoption is left out because it acts on a read that a
  close may have overtaken; the first boot, which finds a venue it does not know,
  needs a clause of its own (`Booting`).
  `Protected`, for any failing calls: `StopKept` lets an exit that `Holds` the stop
  answer for it, and every way out of an exit books the close, puts the stop back or
  sets `exitFailed`.  It is stated until the venue fires an order or the process
  restarts, without a strict cancel (which takes the tracked stop too), and a first
  boot that may adopt finds the venue flat: what it adopts before
  `attach_execution_engine` has no stop (section 5).
- **FundingArb** (from `ArbConstants`).  `StageInv` ties the step of a tick to
  the arb's state; `PerpInv` and `SpotInv` say what both records tell during a
  tick, not only at rest; `FundingInv` bounds accruals by the time up to the
  latest one.
- **RiskGate** (from `RiskConstants`).  Engines past the gate and engines yet to
  be counted are disjoint sets; `opened` is bounded by today's count plus the
  latter (`CountedInv`), and an engine is let past the gate only below the limit
  (`DailyInv`).  `LateInv` is the same argument for the switch.  `AccountInv`
  says that the balance has moved since midnight by the recorded result plus the
  close still to be recorded, and needs `PastInv`: no manager, copy or file is
  dated tomorrow, so midnight finds every total stale.  `DailyLossSafe` assumes
  `WalletPublishes`: with the monitor as the only announcer a close may go unrecorded.
- **Ledger** (from `LedgerConstants`).  `DoubleReleaseBounded` is not inductive:
  `ReleaseInv` takes off the locked balance what pending releases have still to free
  (`Freed`, a set whose size counts them).  A release that begins found its amount
  locked, and the others hold one pending release each, of `MaxAmount` at most; that
  is the whole argument, and why the bound has the callers but one.  `BooksInv` are
  the statements on the balances; `AvailableBacked` needs the bound where
  `convert` takes off a locked balance below zero.  `RowsInv` says of rows nobody
  wrote over what `QuantityIsFills` says, and that a closed one is empty.
- **WalletRecovery** (from `RecoveryConstants`).  `Recovery` holds for what every
  image and the table say of each other: an image that counted `n` events is the
  state after the first `n` (`Prefixes`; up to what `aligned` and `synced` note, which only
  grow), and `past` is the reducer's history (`History`), which is why a replay may be cut short anywhere.  `Shown` ties the
  read model to the reducer.  For stops, `Follows` relates what an operation has
  still to emit to the runtime position, and `Remembers` says that an image keeps
  the stops its prefix of the journal knows.  For the trade's identity `Trades` tells
  a clean history from one with a single mishap: with two, the claim is false.
- **Engine** (from `EngineConstants`).  `LateInv`: an engine has filled no late entry, or
  one, and then it is still told to stop and no order is ahead of it.  `MoneyInv`: the
  venue's margin never exceeds the account's, so what a reconciliation writes is a
  balance, and whatever the wallet takes for its own is at most the larger of the
  account's and the configured one; `FitsTheBalance` follows as `Book` looks at it
  again under the lock.  The margin is a cardinality of units, so that one
  engine's step adds or removes that engine's units (`FS_` theorems) and no sum over
  engines has to be unfolded.
- **PositionManagement** (from `ManagementConstants`; in the last part of `EngineProofs`, which
  extends both modules, as the manager's threads are those of one engine's position).  `ManageInv`: a trade
  has a stop that may be put back (`TradeInv`), the monitor acts on something it saw
  (`MonInv`), and an evaluation is about a trade whose side and entry do not change
  under its number (`LoopInv`), however an exit ends.  `MovesSafely` takes the
  guard's clamps in their order: the snap off the price comes first
  (`SnappedOff`), and the clamp against widening can only put the stop back where it
  was, which is no move (`MovedStop`).  `TradesKeepContract` follows from `SameTrade`,
  what every step but an entry leaves of the trade.
- **VenueClient** (from `ClientConstants`).  `OneOrderPerCall` needs `CopiesInv`: while a
  create is under way none of its attempts was carried out, because there is one.
  `EntriesInv` goes over the places of an entry: what is known of its passive order at
  each of them (`EntryOK`), that a market order follows only an order that is gone or
  one of the named failures (`Forgiven`), and that an order's total is its quantity
  unless the venue ended it short (`Whole`).  `StormBounded` counts the attempts that
  calls already past the gate have left, as a set of pairs of thread and attempt
  (`Left`): while the circuit is open each one sent leaves the set (`StormInv`).

Only model-checked: the liveness properties `EverySignalSettled`,
`NakedPerpResolved`, `MoveIsSeen`, `BreachIsActedOn`, `OrphanIsFound`, `BadMarginIsCut`,
`OutageIsCut` and `CircuitRecovers`; fairness is stated with ENABLED, which the
provers do not expand.

*Conditions in the properties.*  `NoFlip` is stated for position-attached legs:
with separate orders a pass that read the open orders before a stop came to rest
re-places it and leaves two.  It claims nothing once an exit was sized from the
wallet, left an order resting, or met another exit -- under way, or given up and still
to fill -- or the user stream's booking (`blind` names which).  `Agreement` excuses exits
that overlap, failing calls, the
venue's own orders and crashes, and counts declined entries on the venue's side.  `Protected` excuses a position under HALT and one
whose exit raised half-way: the code leaves both naked, the first although
`_wallet.py` logs an emergency flattening the HALT file then blocks.  `BookIsTrue` excuses a fill
the book was never told of and a roll-back not carried through.  `DailyLossHalts`
excuses a day with a restart or a failed save in a close.  `JournalIsState` claims
nothing of a reducer whose count slipped, nor of a cache or file that missed an
event; of a trade a reconciler aligned it leaves out the quantity, and the balance
once an image was written with the account's: no event tells either, and the next
replay from an older snapshot undoes them.  `ReadModelAgrees` excuses the same alignment
until a close or a restart.  `MovesSafely` speaks of a position whose stop nobody else moved since
it was assessed.  `BadMarginIsCut` excuses HALT, which blocks the exit too, and dead threads.
`BreachIsActedOn` excuses HALT and an engine whose loop ended, for the same reasons; it
speaks of the software stop, which `WS_PM_DEFER_EXITS` would turn off, and promises
nothing of the venue's, which a refused exit takes away.  `FitsTheBalance` is within the
account only where `initial_balance` is not above it (section 5).
`NoDoubleEntry` excuses a lost id and a cancel or last read that failed; `EntryAgrees`
those, an unconfirmed market order and one the venue ends short.

## 5. Where code and text disagree

Met while modelling; the models have each of them.

- *Idempotency.*  `signal_bus.py:17`: "no double-fills on retry/replay";
  `redis_streams.py:15`: an idempotency lock prevents duplicate execution.  The key is
  written after the adapter returned (`signal_bus.py:190`), so it stops neither the
  retry of an entry whose fill could not be confirmed nor the replay
  after a crash before the key.  `RepeatNeedsFault` says that these are the only two ways.
- *Reconciler's alarm.*  `reconciliation.py:33` promises a halt; the manager it trips
  is the one its engine was constructed with (`engine_ws.py:233`), replaced at
  `multi_engine.py:513`, and nobody looks at what `reconcile_symbol` returns: `alarm` is
  set and the engine goes on entering.
- *Adoption at boot.*  `_wallet.py:1365` says an adopted position is never left
  naked.  The boot pass runs in `startup_self_test` (`engine_live.py:393`), before
  `attach_execution_engine`, when placing protective orders does nothing
  (`ProtectSkipped`).
- *Roll-back of an arb.*  `_rollback_perp` records `UNWINDING_PERP`
  (`funding_arb_manager.py:167`); a failed one is resumed as an ordinary unwind and
  sells spot that was never bought (`halfRolled`).
- *Kill switch on disk.*  `docs/runtime_architecture.md:317`: "Persisted to disk;
  survives process crashes".  `_save_state` copies and renames without a lock
  (`risk.py:439`): a copy older than the trip may be renamed after it.
- *Reconciliation adjustment.*  `ledger/service.py:5`: the balance "is never set
  directly".  `recon_adjust` adds its delta once by its entry and once more to the
  balance (`service.py:451`); `ReplayExplainsBalance` carries the second as `adjusted`.
- *Thread safety of the ledger.*  `ledger/service.py:10`: "Thread-safe via per-account
  row-level locking".  The row is locked when an entry is posted; `release_margin` caps
  by a locked balance it read before (`service.py:327`), so two callers free the same
  margin and the locked balance goes below zero.  `DoubleReleaseBounded` says how far.
- *Conversion with margin in INR.*  `convert` sets the available balance to ledger less
  locked (`service.py:271`), though `reserve_margin` took the margin off the ledger balance
  already: what is locked in INR is missing from it twice until the next deposit or withdrawal.
  `AvailableBacked` is one-sided for that reason.
- *Reduced positions.*  `tests/test_ledger_full.py:477`-506 and 571-579 have a partial exit
  persist as "reducing"; `schema.sql:112` allows 'open', 'closing' and 'closed', so on
  Postgres every partial exit is refused (`WriteRow`).  `position_engine.py:138` says that
  opening over an open position raises; a reduced one is not found (`OpenOn`), and two
  callers may both find none.
- *Cache before database.*  `wallet_cache.py:5` calls the database canonical;
  `_load_state` takes the cached copy without a replay (`_wallet.py:2965`), so an
  event after the last save is lost to the wallet.
- *Full exit.*  `policy_guard.py:19` always allows it; the executor finds no
  `modified_params` on an approved decision and skips it (`executor.py:63`).
- *Synchronized balance.*  `multi_engine.py:380`: "Synchronized wallet balance with
  exchange".  Only the runtime value is; the first event of the wallet restores the
  reducer's (`_wallet.py:2144`), which started from `initial_balance`.  Above the account,
  it lets bookings through that the account does not cover: `engine_guards` reaches two
  positions of 2 over an account of 3 after a stop that fired unbooked.
- *Failed exit.*  `docs/runtime_architecture.md:501` promises a retry at the next
  tick; an exit of the signal tick that raises (`engine_ws.py:2131`) ends its
  engine (`multi_engine.py:205`), with neither switch set.
- *Ambiguous create.*  `coindcx_client.py:107` leaves a create without an answer to
  "the caller (which reconciles against the venue)".  `acquire_live_entry_fill` takes
  it for an order not placed and goes on to a market order (`_wallet.py:869`); the
  passive one may rest, and `NoDoubleEntry` has to excuse it.
- *What the circuit counts.*  `coindcx_client.py:110` counts 5xx, timeouts and network
  errors; those of creates raise past `_on_failure`, and other calls count once, after
  their last retry.
- *One probe.*  `circuit_breaker.py:8`: "One probe call allowed".  Once `HALF_OPEN`,
  `is_open` is false for every caller (`Admitted`), and any success closes.

## 6. Not modelled

Listed with reasons in `PROJECT.json` under `components`.  In short: candle
arithmetic, AI answers and prices are free choices of the models; sockets, HTTP,
dashboard and research tools keep no state the properties speak of; order
manager and state machines are unused by the running engines.  `scratch/` holds
one-off scripts that nothing imports.  Within modelled components: the hot reload
of configuration and champions in `engine_ws.py` (a change waits for a flat
position and replaces the configuration the engines share), partial fills above the client, the
order and fill records of the wallet's reducer state, the ledger's caches and
`RedisLayer.lock`, which nobody calls, the position manager's sync and protection services.

## 7. Plan

1. *Hot reload*: pending configuration and pending champion against a newer file, and the
   configuration object engines share.
2. *Composition*: `Engine` with `RiskGate`, for who announces a close and which manager counts it.
3. *Contract of the position*, further: the reducer and the restarts of `WalletRecovery`
   against `PositionContract`, which a restart from a stale cache breaks.
4. *Exits* over `VenueClient`, with the partial fills `PositionLifecycle` leaves out.
5. *Towards liveness*: the safety halves of `BreachIsActedOn` and `OutageIsCut` (what
   holds until the awaited step) as theorems.
