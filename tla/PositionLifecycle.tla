-------------------------- MODULE PositionLifecycle --------------------------
(***************************************************************************)
(* One symbol traded live by LiveTradingSystem: the wallet's position, the *)
(* venue's net position and resting protective orders, and the actors that *)
(* change them -- engine threads (candle loop, tick loop, commands), the   *)
(* user stream, the Reconciler and the venue itself.                       *)
(*                                                                         *)
(* open_position, close_position and partial_close are two-phase: check    *)
(* under the wallet's lock, send a market order with the lock released,    *)
(* book under the lock again.  The venue nets orders and has no            *)
(* reduce-only flag, so a quantity is a signed integer: LONG above zero.   *)
(***************************************************************************)
EXTENDS Integers, FiniteSets

CONSTANTS
  Threads,          \* engine threads that exit positions
  Entering,         \* those that also open them
  Free,             \* the lock has no holder
  Lot,              \* an entry's quantity
  Exits,            \* subset of {"close", "partial"}: the exits in use
  PositionAttached, \* the engine has create_position_tpsl
  RequireSL,        \* require_venue_sl
  VenueTP,          \* venue_tp_enabled
  AdoptVenue,       \* reconcile_adopt_venue
  StrictCancel,     \* reconcile_strict_cancel
  Prior,            \* venue quantities the first boot may find
  FaultKinds,       \* venue calls that may fail, see Spend
  MaxFaults,        \* bound: failing venue calls
  MaxEntries,       \* bound: entries attempted
  MaxFires,         \* bound: protective orders the venue fires
  MaxReconciles,    \* bound: reconcile passes
  MaxCrashes        \* bound: process crashes

ASSUME LifecycleConstants ==
  /\ Entering \subseteq Threads
  /\ Free \notin Threads
  /\ Lot \in Nat \ {0}
  /\ Exits \subseteq {"close", "partial"}
  /\ {PositionAttached, RequireSL, VenueTP, AdoptVenue, StrictCancel} \subseteq BOOLEAN
  /\ Prior \subseteq Int
  /\ FaultKinds \subseteq {"cancel", "read", "refused", "unconfirmed", "tpsl"}
  /\ {MaxFaults, MaxEntries, MaxFires, MaxReconciles, MaxCrashes} \subseteq Nat

VARIABLES
  pos,       \* the wallet's position: [open, qty, sl, tp]; sl, tp are order ids, 0 none
  venue,     \* the venue's net position
  late,      \* market orders nobody waits for any more, which may still fill
  resting,   \* protective orders on the venue: [id, size]
  nextId,    \* next order id
  notices,   \* fills of protective orders the user stream has yet to report
  live,      \* the engine is attached: boot reconciliation passed
  halt,      \* the HALT file exists
  kill,      \* the risk manager's kill switch
  lock,      \* holder of wallet.lock
  pc,        \* [Threads -> Steps]
  plan,      \* [Threads -> Int] signed quantity of the thread's market order
  restop,    \* [Threads -> BOOLEAN] partial_close's _had_protective
  strm,      \* the user stream is about to book: generation it checked, 0 none
  rec,       \* the Reconciler's pass: [at, qty, ids, bad]
  opens,     \* history: positions booked open; the current one's generation
  closes,    \* history: positions booked closed
  exitFailed,\* history: an exit of the current position raised
  blind,     \* history: how exits so far were sized without the venue's word
  dropped,   \* history: quantity of filled entries the wallet declined to book
  faults, entries, fires, recs, crashes   \* spent bounds

wallet == <<pos, opens, closes>>
market == <<venue, late, resting, nextId, notices>>
gates  == <<live, halt, kill>>
actors == <<lock, pc, plan, restop, strm, rec>>
spent  == <<faults, entries, fires, recs, crashes>>
past   == <<exitFailed, blind, dropped>>
vars   == <<wallet, market, gates, actors, past, spent>>

Steps == {"idle", "openfill", "openbook", "closefill", "closebook",
          "partfill", "partbook"}

(* An exit that reads nothing, whose read fails, that leaves protective    *)
(* orders behind, or that starts -- a booking by the user stream included  *)
(* -- while another is under way, or while the order of one that was given *)
(* up may still fill.                                                      *)
Blindness == {"partial", "read", "leg", "overlap", "late"}

NoPos == [open |-> FALSE, qty |-> 0, sl |-> 0, tp |-> 0]
NoRec == [at |-> "idle", qty |-> 0, ids |-> {}, bad |-> FALSE]

Positions == [open : BOOLEAN, qty : Int, sl : Nat, tp : Nat]
Strays == [by : Threads, on : Nat, exit : BOOLEAN, size : Int]
Orders == [id : 1 .. nextId - 1, size : Int]
Passes == [at : {"idle", "orders", "positions", "stops", "orphans"},
           qty : Int, ids : SUBSET (1 .. nextId - 1), bad : BOOLEAN]

WalletType == pos \in Positions /\ opens \in Nat /\ closes \in Nat
MarketType ==
  /\ venue \in Int
  /\ late \subseteq Strays
  /\ nextId \in Nat \ {0}
  /\ resting \subseteq Orders
  /\ notices \subseteq 1 .. nextId - 1
GateType == live \in BOOLEAN /\ halt \in BOOLEAN /\ kill \in BOOLEAN
ActorType ==
  /\ lock \in Threads \cup {Free}
  /\ pc \in [Threads -> Steps]
  /\ plan \in [Threads -> Int]
  /\ restop \in [Threads -> BOOLEAN]
  /\ strm \in Nat
  /\ exitFailed \in BOOLEAN /\ blind \subseteq Blindness /\ dropped \in Nat
PassType == rec \in Passes
SpentType ==
  /\ faults \in 0 .. MaxFaults /\ entries \in 0 .. MaxEntries
  /\ fires \in 0 .. MaxFires /\ recs \in 0 .. MaxReconciles
  /\ crashes \in 0 .. MaxCrashes

TypeOK == WalletType /\ MarketType /\ GateType /\ ActorType /\ PassType /\ SpentType

Init ==
  /\ pos = NoPos
  /\ venue \in Prior /\ late = {}
  /\ resting = {} /\ nextId = 1 /\ notices = {}
  /\ live = FALSE /\ halt = FALSE /\ kill = FALSE
  /\ lock = Free
  /\ pc = [t \in Threads |-> "idle"]
  /\ plan = [t \in Threads |-> 0]
  /\ restop = [t \in Threads |-> FALSE]
  /\ strm = 0 /\ rec = NoRec
  /\ opens = 0 /\ closes = 0 /\ exitFailed = FALSE /\ blind = {} /\ dropped = 0
  /\ faults = 0 /\ entries = 0 /\ fires = 0 /\ recs = 0 /\ crashes = 0

-----------------------------------------------------------------------------
Abs(n) == IF n < 0 THEN -n ELSE n
Sign(n) == IF n < 0 THEN -1 ELSE IF n = 0 THEN 0 ELSE 1
Lesser(m, n) == IF m < n THEN m ELSE n

Tracked == {pos.sl, pos.tp} \ {0}
Ids(orders) == {o.id : o \in orders}
Legs == {o \in resting : o.id \in Tracked}

(* The venue calls of one step that fail, of the kinds a run admits:       *)
(*   "cancel"      a cancel_order       "read"  a get_positions            *)
(*   "refused"     a market order that does not reach the book             *)
(*   "unconfirmed" a market order on which _resolve_market_fill gives up:  *)
(*                 it is not cancelled, and may have filled or fill later  *)
(*   "tpsl"        the placement of a protective order                     *)
Spend(kinds) ==
  /\ kinds \subseteq FaultKinds
  /\ faults + Cardinality(kinds) <= MaxFaults
  /\ faults' = faults + Cardinality(kinds)

If(kind, cond) == IF cond THEN {kind} ELSE {}

(* Re-entrant: the holder may enter again. *)
CanLock(t) == lock \in {Free, t}
Unlock(t) == lock' = IF lock = t THEN Free ELSE lock

-----------------------------------------------------------------------------
(* Protective orders.  Both operators determine pos, resting, nextId, halt,*)
(* closes and faults for a position p that is to be protected.             *)

(* A stop, and a target when enabled, rest for the whole remaining         *)
(* quantity; create_position_tpsl replaces the legs the position had.      *)
ProtectPlaced(p) ==
  LET legs == {[id |-> nextId, size |-> -p.qty]} \cup
              (IF VenueTP THEN {[id |-> nextId + 1, size |-> -p.qty]} ELSE {})
  IN
  /\ live /\ ~halt
  /\ PositionAttached => venue # 0
  /\ resting' = legs \cup (IF PositionAttached THEN {} ELSE resting)
  /\ nextId' = nextId + 2
  /\ pos' = [p EXCEPT !.sl = nextId, !.tp = IF VenueTP THEN nextId + 1 ELSE @]
  /\ Spend({})
  /\ UNCHANGED <<halt, closes>>

(* The placement failed: HALT and an emergency close_position if a stop is *)
(* required.  The HALT file just written blocks the exit order, so only a  *)
(* venue found flat lets the close be booked; the tracked ids are dropped  *)
(* although their cancels are blocked too.                                 *)
ProtectFailed(p) ==
  /\ live
  /\ \/ halt /\ Spend({})
     \/ PositionAttached /\ venue = 0 /\ Spend({})
     \/ ~halt /\ Spend({"tpsl"})
  /\ halt' = (halt \/ RequireSL)
  /\ IF RequireSL /\ venue = 0
       THEN pos' = NoPos /\ closes' = closes + 1
       ELSE /\ pos' = IF RequireSL THEN [p EXCEPT !.sl = 0, !.tp = 0] ELSE p
            /\ UNCHANGED closes
  /\ UNCHANGED <<resting, nextId>>

(* No engine is attached to the wallet yet. *)
ProtectSkipped(p) ==
  /\ ~live
  /\ pos' = p
  /\ Spend({})
  /\ UNCHANGED <<halt, closes, resting, nextId>>

Protect(p) == ProtectPlaced(p) \/ ProtectFailed(p) \/ ProtectSkipped(p)

(* Cancel the tracked legs: the ones in kept stay on the venue because the *)
(* cancel failed or the HALT file blocks it.  The wallet forgets them all. *)
CancelLegs(kept) ==
  /\ kept \subseteq Legs
  /\ halt => kept = Legs
  /\ resting' = (resting \ Legs) \cup kept
  /\ pos' = [pos EXCEPT !.sl = 0, !.tp = 0]

CancelFault(kept) == If("cancel", kept # {} /\ ~halt)

-----------------------------------------------------------------------------
(* Engine threads.                                                         *)

Goto(t, s) == pc' = [pc EXCEPT ![t] = s]

Filling == {"openfill", "closefill", "partfill"}

(* The thread's order as what the venue still has when the thread is gone. *)
InFlight(t) == [by |-> t, on |-> faults + crashes, exit |-> pc[t] # "openfill",
                size |-> plan[t]]

(* The market order of a fill step: filled and confirmed, refused, or given*)
(* up without confirmation.  The last two raise out of the operation.      *)
(* What a thread no longer reads is put back to its initial value.         *)
MarketOrder(t, booking) ==
  /\ plan' = [plan EXCEPT ![t] = 0]
  /\ \/ /\ ~halt /\ Spend({})
        /\ venue' = venue + plan[t]
        /\ Goto(t, booking)
        /\ UNCHANGED <<late, lock, restop, exitFailed>>
     \/ /\ \/ /\ IF halt THEN Spend({}) ELSE Spend({"refused"})
              /\ UNCHANGED late
           \/ /\ ~halt /\ Spend({"unconfirmed"})
              /\ late' = late \cup {InFlight(t)}
        /\ UNCHANGED venue
        /\ Goto(t, "idle")
        /\ Unlock(t)
        /\ restop' = [restop EXCEPT ![t] = FALSE]
        /\ exitFailed' = (exitFailed \/ booking # "openbook")

(* open_position, phase 1: the risk gate and can_open, then a LONG entry.  *)
OpenCheck(t) ==
  /\ live /\ t \in Entering /\ pc[t] = "idle" /\ lock = Free
  /\ ~kill /\ ~pos.open
  /\ entries < MaxEntries
  /\ entries' = entries + 1
  /\ plan' = [plan EXCEPT ![t] = Lot]
  /\ Goto(t, "openfill")
  /\ UNCHANGED <<wallet, market, gates, lock, restop, strm, rec, past,
                 faults, fires, recs, crashes>>

OpenFill(t) ==
  /\ pc[t] = "openfill"
  /\ MarketOrder(t, "openbook")
  /\ UNCHANGED <<wallet, resting, nextId, notices, gates, strm, rec, blind,
                 dropped, entries, fires, recs, crashes>>

(* Phase 2 looks again: a position that appeared meanwhile, a halted       *)
(* wallet or margin other entries have taken block the booking of what the *)
(* venue has filled.                                                       *)
EntryDeclined ==
  /\ dropped' = dropped + Lot
  /\ UNCHANGED <<wallet, resting, nextId, halt, exitFailed, faults>>

EntryBooked ==
  /\ ~pos.open
  /\ opens' = opens + 1
  /\ exitFailed' = FALSE
  /\ Protect([NoPos EXCEPT !.open = TRUE, !.qty = Lot])
  /\ UNCHANGED dropped

OpenBook(t) ==
  /\ pc[t] = "openbook" /\ CanLock(t)
  /\ Goto(t, "idle")
  /\ EntryDeclined \/ EntryBooked
  /\ UNCHANGED <<venue, late, notices, live, kill, lock, plan, restop, strm, rec,
                 blind, entries, fires, recs, crashes>>

(* Mutant: no clamp to the venue's quantity. *)
ExitQuantityUnclamped(readFails) == Abs(pos.qty)

(* The flip-guard: what the venue holds bounds the exit, unless the read   *)
(* fails.                                                                  *)
ExitQuantity(readFails) ==
  IF readFails THEN Abs(pos.qty) ELSE Lesser(Abs(venue), Abs(pos.qty))

Exiting == \E t \in Threads : pc[t] \in {"closefill", "closebook", "partfill", "partbook"}

(* An exit was given up, or died with its process, before its order filled.*)
LateExit == \E o \in late : o.exit

(* close_position, phase 1.  hold: called by update_positions, which keeps *)
(* the lock throughout.                                                    *)
CloseCheck(t, hold) ==
  /\ live /\ "close" \in Exits
  /\ pc[t] = "idle" /\ lock = Free /\ pos.open
  /\ \E kept \in SUBSET Legs, readFails \in BOOLEAN :
       /\ CancelLegs(kept)
       /\ Spend(CancelFault(kept) \cup If("read", readFails))
       /\ plan' = [plan EXCEPT ![t] = -Sign(pos.qty) * ExitQuantity(readFails)]
       /\ Goto(t, IF ExitQuantity(readFails) = 0 THEN "closebook" ELSE "closefill")
       /\ blind' = blind \cup If("read", readFails) \cup If("leg", resting' # {})
                        \cup If("overlap", Exiting) \cup If("late", LateExit)
  /\ lock' = IF hold THEN t ELSE Free
  /\ UNCHANGED <<opens, closes, venue, late, nextId, notices, gates, restop,
                 strm, rec, exitFailed, dropped, entries, fires, recs, crashes>>

CloseFill(t) ==
  /\ pc[t] = "closefill"
  /\ MarketOrder(t, "closebook")
  /\ UNCHANGED <<wallet, resting, nextId, notices, gates, strm, rec, blind,
                 dropped, entries, fires, recs, crashes>>

(* Mutant: the position found in phase 1 is booked without a second look.  *)
CloseBookBlind(t) ==
  /\ pc[t] = "closebook" /\ CanLock(t)
  /\ pos' = NoPos /\ closes' = closes + 1
  /\ Goto(t, "idle")
  /\ Unlock(t)
  /\ UNCHANGED <<opens, market, gates, plan, restop, strm, rec, past, spent>>

(* Phase 2: whoever closed it first has booked it.                         *)
CloseBook(t) ==
  /\ pc[t] = "closebook" /\ CanLock(t)
  /\ pos' = NoPos
  /\ closes' = IF pos.open THEN closes + 1 ELSE closes
  /\ Goto(t, "idle")
  /\ Unlock(t)
  /\ UNCHANGED <<opens, market, gates, plan, restop, strm, rec, past, spent>>

(* A take-profit level takes half of what remains. *)
Slice(q) == Sign(q) * (Abs(q) \div 2)

(* partial_close, phase 1: no venue read, hence no clamp. *)
PartialCheck(t, hold) ==
  /\ live /\ "partial" \in Exits
  /\ pc[t] = "idle" /\ lock = Free /\ pos.open /\ Slice(pos.qty) # 0
  /\ \E kept \in SUBSET Legs : CancelLegs(kept) /\ Spend(CancelFault(kept))
  /\ restop' = [restop EXCEPT ![t] = Tracked # {}]
  /\ plan' = [plan EXCEPT ![t] = -Slice(pos.qty)]
  /\ Goto(t, "partfill")
  /\ blind' = blind \cup {"partial"} \cup If("overlap", Exiting) \cup If("late", LateExit)
  /\ lock' = IF hold THEN t ELSE Free
  /\ UNCHANGED <<opens, closes, venue, late, nextId, notices, gates, strm, rec,
                 exitFailed, dropped, entries, fires, recs, crashes>>

PartialFill(t) ==
  /\ pc[t] = "partfill"
  /\ MarketOrder(t, "partbook")
  /\ UNCHANGED <<wallet, resting, nextId, notices, gates, strm, rec, blind,
                 dropped, entries, fires, recs, crashes>>

(* Mutants: the reduced position gets no stop; the slice is booked twice.  *)
PartialBookNoStop(t) ==
  /\ pc[t] = "partbook" /\ CanLock(t)
  /\ pos' = IF pos.open THEN [pos EXCEPT !.qty = @ - Slice(@)] ELSE pos
  /\ Goto(t, "idle")
  /\ Unlock(t)
  /\ restop' = [restop EXCEPT ![t] = FALSE]
  /\ UNCHANGED <<opens, closes, market, gates, plan, strm, rec,
                 past, spent>>
PartialBookTwice(t) ==
  /\ pc[t] = "partbook" /\ CanLock(t)
  /\ pos' = IF pos.open THEN [pos EXCEPT !.qty = @ - 2 * Slice(@)] ELSE pos
  /\ Goto(t, "idle")
  /\ Unlock(t)
  /\ restop' = [restop EXCEPT ![t] = FALSE]
  /\ UNCHANGED <<opens, closes, market, gates, plan, strm, rec,
                 past, spent>>

(* Phase 2: the slice is taken of what remains now, and the stop is put    *)
(* back for the reduced position.                                          *)
PartialBook(t) ==
  LET reduced == [pos EXCEPT !.qty = @ - Slice(@)] IN
  /\ pc[t] = "partbook" /\ CanLock(t)
  /\ Goto(t, "idle")
  /\ Unlock(t)
  /\ restop' = [restop EXCEPT ![t] = FALSE]
  /\ IF pos.open /\ restop[t]
       THEN Protect(reduced)
       ELSE /\ pos' = IF pos.open THEN reduced ELSE pos
            /\ UNCHANGED <<resting, nextId, halt, closes, faults>>
  /\ UNCHANGED <<opens, venue, late, notices, live, kill, plan, strm, rec,
                 past, entries, fires, recs, crashes>>

-----------------------------------------------------------------------------
(* The venue and its user stream.                                          *)

(* An order nobody waits for fills after all, or is never filled.          *)
SettleLate(o) ==
  /\ late' = late \ {o}
  /\ venue' \in {venue, venue + o.size}
  /\ UNCHANGED <<wallet, resting, nextId, notices, gates, actors, past, spent>>

(* A protective order triggers.  A position-attached one only ever closes  *)
(* the position; a separate order trades its own size.                     *)
FireProtective(o) ==
  /\ fires < MaxFires
  /\ PositionAttached => Sign(venue) = -Sign(o.size)
  /\ venue' = IF PositionAttached THEN 0 ELSE venue + o.size
  /\ resting' = resting \ {o}
  /\ notices' = notices \cup {o.id}
  /\ fires' = fires + 1
  /\ UNCHANGED <<wallet, late, nextId, gates, actors, past, faults, entries,
                 recs, crashes>>

(* The connection drops a fill (or the stream is not enabled). *)
LoseNotice(id) ==
  /\ notices' = notices \ {id}
  /\ UNCHANGED <<wallet, venue, late, resting, nextId, gates, actors, past, spent>>

(* _on_stream_fill looks the order id up without the lock ... *)
StreamFill(id) ==
  /\ live /\ strm = 0
  /\ notices' = notices \ {id}
  /\ strm' = IF pos.open /\ id \in Tracked THEN opens ELSE 0
  /\ UNCHANGED <<wallet, venue, late, resting, nextId, gates, lock, pc, plan,
                 restop, rec, past, spent>>

(* ... and apply_external_fill closes whatever position it finds under it; *)
(* in live mode it cancels nothing.                                        *)
StreamBook ==
  /\ strm # 0 /\ lock = Free
  /\ strm' = 0
  /\ pos' = NoPos
  /\ closes' = IF pos.open THEN closes + 1 ELSE closes
  /\ blind' = blind \cup If("overlap", pos.open /\ Exiting)
                    \cup If("late", pos.open /\ LateExit)
  /\ UNCHANGED <<opens, market, gates, lock, pc, plan, restop, rec, exitFailed,
                 dropped, spent>>

-----------------------------------------------------------------------------
(* Reconciler.reconcile: at boot, after a stream reconnect, and whenever a *)
(* position push differs from the wallet.  Two REST reads, then one step   *)
(* per comparison.                                                         *)

ReadPositions ==
  /\ rec.at = "idle" /\ recs < MaxReconciles
  /\ live \/ (~kill /\ ~halt)
  /\ recs' = recs + 1
  /\ rec' = [NoRec EXCEPT !.at = "orders", !.qty = venue]
  /\ UNCHANGED <<wallet, market, gates, lock, pc, plan, restop, strm, past,
                 faults, entries, fires, crashes>>

ReadOrders ==
  /\ rec.at = "orders"
  /\ rec' = [rec EXCEPT !.at = "positions", !.ids = Ids(resting)]
  /\ UNCHANGED <<wallet, market, gates, lock, pc, plan, restop, strm, past,
                 spent>>

Ghost   == pos.open /\ rec.qty = 0
Drift   == pos.open /\ rec.qty # 0 /\ Abs(rec.qty) # Abs(pos.qty)
Missing == ~pos.open /\ rec.qty # 0

RecNext(at, bad) == rec' = [rec EXCEPT !.at = at, !.bad = @ \/ bad]

Report ==
  /\ rec.at = "positions"
  /\ RecNext("stops", Ghost \/ Drift \/ Missing)
  /\ AdoptVenue => Ghost \/ ~(Drift \/ Missing)
  /\ UNCHANGED <<wallet, market, gates, lock, pc, plan, restop, strm, past,
                 spent>>

(* Mutant: the venue's sign is taken over with its quantity.               *)
AlignDriftSigned ==
  /\ rec.at = "positions" /\ AdoptVenue /\ Drift
  /\ pos' = [pos EXCEPT !.qty = rec.qty]
  /\ RecNext("stops", FALSE)
  /\ UNCHANGED <<opens, closes, market, gates, lock, pc, plan, restop, strm,
                 past, spent>>

(* adopt_venue: the wallet takes over the quantity, and only the quantity. *)
AlignDrift ==
  /\ rec.at = "positions" /\ AdoptVenue /\ Drift
  /\ pos' = [pos EXCEPT !.qty = Sign(@) * Abs(rec.qty)]
  /\ RecNext("stops", FALSE)
  /\ UNCHANGED <<opens, closes, market, gates, lock, pc, plan, restop, strm,
                 past, spent>>

(* adopt_venue_position, under the lock; a required stop that cannot be    *)
(* placed raises, and the adoption counts as failed.                       *)
Adopt ==
  /\ rec.at = "positions" /\ AdoptVenue /\ Missing /\ lock = Free
  /\ opens' = opens + 1
  /\ exitFailed' = FALSE
  /\ LET p == [NoPos EXCEPT !.open = TRUE, !.qty = rec.qty] IN
       \/ (ProtectPlaced(p) \/ ProtectSkipped(p)) /\ RecNext("stops", FALSE)
       \/ ProtectFailed(p) /\ RecNext("stops", RequireSL)
  /\ UNCHANGED <<venue, late, notices, live, kill, lock, pc, plan, restop, strm,
                 blind, dropped, entries, fires, recs, crashes>>

StopGone == pos.open /\ pos.sl # 0 /\ rec.qty # 0 /\ pos.sl \notin rec.ids

(* _sync_protective_stops.  A required stop that fails raises out of the   *)
(* whole pass.                                                             *)
SyncStops ==
  /\ rec.at = "stops"
  /\ \/ /\ ~StopGone
        /\ RecNext("orphans", FALSE)
        /\ UNCHANGED <<pos, closes, resting, nextId, halt, faults>>
     \/ /\ StopGone
        /\ \/ ProtectPlaced(pos) /\ RecNext("orphans", FALSE)
           \/ ProtectSkipped(pos) /\ RecNext("orphans", TRUE)
           \/ ProtectFailed(pos) /\ IF RequireSL THEN rec' = NoRec
                                                 ELSE RecNext("orphans", TRUE)
  /\ UNCHANGED <<opens, venue, late, notices, live, kill, lock, pc, plan, restop,
                 strm, past, entries, fires, recs, crashes>>

(* _cancel_orphan_orders, then the verdict: an unrepaired mismatch trips   *)
(* the kill switch, at boot the start is refused.                          *)
Conclude ==
  /\ rec.at = "orphans"
  /\ \E kept \in SUBSET resting :
       LET orphans == IF pos.open THEN {} ELSE rec.ids
           bad == \/ rec.bad
                  \/ halt /\ orphans # {}
                  \/ ~(orphans \subseteq Ids(resting))
                  \/ kept # {}
       IN
       /\ Ids(kept) \subseteq orphans
       /\ Spend(CancelFault(kept))
       /\ halt => kept = {o \in resting : o.id \in orphans}
       /\ resting' = IF bad /\ StrictCancel /\ ~halt THEN {}
                     ELSE {o \in resting : o.id \notin orphans} \cup kept
       /\ kill' = (kill \/ bad)
       /\ live' = (live \/ ~bad)
  /\ rec' = NoRec
  /\ UNCHANGED <<wallet, venue, late, nextId, notices, halt, lock, pc, plan,
                 restop, strm, past, entries, fires, recs, crashes>>

-----------------------------------------------------------------------------
(* The process dies; the journal, the risk file and the HALT file survive, *)
(* and so do the orders it had sent.                                       *)
Crash ==
  /\ live /\ crashes < MaxCrashes
  /\ crashes' = crashes + 1
  /\ live' = FALSE
  /\ lock' = Free /\ strm' = 0 /\ rec' = NoRec /\ notices' = {}
  /\ \E sent \in SUBSET {t \in Threads : pc[t] \in Filling} :
       late' = late \cup {InFlight(t) : t \in sent}
  /\ pc' = [t \in Threads |-> "idle"]
  /\ plan' = [t \in Threads |-> 0]
  /\ restop' = [t \in Threads |-> FALSE]
  /\ exitFailed' = (exitFailed \/ \E t \in Threads : pc[t] # "idle")
  /\ UNCHANGED <<wallet, venue, resting, nextId, halt, kill, blind, dropped,
                 faults, entries, fires, recs>>

Thread(t) ==
  \/ OpenCheck(t) \/ OpenFill(t) \/ OpenBook(t)
  \/ \E hold \in BOOLEAN : CloseCheck(t, hold) \/ PartialCheck(t, hold)
  \/ CloseFill(t) \/ CloseBook(t) \/ PartialFill(t) \/ PartialBook(t)

Reconcile ==
  \/ ReadPositions \/ ReadOrders \/ Report \/ AlignDrift \/ Adopt \/ SyncStops
  \/ Conclude

Next ==
  \/ \E t \in Threads : Thread(t)
  \/ \E o \in late : SettleLate(o)
  \/ \E o \in resting : FireProtective(o)
  \/ \E id \in notices : LoseNotice(id) \/ StreamFill(id)
  \/ StreamBook
  \/ Reconcile
  \/ Crash

Spec == Init /\ [][Next]_vars

-----------------------------------------------------------------------------
(* Properties.                                                             *)

Settled ==
  /\ live /\ lock = Free /\ strm = 0 /\ rec.at = "idle" /\ notices = {}
  /\ \A t \in Threads : pc[t] = "idle"

(* README G10: the clamp to the venue's quantity keeps an exit from opening*)
(* the opposite position.  With legs attached to the position it does while*)
(* every exit read the venue, left no leg behind and ran alone, even when  *)
(* the exit was given up on, or its process died, and its order fills late.*)
(* Entries are LONG here.                                                  *)
NoFlip == PositionAttached /\ blind = {} => venue >= 0

(* Two exits, the user stream and an emergency close may all decide to     *)
(* close one position: its PnL is booked once, and an entry is never       *)
(* booked over a position still open.                                      *)
ClosedOncePerOpen == opens - closes = (IF pos.open THEN 1 ELSE 0)

Books == INSTANCE PositionContract WITH
           current <- IF pos.open THEN opens ELSE 0,
           side <- IF ~pos.open THEN "none" ELSE IF pos.qty > 0 THEN "LONG" ELSE "SHORT",
           opened <- opens,
           closed <- closes

(* Whatever interleaves, fails or crashes, the wallet keeps the contract:  *)
(* an adoption, an alignment, a partial exit or a stop re-placed never     *)
(* turns a position over, empties it without closing it, or brings a closed*)
(* one back.                                                               *)
BooksKeepContract == Books!Contract

(* With exits that do not overlap and without a failing call, a crash or an*)
(* order of the venue's own, the venue holds what the wallet holds and the *)
(* entries the wallet declined to book, and nothing else, whenever nothing *)
(* is in progress, whatever passes of the Reconciler ran in between.       *)
Agreement ==
  Settled /\ "overlap" \notin blind /\ faults = 0 /\ fires = 0 /\ crashes = 0
    => venue = pos.qty + dropped

(* A required stop: an open position has its tracked stop on the venue     *)
(* whenever nothing is in progress, unless an exit failed half-way or the  *)
(* HALT file is there -- through entries, partial exits, adoptions and     *)
(* stops re-placed by the Reconciler.                                      *)
StopRests == pos.sl \in Ids(resting)
Protected == Settled /\ RequireSL /\ pos.open /\ ~halt /\ ~exitFailed => StopRests
=============================================================================
