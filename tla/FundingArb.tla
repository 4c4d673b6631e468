----------------------------- MODULE FundingArb -----------------------------
(***************************************************************************)
(* Funding-rate arbitrage of one symbol: FundingArbManager shorts the      *)
(* perpetual, buys the same quantity of spot, collects funding and unwinds *)
(* in the same order, one leg after the other.  ArbBook keeps the arb in   *)
(* memory (_open) and its last snapshot in a database, which is all a      *)
(* restarted process knows.                                                *)
(*                                                                         *)
(* A tick of the manager is a sequence of orders and book writes.  Each is *)
(* a step here: the process can die between any two of them.  Quantities   *)
(* count what the venues hold on behalf of the arb.                        *)
(***************************************************************************)
EXTENDS Integers

CONSTANTS
  Qty,        \* base quantity of each leg
  SpotHeld,   \* spot the account holds for other purposes
  Live,       \* live venues: safe_mode's HALT file blocks every order
  Interval,   \* funding_interval_ms, in ticks of the clock
  FaultKinds, \* what may fail, see Fault
  MaxFaults,  \* bound: failures
  MaxCrashes, \* bound: crashes
  MaxTime     \* bound: ticks of the clock

ASSUME ArbConstants ==
  /\ Qty \in Nat \ {0}
  /\ SpotHeld \in Nat
  /\ Live \in BOOLEAN
  /\ Interval \in Nat \ {0}
  /\ FaultKinds \subseteq {"refused", "unconfirmed", "write"}
  /\ {MaxFaults, MaxCrashes, MaxTime} \subseteq Nat

VARIABLES
  perp,       \* net position on the futures venue
  spot,       \* net spot bought
  halt,       \* the HALT file exists
  mem,        \* ArbBook._open[symbol]
  disk,       \* the snapshot a restart would load
  pc,         \* where the tick stands
  clock,      \* time
  faults, crashes,   \* spent bounds
  torn,       \* history: a fill the book was never told of
  halfRolled  \* history: a roll-back was begun and not carried through

venues == <<perp, spot>>
past   == <<torn, halfRolled>>
vars   == <<venues, halt, mem, disk, pc, clock, faults, crashes, past>>

States == {"NONE", "PERP_ONLY", "HEDGED", "UNWINDING_PERP", "UNWINDING_SPOT"}

(* opened, last: entry and latest accrual; paid: accruals booked.          *)
Arbs == [state : States, opened : 0 .. MaxTime, last : 0 .. MaxTime, paid : Nat]
NoArb == [state |-> "NONE", opened |-> 0, last |-> 0, paid |-> 0]

(* Steps that follow a fill and write it to the book. *)
Booking == {"opened", "hedged", "resolved", "rolled", "bought", "closed"}
Stages == {"idle", "short", "buy", "rebuy", "roll", "rollbuy", "manage",
           "unwind", "buyback", "sell"} \cup Booking

BookType ==
  /\ perp \in Int /\ spot \in Int
  /\ mem \in Arbs /\ disk \in Arbs
  /\ pc \in Stages
  /\ clock \in 0 .. MaxTime
  /\ faults \in 0 .. MaxFaults /\ crashes \in 0 .. MaxCrashes
FlagType == halt \in BOOLEAN /\ torn \in BOOLEAN /\ halfRolled \in BOOLEAN

TypeOK == BookType /\ FlagType

Init ==
  /\ perp = 0 /\ spot = 0
  /\ halt \in BOOLEAN
  /\ mem = NoArb /\ disk = NoArb
  /\ pc = "idle"
  /\ clock = 0 /\ faults = 0 /\ crashes = 0
  /\ torn = FALSE /\ halfRolled = FALSE

-----------------------------------------------------------------------------
NoFault == UNCHANGED faults
Fault(kind) ==
  /\ kind \in FaultKinds /\ faults < MaxFaults
  /\ faults' = faults + 1

Blocked == Live /\ halt

SetState(s) == [mem EXCEPT !.state = s]

(* close: the arb leaves _open, before anything is written. *)
Closed == NoArb

(* place_order of a market order that moves a venue position by d.  It     *)
(* fills, is blocked or refused, or fills without a confirmation: then it  *)
(* raises like a refusal.                                                  *)
Fills(v, d) == ~Blocked /\ NoFault /\ v' = v + d /\ UNCHANGED torn
Raises(v, d) ==
  \/ /\ IF Blocked THEN NoFault ELSE Fault("refused")
     /\ UNCHANGED <<v, torn>>
  \/ ~Blocked /\ Fault("unconfirmed") /\ v' = v + d /\ torn' = TRUE

(* _emit and _snapshot: committed, or raising out of the tick with the     *)
(* snapshot as it was.                                                     *)
Writes(arb) == disk' = arb /\ NoFault /\ UNCHANGED torn
WriteFails ==
  /\ Fault("write")
  /\ torn' = (torn \/ pc \in Booking)
  /\ UNCHANGED disk

-----------------------------------------------------------------------------
(* Mutant: an interrupted unwind is not taken up again. *)
TickNoResume ==
  /\ pc = "idle"
  /\ \/ mem.state = "HEDGED" /\ pc' = IF halt THEN "unwind" ELSE "manage"
     \/ mem.state = "NONE" /\ ~halt /\ pc' = "short"
     \/ mem.state = "PERP_ONLY" /\ ~halt /\ pc' = "rebuy"
     \/ mem.state = "UNWINDING_SPOT" /\ ~halt /\ pc' = "sell"
  /\ UNCHANGED <<venues, halt, mem, disk, clock, faults, crashes, past>>

(* on_signal_tick: what the arb in memory and the HALT file ask for.       *)
Tick ==
  /\ pc = "idle"
  /\ \/ mem.state = "HEDGED" /\ pc' = IF halt THEN "unwind" ELSE "manage"
     \/ mem.state = "NONE" /\ ~halt /\ pc' = "short"
     \/ mem.state = "PERP_ONLY" /\ ~halt /\ pc' = "rebuy"
     \/ mem.state = "UNWINDING_PERP" /\ ~halt /\ pc' = "unwind"
     \/ mem.state = "UNWINDING_SPOT" /\ ~halt /\ pc' = "sell"
  /\ UNCHANGED <<venues, halt, mem, disk, clock, faults, crashes, past>>

(* Entry, leg 1.  A failure leaves no arb behind.                          *)
ShortPerp ==
  /\ pc = "short"
  /\ \/ /\ Fills(perp, -Qty)
        /\ mem' = [state |-> "PERP_ONLY", opened |-> clock, last |-> clock, paid |-> 0]
        /\ pc' = "opened"
     \/ /\ Raises(perp, -Qty)
        /\ pc' = "idle"
        /\ UNCHANGED mem
  /\ UNCHANGED <<spot, halt, disk, clock, crashes, halfRolled>>

(* Mutant: the open hedge is kept in memory only. *)
BookPerpMemoryOnly ==
  /\ pc = "opened"
  /\ pc' = "buy"
  /\ UNCHANGED <<venues, halt, mem, disk, clock, faults, crashes, past>>

(* open_record, then ARB_PERP_LEG_FILLED: two writes of one state, either  *)
(* of which may fail.                                                      *)
BookPerp ==
  /\ pc = "opened"
  /\ \/ Writes(mem) /\ pc' = "buy"
     \/ WriteFails /\ pc' = "idle"
     \/ disk' = mem /\ Fault("write") /\ UNCHANGED torn /\ pc' = "idle"
  /\ UNCHANGED <<venues, halt, mem, clock, crashes, halfRolled>>

(* Leg 2, in the entering tick ("buy") or a later one ("rebuy"); a failure *)
(* starts the roll-back.                                                   *)
BuySpot ==
  /\ pc \in {"buy", "rebuy"}
  /\ \/ /\ Fills(spot, Qty)
        /\ mem' = SetState("HEDGED")
        /\ pc' = IF pc = "buy" THEN "hedged" ELSE "resolved"
     \/ /\ Raises(spot, Qty)
        /\ mem' = SetState("UNWINDING_PERP")
        /\ pc' = "roll"
  /\ UNCHANGED <<perp, halt, disk, clock, crashes, halfRolled>>

BookHedge ==
  /\ pc = "hedged"
  /\ Writes(mem) \/ WriteFails
  /\ pc' = "idle"
  /\ UNCHANGED <<venues, halt, mem, clock, crashes, halfRolled>>

(* In _resolve the write stands inside the try around the order: when it   *)
(* fails the bought spot counts as not bought.                             *)
BookResolved ==
  /\ pc = "resolved"
  /\ \/ Writes(mem) /\ pc' = "idle" /\ UNCHANGED mem
     \/ WriteFails /\ pc' = "roll" /\ mem' = SetState("UNWINDING_PERP")
  /\ UNCHANGED <<venues, halt, clock, crashes, halfRolled>>

-----------------------------------------------------------------------------
(* _rollback_perp. *)
BookRollback ==
  /\ pc = "roll"
  /\ \/ Writes(mem) /\ pc' = "rollbuy" /\ UNCHANGED halfRolled
     \/ WriteFails /\ pc' = "idle" /\ halfRolled' = TRUE
  /\ UNCHANGED <<venues, halt, mem, clock, crashes>>

RollbackPerp ==
  /\ pc = "rollbuy"
  /\ \/ Fills(perp, Qty) /\ pc' = "rolled" /\ UNCHANGED <<halt, halfRolled>>
     \/ Raises(perp, Qty) /\ pc' = "idle" /\ halt' = TRUE /\ halfRolled' = TRUE
  /\ UNCHANGED <<spot, mem, disk, clock, crashes>>

(* ARB_ENTRY_ROLLED_BACK with the state as it was, then close. *)
BookRolledBack ==
  /\ pc = "rolled"
  /\ \/ Writes(mem) /\ pc' = "closed" /\ mem' = Closed
     \/ WriteFails /\ pc' = "idle" /\ UNCHANGED mem
  /\ UNCHANGED <<venues, halt, clock, crashes, halfRolled>>

-----------------------------------------------------------------------------
(* Mutant: the accrual does not move last_funding_ts. *)
ManageStaleAccrual ==
  LET due == clock - mem.last >= Interval
      accrued == [mem EXCEPT !.paid = @ + 1]
  IN
  /\ pc = "manage"
  /\ mem' = IF due THEN accrued ELSE mem
  /\ IF due THEN Writes(accrued) ELSE NoFault /\ UNCHANGED <<disk, torn>>
  /\ pc' \in {"idle", "unwind"}
  /\ UNCHANGED <<venues, halt, clock, crashes, halfRolled>>

(* _manage: accrue funding when an interval has passed, then unwind if the *)
(* rate or the basis asks for it.                                          *)
Manage ==
  LET due == clock - mem.last >= Interval
      accrued == [mem EXCEPT !.paid = @ + 1, !.last = clock]
  IN
  /\ pc = "manage"
  /\ mem' = IF due THEN accrued ELSE mem
  /\ \/ /\ IF due THEN Writes(accrued) ELSE NoFault /\ UNCHANGED <<disk, torn>>
        /\ pc' \in {"idle", "unwind"}
     \/ due /\ WriteFails /\ pc' = "idle"
  /\ UNCHANGED <<venues, halt, clock, crashes, halfRolled>>

(* _unwind, leg 1.  The state is recorded before the order ... *)
BookUnwind ==
  /\ pc = "unwind"
  /\ mem' = SetState("UNWINDING_PERP")
  /\ \/ Writes(SetState("UNWINDING_PERP")) /\ pc' = "buyback"
     \/ WriteFails /\ pc' = "idle"
  /\ UNCHANGED <<venues, halt, clock, crashes, halfRolled>>

BuyBack ==
  /\ pc = "buyback"
  /\ \/ /\ Fills(perp, Qty)
        /\ pc' = "bought" /\ mem' = SetState("UNWINDING_SPOT")
        /\ UNCHANGED halt
     \/ /\ Raises(perp, Qty)
        /\ pc' = "idle" /\ halt' = TRUE
        /\ UNCHANGED mem
  /\ UNCHANGED <<spot, disk, clock, crashes, halfRolled>>

(* ... and after it. *)
BookBought ==
  /\ pc = "bought"
  /\ \/ Writes(mem) /\ pc' = "sell"
     \/ WriteFails /\ pc' = "idle"
  /\ UNCHANGED <<venues, halt, mem, clock, crashes, halfRolled>>

(* Leg 2: a refused sale is tried again by the next tick. *)
SellSpot ==
  /\ pc = "sell"
  /\ \/ /\ Live => spot + SpotHeld >= Qty
        /\ Fills(spot, -Qty)
        /\ pc' = "closed" /\ mem' = Closed
     \/ /\ \/ Raises(spot, -Qty)
           \/ Live /\ spot + SpotHeld < Qty /\ NoFault /\ UNCHANGED <<spot, torn>>
        /\ pc' = "idle"
        /\ UNCHANGED mem
  /\ UNCHANGED <<perp, halt, disk, clock, crashes, halfRolled>>

BookClose ==
  /\ pc = "closed"
  /\ Writes(NoArb) \/ WriteFails
  /\ pc' = "idle"
  /\ UNCHANGED <<venues, halt, mem, clock, crashes, halfRolled>>

-----------------------------------------------------------------------------
(* The process dies and starts again; _load_open reads the snapshot. *)
Crash ==
  /\ crashes < MaxCrashes
  /\ crashes' = crashes + 1
  /\ mem' = disk
  /\ pc' = "idle"
  /\ torn' = (torn \/ pc \in Booking)
  /\ halfRolled' = (halfRolled \/ pc = "rollbuy")
  /\ UNCHANGED <<venues, halt, disk, clock, faults>>

(* HALT is tripped elsewhere (thread supervisor, a stop that could not be  *)
(* placed) and removed by hand.                                            *)
Halt ==
  /\ halt' = ~halt
  /\ UNCHANGED <<venues, mem, disk, pc, clock, faults, crashes, past>>

(* Hours pass between ticks, next to nothing during one. *)
Clock ==
  /\ pc = "idle" /\ clock < MaxTime
  /\ clock' = clock + 1
  /\ UNCHANGED <<venues, halt, mem, disk, pc, faults, crashes, past>>

Manager ==
  \/ Tick \/ ShortPerp \/ BookPerp \/ BuySpot \/ BookHedge \/ BookResolved
  \/ BookRollback \/ RollbackPerp \/ BookRolledBack
  \/ Manage \/ BookUnwind \/ BuyBack \/ BookBought \/ SellSpot \/ BookClose

Next == Manager \/ Crash \/ Halt \/ Clock

(* run_loop ticks for as long as the process lives, and a dead one is      *)
(* started again (docker-compose: restart: unless-stopped).                *)
Spec == Init /\ [][Next]_vars /\ WF_vars(Manager)

-----------------------------------------------------------------------------
(* Properties.                                                             *)

PerpOf(arb) == IF arb.state \in {"PERP_ONLY", "HEDGED", "UNWINDING_PERP"}
                 THEN -Qty ELSE 0
SpotOf(arb) == IF arb.state \in {"HEDGED", "UNWINDING_PERP", "UNWINDING_SPOT"}
                 THEN Qty ELSE 0

(* Between ticks, and for the snapshot a restart would find, the recorded  *)
(* state tells what the venues hold -- through refused orders, HALTs,      *)
(* crashes and failing writes, as long as every fill reached the book.     *)
(* A leg is then never traded twice.  The spot leg needs more: a roll-back *)
(* that stopped half-way is resumed as an unwind.                          *)
BookIsTrue ==
  pc = "idle" /\ ~torn =>
    \A arb \in {mem, disk} :
      /\ PerpOf(arb) = perp
      /\ ~halfRolled => SpotOf(arb) = spot

(* Funding is booked at most once per interval the arb was open, whatever  *)
(* crash or failed write made the manager forget an accrual.               *)
FundingOncePerInterval ==
  \A arb \in {mem, disk} : arb.paid * Interval <= clock - arb.opened

(* funding_arb_manager: "the only naked window is a net-short perp that    *)
(* can be flattened": the exposed short is hedged or bought back in later  *)
(* ticks, or HALT is tripped.                                              *)
NakedPerpResolved ==
  LET naked == mem.state \in {"PERP_ONLY", "UNWINDING_PERP"}
  IN  naked ~> (~naked \/ halt)
=============================================================================
