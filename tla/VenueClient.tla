----------------------------- MODULE VenueClient -----------------------------
(***************************************************************************)
(* The road from a live entry to the venue: CoinDCXClient with its retries *)
(* and its circuit breaker, shared by every thread, the order calls of     *)
(* CoinDCXExecutionEngine, and the two ways the wallet acquires an entry's *)
(* fill through them -- a market order, or a passive limit order that is   *)
(* polled, cancelled when its time is up, and followed by a market order.  *)
(* A call is a gate (the HALT file, the circuit) and then its attempts.    *)
(***************************************************************************)
EXTENDS Integers, FiniteSets

CONSTANTS
  Entering,    \* threads that acquire one entry each
  Readers,     \* threads that read the account again and again
  Qty,         \* an entry's quantity
  Fallbacks,   \* subset of {"market", "skip"}: maker_limit_fallback
  MaxRetries,  \* CoinDCXClient.max_retries
  Threshold,   \* failure_threshold
  Polls,       \* attempts of _resolve_market_fill
  MaxOutages   \* bound: outages of the venue

ASSUME ClientConstants ==
  /\ IsFiniteSet(Entering) /\ IsFiniteSet(Readers)
  /\ Entering \cap Readers = {} /\ Readers # {}
  /\ Qty \in Nat \ {0} /\ MaxRetries \in Nat \ {0}
  /\ Threshold \in Nat \ {0} /\ Polls \in Nat \ {0}
  /\ Fallbacks \subseteq {"market", "skip"} /\ Fallbacks # {}
  /\ MaxOutages \in Nat

Threads == Entering \cup Readers

VARIABLES
  cb, fails,  \* the circuit's state and its failure count
  cooled,     \* recovery_timeout has passed since the last failure
  late,       \* history: attempts ended since the circuit opened
  up, outages,\* the venue answers; outages so far
  halt,       \* the HALT file exists
  call,       \* [Threads -> Calls] what a thread is asking the venue for
  lim, mkt,   \* [Entering -> [rest, got]] an entry's two orders at the venue
  stray,      \* [Entering -> Nat] quantity ordered whose id never came back
  copies,     \* history: orders its last place_order put on the venue
  seen,       \* [Entering -> Nat] the limit order's fill at the last poll
  book,       \* [Entering -> Nat] what the wallet goes on to book
  excuse      \* history: what kept an entry from knowing better

circuit == <<cb, fails, cooled, late>>
orders  == <<lim, mkt, stray, copies>>
venue   == <<up, outages>>
vars    == <<circuit, venue, halt, call, orders, seen, book, excuse>>

Creates == {"limit", "market"}
Asks == Creates \cup {"read", "wait", "cancel", "settle", "fills", "look"}
Calls == [op : Asks \cup {"idle", "done"}, wire : BOOLEAN,
          tries : 0 .. MaxRetries - 1, polls : 0 .. Polls - 1]
Order == {o \in [rest : 0 .. Qty, got : 0 .. Qty] : o.rest + o.got <= Qty}
Excuses == {"cancel", "read", "unconfirmed", "short"}

Ask(op, polls) == [op |-> op, wire |-> FALSE, tries |-> 0, polls |-> polls]
Has(rest, got) == [rest |-> rest, got |-> got]
NoOrder == Has(0, 0)
Lesser(m, n) == IF m < n THEN m ELSE n

(* Every other thread may be inside a call when the circuit opens. *)
StormBound == (Cardinality(Threads) - 1) * MaxRetries

Init ==
  /\ cb = "closed" /\ fails = 0 /\ cooled = FALSE /\ late = 0
  /\ up = TRUE /\ outages = 0 /\ halt = FALSE
  /\ call = [t \in Threads |-> Ask("idle", 0)]
  /\ lim = [t \in Entering |-> NoOrder] /\ mkt = [t \in Entering |-> NoOrder]
  /\ stray = [t \in Entering |-> 0] /\ copies = [t \in Entering |-> 0]
  /\ seen = [t \in Entering |-> 0] /\ book = [t \in Entering |-> 0]
  /\ excuse = [t \in Entering |-> {}]

-----------------------------------------------------------------------------
(* The circuit breaker.                                                    *)

(* Attempts that end while the circuit is open; saturates above its bound. *)
Counted == IF cb = "open" THEN Lesser(late + 1, StormBound + 1) ELSE 0

(* Mutant: a probe's success clears the count and leaves the state alone.  *)
OnSuccessStaysHalf ==
  /\ cb' = cb /\ fails' = 0 /\ cooled' = FALSE /\ late' = 0

(* _on_success, whatever the state: a call that passed the gate before the *)
(* circuit opened closes it again.                                         *)
OnSuccess ==
  /\ cb' = "closed" /\ fails' = 0 /\ cooled' = FALSE /\ late' = 0

(* Mutant: failed calls are not counted. *)
OnFailureUncounted == late' = Counted /\ UNCHANGED <<cb, fails, cooled>>

(* _on_failure: restarts the recovery time also when already open. *)
OnFailure ==
  /\ fails' = Lesser(fails + 1, Threshold)
  /\ cooled' = FALSE
  /\ cb' = IF cb = "half_open" \/ fails + 1 >= Threshold THEN "open" ELSE cb
  /\ late' = Counted

(* A failure that raises past _on_failure, or a 4xx. *)
Ignored == late' = Counted /\ UNCHANGED <<cb, fails, cooled>>

(* recovery_timeout passes. *)
Cool ==
  /\ cb = "open" /\ ~cooled
  /\ cooled' = TRUE
  /\ UNCHANGED <<cb, fails, late, venue, halt, call, orders, seen, book, excuse>>

-----------------------------------------------------------------------------
(* How an entry goes on.  Each of these determines call, seen, book and    *)
(* excuse; a call that raises is Raised.                                   *)

Polled(t, op, polls) == call' = [call EXCEPT ![t] = Ask(op, polls)]
Goes(t, op) == Polled(t, op, 0)
Tries(t, n) ==
  call' = [call EXCEPT ![t] = [op |-> call[t].op, wire |-> TRUE, tries |-> n,
                               polls |-> call[t].polls]]
Kept == UNCHANGED <<seen, book, excuse>>
Missed(t, what, cond) ==
  excuse' = IF cond THEN [excuse EXCEPT ![t] = excuse[t] \cup {what}] ELSE excuse

(* _maker_limit_fallback *)
Fallback(t) ==
  \/ "market" \in Fallbacks /\ Goes(t, "market")
  \/ "skip" \in Fallbacks /\ Goes(t, "done")

(* Booked: what the entry returns; nothing else of it is looked at again.  *)
Books(t, q) == Goes(t, "done") /\ book' = [book EXCEPT ![t] = q]

(* Mutant: a partial fill is followed by the fallback too. *)
ConcludesTopUp(t, filled) ==
  IF filled < Qty
    THEN Fallback(t) /\ book' = [book EXCEPT ![t] = filled]
    ELSE Books(t, filled)

(* The end of acquire_live_entry_fill, on the fill it read last. *)
Concludes(t, filled) ==
  IF filled = 0 THEN Fallback(t) /\ UNCHANGED book ELSE Books(t, filled)

(* The call raised (api: a CoinDCXError).  A status poll is repeated; a    *)
(* cancel that fails leaves the order; a final read that fails leaves the  *)
(* fill of the last poll; get_fills forgives CoinDCXError only, and        *)
(* get_order_status inside _resolve_market_fill nothing.                   *)
Raised(t, api) ==
  LET op == call[t].op IN
  \/ op = "read" /\ Goes(t, "idle") /\ Kept
  \/ op = "limit" /\ Fallback(t) /\ Kept
  \/ op = "wait" /\ Goes(t, "wait") /\ Kept
  \/ /\ op = "cancel" /\ Goes(t, "settle")
     /\ Missed(t, "cancel", lim'[t].rest > 0)
     /\ UNCHANGED <<seen, book>>
  \/ /\ op = "settle" /\ Concludes(t, seen[t])
     /\ Missed(t, "read", seen[t] # lim[t].got)
     /\ UNCHANGED seen
  \/ op = "market" /\ Goes(t, "done") /\ Kept
  \/ op = "fills" /\ api /\ Polled(t, "look", call[t].polls) /\ Kept
  \/ /\ op = "look" \/ (op = "fills" /\ ~api)
     /\ Goes(t, "done")
     /\ Missed(t, "unconfirmed", mkt[t] # NoOrder)
     /\ UNCHANGED <<seen, book>>

-----------------------------------------------------------------------------
(* A call.                                                                 *)

(* assert_live_allowed stands before creates and cancels. *)
Blocked(t) ==
  /\ call[t].op \in Creates \cup {"cancel"} /\ ~call[t].wire /\ halt
  /\ UNCHANGED <<circuit, venue, halt, orders>>
  /\ Raised(t, FALSE)

Passable(t) == call[t].op \in Creates \cup {"cancel"} => ~halt

Open == cb = "open" /\ ~cooled

(* CircuitOpenError, which is no CoinDCXError. *)
Rejected(t) ==
  /\ call[t].op \in Asks /\ ~call[t].wire /\ Passable(t)
  /\ Open
  /\ UNCHANGED <<circuit, venue, halt, orders>>
  /\ Raised(t, FALSE)

(* Mutant: the circuit is not asked. *)
AdmittedUnasked(t) ==
  /\ call[t].op \in Asks /\ ~call[t].wire /\ Passable(t)
  /\ Tries(t, 0)
  /\ copies' = IF call[t].op \in Creates THEN [copies EXCEPT ![t] = 0] ELSE copies
  /\ UNCHANGED <<circuit, venue, halt, lim, mkt, stray, seen, book, excuse>>

(* is_open finds the recovery time passed and half-opens: every caller     *)
(* passes from then on, not one.                                           *)
Admitted(t) ==
  /\ call[t].op \in Asks /\ ~call[t].wire /\ Passable(t)
  /\ ~Open
  /\ cb' = IF cb = "open" THEN "half_open" ELSE cb
  /\ cooled' = FALSE /\ late' = 0
  /\ Tries(t, 0)
  /\ copies' = IF call[t].op \in Creates THEN [copies EXCEPT ![t] = 0] ELSE copies
  /\ UNCHANGED <<fails, venue, halt, lim, mkt, stray, seen, book, excuse>>

(* Mutant: an order is tried again like any other call. *)
RetrySafeAll(op) == TRUE

RetrySafe(op) == op \notin Creates

(* The request may have been carried out all the same. *)
Carried(t, done) ==
  LET op == call[t].op IN
  /\ stray' = IF done /\ op \in Creates THEN [stray EXCEPT ![t] = @ + Qty] ELSE stray
  /\ copies' = IF done /\ op \in Creates THEN [copies EXCEPT ![t] = @ + 1] ELSE copies
  /\ lim' = IF done /\ op = "cancel" THEN [lim EXCEPT ![t] = Has(0, lim[t].got)] ELSE lim
  /\ UNCHANGED mkt

(* A 429, a 5xx, a timeout or a broken connection. *)
Unanswered(t) ==
  LET op == call[t].op IN
  /\ call[t].wire /\ ~up
  /\ \E done \in BOOLEAN : Carried(t, done)
  /\ \/ /\ ~RetrySafe(op)
        /\ Ignored
        /\ \E api \in BOOLEAN : Raised(t, api)
     \/ /\ RetrySafe(op) /\ call[t].tries + 1 < MaxRetries
        /\ Tries(t, call[t].tries + 1)
        /\ Ignored /\ Kept
     \/ /\ RetrySafe(op) /\ call[t].tries + 1 = MaxRetries
        /\ OnFailure
        /\ \E api \in BOOLEAN : Raised(t, api)
  /\ UNCHANGED <<venue, halt>>

(* A 4xx: an order the account cannot carry, a cancel of what is gone. *)
Refused(t) ==
  /\ call[t].wire /\ up
  /\ call[t].op \in Creates \/ (call[t].op = "cancel" /\ lim[t].rest = 0)
  /\ UNCHANGED <<orders, venue, halt>>
  /\ Ignored
  /\ Raised(t, TRUE)

-----------------------------------------------------------------------------
(* A 2xx, by what was asked.                                               *)

Answer(t, op) ==
  call[t].op = op /\ call[t].wire /\ up /\ OnSuccess /\ UNCHANGED <<venue, halt>>

ReadAnswered(t) ==
  /\ Answer(t, "read")
  /\ Goes(t, "idle") /\ Kept
  /\ UNCHANGED orders

(* The order rests; an answer without an id leaves a stray, whose polls    *)
(* find nothing.                                                           *)
LimitPlaced(t) ==
  /\ Answer(t, "limit")
  /\ \/ lim' = [lim EXCEPT ![t] = Has(Qty, 0)] /\ UNCHANGED stray
     \/ stray' = [stray EXCEPT ![t] = @ + Qty] /\ UNCHANGED lim
  /\ copies' = [copies EXCEPT ![t] = @ + 1]
  /\ Goes(t, "wait") /\ Kept
  /\ UNCHANGED mkt

(* get_order_status: what is not among the open orders and has any fill is *)
(* "filled", and the entry books its whole quantity.                       *)
StatusRead(t) ==
  /\ Answer(t, "wait")
  /\ seen' = [seen EXCEPT ![t] = lim[t].got]
  /\ IF lim[t].rest = 0 /\ lim[t].got > 0
       THEN Books(t, Qty)
       ELSE Goes(t, "wait") /\ UNCHANGED book
  /\ UNCHANGED <<orders, excuse>>

(* maker_limit_timeout_s is over. *)
Deadline(t) ==
  /\ call[t].op = "wait" /\ ~call[t].wire
  /\ Goes(t, "cancel") /\ Kept
  /\ UNCHANGED <<circuit, venue, halt, orders>>

Cancelled(t) ==
  /\ Answer(t, "cancel")
  /\ lim[t].rest > 0
  /\ lim' = [lim EXCEPT ![t] = Has(0, lim[t].got)]
  /\ Goes(t, "settle") /\ Kept
  /\ UNCHANGED <<mkt, stray, copies>>

(* The last read, and the entry books what it shows. *)
Settled(t) ==
  /\ Answer(t, "settle")
  /\ Concludes(t, lim[t].got)
  /\ UNCHANGED <<orders, seen, excuse>>

(* The order is accepted, filled at once in the answer, or accepted with   *)
(* no id in the answer, which raises.                                      *)
MarketPlaced(t) ==
  /\ Answer(t, "market")
  /\ \/ /\ mkt' = [mkt EXCEPT ![t] = Has(Qty, 0)]
        /\ Goes(t, "fills") /\ UNCHANGED <<book, stray>>
     \/ /\ mkt' = [mkt EXCEPT ![t] = Has(0, Qty)]
        /\ Books(t, Qty) /\ UNCHANGED stray
     \/ /\ stray' = [stray EXCEPT ![t] = @ + Qty]
        /\ Goes(t, "done") /\ UNCHANGED <<book, mkt>>
  /\ copies' = [copies EXCEPT ![t] = @ + 1]
  /\ UNCHANGED <<lim, seen, excuse>>

(* Mutant: an accepted market order counts as filled. *)
FillsReadUnfilled(t) ==
  /\ Answer(t, "fills")
  /\ Books(t, Qty)
  /\ UNCHANGED <<orders, seen, excuse>>

(* _resolve_market_fill: any fill confirms the order, and _venue_fill      *)
(* passes no quantity on: the wallet books the one it asked for.           *)
FillsRead(t) ==
  /\ Answer(t, "fills")
  /\ IF mkt[t].got > 0
       THEN Books(t, Qty)
       ELSE /\ Polled(t, "look", call[t].polls)
            /\ UNCHANGED book
  /\ UNCHANGED <<orders, seen, excuse>>

(* get_order_status knows no terminal status of an order without fills, so *)
(* the polls run out.                                                      *)
Looked(t) ==
  /\ Answer(t, "look")
  /\ IF call[t].polls + 1 < Polls
       THEN Polled(t, "fills", call[t].polls + 1) /\ UNCHANGED excuse
       ELSE Goes(t, "done") /\ Missed(t, "unconfirmed", mkt[t] # NoOrder)
  /\ UNCHANGED <<orders, seen, book>>

-----------------------------------------------------------------------------
(* What starts calls, and the venue.                                       *)

Read(t) ==
  /\ call[t].op = "idle" /\ t \in Readers
  /\ Goes(t, "read") /\ Kept
  /\ UNCHANGED <<circuit, venue, halt, orders>>

Enter(t) ==
  /\ call[t].op = "idle" /\ t \in Entering
  /\ \E op \in Creates : Goes(t, op)
  /\ Kept
  /\ UNCHANGED <<circuit, venue, halt, orders>>

FillLimit(t) ==
  /\ \E n \in 1 .. lim[t].rest :
       lim' = [lim EXCEPT ![t] = Has(lim[t].rest - n, lim[t].got + n)]
  /\ UNCHANGED <<circuit, venue, halt, call, mkt, stray, copies, seen, book, excuse>>

FillMarket(t) ==
  /\ \E n \in 1 .. mkt[t].rest :
       mkt' = [mkt EXCEPT ![t] = Has(mkt[t].rest - n, mkt[t].got + n)]
  /\ UNCHANGED <<circuit, venue, halt, call, lim, stray, copies, seen, book, excuse>>

(* The venue ends an order with a remainder of its own accord. *)
EndOrder(t) ==
  /\ \/ /\ lim[t].rest > 0
        /\ lim' = [lim EXCEPT ![t] = Has(0, lim[t].got)]
        /\ Missed(t, "short", lim[t].got > 0)
        /\ UNCHANGED mkt
     \/ /\ mkt[t].rest > 0
        /\ mkt' = [mkt EXCEPT ![t] = Has(0, mkt[t].got)]
        /\ Missed(t, "short", mkt[t].got > 0)
        /\ UNCHANGED lim
  /\ UNCHANGED <<circuit, venue, halt, call, stray, copies, seen, book>>

Outage ==
  /\ up /\ outages < MaxOutages
  /\ up' = FALSE /\ outages' = outages + 1
  /\ UNCHANGED <<circuit, halt, call, orders, seen, book, excuse>>

Restore ==
  /\ ~up
  /\ up' = TRUE
  /\ UNCHANGED <<circuit, outages, halt, call, orders, seen, book, excuse>>

TripHalt ==
  /\ ~halt
  /\ halt' = TRUE
  /\ UNCHANGED <<circuit, venue, call, orders, seen, book, excuse>>

Step(t) ==
  \/ Blocked(t) \/ Rejected(t) \/ Admitted(t) \/ Unanswered(t) \/ Refused(t)
  \/ ReadAnswered(t) \/ LimitPlaced(t) \/ StatusRead(t) \/ Cancelled(t)
  \/ Settled(t) \/ MarketPlaced(t) \/ FillsRead(t) \/ Looked(t)

Next ==
  \/ \E t \in Threads : Read(t) \/ Enter(t) \/ Step(t) \/ Deadline(t)
  \/ \E t \in Entering : FillLimit(t) \/ FillMarket(t) \/ EndOrder(t)
  \/ Cool \/ Outage \/ Restore \/ TripHalt

(* A thread goes on with its call, the reads are periodic, time passes.    *)
Fairness ==
  /\ \A t \in Threads : WF_vars(Step(t))
  /\ \A t \in Readers : WF_vars(Read(t))
  /\ WF_vars(Cool)

Spec == Init /\ [][Next]_vars /\ Fairness

-----------------------------------------------------------------------------
(* Properties                                                              *)

(* Every variable keeps its type. *)
TypeOK ==
  /\ cb \in {"closed", "open", "half_open"} /\ fails \in 0 .. Threshold
  /\ cooled \in BOOLEAN /\ late \in Nat
  /\ up \in BOOLEAN /\ outages \in 0 .. MaxOutages /\ halt \in BOOLEAN
  /\ call \in [Threads -> Calls]
  /\ \A t \in Readers : call[t].op \in {"idle", "read"}
  /\ lim \in [Entering -> Order] /\ mkt \in [Entering -> Order]
  /\ stray \in [Entering -> Nat] /\ copies \in [Entering -> Nat]
  /\ seen \in [Entering -> 0 .. Qty] /\ book \in [Entering -> 0 .. Qty]
  /\ excuse \in [Entering -> SUBSET Excuses]

(* No place_order puts a second order on the venue, however its attempts   *)
(* fail: creates are not retried.                                          *)
OneOrderPerCall == \A t \in Entering : copies[t] <= 1

(* What an entry can come to hold: both its orders and what it lost.       *)
Reach(t) == lim[t].rest + lim[t].got + mkt[t].rest + mkt[t].got + stray[t]

(* An entry ends up with more than its quantity only if an id was lost, or *)
(* the passive order's cancel or the read after it failed.                 *)
NoDoubleEntry ==
  \A t \in Entering :
    Reach(t) > Qty => stray[t] > 0 \/ excuse[t] \cap {"cancel", "read"} # {}

(* When an entry's orders have come to rest the wallet books what filled,  *)
(* unless one of the named failures kept it from knowing.                  *)
EntryAgrees ==
  \A t \in Entering :
    /\ call[t].op = "done" /\ stray[t] = 0 /\ excuse[t] = {}
    /\ lim[t].rest = 0 /\ mkt[t].rest = 0
    => book[t] = lim[t].got + mkt[t].got

(* Once the circuit is open, only the calls already inside reach the       *)
(* venue: the attempts they have left bound the load on a venue in trouble.*)
StormBounded == late <= StormBound

(* An outage that lasts opens the circuit, whatever else is under way.     *)
OutageIsCut == ~up ~> (up \/ cb = "open")

(* A venue that stays up is traded on again: the circuit closes.           *)
CircuitRecovers == up ~> (~up \/ cb = "closed")
=============================================================================
