-------------------------- MODULE VenueClientProofs --------------------------
(***************************************************************************)
(* Type correctness, OneOrderPerCall, NoDoubleEntry, EntryAgrees and       *)
(* StormBounded, for every number of threads, quantity, retry budget and   *)
(* threshold.                                                              *)
(*                                                                         *)
(* The two properties of an entry rest on EntryOK, which says for each     *)
(* call an entry may be in what its orders, its losses and its booking can *)
(* be.  It mentions one entry only, so that a step of another thread, of   *)
(* the circuit or of the venue's health leaves it alone.  StormBounded     *)
(* weighs what an open circuit has let end against the attempts that the   *)
(* calls inside the gate still have.                                       *)
(***************************************************************************)
EXTENDS VenueClient, FiniteSetTheorems, TLAPS

CircuitType ==
  /\ cb \in {"closed", "open", "half_open"} /\ fails \in 0 .. Threshold
  /\ cooled \in BOOLEAN /\ late \in Nat
VenueType == up \in BOOLEAN /\ outages \in 0 .. MaxOutages /\ halt \in BOOLEAN
CallType ==
  /\ call \in [Threads -> Calls]
  /\ \A t \in Readers : call[t].op \in {"idle", "read"}
OrdersType ==
  /\ lim \in [Entering -> Order] /\ mkt \in [Entering -> Order]
  /\ stray \in [Entering -> Nat] /\ copies \in [Entering -> Nat]
WalletType ==
  /\ seen \in [Entering -> 0 .. Qty] /\ book \in [Entering -> 0 .. Qty]
  /\ excuse \in [Entering -> SUBSET Excuses]

LEMMA Parts ==
  TypeOK <=> CircuitType /\ VenueType /\ CallType /\ OrdersType /\ WalletType
BY DEF TypeOK, CircuitType, VenueType, CallType, OrdersType, WalletType

LEMMA PartsNext ==
  ASSUME CircuitType', VenueType', CallType', OrdersType', WalletType'
  PROVE  TypeOK'
BY DEF TypeOK, CircuitType, VenueType, CallType, OrdersType, WalletType

\* There is a reader, so the bound on a storm is a natural number.
LEMMA Bound == StormBound \in Nat
<1>1. IsFiniteSet(Threads)
  BY ClientConstants, FS_Union DEF Threads
<1>2. Cardinality(Threads) \in Nat
  BY <1>1, FS_CardinalityType
<1>3. Cardinality(Threads) # 0
  BY <1>1, FS_EmptySet, ClientConstants DEF Threads
<1>4. MaxRetries \in Nat
  BY ClientConstants
<1>5. \A n \in Nat : n * MaxRetries \in Nat
  BY <1>4
<1> DEFINE n == Cardinality(Threads) - 1
<1>6. n \in Nat
  BY <1>2, <1>3
<1>7. n * MaxRetries \in Nat
  BY <1>5, <1>6
<1> QED
  BY <1>7 DEF StormBound

-----------------------------------------------------------------------------
(* Type correctness.                                                       *)

LEMMA InitType == Init => TypeOK
<1> SUFFICES ASSUME Init PROVE TypeOK
  OBVIOUS
<1> USE ClientConstants
<1>0. 0 \in 0 .. Threshold /\ 0 \in 0 .. MaxOutages /\ 0 \in Nat
  OBVIOUS
<1>1. CircuitType /\ VenueType
  BY <1>0, Zenon DEF Init, CircuitType, VenueType
<1>2. Ask("idle", 0) \in Calls /\ Ask("idle", 0).op = "idle"
  BY DEF Ask, Calls, Asks, Creates
<1>3. CallType
  BY <1>2 DEF Init, CallType, Threads
<1>4. NoOrder \in Order
  BY DEF NoOrder, Has, Order
<1>5. OrdersType /\ WalletType
  BY <1>4 DEF Init, OrdersType, WalletType
<1> QED
  BY <1>1, <1>3, <1>5, Parts

\* What an attempt can do to the circuit.
LEMMA CircuitStep ==
  ASSUME CircuitType, OnSuccess \/ OnFailure \/ Ignored \/ UNCHANGED circuit
  PROVE  CircuitType'
<1>1. Counted \in Nat
  BY Bound DEF Counted, Lesser, CircuitType
<1>2. CASE OnFailure
  <2>1. fails' \in 0 .. Threshold
    BY <1>2, ClientConstants DEF OnFailure, Lesser, CircuitType
  <2>2. cb' \in {"closed", "open", "half_open"}
    BY <1>2 DEF OnFailure, CircuitType
  <2> QED
    BY <1>1, <1>2, <2>1, <2>2 DEF OnFailure, CircuitType
<1>3. CASE OnSuccess
  <2>1. 0 \in 0 .. Threshold /\ 0 \in Nat
    BY ClientConstants
  <2> QED
    BY <1>3, <2>1, Zenon DEF OnSuccess, CircuitType
<1>4. CASE Ignored
  BY <1>1, <1>4, Zenon DEF Ignored, CircuitType
<1>5. CASE UNCHANGED circuit
  BY <1>5, Zenon DEF circuit, CircuitType
<1> QED
  BY <1>2, <1>3, <1>4, <1>5

\* A thread moves on to another question; only those that enter leave "read".
LEMMA CallStep ==
  ASSUME CallType, NEW t \in Threads, NEW op \in Asks \cup {"idle", "done"},
         NEW n \in 0 .. Polls - 1, Polled(t, op, n),
         t \in Readers => op \in {"idle", "read"}
  PROVE  CallType'
<1>1. Ask(op, n) \in Calls /\ Ask(op, n).op = op
  BY ClientConstants DEF Ask, Calls
<1> QED
  BY <1>1 DEF CallType, Polled, Threads

LEMMA GoesStep ==
  ASSUME CallType, NEW t \in Threads, NEW op \in Asks \cup {"idle", "done"},
         Goes(t, op), t \in Readers => op \in {"idle", "read"}
  PROVE  CallType'
<1>1. 0 \in 0 .. Polls - 1
  BY ClientConstants
<1> QED
  BY <1>1, CallStep DEF Goes

LEMMA TriesStep ==
  ASSUME CallType, NEW t \in Threads, NEW n \in 0 .. MaxRetries - 1, Tries(t, n)
  PROVE  CallType'
<1> DEFINE c == [op |-> call[t].op, wire |-> TRUE, tries |-> n, polls |-> call[t].polls]
<1>1. call[t] \in Calls
  BY DEF CallType
<1>2. c \in Calls /\ c.op = call[t].op
  BY <1>1 DEF Calls
<1>3. call' = [call EXCEPT ![t] = c]
  BY DEF Tries
<1> HIDE DEF c
<1> QED
  BY <1>2, <1>3 DEF CallType, Threads

\* A question other than a read is asked by a thread that enters.
LEMMA Enters ==
  ASSUME CallType, NEW t \in Threads, call[t].op \notin {"idle", "read"}
  PROVE  t \in Entering /\ t \notin Readers
BY DEF CallType, Threads

LEMMA MissedType ==
  ASSUME WalletType, NEW t \in Entering, NEW what \in Excuses, NEW cond,
         Missed(t, what, cond)
  PROVE  excuse' \in [Entering -> SUBSET Excuses]
BY DEF WalletType, Missed

LEMMA FallbackType ==
  ASSUME CallType, NEW t \in Entering, Fallback(t), t \notin Readers
  PROVE  CallType'
<1>1. t \in Threads
  BY DEF Threads
<1>2. CASE Goes(t, "market")
  BY <1>1, <1>2, GoesStep DEF Asks, Creates
<1>3. CASE Goes(t, "done")
  BY <1>1, <1>3, GoesStep
<1> QED
  BY <1>2, <1>3 DEF Fallback

LEMMA BooksType ==
  ASSUME CallType, WalletType, NEW t \in Entering, t \notin Readers,
         NEW q \in 0 .. Qty, Books(t, q)
  PROVE  CallType' /\ book' \in [Entering -> 0 .. Qty]
<1>1. t \in Threads
  BY DEF Threads
<1>2. CallType'
  BY <1>1, GoesStep DEF Books
<1> QED
  BY <1>2 DEF Books, WalletType

LEMMA ConcludesType ==
  ASSUME CallType, WalletType, NEW t \in Entering, t \notin Readers,
         NEW q \in 0 .. Qty, Concludes(t, q)
  PROVE  CallType' /\ book' \in [Entering -> 0 .. Qty]
<1>1. CASE q = 0
  BY <1>1, FallbackType DEF Concludes, WalletType
<1>2. CASE q # 0
  BY <1>2, BooksType DEF Concludes
<1> QED
  BY <1>1, <1>2

LEMMA RaisedType ==
  ASSUME CallType, WalletType, NEW t \in Threads, NEW api, Raised(t, api)
  PROVE  CallType' /\ WalletType'
<1>k. Kept => WalletType'
  BY DEF Kept, WalletType
<1>c. call[t] \in Calls
  BY DEF CallType
<1>1. CASE call[t].op = "read" /\ Goes(t, "idle") /\ Kept
  BY <1>1, <1>k, GoesStep
<1>2. CASE call[t].op = "limit" /\ Fallback(t) /\ Kept
  BY <1>2, <1>k, Enters, FallbackType
<1>3. CASE call[t].op = "wait" /\ Goes(t, "wait") /\ Kept
  BY <1>3, <1>k, Enters, GoesStep DEF Asks
<1>4. CASE /\ call[t].op = "cancel" /\ Goes(t, "settle")
           /\ Missed(t, "cancel", lim'[t].rest > 0)
           /\ UNCHANGED <<seen, book>>
  <2>1. t \in Entering /\ t \notin Readers
    BY <1>4, Enters
  <2>2. CallType'
    BY <1>4, <2>1, GoesStep DEF Asks
  <2>3. excuse' \in [Entering -> SUBSET Excuses]
    BY <1>4, <2>1, MissedType DEF Excuses
  <2> QED
    BY <1>4, <2>2, <2>3 DEF WalletType
<1>5. CASE /\ call[t].op = "settle" /\ Concludes(t, seen[t])
           /\ Missed(t, "read", seen[t] # lim[t].got)
           /\ UNCHANGED seen
  <2>1. t \in Entering /\ t \notin Readers
    BY <1>5, Enters
  <2>2. seen[t] \in 0 .. Qty
    BY <2>1 DEF WalletType
  <2>3. CallType' /\ book' \in [Entering -> 0 .. Qty]
    BY <1>5, <2>1, <2>2, ConcludesType
  <2>4. excuse' \in [Entering -> SUBSET Excuses]
    BY <1>5, <2>1, MissedType DEF Excuses
  <2> QED
    BY <1>5, <2>3, <2>4 DEF WalletType
<1>6. CASE call[t].op = "market" /\ Goes(t, "done") /\ Kept
  BY <1>6, <1>k, Enters, GoesStep
<1>7. CASE call[t].op = "fills" /\ Polled(t, "look", call[t].polls) /\ Kept
  <2>1. call[t].polls \in 0 .. Polls - 1
    BY <1>c DEF Calls
  <2> QED
    BY <1>7, <1>k, <2>1, Enters, CallStep DEF Asks
<1>8. CASE /\ call[t].op = "look" \/ call[t].op = "fills"
           /\ Goes(t, "done")
           /\ Missed(t, "unconfirmed", mkt[t] # NoOrder)
           /\ UNCHANGED <<seen, book>>
  <2>1. t \in Entering /\ t \notin Readers
    BY <1>8, Enters
  <2>2. CallType'
    BY <1>8, <2>1, GoesStep
  <2>3. excuse' \in [Entering -> SUBSET Excuses]
    BY <1>8, <2>1, MissedType DEF Excuses
  <2> QED
    BY <1>8, <2>2, <2>3 DEF WalletType
<1> QED
  BY <1>1, <1>2, <1>3, <1>4, <1>5, <1>6, <1>7, <1>8 DEF Raised

\* Orders that keep their type.
LEMMA OrderFacts ==
  /\ NoOrder \in Order /\ Has(Qty, 0) \in Order /\ Has(0, Qty) \in Order
  /\ \A o \in Order : Has(0, o.got) \in Order
  /\ \A o \in Order : \A n \in 1 .. o.rest : Has(o.rest - n, o.got + n) \in Order
  /\ \A n \in Nat : n + Qty \in Nat /\ n + 1 \in Nat
BY ClientConstants DEF NoOrder, Has, Order

LEMMA CarriedType ==
  ASSUME OrdersType, NEW t \in Threads, NEW done \in BOOLEAN, Carried(t, done)
  PROVE  OrdersType'
<1>1. stray' \in [Entering -> Nat]
  BY OrderFacts, Zenon DEF Carried, OrdersType
<1>2. copies' \in [Entering -> Nat]
  BY OrderFacts, Zenon DEF Carried, OrdersType
<1>3. lim' \in [Entering -> Order]
  <2>1. CASE t \in Entering
    BY <2>1, OrderFacts, Zenon DEF Carried, OrdersType
  <2>2. CASE t \notin Entering
    BY <2>2 DEF Carried, OrdersType
  <2> QED
    BY <2>1, <2>2
<1> QED
  BY <1>1, <1>2, <1>3 DEF OrdersType, Carried

LEMMA PlacedType ==
  ASSUME OrdersType, NEW t \in Entering,
         copies' = [copies EXCEPT ![t] = @ + 1],
         lim' \in {lim, [lim EXCEPT ![t] = Has(Qty, 0)]},
         mkt' \in {mkt, [mkt EXCEPT ![t] = Has(Qty, 0)], [mkt EXCEPT ![t] = Has(0, Qty)]},
         stray' \in {stray, [stray EXCEPT ![t] = @ + Qty]}
  PROVE  OrdersType'
<1>1. copies' \in [Entering -> Nat]
  BY DEF OrdersType
<1>2. stray' \in [Entering -> Nat]
  BY ClientConstants DEF OrdersType
<1>3. lim' \in [Entering -> Order] /\ mkt' \in [Entering -> Order]
  BY OrderFacts, Zenon DEF OrdersType
<1> QED
  BY <1>1, <1>2, <1>3 DEF OrdersType

LEMMA CallTypes ==
  ASSUME TypeOK, NEW t \in Threads,
         Blocked(t) \/ Rejected(t) \/ Admitted(t) \/ Unanswered(t) \/ Refused(t)
  PROVE  TypeOK'
<1> USE ClientConstants, Parts, PartsNext
<1>v. UNCHANGED <<venue, halt>> => VenueType'
  BY DEF venue, VenueType
<1>o. UNCHANGED orders => OrdersType'
  BY DEF orders, OrdersType
<1>k. Kept => WalletType'
  BY DEF Kept, WalletType
<1>1. CASE Blocked(t) \/ Rejected(t)
  <2>1. CircuitType'
    BY <1>1, CircuitStep DEF Blocked, Rejected
  <2>2. CallType' /\ WalletType'
    BY <1>1, RaisedType DEF Blocked, Rejected
  <2> QED
    BY <1>1, <1>v, <1>o, <2>1, <2>2 DEF Blocked, Rejected
<1>2. CASE Admitted(t)
  <2>1. CircuitType'
    <3>1. 0 \in Nat
      OBVIOUS
    <3> QED
      BY <1>2, <3>1, Zenon DEF Admitted, CircuitType
  <2>2. CallType'
    <3>1. 0 \in 0 .. MaxRetries - 1
      OBVIOUS
    <3> QED
      BY <1>2, <3>1, TriesStep DEF Admitted
  <2>3. OrdersType'
    <3>1. 0 \in Nat
      OBVIOUS
    <3> QED
      BY <1>2, <3>1, Zenon DEF Admitted, OrdersType
  <2>4. WalletType'
    BY <1>2 DEF Admitted, WalletType
  <2> QED
    BY <1>2, <1>v, <2>1, <2>2, <2>3, <2>4 DEF Admitted
<1>3. CASE Unanswered(t)
  <2>1. CircuitType'
    BY <1>3, CircuitStep DEF Unanswered
  <2>2. OrdersType'
    BY <1>3, CarriedType DEF Unanswered
  <2>3. CASE \E api \in BOOLEAN : Raised(t, api)
    BY <1>3, <1>v, <2>1, <2>2, <2>3, RaisedType DEF Unanswered
  <2>4. CASE /\ call[t].tries + 1 < MaxRetries
             /\ Tries(t, call[t].tries + 1) /\ Kept
    <3>1. call[t] \in Calls
      BY DEF CallType
    <3>2. call[t].tries + 1 \in 0 .. MaxRetries - 1
      BY <2>4, <3>1 DEF Calls
    <3> QED
      BY <1>3, <1>v, <1>k, <2>1, <2>2, <2>4, <3>2, TriesStep DEF Unanswered
  <2> QED
    BY <1>3, <2>3, <2>4 DEF Unanswered
<1>4. CASE Refused(t)
  <2>1. CircuitType'
    BY <1>4, CircuitStep DEF Refused
  <2>2. CallType' /\ WalletType'
    BY <1>4, RaisedType DEF Refused
  <2> QED
    BY <1>4, <1>v, <1>o, <2>1, <2>2 DEF Refused
<1> QED
  BY <1>1, <1>2, <1>3, <1>4

LEMMA AnswerTypes ==
  ASSUME TypeOK, NEW t \in Threads,
         \/ ReadAnswered(t) \/ LimitPlaced(t) \/ StatusRead(t) \/ Cancelled(t)
         \/ Settled(t) \/ MarketPlaced(t) \/ FillsRead(t) \/ Looked(t)
  PROVE  TypeOK'
<1> USE ClientConstants, Parts, PartsNext
<1>a. ASSUME NEW op \in Asks, Answer(t, op)
      PROVE  CircuitType' /\ VenueType' /\ (op # "read" => t \in Entering /\ t \notin Readers)
  <2>1. CircuitType'
    BY <1>a, CircuitStep DEF Answer
  <2>2. VenueType'
    BY <1>a DEF Answer, venue, VenueType
  <2>3. op # "read" => t \in Entering /\ t \notin Readers
    BY <1>a, Enters DEF Answer, Asks, Creates
  <2> QED
    BY <2>1, <2>2, <2>3
<1>o. UNCHANGED orders => OrdersType'
  BY DEF orders, OrdersType
<1>k. Kept => WalletType'
  BY DEF Kept, WalletType
<1>c. call[t] \in Calls
  BY DEF CallType
<1> USE DEF Asks, Creates
<1>1. CASE ReadAnswered(t)
  <2>1. CircuitType' /\ VenueType'
    BY <1>1, <1>a DEF ReadAnswered
  <2> QED
    BY <1>1, <1>o, <1>k, <2>1, GoesStep DEF ReadAnswered
<1>2. CASE LimitPlaced(t)
  <2>1. CircuitType' /\ VenueType' /\ t \in Entering /\ t \notin Readers
    BY <1>2, <1>a DEF LimitPlaced
  <2>2. CallType'
    BY <1>2, <2>1, GoesStep DEF LimitPlaced
  <2>3. OrdersType'
    BY <1>2, <2>1, PlacedType DEF LimitPlaced
  <2> QED
    BY <1>2, <1>k, <2>1, <2>2, <2>3 DEF LimitPlaced
<1>3. CASE StatusRead(t)
  <2>1. CircuitType' /\ VenueType' /\ t \in Entering /\ t \notin Readers
    BY <1>3, <1>a DEF StatusRead
  <2>2. CallType' /\ book' \in [Entering -> 0 .. Qty]
    <3>1. CASE Books(t, Qty)
      BY <2>1, <3>1, BooksType
    <3>2. CASE Goes(t, "wait") /\ UNCHANGED book
      BY <2>1, <3>2, GoesStep DEF WalletType
    <3> QED
      BY <1>3, <3>1, <3>2 DEF StatusRead
  <2>3. seen' \in [Entering -> 0 .. Qty]
    <3>1. lim[t].got \in 0 .. Qty
      BY <2>1 DEF OrdersType, Order
    <3> QED
      BY <1>3, <3>1 DEF StatusRead, WalletType
  <2>4. WalletType'
    BY <1>3, <2>2, <2>3 DEF StatusRead, WalletType
  <2> QED
    BY <1>3, <1>o, <2>1, <2>2, <2>4 DEF StatusRead
<1>4. CASE Cancelled(t)
  <2>1. CircuitType' /\ VenueType' /\ t \in Entering /\ t \notin Readers
    BY <1>4, <1>a DEF Cancelled
  <2>2. CallType'
    BY <1>4, <2>1, GoesStep DEF Cancelled
  <2>3. OrdersType'
    BY <1>4, <2>1, OrderFacts, Zenon DEF Cancelled, OrdersType
  <2> QED
    BY <1>4, <1>k, <2>1, <2>2, <2>3 DEF Cancelled
<1>5. CASE Settled(t)
  <2>1. CircuitType' /\ VenueType' /\ t \in Entering /\ t \notin Readers
    BY <1>5, <1>a DEF Settled
  <2>2. lim[t].got \in 0 .. Qty
    BY <2>1 DEF OrdersType, Order
  <2>3. CallType' /\ book' \in [Entering -> 0 .. Qty]
    BY <1>5, <2>1, <2>2, ConcludesType DEF Settled
  <2>4. WalletType'
    BY <1>5, <2>3 DEF Settled, WalletType
  <2> QED
    BY <1>5, <1>o, <2>1, <2>3, <2>4 DEF Settled
<1>6. CASE MarketPlaced(t)
  <2>1. CircuitType' /\ VenueType' /\ t \in Entering /\ t \notin Readers
    BY <1>6, <1>a DEF MarketPlaced
  <2>2. CallType' /\ book' \in [Entering -> 0 .. Qty]
    <3>1. CASE Books(t, Qty)
      BY <2>1, <3>1, BooksType
    <3>2. CASE (Goes(t, "fills") \/ Goes(t, "done")) /\ UNCHANGED book
      BY <2>1, <3>2, GoesStep DEF WalletType
    <3> QED
      BY <1>6, <3>1, <3>2 DEF MarketPlaced
  <2>3. OrdersType'
    BY <1>6, <2>1, PlacedType DEF MarketPlaced
  <2>4. WalletType'
    BY <1>6, <2>2 DEF MarketPlaced, WalletType
  <2> QED
    BY <2>1, <2>2, <2>3, <2>4
<1>7. CASE FillsRead(t)
  <2>1. CircuitType' /\ VenueType' /\ t \in Entering /\ t \notin Readers
    BY <1>7, <1>a DEF FillsRead
  <2>2. CallType' /\ book' \in [Entering -> 0 .. Qty]
    <3>1. CASE Books(t, Qty)
      BY <2>1, <3>1, BooksType
    <3>2. CASE Polled(t, "look", call[t].polls) /\ UNCHANGED book
      <4>1. call[t].polls \in 0 .. Polls - 1
        BY <1>c DEF Calls
      <4> QED
        BY <2>1, <3>2, <4>1, CallStep DEF WalletType
    <3> QED
      BY <1>7, <3>1, <3>2 DEF FillsRead
  <2>3. WalletType'
    BY <1>7, <2>2 DEF FillsRead, WalletType
  <2> QED
    BY <1>7, <1>o, <2>1, <2>2, <2>3 DEF FillsRead
<1>8. CASE Looked(t)
  <2>1. CircuitType' /\ VenueType' /\ t \in Entering /\ t \notin Readers
    BY <1>8, <1>a DEF Looked
  <2>2. CallType' /\ excuse' \in [Entering -> SUBSET Excuses]
    <3>1. CASE /\ call[t].polls + 1 < Polls
               /\ Polled(t, "fills", call[t].polls + 1) /\ UNCHANGED excuse
      <4>1. call[t].polls + 1 \in 0 .. Polls - 1
        BY <1>c, <3>1 DEF Calls
      <4> QED
        BY <2>1, <3>1, <4>1, CallStep DEF WalletType
    <3>2. CASE Goes(t, "done") /\ Missed(t, "unconfirmed", mkt[t] # NoOrder)
      BY <2>1, <3>2, GoesStep, MissedType DEF Excuses
    <3> QED
      BY <1>8, <3>1, <3>2 DEF Looked
  <2>3. WalletType'
    BY <1>8, <2>2 DEF Looked, WalletType
  <2> QED
    BY <1>8, <1>o, <2>1, <2>2, <2>3 DEF Looked
<1> QED
  BY <1>1, <1>2, <1>3, <1>4, <1>5, <1>6, <1>7, <1>8

\* What starts calls, and what happens beside them.
LEMMA OtherTypes ==
  ASSUME TypeOK,
         \/ \E t \in Threads : Read(t) \/ Enter(t) \/ Deadline(t)
         \/ \E t \in Entering : FillLimit(t) \/ FillMarket(t) \/ EndOrder(t)
         \/ Cool \/ Outage \/ Restore \/ TripHalt
         \/ UNCHANGED vars
  PROVE  TypeOK'
<1> USE ClientConstants, Parts, PartsNext
<1>c. UNCHANGED circuit => CircuitType'
  BY CircuitStep
<1>v. UNCHANGED <<venue, halt>> => VenueType'
  BY DEF venue, VenueType
<1>q. UNCHANGED call => CallType'
  BY DEF CallType
<1>o. UNCHANGED orders => OrdersType'
  BY DEF orders, OrdersType
<1>w. UNCHANGED <<seen, book, excuse>> => WalletType'
  BY DEF WalletType
<1>1. ASSUME NEW t \in Threads, Read(t) \/ Enter(t) \/ Deadline(t)
      PROVE  TypeOK'
  <2>1. CallType'
    <3>1. CASE Read(t)
      BY <3>1, GoesStep DEF Read, Asks
    <3>2. CASE Enter(t)
      <4>1. t \notin Readers
        BY <3>2 DEF Enter
      <4> QED
        BY <3>2, <4>1, GoesStep DEF Enter, Asks
    <3>3. CASE Deadline(t)
      BY <3>3, Enters, GoesStep DEF Deadline, Asks
    <3> QED
      BY <1>1, <3>1, <3>2, <3>3
  <2> QED
    BY <1>1, <1>c, <1>v, <1>o, <1>w, <2>1 DEF Read, Enter, Deadline, Kept
<1>2. ASSUME NEW t \in Entering, FillLimit(t) \/ FillMarket(t) \/ EndOrder(t)
      PROVE  TypeOK'
  <2>o. lim[t] \in Order /\ mkt[t] \in Order
    BY DEF OrdersType
  <2>1. OrdersType'
    <3>1. CASE FillLimit(t)
      <4>1. PICK n \in 1 .. lim[t].rest : lim' = [lim EXCEPT ![t] = Has(lim[t].rest - n, lim[t].got + n)]
        BY <3>1 DEF FillLimit
      <4>2. Has(lim[t].rest - n, lim[t].got + n) \in Order
        BY <2>o, OrderFacts, Zenon
      <4> QED
        BY <3>1, <4>1, <4>2, Zenon DEF FillLimit, OrdersType
    <3>2. CASE FillMarket(t)
      <4>1. PICK n \in 1 .. mkt[t].rest : mkt' = [mkt EXCEPT ![t] = Has(mkt[t].rest - n, mkt[t].got + n)]
        BY <3>2 DEF FillMarket
      <4>2. Has(mkt[t].rest - n, mkt[t].got + n) \in Order
        BY <2>o, OrderFacts, Zenon
      <4> QED
        BY <3>2, <4>1, <4>2, Zenon DEF FillMarket, OrdersType
    <3>3. CASE EndOrder(t)
      <4>1. Has(0, lim[t].got) \in Order /\ Has(0, mkt[t].got) \in Order
        BY <2>o, OrderFacts, Zenon
      <4> QED
        BY <3>3, <4>1, Zenon DEF EndOrder, OrdersType
    <3> QED
      BY <1>2, <3>1, <3>2, <3>3
  <2>2. WalletType'
    <3>1. CASE UNCHANGED <<seen, book, excuse>>
      BY <1>w, <3>1
    <3>2. CASE EndOrder(t)
      BY <3>2, MissedType DEF EndOrder, Excuses, WalletType
    <3> QED
      BY <1>2, <3>1, <3>2 DEF FillLimit, FillMarket
  <2> QED
    BY <1>2, <1>c, <1>v, <1>q, <2>1, <2>2 DEF FillLimit, FillMarket, EndOrder
<1>3. CASE Cool
  <2>1. CircuitType'
    BY <1>3 DEF Cool, CircuitType
  <2> QED
    BY <1>3, <1>v, <1>q, <1>o, <1>w, <2>1 DEF Cool
<1>4. CASE Outage \/ Restore \/ TripHalt
  <2>1. outages' \in 0 .. MaxOutages
    BY <1>4 DEF Outage, Restore, TripHalt, venue, VenueType
  <2>2. up' \in BOOLEAN /\ halt' \in BOOLEAN
    BY <1>4, Zenon DEF Outage, Restore, TripHalt, venue, VenueType
  <2>3. VenueType'
    BY <2>1, <2>2 DEF VenueType
  <2> QED
    BY <1>4, <1>c, <1>q, <1>o, <1>w, <2>3 DEF Outage, Restore, TripHalt
<1>5. CASE UNCHANGED vars
  BY <1>5, <1>c, <1>v, <1>q, <1>o, <1>w DEF vars
<1> QED
  BY <1>1, <1>2, <1>3, <1>4, <1>5

\* Every step is one of these.
LEMMA Steps ==
  ASSUME [Next]_vars
  PROVE  \/ \E t \in Threads :
              \/ Blocked(t) \/ Rejected(t) \/ Admitted(t) \/ Unanswered(t) \/ Refused(t)
              \/ ReadAnswered(t) \/ LimitPlaced(t) \/ StatusRead(t) \/ Cancelled(t)
              \/ Settled(t) \/ MarketPlaced(t) \/ FillsRead(t) \/ Looked(t)
         \/ \/ \E t \in Threads : Read(t) \/ Enter(t) \/ Deadline(t)
            \/ \E t \in Entering : FillLimit(t) \/ FillMarket(t) \/ EndOrder(t)
            \/ Cool \/ Outage \/ Restore \/ TripHalt
            \/ UNCHANGED vars
BY DEF Next, Step

\* Every variable keeps its type: _send, the execution engine's order calls
\* and acquire_live_entry_fill keep an entry's quantities within its own.
THEOREM TypeCorrect == Spec => []TypeOK
<1>1. TypeOK /\ [Next]_vars => TypeOK'
  BY Steps, CallTypes, AnswerTypes, OtherTypes
<1> QED
  BY InitType, <1>1, PTL DEF Spec

-----------------------------------------------------------------------------
(* One order per call.                                                     *)

\* A create that is under way has put nothing on the venue yet.
CopiesInv ==
  \A t \in Entering :
    /\ copies[t] <= 1
    /\ call[t].op \in Creates /\ call[t].wire => copies[t] = 0

\* Thread t is at the gate of another question; the others are where they were.
Moved(t) ==
  /\ call'[t].wire = FALSE
  /\ \A u \in Threads \ {t} : call'[u] = call[u]

LEMMA PolledMoves ==
  ASSUME CallType, NEW t \in Threads, NEW op, NEW n, Polled(t, op, n)
  PROVE  Moved(t) /\ call'[t].op = op
BY DEF CallType, Polled, Moved, Ask

LEMMA GoesMoves ==
  ASSUME CallType, NEW t \in Threads, NEW op, Goes(t, op)
  PROVE  Moved(t) /\ call'[t].op = op
BY PolledMoves DEF Goes

LEMMA RaisedMoves ==
  ASSUME CallType, NEW t \in Threads, NEW api, Raised(t, api)
  PROVE  Moved(t)
<1>1. \/ \E op \in Asks \cup {"idle", "done"} : Goes(t, op)
      \/ Polled(t, "look", call[t].polls)
  BY DEF Raised, Fallback, Concludes, Books, Asks, Creates
<1> QED
  BY <1>1, GoesMoves, PolledMoves

LEMMA CopiesMove ==
  ASSUME CopiesInv, CallType, NEW t \in Threads, Moved(t),
         t \in Entering => copies'[t] <= 1,
         \A u \in Entering \ {t} : copies'[u] = copies[u]
  PROVE  CopiesInv'
<1>1. ASSUME NEW u \in Entering
      PROVE  copies'[u] <= 1 /\ (call'[u].op \in Creates /\ call'[u].wire => copies'[u] = 0)
  <2>1. u \in Threads
    BY DEF Threads
  <2>2. CASE u = t
    BY <2>2 DEF Moved
  <2>3. CASE u # t
    BY <2>1, <2>3 DEF Moved, CopiesInv
  <2> QED
    BY <2>2, <2>3
<1> QED
  BY <1>1 DEF CopiesInv, Creates

LEMMA CarriedCopies ==
  ASSUME CopiesInv, OrdersType, NEW t \in Threads, NEW done \in BOOLEAN, Carried(t, done),
         call[t].wire
  PROVE  /\ t \in Entering => copies'[t] <= 1
         /\ \A u \in Entering \ {t} : copies'[u] = copies[u]
         /\ call[t].op \notin Creates => copies' = copies
BY DEF CopiesInv, OrdersType, Carried

LEMMA CallCopies ==
  ASSUME TypeOK, CopiesInv, NEW t \in Threads,
         Blocked(t) \/ Rejected(t) \/ Admitted(t) \/ Unanswered(t) \/ Refused(t)
  PROVE  CopiesInv'
<1> USE Parts
<1>1. CASE Blocked(t) \/ Rejected(t) \/ Refused(t)
  <2>1. Moved(t)
    BY <1>1, RaisedMoves DEF Blocked, Rejected, Refused
  <2>2. copies' = copies
    BY <1>1 DEF Blocked, Rejected, Refused, orders
  <2> QED
    BY <2>1, <2>2, CopiesMove DEF CopiesInv
<1>2. CASE Admitted(t)
  <2>1. ASSUME NEW u \in Entering
        PROVE  copies'[u] <= 1 /\ (call'[u].op \in Creates /\ call'[u].wire => copies'[u] = 0)
    <3>1. u \in Threads
      BY DEF Threads
    <3>2. CASE u = t
      BY <1>2, <3>1, <3>2 DEF Admitted, Tries, CopiesInv, CallType, OrdersType
    <3>3. CASE u # t
      BY <1>2, <3>1, <3>3 DEF Admitted, Tries, CopiesInv, CallType, OrdersType
    <3> QED
      BY <3>2, <3>3
  <2> QED
    BY <2>1 DEF CopiesInv, Creates
<1>3. CASE Unanswered(t)
  <2>1. /\ t \in Entering => copies'[t] <= 1
        /\ \A u \in Entering \ {t} : copies'[u] = copies[u]
        /\ call[t].op \notin Creates => copies' = copies
    BY <1>3, CarriedCopies DEF Unanswered
  <2>2. CASE \E api \in BOOLEAN : Raised(t, api)
    BY <2>1, <2>2, RaisedMoves, CopiesMove
  <2>3. CASE RetrySafe(call[t].op) /\ Tries(t, call[t].tries + 1)
    <3>1. call[t].op \notin Creates /\ copies' = copies
      BY <2>1, <2>3 DEF RetrySafe
    <3>2. \A u \in Threads : call'[u].op = call[u].op /\ (u # t => call'[u] = call[u])
      BY <2>3 DEF Tries, CallType
    <3> QED
      BY <3>1, <3>2 DEF CopiesInv, Threads, Creates
  <2> QED
    BY <1>3, <2>2, <2>3 DEF Unanswered
<1> QED
  BY <1>1, <1>2, <1>3

LEMMA AnswerCopies ==
  ASSUME TypeOK, CopiesInv, NEW t \in Threads,
         \/ ReadAnswered(t) \/ LimitPlaced(t) \/ StatusRead(t) \/ Cancelled(t)
         \/ Settled(t) \/ MarketPlaced(t) \/ FillsRead(t) \/ Looked(t)
  PROVE  CopiesInv'
<1> USE Parts
<1>1. Moved(t)
  <2>1. \/ \E op \in Asks \cup {"idle", "done"} : Goes(t, op)
        \/ Polled(t, "look", call[t].polls)
        \/ Polled(t, "fills", call[t].polls + 1)
    BY DEF ReadAnswered, LimitPlaced, StatusRead, Cancelled, Settled, MarketPlaced,
           FillsRead, Looked, Concludes, Fallback, Books, Asks, Creates
  <2> QED
    BY <2>1, GoesMoves, PolledMoves
<1>2. CASE LimitPlaced(t) \/ MarketPlaced(t)
  <2>1. call[t].op \in Creates /\ call[t].wire /\ t \in Entering
    BY <1>2, Enters DEF LimitPlaced, MarketPlaced, Answer, Creates
  <2>2. copies[t] = 0
    BY <2>1 DEF CopiesInv
  <2>3. copies' = [copies EXCEPT ![t] = @ + 1]
    BY <1>2 DEF LimitPlaced, MarketPlaced
  <2>4. copies'[t] <= 1 /\ \A u \in Entering \ {t} : copies'[u] = copies[u]
    BY <2>1, <2>2, <2>3 DEF OrdersType
  <2> QED
    BY <1>1, <2>4, CopiesMove
<1>3. CASE UNCHANGED copies
  BY <1>1, <1>3, CopiesMove DEF CopiesInv
<1> QED
  BY <1>2, <1>3 DEF ReadAnswered, StatusRead, Cancelled, Settled, FillsRead, Looked, orders

LEMMA OtherCopies ==
  ASSUME TypeOK, CopiesInv,
         \/ \E t \in Threads : Read(t) \/ Enter(t) \/ Deadline(t)
         \/ \E t \in Entering : FillLimit(t) \/ FillMarket(t) \/ EndOrder(t)
         \/ Cool \/ Outage \/ Restore \/ TripHalt
         \/ UNCHANGED vars
  PROVE  CopiesInv'
<1> USE Parts
<1>1. copies' = copies
  BY DEF Read, Enter, Deadline, FillLimit, FillMarket, EndOrder, Cool, Outage,
         Restore, TripHalt, vars, orders
<1>2. ASSUME NEW t \in Threads, Read(t) \/ Enter(t) \/ Deadline(t)
      PROVE  CopiesInv'
  <2>1. \E op \in Asks : Goes(t, op)
    BY <1>2 DEF Read, Enter, Deadline, Asks
  <2> QED
    BY <1>1, <2>1, GoesMoves, CopiesMove DEF CopiesInv
<1>3. CASE UNCHANGED call
  BY <1>1, <1>3 DEF CopiesInv
<1> QED
  BY <1>2, <1>3 DEF FillLimit, FillMarket, EndOrder, Cool, Outage, Restore, TripHalt, vars

\* place_order is not sent twice: no call leaves two orders on the venue,
\* however often its attempts fail, because creates are not retried.
THEOREM OneOrderPerCallHolds == Spec => []OneOrderPerCall
<1>1. Init => CopiesInv
  BY DEF Init, CopiesInv, Ask, Creates, Threads
<1>2. TypeOK /\ CopiesInv /\ [Next]_vars => CopiesInv'
  BY Steps, CallCopies, AnswerCopies, OtherCopies
<1>3. CopiesInv => OneOrderPerCall
  BY DEF CopiesInv, OneOrderPerCall
<1> QED
  BY <1>1, <1>2, <1>3, TypeCorrect, PTL DEF Spec

-----------------------------------------------------------------------------
(* What an entry's orders, losses and booking can be, by how far it got.   *)

Forgiven(s, x) == s > 0 \/ x \cap {"cancel", "read"} # {}
Whole(o, x) == o.rest + o.got > 0 => o.rest + o.got = Qty \/ "short" \in x

EntryOK(op, l, m, s, b, x) ==
  /\ op # "read"
  /\ op \in {"idle", "limit"} => l = NoOrder /\ m = NoOrder /\ s = 0 /\ b = 0
  /\ op \in {"wait", "cancel", "settle"} => m = NoOrder /\ b = 0
  /\ op = "wait" => Whole(l, x)
  /\ op = "settle" => l.rest = 0 \/ "cancel" \in x
  /\ op \in {"market", "fills", "look"} => b = 0 /\ (l = NoOrder \/ Forgiven(s, x))
  /\ op = "market" => m = NoOrder
  /\ op \in {"fills", "look"} => Whole(m, x)
  /\ m = NoOrder \/ l = NoOrder \/ Forgiven(s, x)
  /\ op = "done" /\ s = 0 /\ x = {} =>
       /\ b = l.rest + l.got + m.rest + m.got
       /\ l.rest = 0 /\ (m.rest > 0 => m.got > 0)

EntryInv(t) == EntryOK(call[t].op, lim[t], mkt[t], stray[t], book[t], excuse[t])
EntriesInv == \A t \in Entering : EntryInv(t)

LEMMA None ==
  /\ NoOrder.rest = 0 /\ NoOrder.got = 0
  /\ \A o \in Order : o.rest \in Nat /\ o.got \in Nat /\ o.rest + o.got <= Qty
  /\ \A o \in Order : o.rest = 0 /\ o.got = 0 <=> o = NoOrder
  /\ \A r, g \in Nat : Has(r, g).rest = r /\ Has(r, g).got = g
BY DEF NoOrder, Has, Order

\* A step of one entry leaves the others alone.
LEMMA OneEntry ==
  ASSUME CallType, EntriesInv, NEW t \in Threads, Moved(t),
         t \in Entering => EntryInv(t)',
         \A u \in Entering \ {t} :
           /\ lim'[u] = lim[u] /\ mkt'[u] = mkt[u] /\ stray'[u] = stray[u]
           /\ book'[u] = book[u] /\ excuse'[u] = excuse[u]
  PROVE  EntriesInv'
<1>1. ASSUME NEW u \in Entering PROVE EntryInv(u)'
  <2>1. u \in Threads
    BY DEF Threads
  <2>2. CASE u # t
    BY <2>1, <2>2 DEF Moved, EntriesInv, EntryInv
  <2> QED
    BY <2>2
<1> QED
  BY <1>1 DEF EntriesInv

\* The calls after which nothing was booked and the passive order is gone,
\* or known to be doubtful: a market order may follow, or nothing.
LEMMA FallsBack ==
  ASSUME CallType, OrdersType', NEW t \in Entering, Fallback(t),
         mkt'[t] = NoOrder, book'[t] = 0,
         lim'[t] = NoOrder \/ Forgiven(stray'[t], excuse'[t])
  PROVE  EntryInv(t)'
<1>1. t \in Threads
  BY DEF Threads
<1>2. call'[t].op \in {"market", "done"}
  BY <1>1, GoesMoves DEF Fallback
<1>3. lim'[t] \in Order
  BY DEF OrdersType
<1> QED
  BY <1>2, <1>3, None DEF EntryInv, EntryOK, Forgiven

LEMMA BooksOp ==
  ASSUME CallType, WalletType, NEW t \in Entering, NEW q, Books(t, q)
  PROVE  call'[t].op = "done" /\ book'[t] = q
<1>1. t \in Threads
  BY DEF Threads
<1> QED
  BY <1>1, GoesMoves DEF Books, WalletType

\* The last look at a passive order: what it shows is booked, or all of it
\* is gone, or a call before it failed.
LEMMA ConcludesInv ==
  ASSUME TypeOK, TypeOK', NEW t \in Entering, EntryInv(t), call[t].op = "settle",
         NEW q \in 0 .. Qty, Concludes(t, q),
         lim'[t] = lim[t], mkt'[t] = mkt[t], stray'[t] = stray[t],
         excuse[t] \subseteq excuse'[t],
         q = lim[t].got \/ "read" \in excuse'[t]
  PROVE  EntryInv(t)'
<1> USE Parts
<1>t. CallType' /\ OrdersType' /\ WalletType'
  BY DEF TypeOK, CallType, OrdersType, WalletType
<1>1. /\ mkt[t] = NoOrder /\ book[t] = 0
      /\ lim[t].rest = 0 \/ "cancel" \in excuse[t]
  BY DEF EntryInv, EntryOK
<1>2. lim[t] \in Order
  BY DEF OrdersType
<1>3. (q = lim[t].got /\ lim[t].rest = 0) \/ excuse'[t] \cap {"cancel", "read"} # {}
  BY <1>1
<1>4. CASE q = 0
  <2>1. book'[t] = 0 /\ Fallback(t)
    BY <1>1, <1>4 DEF Concludes
  <2>2. lim'[t] = NoOrder \/ Forgiven(stray'[t], excuse'[t])
    BY <1>2, <1>3, <1>4, None DEF Forgiven
  <2> QED
    BY <1>1, <1>t, <2>1, <2>2, FallsBack
<1>5. CASE q # 0
  <2>1. call'[t].op = "done" /\ book'[t] = q
    BY <1>5, BooksOp DEF Concludes
  <2>2. stray'[t] = 0 /\ excuse'[t] = {} =>
          /\ book'[t] = lim'[t].rest + lim'[t].got + mkt'[t].rest + mkt'[t].got
          /\ lim'[t].rest = 0 /\ mkt'[t].rest = 0
    BY <1>1, <1>2, <1>3, <2>1, None
  <2> QED
    BY <1>1, <2>1, <2>2 DEF EntryInv, EntryOK
<1> QED
  BY <1>4, <1>5

\* A call that raises, with what its request did at the venue.
LEMMA RaisedInv ==
  ASSUME TypeOK, TypeOK', NEW t \in Entering, EntryInv(t), NEW api, Raised(t, api),
         NEW done \in BOOLEAN,
         mkt'[t] = mkt[t],
         stray'[t] = IF done /\ call[t].op \in Creates THEN stray[t] + Qty ELSE stray[t],
         lim'[t] = IF done /\ call[t].op = "cancel" THEN Has(0, lim[t].got) ELSE lim[t]
  PROVE  EntryInv(t)'
<1> USE Parts
<1>t. CallType' /\ OrdersType' /\ WalletType'
  BY DEF TypeOK, CallType, OrdersType, WalletType
<1>e. t \in Threads /\ excuse[t] \in SUBSET Excuses /\ stray[t] \in Nat
  BY DEF Threads, WalletType, OrdersType
<1>o. lim[t] \in Order /\ mkt[t] \in Order /\ lim'[t] \in Order
  BY <1>t DEF OrdersType
<1>k. Kept => book'[t] = book[t] /\ excuse'[t] = excuse[t]
  BY DEF Kept
<1>q. Qty \in Nat \ {0}
  BY ClientConstants
<1>1. CASE call[t].op = "read" /\ Goes(t, "idle") /\ Kept
  <2>1. FALSE
    BY <1>1 DEF EntryInv, EntryOK
  <2> QED
    BY <2>1
<1>2. CASE call[t].op = "limit" /\ Fallback(t) /\ Kept
  <2>1. lim'[t] = NoOrder /\ mkt'[t] = NoOrder /\ book'[t] = 0
    BY <1>2, <1>k DEF EntryInv, EntryOK
  <2> QED
    BY <1>2, <1>t, <2>1, FallsBack
<1>3. CASE call[t].op = "wait" /\ Goes(t, "wait") /\ Kept
  BY <1>3, <1>e, <1>k, GoesMoves DEF EntryInv, EntryOK, Creates
<1>4. CASE /\ call[t].op = "cancel" /\ Goes(t, "settle")
           /\ Missed(t, "cancel", lim'[t].rest > 0)
           /\ UNCHANGED <<seen, book>>
  <2>1. call'[t].op = "settle" /\ mkt'[t] = NoOrder /\ book'[t] = 0
    BY <1>4, <1>e, GoesMoves DEF EntryInv, EntryOK
  <2>2. lim'[t].rest > 0 => "cancel" \in excuse'[t]
    BY <1>4 DEF Missed, WalletType
  <2>3. lim'[t].rest = 0 \/ "cancel" \in excuse'[t]
    BY <1>o, <2>2, None
  <2> QED
    BY <2>1, <2>3 DEF EntryInv, EntryOK
<1>5. CASE /\ call[t].op = "settle" /\ Concludes(t, seen[t])
           /\ Missed(t, "read", seen[t] # lim[t].got)
           /\ UNCHANGED seen
  <2>1. seen[t] \in 0 .. Qty
    BY DEF WalletType
  <2>2. /\ excuse[t] \subseteq excuse'[t]
        /\ seen[t] = lim[t].got \/ "read" \in excuse'[t]
    BY <1>5 DEF Missed, WalletType
  <2>3. lim'[t] = lim[t] /\ stray'[t] = stray[t]
    BY <1>5 DEF Creates
  <2> QED
    BY <1>5, <2>1, <2>2, <2>3, ConcludesInv
<1>6. CASE call[t].op = "market" /\ Goes(t, "done") /\ Kept
  <2>1. /\ call'[t].op = "done" /\ lim'[t] = lim[t] /\ mkt'[t] = NoOrder /\ book'[t] = 0
        /\ lim[t] = NoOrder \/ Forgiven(stray[t], excuse[t])
    BY <1>6, <1>e, <1>k, GoesMoves DEF EntryInv, EntryOK
  <2>2. Forgiven(stray[t], excuse[t]) => Forgiven(stray'[t], excuse'[t])
    BY <1>6, <1>e, <1>k, <1>q DEF Forgiven
  <2>3. Forgiven(stray'[t], excuse'[t]) => ~(stray'[t] = 0 /\ excuse'[t] = {})
    BY DEF Forgiven
  <2> QED
    BY <2>1, <2>2, <2>3, None DEF EntryInv, EntryOK
<1>7. CASE call[t].op = "fills" /\ Polled(t, "look", call[t].polls) /\ Kept
  BY <1>7, <1>e, <1>k, PolledMoves DEF EntryInv, EntryOK, Creates
<1>8. CASE /\ call[t].op = "look" \/ call[t].op = "fills"
           /\ Goes(t, "done")
           /\ Missed(t, "unconfirmed", mkt[t] # NoOrder)
           /\ UNCHANGED <<seen, book>>
  <2>1. /\ call'[t].op = "done" /\ lim'[t] = lim[t] /\ book'[t] = 0 /\ stray'[t] = stray[t]
        /\ lim[t] = NoOrder \/ Forgiven(stray[t], excuse[t])
    BY <1>8, <1>e, GoesMoves DEF EntryInv, EntryOK, Creates
  <2>2. /\ excuse[t] \subseteq excuse'[t]
        /\ mkt[t] = NoOrder \/ "unconfirmed" \in excuse'[t]
    BY <1>8 DEF Missed, WalletType
  <2>3. Forgiven(stray[t], excuse[t]) => Forgiven(stray'[t], excuse'[t])
    BY <2>1, <2>2 DEF Forgiven
  <2>4. stray'[t] = 0 /\ excuse'[t] = {} => lim'[t] = NoOrder /\ mkt'[t] = NoOrder
    BY <2>1, <2>2 DEF Forgiven
  <2> QED
    BY <2>1, <2>3, <2>4, None DEF EntryInv, EntryOK
<1> QED
  BY <1>1, <1>2, <1>3, <1>4, <1>5, <1>6, <1>7, <1>8 DEF Raised

\* Raising leaves the other entries alone.
LEMMA RaisedOthers ==
  ASSUME WalletType, NEW t \in Threads, NEW api, Raised(t, api), NEW u \in Entering, u # t
  PROVE  book'[u] = book[u] /\ excuse'[u] = excuse[u]
<1>1. book' = book \/ \E q : book' = [book EXCEPT ![t] = q]
  BY DEF Raised, Kept, Concludes, Books
<1>2. excuse' = excuse \/ \E what : excuse' = [excuse EXCEPT ![t] = excuse[t] \cup {what}]
  BY DEF Raised, Kept, Missed
<1> QED
  BY <1>1, <1>2 DEF WalletType

LEMMA CallEntries ==
  ASSUME TypeOK, TypeOK', EntriesInv, NEW t \in Threads,
         Blocked(t) \/ Rejected(t) \/ Admitted(t) \/ Unanswered(t) \/ Refused(t)
  PROVE  EntriesInv'
<1> USE Parts
<1>1. ASSUME NEW api, Raised(t, api), NEW done \in BOOLEAN, Carried(t, done)
      PROVE  EntriesInv'
  <2>1. Moved(t)
    BY <1>1, RaisedMoves
  <2>2. ASSUME NEW u \in Entering \ {t}
        PROVE  /\ lim'[u] = lim[u] /\ mkt'[u] = mkt[u] /\ stray'[u] = stray[u]
               /\ book'[u] = book[u] /\ excuse'[u] = excuse[u]
    BY <1>1, RaisedOthers DEF Carried, OrdersType
  <2>3. ASSUME t \in Entering PROVE EntryInv(t)'
    <3>1. EntryInv(t)
      BY <2>3 DEF EntriesInv
    <3>2. /\ mkt'[t] = mkt[t]
          /\ stray'[t] = IF done /\ call[t].op \in Creates THEN stray[t] + Qty ELSE stray[t]
          /\ lim'[t] = IF done /\ call[t].op = "cancel" THEN Has(0, lim[t].got) ELSE lim[t]
      BY <1>1, <2>3 DEF Carried, OrdersType
    <3> QED
      BY <1>1, <2>3, <3>1, <3>2, RaisedInv
  <2> QED
    BY <2>1, <2>2, <2>3, OneEntry
<1>2. UNCHANGED orders => Carried(t, FALSE)
  BY DEF Carried, orders
<1>3. CASE Blocked(t) \/ Rejected(t) \/ Refused(t)
  BY <1>1, <1>2, <1>3 DEF Blocked, Rejected, Refused
<1>4. CASE Admitted(t)
  <2>1. \A u \in Threads : call'[u].op = call[u].op
    BY <1>4 DEF Admitted, Tries, CallType
  <2> QED
    BY <1>4, <2>1 DEF Admitted, EntriesInv, EntryInv, Threads
<1>5. CASE Unanswered(t)
  <2>1. PICK done \in BOOLEAN : Carried(t, done)
    BY <1>5 DEF Unanswered
  <2>2. CASE \E api \in BOOLEAN : Raised(t, api)
    BY <1>1, <2>1, <2>2
  <2>3. CASE RetrySafe(call[t].op) /\ Tries(t, call[t].tries + 1) /\ Kept
    <3>1. \A u \in Threads : call'[u].op = call[u].op
      BY <2>3 DEF Tries, CallType
    <3>2. stray' = stray /\ mkt' = mkt
      BY <2>1, <2>3 DEF Carried, RetrySafe
    <3>3. ASSUME NEW u \in Entering PROVE EntryInv(u)'
      <4>1. EntryInv(u) /\ call'[u].op = call[u].op /\ lim[u] \in Order
        BY <3>1 DEF EntriesInv, Threads, OrdersType
      <4>2. CASE lim'[u] = lim[u]
        BY <2>3, <3>2, <4>1, <4>2 DEF Kept, EntryInv
      <4>3. CASE u = t /\ call[t].op = "cancel" /\ lim'[t] = Has(0, lim[t].got)
        BY <2>3, <3>2, <4>1, <4>3, None DEF Kept, EntryInv, EntryOK
      <4> QED
        BY <2>1, <4>2, <4>3 DEF Carried, OrdersType
    <3> QED
      BY <3>3 DEF EntriesInv
  <2> QED
    BY <1>5, <2>2, <2>3 DEF Unanswered
<1> QED
  BY <1>3, <1>4, <1>5

LEMMA AnswerEntries ==
  ASSUME TypeOK, TypeOK', EntriesInv, NEW t \in Threads,
         \/ ReadAnswered(t) \/ LimitPlaced(t) \/ StatusRead(t) \/ Cancelled(t)
         \/ Settled(t) \/ MarketPlaced(t) \/ FillsRead(t) \/ Looked(t)
  PROVE  EntriesInv'
<1> USE Parts
<1>t. CallType' /\ OrdersType' /\ WalletType'
  BY DEF TypeOK, CallType, OrdersType, WalletType
<1>q. Qty \in Nat \ {0}
  BY ClientConstants
<1>1. Moved(t)
  <2>1. \/ \E op \in Asks \cup {"idle", "done"} : Goes(t, op)
        \/ Polled(t, "look", call[t].polls)
        \/ Polled(t, "fills", call[t].polls + 1)
    BY DEF ReadAnswered, LimitPlaced, StatusRead, Cancelled, Settled, MarketPlaced,
           FillsRead, Looked, Concludes, Fallback, Books, Asks, Creates
  <2> QED
    BY <2>1, GoesMoves, PolledMoves
<1>2. ASSUME NEW u \in Entering \ {t}
      PROVE  /\ lim'[u] = lim[u] /\ mkt'[u] = mkt[u] /\ stray'[u] = stray[u]
             /\ book'[u] = book[u] /\ excuse'[u] = excuse[u]
  <2>1. lim'[u] = lim[u] /\ mkt'[u] = mkt[u] /\ stray'[u] = stray[u]
    BY <1>2 DEF ReadAnswered, LimitPlaced, StatusRead, Cancelled, Settled, MarketPlaced,
                FillsRead, Looked, OrdersType, orders
  <2>2. book'[u] = book[u] /\ excuse'[u] = excuse[u]
    BY <1>2 DEF ReadAnswered, LimitPlaced, StatusRead, Cancelled, Settled, MarketPlaced,
                FillsRead, Looked, Kept, Missed, Concludes, Books, WalletType
  <2> QED
    BY <2>1, <2>2
<1>3. ASSUME t \in Entering PROVE EntryInv(t)'
  <2>0. EntryInv(t)
    BY <1>3 DEF EntriesInv
  <2>o. /\ lim[t] \in Order /\ mkt[t] \in Order /\ lim'[t] \in Order /\ mkt'[t] \in Order
        /\ stray[t] \in Nat /\ excuse[t] \in SUBSET Excuses
    BY <1>3, <1>t DEF OrdersType, WalletType
  <2>h. Has(Qty, 0).rest = Qty /\ Has(Qty, 0).got = 0 /\ Has(0, Qty).rest = 0 /\ Has(0, Qty).got = Qty
    BY <1>q, None
  <2>1. CASE ReadAnswered(t)
    <3>1. FALSE
      BY <2>0, <2>1 DEF ReadAnswered, Answer, EntryInv, EntryOK
    <3> QED
      BY <3>1
  <2>2. CASE LimitPlaced(t)
    <3>1. /\ call'[t].op = "wait" /\ mkt'[t] = NoOrder /\ book'[t] = 0
          /\ lim'[t] \in {NoOrder, Has(Qty, 0)}
      BY <1>3, <2>0, <2>2, GoesMoves DEF LimitPlaced, Answer, Kept, EntryInv, EntryOK, OrdersType
    <3> QED
      BY <1>q, <2>h, <3>1, None DEF EntryInv, EntryOK, Whole
  <2>3. CASE StatusRead(t)
    <3>1. /\ lim'[t] = lim[t] /\ mkt'[t] = NoOrder /\ stray'[t] = stray[t]
          /\ excuse'[t] = excuse[t] /\ Whole(lim[t], excuse[t]) /\ book[t] = 0
      BY <2>0, <2>3 DEF StatusRead, Answer, orders, EntryInv, EntryOK
    <3>2. CASE lim[t].rest = 0 /\ lim[t].got > 0 /\ Books(t, Qty)
      <4>1. call'[t].op = "done" /\ book'[t] = Qty
        BY <1>3, <3>2, BooksOp
      <4>2. excuse[t] = {} => lim[t].got = Qty
        BY <2>o, <3>1, <3>2, <1>q, None DEF Whole
      <4> QED
        BY <2>o, <1>q, <3>1, <3>2, <4>1, <4>2, None DEF EntryInv, EntryOK
    <3>3. CASE Goes(t, "wait") /\ UNCHANGED book
      BY <3>1, <3>3, GoesMoves DEF EntryInv, EntryOK
    <3> QED
      BY <2>3, <3>2, <3>3 DEF StatusRead
  <2>4. CASE Cancelled(t)
    <3>1. /\ call'[t].op = "settle" /\ mkt'[t] = NoOrder /\ book'[t] = 0
          /\ lim'[t] = Has(0, lim[t].got)
      BY <1>3, <2>0, <2>4, GoesMoves DEF Cancelled, Answer, Kept, EntryInv, EntryOK, OrdersType
    <3> QED
      BY <2>o, <3>1, None DEF EntryInv, EntryOK
  <2>5. CASE Settled(t)
    <3>1. lim[t].got \in 0 .. Qty
      BY <2>o, <1>q, None
    <3> QED
      BY <1>3, <2>0, <2>5, <3>1, ConcludesInv DEF Settled, Answer, orders
  <2>6. CASE MarketPlaced(t)
    <3>1. /\ lim'[t] = lim[t] /\ excuse'[t] = excuse[t] /\ mkt[t] = NoOrder /\ book[t] = 0
          /\ lim[t] = NoOrder \/ Forgiven(stray[t], excuse[t])
      BY <2>0, <2>6 DEF MarketPlaced, Answer, EntryInv, EntryOK
    <3>2. CASE mkt'[t] = Has(Qty, 0) /\ Goes(t, "fills") /\ UNCHANGED <<book, stray>>
      <4>1. call'[t].op = "fills" /\ book'[t] = 0 /\ stray'[t] = stray[t]
        BY <3>1, <3>2, GoesMoves
      <4> QED
        BY <1>q, <2>h, <3>1, <3>2, <4>1 DEF EntryInv, EntryOK, Whole
    <3>3. CASE mkt'[t] = Has(0, Qty) /\ Books(t, Qty) /\ UNCHANGED stray
      <4>1. call'[t].op = "done" /\ book'[t] = Qty /\ stray'[t] = stray[t]
        BY <1>3, <3>3, BooksOp
      <4>2. Forgiven(stray[t], excuse[t]) => ~(stray[t] = 0 /\ excuse[t] = {})
        BY DEF Forgiven
      <4>3. stray[t] = 0 /\ excuse[t] = {} =>
              /\ Qty = lim[t].rest + lim[t].got + mkt'[t].rest + mkt'[t].got
              /\ lim[t].rest = 0 /\ mkt'[t].rest = 0
        BY <2>h, <1>q, <3>1, <3>3, <4>2, None
      <4> QED
        BY <3>1, <4>1, <4>3 DEF EntryInv, EntryOK
    <3>4. CASE stray'[t] = stray[t] + Qty /\ Goes(t, "done") /\ UNCHANGED <<book, mkt>>
      <4>1. call'[t].op = "done" /\ mkt'[t] = NoOrder /\ stray'[t] > 0
        BY <2>o, <1>q, <3>1, <3>4, GoesMoves
      <4> QED
        BY <4>1 DEF EntryInv, EntryOK
    <3> QED
      BY <1>3, <2>6, <3>2, <3>3, <3>4 DEF MarketPlaced, OrdersType
  <2>7. CASE FillsRead(t)
    <3>1. /\ lim'[t] = lim[t] /\ mkt'[t] = mkt[t] /\ stray'[t] = stray[t]
          /\ excuse'[t] = excuse[t] /\ Whole(mkt[t], excuse[t]) /\ book[t] = 0
          /\ lim[t] = NoOrder \/ Forgiven(stray[t], excuse[t])
      BY <2>0, <2>7 DEF FillsRead, Answer, orders, EntryInv, EntryOK
    <3>2. CASE mkt[t].got > 0 /\ Books(t, Qty)
      <4>1. call'[t].op = "done" /\ book'[t] = Qty
        BY <1>3, <3>2, BooksOp
      <4>2. Forgiven(stray[t], excuse[t]) => ~(stray[t] = 0 /\ excuse[t] = {})
        BY DEF Forgiven
      <4>3. stray[t] = 0 /\ excuse[t] = {} =>
              /\ Qty = lim[t].rest + lim[t].got + mkt[t].rest + mkt[t].got
              /\ lim[t].rest = 0
        BY <2>o, <1>q, <3>1, <3>2, <4>2, None DEF Whole
      <4> QED
        BY <3>1, <3>2, <4>1, <4>3 DEF EntryInv, EntryOK
    <3>3. CASE Polled(t, "look", call[t].polls) /\ UNCHANGED book
      BY <3>1, <3>3, PolledMoves DEF EntryInv, EntryOK
    <3> QED
      BY <2>7, <3>2, <3>3 DEF FillsRead
  <2>8. CASE Looked(t)
    <3>1. /\ lim'[t] = lim[t] /\ mkt'[t] = mkt[t] /\ stray'[t] = stray[t] /\ book'[t] = 0
          /\ Whole(mkt[t], excuse[t])
          /\ lim[t] = NoOrder \/ Forgiven(stray[t], excuse[t])
      BY <2>0, <2>8 DEF Looked, Answer, orders, EntryInv, EntryOK
    <3>2. CASE Polled(t, "fills", call[t].polls + 1) /\ UNCHANGED excuse
      BY <3>1, <3>2, PolledMoves DEF EntryInv, EntryOK
    <3>3. CASE Goes(t, "done") /\ Missed(t, "unconfirmed", mkt[t] # NoOrder)
      <4>1. /\ call'[t].op = "done" /\ excuse[t] \subseteq excuse'[t]
            /\ mkt[t] = NoOrder \/ "unconfirmed" \in excuse'[t]
        BY <1>3, <3>3, GoesMoves DEF Missed, WalletType
      <4>2. Forgiven(stray[t], excuse[t]) => Forgiven(stray[t], excuse'[t])
        BY <4>1 DEF Forgiven
      <4>3. stray[t] = 0 /\ excuse'[t] = {} => lim[t] = NoOrder /\ mkt[t] = NoOrder
        BY <3>1, <4>1, <4>2 DEF Forgiven
      <4> QED
        BY <3>1, <4>1, <4>2, <4>3, None DEF EntryInv, EntryOK
    <3> QED
      BY <2>8, <3>2, <3>3 DEF Looked
  <2> QED
    BY <2>1, <2>2, <2>3, <2>4, <2>5, <2>6, <2>7, <2>8
<1> QED
  BY <1>1, <1>2, <1>3, OneEntry

\* Fills keep an order's total; an order the venue ends short is remembered.
LEMMA VenueEntries ==
  ASSUME TypeOK, TypeOK', EntriesInv, NEW t \in Entering,
         FillLimit(t) \/ FillMarket(t) \/ EndOrder(t)
  PROVE  EntriesInv'
<1> USE Parts
<1>o. /\ lim[t] \in Order /\ mkt[t] \in Order /\ excuse[t] \in SUBSET Excuses
      /\ stray[t] \in Nat
  BY DEF OrdersType, WalletType
<1>f. call' = call /\ stray' = stray /\ book' = book
  BY DEF FillLimit, FillMarket, EndOrder
<1>1. ASSUME NEW u \in Entering, u # t PROVE EntryInv(u)'
  <2>1. lim'[u] = lim[u] /\ mkt'[u] = mkt[u] /\ excuse'[u] = excuse[u]
    BY <1>1 DEF FillLimit, FillMarket, EndOrder, Missed, OrdersType, WalletType
  <2> QED
    BY <1>1, <1>f, <2>1 DEF EntriesInv, EntryInv
<1>2. EntryInv(t)'
  <2>0. EntryInv(t)
    BY DEF EntriesInv
  <2>1. CASE FillLimit(t)
    <3>1. PICK n \in 1 .. lim[t].rest : lim'[t] = Has(lim[t].rest - n, lim[t].got + n)
      BY <2>1 DEF FillLimit, OrdersType
    <3>2. /\ lim'[t].rest = lim[t].rest - n /\ lim'[t].got = lim[t].got + n
          /\ lim[t].rest > 0 /\ n \in Nat
          /\ lim[t].rest \in Nat /\ lim[t].got \in Nat
      <4>1. lim[t].rest \in Nat /\ lim[t].got \in Nat
        BY <1>o, None
      <4>2. /\ n \in Nat /\ lim[t].rest > 0
            /\ lim[t].rest - n \in Nat /\ lim[t].got + n \in Nat
        BY <4>1
      <4> QED
        BY <3>1, <4>1, <4>2 DEF Has
    <3>3. lim[t] # NoOrder /\ mkt'[t] = mkt[t] /\ excuse'[t] = excuse[t]
      BY <2>1, <3>2, None DEF FillLimit
    <3>4. Whole(lim[t], excuse[t]) => Whole(lim'[t], excuse[t])
      BY <3>2 DEF Whole
    <3>5. lim'[t].rest + lim'[t].got = lim[t].rest + lim[t].got
      BY <3>2
    <3>6. call[t].op = "settle" => "cancel" \in excuse[t]
      BY <2>0, <3>2 DEF EntryInv, EntryOK
    <3>7. /\ call[t].op \notin {"idle", "limit"}
          /\ mkt[t] = NoOrder \/ Forgiven(stray[t], excuse[t])
          /\ call[t].op \in {"market", "fills", "look"} => Forgiven(stray[t], excuse[t])
      BY <2>0, <3>3 DEF EntryInv, EntryOK
    <3>8. call[t].op = "done" /\ stray[t] = 0 /\ excuse[t] = {} =>
            FALSE
      BY <1>o, <2>0, <3>2, None DEF EntryInv, EntryOK
    <3> QED
      BY <2>0, <1>f, <3>3, <3>4, <3>6, <3>7, <3>8 DEF EntryInv, EntryOK
  <2>2. CASE FillMarket(t)
    <3>1. PICK n \in 1 .. mkt[t].rest : mkt'[t] = Has(mkt[t].rest - n, mkt[t].got + n)
      BY <2>2 DEF FillMarket, OrdersType
    <3>2. /\ mkt'[t].rest = mkt[t].rest - n /\ mkt'[t].got = mkt[t].got + n
          /\ mkt[t].rest > 0 /\ n \in Nat
          /\ mkt[t].rest \in Nat /\ mkt[t].got \in Nat
      <4>1. mkt[t].rest \in Nat /\ mkt[t].got \in Nat
        BY <1>o, None
      <4>2. /\ n \in Nat /\ mkt[t].rest > 0
            /\ mkt[t].rest - n \in Nat /\ mkt[t].got + n \in Nat
        BY <4>1
      <4> QED
        BY <3>1, <4>1, <4>2 DEF Has
    <3>3. mkt[t] # NoOrder /\ lim'[t] = lim[t] /\ excuse'[t] = excuse[t]
      BY <2>2, <3>2, None DEF FillMarket
    <3>4. Whole(mkt[t], excuse[t]) => Whole(mkt'[t], excuse[t])
      BY <3>2 DEF Whole
    <3>7. /\ call[t].op \in {"fills", "look", "done"} \cup ({call[t].op} \ (Asks \cup {"idle"}))
          /\ lim[t] = NoOrder \/ Forgiven(stray[t], excuse[t])
      BY <2>0, <3>3 DEF EntryInv, EntryOK, Asks, Creates
    <3>8. call[t].op = "done" /\ stray[t] = 0 /\ excuse[t] = {} =>
            /\ book[t] = lim[t].rest + lim[t].got + mkt'[t].rest + mkt'[t].got
            /\ lim[t].rest = 0 /\ mkt'[t].got > 0
      BY <1>o, <2>0, <3>2, None DEF EntryInv, EntryOK
    <3> QED
      BY <2>0, <1>f, <3>3, <3>4, <3>7, <3>8 DEF EntryInv, EntryOK, Asks, Creates
  <2>3. CASE EndOrder(t)
    <3>1. /\ excuse[t] \subseteq excuse'[t]
          /\ \/ /\ lim'[t] = Has(0, lim[t].got) /\ mkt'[t] = mkt[t]
                /\ lim[t].rest > 0
                /\ lim[t].got > 0 => "short" \in excuse'[t]
             \/ /\ mkt'[t] = Has(0, mkt[t].got) /\ lim'[t] = lim[t]
                /\ mkt[t].rest > 0
                /\ mkt[t].got > 0 => "short" \in excuse'[t]
      BY <2>3 DEF EndOrder, Missed, OrdersType, WalletType
    <3>2. \A o \in Order : /\ Has(0, o.got).rest = 0 /\ Has(0, o.got).got = o.got
                            /\ o.got \in Nat /\ o.rest \in Nat
      BY None
    <3>3. Forgiven(stray[t], excuse[t]) => Forgiven(stray[t], excuse'[t])
      BY <3>1 DEF Forgiven
    <3>4. /\ Whole(lim[t], excuse[t]) => Whole(lim'[t], excuse'[t])
          /\ Whole(mkt[t], excuse[t]) => Whole(mkt'[t], excuse'[t])
      BY <1>o, <3>1, <3>2 DEF Whole
    <3>5. /\ lim[t] = NoOrder => lim'[t] = NoOrder
          /\ mkt[t] = NoOrder => mkt'[t] = NoOrder
      BY <1>o, <3>1, <3>2, None
    <3>6. excuse'[t] = {} /\ lim'[t] # lim[t] => lim[t].got = 0
      BY <1>o, <3>1, <3>2
    <3>7. excuse'[t] = {} /\ mkt'[t] # mkt[t] => mkt[t].got = 0
      BY <1>o, <3>1, <3>2
    <3>8. call[t].op = "settle" => lim'[t].rest = 0 \/ "cancel" \in excuse'[t]
      BY <1>o, <2>0, <3>1, <3>2 DEF EntryInv, EntryOK
    <3>9. call[t].op = "done" /\ stray[t] = 0 /\ excuse'[t] = {} =>
            /\ book[t] = lim'[t].rest + lim'[t].got + mkt'[t].rest + mkt'[t].got
            /\ lim'[t].rest = 0 /\ (mkt'[t].rest > 0 => mkt'[t].got > 0)
      <4>1. SUFFICES ASSUME call[t].op = "done", stray[t] = 0, excuse'[t] = {}
                     PROVE  /\ lim'[t] = lim[t] /\ mkt'[t] = mkt[t] /\ excuse[t] = {}
        BY <2>0 DEF EntryInv, EntryOK
      <4>2. excuse[t] = {}
        BY <3>1, <4>1
      <4>3. lim[t].rest = 0 /\ (mkt[t].rest > 0 => mkt[t].got > 0)
        BY <2>0, <4>1, <4>2 DEF EntryInv, EntryOK
      <4> QED
        BY <3>1, <4>1, <4>2, <4>3
    <3> QED
      BY <2>0, <1>f, <3>3, <3>4, <3>5, <3>8, <3>9 DEF EntryInv, EntryOK
  <2> QED
    BY <2>1, <2>2, <2>3
<1> QED
  BY <1>1, <1>2 DEF EntriesInv

\* What starts calls, and what touches no entry at all.
LEMMA OtherEntries ==
  ASSUME TypeOK, TypeOK', EntriesInv,
         \/ \E t \in Threads : Read(t) \/ Enter(t) \/ Deadline(t)
         \/ \E t \in Entering : FillLimit(t) \/ FillMarket(t) \/ EndOrder(t)
         \/ Cool \/ Outage \/ Restore \/ TripHalt
         \/ UNCHANGED vars
  PROVE  EntriesInv'
<1> USE Parts
<1>1. ASSUME NEW t \in Threads, Read(t) \/ Enter(t) \/ Deadline(t)
      PROVE  EntriesInv'
  <2>1. lim' = lim /\ mkt' = mkt /\ stray' = stray /\ book' = book /\ excuse' = excuse
    BY <1>1 DEF Read, Enter, Deadline, Kept, orders
  <2>2. Moved(t)
    BY <1>1, GoesMoves DEF Read, Enter, Deadline
  <2>3. ASSUME t \in Entering PROVE EntryInv(t)'
    <3>0. EntryInv(t) /\ lim[t] \in Order
      BY <2>3 DEF EntriesInv, OrdersType
    <3>1. CASE Read(t)
      BY <2>3, <3>1, ClientConstants DEF Read
    <3>2. CASE Enter(t)
      <4>1. call'[t].op \in {"limit", "market"} /\ call[t].op = "idle"
        BY <1>1, <3>2, GoesMoves DEF Enter, Creates
      <4> QED
        BY <2>1, <3>0, <4>1 DEF EntryInv, EntryOK
    <3>3. CASE Deadline(t)
      <4>1. call'[t].op = "cancel" /\ call[t].op = "wait"
        BY <1>1, <3>3, GoesMoves DEF Deadline
      <4> QED
        BY <2>1, <3>0, <4>1 DEF EntryInv, EntryOK
    <3> QED
      BY <1>1, <3>1, <3>2, <3>3
  <2> QED
    BY <2>1, <2>2, <2>3, OneEntry
<1>2. ASSUME UNCHANGED <<call, orders, book, excuse>> PROVE EntriesInv'
  BY <1>2 DEF EntriesInv, EntryInv, orders
<1> QED
  BY <1>1, <1>2, VenueEntries DEF Cool, Outage, Restore, TripHalt, vars

LEMMA EntriesHold == Spec => []EntriesInv
<1>1. Init => EntriesInv
  BY None DEF Init, EntriesInv, EntryInv, EntryOK, Ask, Threads
<1>2. TypeOK /\ TypeOK' /\ EntriesInv /\ [Next]_vars => EntriesInv'
  BY Steps, CallEntries, AnswerEntries, OtherEntries
<1> QED
  BY <1>1, <1>2, TypeCorrect, PTL DEF Spec

\* acquire_live_entry_fill gives up on a passive order only after a cancel
\* and a last look: an entry doubles only if one of the two failed or an id
\* was lost.
THEOREM NoDoubleEntryHolds == Spec => []NoDoubleEntry
<1>1. TypeOK /\ EntriesInv => NoDoubleEntry
  <2> SUFFICES ASSUME TypeOK, EntriesInv, NEW t \in Entering, Reach(t) > Qty,
                      ~(stray[t] > 0), excuse[t] \cap {"cancel", "read"} = {}
               PROVE  FALSE
    BY DEF NoDoubleEntry
  <2>1. /\ lim[t] \in Order /\ mkt[t] \in Order /\ stray[t] \in Nat
    BY Parts DEF OrdersType
  <2>2. mkt[t] = NoOrder \/ lim[t] = NoOrder
    BY DEF EntriesInv, EntryInv, EntryOK, Forgiven
  <2>3. stray[t] = 0 /\ Qty \in Nat
    BY <2>1, ClientConstants
  <2>4. /\ lim[t].rest \in Nat /\ lim[t].got \in Nat /\ lim[t].rest + lim[t].got <= Qty
        /\ mkt[t].rest \in Nat /\ mkt[t].got \in Nat /\ mkt[t].rest + mkt[t].got <= Qty
    BY <2>1, None
  <2>5. CASE mkt[t] = NoOrder
    <3>1. mkt[t].rest = 0 /\ mkt[t].got = 0
      BY <2>5, None
    <3> QED
      BY <2>3, <2>4, <3>1 DEF Reach
  <2>6. CASE lim[t] = NoOrder
    <3>1. lim[t].rest = 0 /\ lim[t].got = 0
      BY <2>6, None
    <3> QED
      BY <2>3, <2>4, <3>1 DEF Reach
  <2> QED
    BY <2>2, <2>5, <2>6
<1> QED
  BY <1>1, TypeCorrect, EntriesHold, PTL

\* What the wallet books is what filled, unless a cancel, a last look or a
\* confirmation failed, an id was lost, or the venue ended an order short.
THEOREM EntryAgreesHolds == Spec => []EntryAgrees
<1>1. TypeOK /\ EntriesInv => EntryAgrees
  <2> SUFFICES ASSUME TypeOK, EntriesInv, NEW t \in Entering,
                      call[t].op = "done", stray[t] = 0, excuse[t] = {},
                      lim[t].rest = 0, mkt[t].rest = 0
               PROVE  book[t] = lim[t].got + mkt[t].got
    BY DEF EntryAgrees
  <2>1. /\ lim[t] \in Order /\ mkt[t] \in Order
    BY Parts DEF OrdersType
  <2>2. book[t] = lim[t].rest + lim[t].got + mkt[t].rest + mkt[t].got
    BY DEF EntriesInv, EntryInv, EntryOK
  <2> QED
    BY <2>1, <2>2, None
<1> QED
  BY <1>1, TypeCorrect, EntriesHold, PTL
-----------------------------------------------------------------------------
(* The load on a venue in trouble.                                         *)

\* The attempts that calls already inside the gate may still make.
Left == {p \in Threads \X (0 .. MaxRetries - 1) :
           call[p[1]].wire /\ p[2] >= call[p[1]].tries}

\* What an open circuit has let end, and what it may still let end.
StormInv == IF cb = "open" THEN late + Cardinality(Left) <= StormBound ELSE late = 0

LEMMA LeftFinite ==
  /\ IsFiniteSet(Left) /\ Cardinality(Left) \in Nat
  /\ \A T \in SUBSET Left : Cardinality(T) <= Cardinality(Left)
<1> DEFINE S == Threads \X (0 .. MaxRetries - 1)
<1>0. IsFiniteSet(Threads)
  BY ClientConstants, FS_Union DEF Threads
<1>1. MaxRetries - 1 \in Int
  BY ClientConstants
<1>i. IsFiniteSet(0 .. MaxRetries - 1)
  BY <1>1, FS_Interval
<1>2. IsFiniteSet(S)
  BY <1>0, <1>i, FS_Product
<1>3. Left \in SUBSET S
  BY DEF Left
<1>4. IsFiniteSet(Left)
  BY <1>2, <1>3, FS_Subset
<1> QED
  BY <1>4, FS_Subset, FS_CardinalityType

\* Nothing of thread t is left: the others' attempts fit the bound.
LEMMA OthersLeft ==
  ASSUME NEW t \in Threads, NEW R \in SUBSET ((Threads \ {t}) \X (0 .. MaxRetries - 1))
  PROVE  Cardinality(R) \in Nat /\ Cardinality(R) <= StormBound
<1> DEFINE T == Threads \ {t}
           I == 0 .. MaxRetries - 1
<1>1. MaxRetries \in Nat \ {0} /\ IsFiniteSet(Threads)
  BY ClientConstants, FS_Union DEF Threads
<1>2. IsFiniteSet(T) /\ Cardinality(T) = Cardinality(Threads) - 1
  BY <1>1, FS_RemoveElement
<1>3. IsFiniteSet(I) /\ Cardinality(I) = MaxRetries
  BY <1>1, FS_Interval
<1> HIDE DEF T, I
<1>4. IsFiniteSet(T \X I) /\ Cardinality(T \X I) = Cardinality(T) * Cardinality(I)
  BY <1>2, <1>3, FS_Product
<1>5. Cardinality(T \X I) = StormBound
  BY <1>2, <1>3, <1>4 DEF StormBound
<1>6. R \in SUBSET (T \X I)
  BY DEF T, I
<1> QED
  BY <1>4, <1>5, <1>6, FS_Subset, FS_CardinalityType

\* No attempt begins and none ends.
LEMMA QuietStorm ==
  ASSUME CircuitType, StormInv, cb' = cb, late' = late, Left' \subseteq Left
  PROVE  StormInv'
<1>1. Cardinality(Left') \in Nat /\ Cardinality(Left') <= Cardinality(Left)
  <2>1. Left' \in SUBSET Left /\ IsFiniteSet(Left)
    BY LeftFinite
  <2> QED
    BY <2>1, FS_Subset, FS_CardinalityType
<1> QED
  BY <1>1, LeftFinite, Bound DEF StormInv, CircuitType

\* A thread that waits at the gate leaves the attempts of the others alone.
LEMMA MovedLeft ==
  ASSUME CallType, NEW t \in Threads, Moved(t)
  PROVE  /\ Left' \subseteq Left
         /\ Left' \subseteq (Threads \ {t}) \X (0 .. MaxRetries - 1)
BY DEF Moved, Left, CallType

\* The attempt of thread t that ends is spent.
LEMMA SpentLeft ==
  ASSUME CallType, NEW t \in Threads, call[t].wire,
         Moved(t) \/ Tries(t, call[t].tries + 1)
  PROVE  /\ Left' \subseteq Left \ {<<t, call[t].tries>>}
         /\ <<t, call[t].tries>> \in Left
<1>1. call[t].tries \in 0 .. MaxRetries - 1
  BY DEF CallType, Calls
<1>2. <<t, call[t].tries>> \in Left
  BY <1>1 DEF Left
<1>3. CASE Moved(t)
  BY <1>2, <1>3, MovedLeft
<1>4. CASE Tries(t, call[t].tries + 1)
  <2>1. /\ call'[t].wire /\ call'[t].tries = call[t].tries + 1
        /\ \A u \in Threads \ {t} : call'[u] = call[u]
    BY <1>4 DEF Tries, CallType
  <2>2. ASSUME NEW p \in Left' PROVE p \in Left /\ p # <<t, call[t].tries>>
    <3>1. /\ p \in Threads \X (0 .. MaxRetries - 1)
          /\ call'[p[1]].wire /\ p[2] >= call'[p[1]].tries
      BY <2>2 DEF Left
    <3>2. CASE p[1] = t
      <4>1. p[2] >= call[t].tries + 1 /\ p[2] \in Int
        BY <2>1, <3>1, <3>2
      <4>2. p[2] >= call[t].tries /\ p[2] # call[t].tries
        BY <1>1, <4>1
      <4> QED
        BY <3>1, <3>2, <4>2 DEF Left
    <3>3. CASE p[1] # t
      BY <2>1, <3>1, <3>3 DEF Left
    <3> QED
      BY <3>2, <3>3
  <2> QED
    BY <1>2, <2>2
<1> QED
  BY <1>3, <1>4

\* An attempt ends.  While the circuit is open it is counted and spent; it
\* opens the circuit only by ending its call, which leaves the other threads'.
LEMMA AttemptStorm ==
  ASSUME CircuitType, CallType, StormInv, NEW t \in Threads, call[t].wire,
         OnSuccess \/ Ignored \/ (OnFailure /\ Moved(t)),
         Moved(t) \/ Tries(t, call[t].tries + 1)
  PROVE  StormInv'
<1>1. CASE OnSuccess
  BY <1>1 DEF OnSuccess, StormInv
<1>2. CASE cb = "open" /\ (Ignored \/ (OnFailure /\ Moved(t)))
  <2>1. cb' = "open" /\ late' = Lesser(late + 1, StormBound + 1)
    BY <1>2 DEF OnFailure, Ignored, Counted, CircuitType
  <2>2. Cardinality(Left') \in Nat /\ Cardinality(Left') <= Cardinality(Left) - 1
    <3> DEFINE p == <<t, call[t].tries>>
    <3>1. Left' \subseteq Left \ {p} /\ p \in Left
      BY SpentLeft
    <3>2. IsFiniteSet(Left \ {p}) /\ Cardinality(Left \ {p}) = Cardinality(Left) - 1
      BY <3>1, LeftFinite, FS_RemoveElement
    <3> HIDE DEF p
    <3> QED
      BY <3>1, <3>2, FS_Subset, FS_CardinalityType
  <2>3. late + Cardinality(Left) <= StormBound
    BY <1>2 DEF StormInv
  <2>4. late' + Cardinality(Left') <= StormBound
    BY <2>1, <2>2, <2>3, LeftFinite, Bound DEF Lesser, CircuitType
  <2> QED
    BY <2>1, <2>4 DEF StormInv
<1>3. CASE cb # "open" /\ (Ignored \/ (OnFailure /\ Moved(t)))
  <2>1. late' = 0
    BY <1>3 DEF OnFailure, Ignored, Counted
  <2>2. CASE cb' = "open"
    <3>1. Moved(t)
      BY <1>3, <2>2 DEF Ignored
    <3>2. Cardinality(Left') \in Nat /\ Cardinality(Left') <= StormBound
      BY <3>1, MovedLeft, OthersLeft
    <3> QED
      BY <2>1, <2>2, <3>2 DEF StormInv
  <2> QED
    BY <2>1, <2>2 DEF StormInv
<1> QED
  BY <1>1, <1>2, <1>3

LEMMA CallStorm ==
  ASSUME TypeOK, StormInv, NEW t \in Threads,
         Blocked(t) \/ Rejected(t) \/ Admitted(t) \/ Unanswered(t) \/ Refused(t)
  PROVE  StormInv'
<1> USE Parts
<1>1. CASE Blocked(t) \/ Rejected(t)
  <2>1. Moved(t) /\ cb' = cb /\ late' = late
    BY <1>1, RaisedMoves DEF Blocked, Rejected, circuit
  <2> QED
    BY <2>1, MovedLeft, QuietStorm
<1>2. CASE Admitted(t)
  <2>1. cb' # "open" /\ late' = 0
    BY <1>2 DEF Admitted
  <2> QED
    BY <2>1 DEF StormInv
<1>3. CASE Unanswered(t)
  <2>1. call[t].wire
    BY <1>3 DEF Unanswered
  <2>2. \/ Ignored /\ \E api \in BOOLEAN : Raised(t, api)
        \/ Ignored /\ Tries(t, call[t].tries + 1)
        \/ OnFailure /\ \E api \in BOOLEAN : Raised(t, api)
    BY <1>3 DEF Unanswered
  <2>3. CASE Ignored /\ Tries(t, call[t].tries + 1)
    BY <2>1, <2>3, AttemptStorm
  <2>4. CASE (Ignored \/ OnFailure) /\ \E api \in BOOLEAN : Raised(t, api)
    <3>1. Moved(t)
      BY <2>4, RaisedMoves
    <3> QED
      BY <2>1, <2>4, <3>1, AttemptStorm
  <2> QED
    BY <2>2, <2>3, <2>4
<1>4. CASE Refused(t)
  <2>1. Moved(t) /\ call[t].wire /\ Ignored
    BY <1>4, RaisedMoves DEF Refused
  <2> QED
    BY <2>1, AttemptStorm
<1> QED
  BY <1>1, <1>2, <1>3, <1>4

\* An answer is a success, whichever call it answers: it closes the circuit.
LEMMA AnswerStorm ==
  ASSUME NEW t \in Threads,
         \/ ReadAnswered(t) \/ LimitPlaced(t) \/ StatusRead(t) \/ Cancelled(t)
         \/ Settled(t) \/ MarketPlaced(t) \/ FillsRead(t) \/ Looked(t)
  PROVE  StormInv'
<1>1. OnSuccess
  BY DEF ReadAnswered, LimitPlaced, StatusRead, Cancelled, Settled, MarketPlaced,
         FillsRead, Looked, Answer
<1> QED
  BY <1>1 DEF OnSuccess, StormInv

LEMMA OtherStorm ==
  ASSUME TypeOK, StormInv,
         \/ \E t \in Threads : Read(t) \/ Enter(t) \/ Deadline(t)
         \/ \E t \in Entering : FillLimit(t) \/ FillMarket(t) \/ EndOrder(t)
         \/ Cool \/ Outage \/ Restore \/ TripHalt
         \/ UNCHANGED vars
  PROVE  StormInv'
<1> USE Parts
<1>1. cb' = cb /\ late' = late
  BY DEF Read, Enter, Deadline, FillLimit, FillMarket, EndOrder, Cool, Outage,
         Restore, TripHalt, vars, circuit
<1>2. ASSUME NEW t \in Threads, Read(t) \/ Enter(t) \/ Deadline(t)
      PROVE  Left' \subseteq Left
  <2>1. \E op \in Asks : Goes(t, op)
    BY <1>2 DEF Read, Enter, Deadline, Asks
  <2> QED
    BY <2>1, GoesMoves, MovedLeft
<1>3. CASE UNCHANGED call
  <2>1. Left' = Left
    BY <1>3 DEF Left
  <2> QED
    BY <1>1, <2>1, QuietStorm
<1> QED
  BY <1>1, <1>2, <1>3, QuietStorm
  DEF FillLimit, FillMarket, EndOrder, Cool, Outage, Restore, TripHalt, vars

\* is_open admits nobody while the circuit is open, so what still reaches a
\* venue in trouble is what the other threads' calls had left when it opened:
\* at most max_retries attempts each.
THEOREM StormBoundedHolds == Spec => []StormBounded
<1>1. Init => StormInv
  BY DEF Init, StormInv
<1>2. TypeOK /\ StormInv /\ [Next]_vars => StormInv'
  BY Steps, CallStorm, AnswerStorm, OtherStorm
<1>3. TypeOK /\ StormInv => StormBounded
  BY Bound, LeftFinite, Parts DEF StormInv, StormBounded, CircuitType
<1> QED
  BY <1>1, <1>2, <1>3, TypeCorrect, PTL DEF Spec
=============================================================================
