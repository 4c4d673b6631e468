----------------------- MODULE PositionLifecycleProofs -----------------------
(***************************************************************************)
(* The wallet's books for any number of engine threads, any faults of the  *)
(* venue and any number of reconcile passes, protective fills and crashes. *)
(* ClosedOncePerOpen is inductive with the type invariant. NoFlip follows  *)
(* from OneExit, where an exit under way is covered by what the venue      *)
(* holds; Agreement from Agreed, which says by how much wallet and venue   *)
(* differ at each place of an operation; Protected from StopKept, by which *)
(* an exit under way answers for the stop it cancelled. The last part is   *)
(* the refinement of PositionContract.                                     *)
(***************************************************************************)
EXTENDS PositionLifecycle, FiniteSetTheorems, TLAPS

-----------------------------------------------------------------------------
(* The faults a step may spend are counted within their bound.             *)

LEMMA FaultKindsFinite == IsFiniteSet(FaultKinds)
<1>1. IsFiniteSet({})
  BY FS_EmptySet
<1>2. IsFiniteSet({"cancel"})
  BY <1>1, FS_AddElement, {"cancel"} = {} \cup {"cancel"}
<1>3. IsFiniteSet({"cancel", "read"})
  BY <1>2, FS_AddElement, {"cancel", "read"} = {"cancel"} \cup {"read"}
<1>4. IsFiniteSet({"cancel", "read", "refused"})
  BY <1>3, FS_AddElement,
     {"cancel", "read", "refused"} = {"cancel", "read"} \cup {"refused"}
<1>5. IsFiniteSet({"cancel", "read", "refused", "unconfirmed"})
  BY <1>4, FS_AddElement, {"cancel", "read", "refused", "unconfirmed"}
                          = {"cancel", "read", "refused"} \cup {"unconfirmed"}
<1>6. IsFiniteSet({"cancel", "read", "refused", "unconfirmed", "tpsl"})
  BY <1>5, FS_AddElement, {"cancel", "read", "refused", "unconfirmed", "tpsl"}
                          = {"cancel", "read", "refused", "unconfirmed"} \cup {"tpsl"}
<1>7. QED
  BY <1>6, FS_Subset, LifecycleConstants

LEMMA SpendBounded ==
  ASSUME faults \in 0 .. MaxFaults, NEW kinds, Spend(kinds)
  PROVE  faults' \in 0 .. MaxFaults
<1>1. Cardinality(kinds) \in Nat
  BY FaultKindsFinite, FS_Subset, FS_CardinalityType DEF Spend
<1>2. QED
  BY <1>1, LifecycleConstants DEF Spend

-----------------------------------------------------------------------------
(* What placing, failing to place or skipping the protective orders of a   *)
(* position does to the wallet: it keeps the position, or books it closed  *)
(* by the emergency exit.                                                  *)

KeepsOrCloses(p) ==
  \/ pos'.open = p.open /\ pos'.qty = p.qty /\ closes' = closes
  \/ pos' = NoPos /\ closes' = closes + 1

LEMMA ProtectKeepsOrCloses ==
  ASSUME NEW p \in Positions, Protect(p)
  PROVE  KeepsOrCloses(p)
<1>1. CASE ProtectPlaced(p)
  BY <1>1 DEF ProtectPlaced, KeepsOrCloses, Positions
<1>2. CASE ProtectFailed(p)
  BY <1>2 DEF ProtectFailed, KeepsOrCloses, Positions
<1>3. CASE ProtectSkipped(p)
  BY <1>3 DEF ProtectSkipped, KeepsOrCloses
<1>4. QED
  BY <1>1, <1>2, <1>3 DEF Protect

LEMMA PositionTracking ==
  ASSUME NEW p \in Positions, NEW i \in Nat, NEW j \in Nat
  PROVE  /\ [p EXCEPT !.sl = i, !.tp = j] \in Positions
         /\ [p EXCEPT !.sl = i, !.tp = j].open = p.open
BY DEF Positions

(* ... and to every type it touches.                                       *)
ProtectTypes ==
  /\ pos' \in Positions /\ closes' \in Nat
  /\ nextId' \in Nat /\ nextId' >= nextId
  /\ resting' \subseteq Orders'
  /\ halt' \in BOOLEAN
  /\ faults' \in 0 .. MaxFaults

LEMMA ProtectTyped ==
  ASSUME TypeOK, NEW p \in Positions, Protect(p)
  PROVE  ProtectTypes
<1> USE DEF TypeOK, WalletType, MarketType, GateType, SpentType
<1>0. -p.qty \in Int
  BY DEF Positions
<1>1. CASE ProtectPlaced(p)
  <2>1. nextId' = nextId + 2
    BY <1>1 DEF ProtectPlaced
  <2>2a. pos' \in Positions
    <3> DEFINE j == IF VenueTP THEN nextId + 1 ELSE p.tp
    <3>1. nextId \in Nat /\ j \in Nat
      BY DEF Positions
    <3>2. pos' = [p EXCEPT !.sl = nextId, !.tp = j]
      BY <1>1 DEF ProtectPlaced
    <3> HIDE DEF j
    <3>3. QED
      BY <3>1, <3>2, PositionTracking
  <2>2b. closes' \in Nat
    BY <1>1 DEF ProtectPlaced
  <2>2c. halt' \in BOOLEAN
    BY <1>1 DEF ProtectPlaced
  <2>3. \A o \in resting' : o \in resting \/ o = [id |-> nextId, size |-> -p.qty]
                            \/ o = [id |-> nextId + 1, size |-> -p.qty]
    BY <1>1 DEF ProtectPlaced
  <2>4. resting' \subseteq Orders'
    BY <1>0, <2>1, <2>3 DEF Orders
  <2>5. faults' \in 0 .. MaxFaults
    BY <1>1, SpendBounded DEF ProtectPlaced
  <2>6. QED
    BY <2>1, <2>2a, <2>2b, <2>2c, <2>4, <2>5 DEF ProtectTypes
<1>2. CASE ProtectFailed(p)
  <2>1. pos' \in Positions
    <3>1. pos' \in {NoPos, [p EXCEPT !.sl = 0, !.tp = 0], p}
      BY <1>2 DEF ProtectFailed
    <3>2. NoPos \in Positions
      BY DEF NoPos, Positions
    <3>3. [p EXCEPT !.sl = 0, !.tp = 0] \in Positions
      BY PositionTracking, 0 \in Nat
    <3>4. QED
      BY <3>1, <3>2, <3>3
  <2>1a. closes' \in Nat
    BY <1>2 DEF ProtectFailed
  <2>1b. halt' \in BOOLEAN
    BY <1>2, Zenon DEF ProtectFailed
  <2>2. nextId' = nextId /\ resting' \subseteq Orders'
    BY <1>2 DEF ProtectFailed, Orders
  <2>3. faults' \in 0 .. MaxFaults
    BY <1>2, SpendBounded DEF ProtectFailed
  <2>4. QED
    BY <2>1, <2>1a, <2>1b, <2>2, <2>3 DEF ProtectTypes
<1>3. CASE ProtectSkipped(p)
  <2>1. faults' \in 0 .. MaxFaults
    BY <1>3, SpendBounded DEF ProtectSkipped
  <2>2. QED
    BY <1>3, <2>1 DEF ProtectSkipped, ProtectTypes, Orders
<1>4. QED
  BY <1>1, <1>2, <1>3 DEF Protect

(* A slice is an integer, and a reduced position is a position.            *)
LEMMA SliceTyped == \A q \in Int : Slice(q) \in Int
<1> SUFFICES ASSUME NEW q \in Int
             PROVE  Slice(q) \in Int
  OBVIOUS
<1>1. Sign(q) \in {-1, 0, 1} /\ Abs(q) \in Nat
  BY DEF Sign, Abs
<1>2. Abs(q) \div 2 \in Int
  BY <1>1
<1>3. QED
  BY <1>1, <1>2 DEF Slice

LEMMA ReducedTyped ==
  ASSUME pos \in Positions
  PROVE  /\ [pos EXCEPT !.qty = @ - Slice(@)] \in Positions
         /\ [pos EXCEPT !.qty = @ - Slice(@)].open = pos.open
BY SliceTyped DEF Positions

(* Cancelling the legs keeps the position open and drops orders only.      *)
LEMMA CancelTyped ==
  ASSUME TypeOK, NEW kept, CancelLegs(kept)
  PROVE  pos' \in Positions /\ pos'.open = pos.open /\ resting' \subseteq Orders
<1>1. [pos EXCEPT !.sl = 0, !.tp = 0] \in Positions
      /\ [pos EXCEPT !.sl = 0, !.tp = 0].open = pos.open
  BY PositionTracking, 0 \in Nat DEF TypeOK, WalletType
<1>2. resting' \subseteq Orders
  BY DEF CancelLegs, Legs, TypeOK, MarketType
<1>3. QED
  BY <1>1, <1>2 DEF CancelLegs

(* What a thread may leave at the venue.                                   *)
LEMMA InFlightTyped ==
  ASSUME TypeOK, NEW t \in Threads
  PROVE  InFlight(t) \in Strays
<1>1. faults + crashes \in Nat /\ plan[t] \in Int
  BY LifecycleConstants DEF TypeOK, SpentType, ActorType
<1> QED
  BY <1>1 DEF InFlight, Strays

(* A market order changes its thread and the venue's quantity, or leaves an*)
(* order behind.                                                           *)
LEMMA OrderTyped ==
  ASSUME TypeOK, NEW t \in Threads, NEW booking \in Steps, MarketOrder(t, booking)
  PROVE  /\ venue' \in Int /\ late' \subseteq Strays /\ faults' \in 0 .. MaxFaults
         /\ plan' \in [Threads -> Int] /\ restop' \in [Threads -> BOOLEAN]
         /\ pc' \in [Threads -> Steps] /\ lock' \in Threads \cup {Free}
         /\ exitFailed' \in BOOLEAN
<1> USE DEF TypeOK, MarketType, ActorType, SpentType
<1>1. plan[t] \in Int
  BY DEF MarketOrder
<1>2. venue' \in Int
  BY <1>1 DEF MarketOrder
<1>2a. late' \subseteq Strays
  BY InFlightTyped DEF MarketOrder
<1>3. faults' \in 0 .. MaxFaults
  BY SpendBounded DEF MarketOrder
<1>4. plan' \in [Threads -> Int]
  BY DEF MarketOrder
<1>5. restop' \in [Threads -> BOOLEAN] /\ lock' \in Threads \cup {Free}
  BY DEF MarketOrder, Unlock
<1>6. pc' \in [Threads -> Steps]
  BY DEF MarketOrder, Goto, Steps
<1>7. exitFailed' \in BOOLEAN
  BY Zenon DEF MarketOrder
<1>8. QED
  BY <1>2, <1>2a, <1>3, <1>4, <1>5, <1>6, <1>7

(* An id once handed out stays one.                                         *)
LEMMA IdsGrow ==
  ASSUME NEW m \in Nat, NEW n \in Nat, n >= m
  PROVE  1 .. m - 1 \subseteq 1 .. n - 1
OBVIOUS

(* The pass moves on: its ids stay ids handed out.                          *)
LEMMA NextPass ==
  ASSUME PassType, nextId \in Nat, nextId' \in Nat, nextId' >= nextId,
         NEW at \in {"idle", "orders", "positions", "stops", "orphans"},
         NEW bad \in BOOLEAN, RecNext(at, bad)
  PROVE  PassType'
<1>1. 1 .. nextId - 1 \subseteq 1 .. nextId' - 1
  BY IdsGrow
<1>2. rec'.qty \in Int /\ rec'.ids \subseteq 1 .. nextId - 1 /\ rec'.at = at
  BY DEF PassType, Passes, RecNext
<1>3. rec'.bad \in BOOLEAN
  BY DEF PassType, Passes, RecNext
<1>4. rec' = [at |-> rec'.at, qty |-> rec'.qty, ids |-> rec'.ids, bad |-> rec'.bad]
  BY DEF PassType, Passes, RecNext
<1>5. QED
  BY <1>1, <1>2, <1>3, <1>4 DEF PassType, Passes

-----------------------------------------------------------------------------

(* Every variable keeps its type: positions and orders stay well formed,   *)
(* every order id was handed out, every bound is kept.                     *)
THEOREM TypeCorrect == Spec => []TypeOK
<1>1. Init => TypeOK
  <2> SUFFICES ASSUME Init
               PROVE  TypeOK
    OBVIOUS
  <2> USE LifecycleConstants DEF Init
  <2>1. WalletType
    BY DEF WalletType, Positions, NoPos
  <2>2. MarketType
    BY DEF MarketType
  <2>2a. GateType
    BY Zenon DEF GateType
  <2>3. ActorType
    <3>1. pc \in [Threads -> Steps] /\ plan \in [Threads -> Int]
          /\ restop \in [Threads -> BOOLEAN]
      BY DEF Steps
    <3>2. /\ lock \in Threads \cup {Free} /\ strm \in Nat /\ blind \subseteq Blindness
          /\ dropped \in Nat
      OBVIOUS
    <3>3. exitFailed \in BOOLEAN
      BY Zenon
    <3>4. QED
      BY <3>1, <3>2, <3>3 DEF ActorType
  <2>4. PassType
    BY DEF PassType, Passes, NoRec
  <2>5. SpentType
    BY DEF SpentType
  <2>6. QED
    BY <2>1, <2>2, <2>2a, <2>3, <2>4, <2>5 DEF TypeOK
<1>2. TypeOK /\ [Next]_vars => TypeOK'
  <2> SUFFICES ASSUME TypeOK, [Next]_vars
               PROVE  TypeOK'
    OBVIOUS
  <2> USE DEF wallet, market, gates, actors, past, spent
  <2>1. ASSUME NEW t \in Threads, OpenCheck(t)
        PROVE  TypeOK'
    <3>1. ActorType'
      BY <2>1, LifecycleConstants DEF OpenCheck, ActorType, Goto, Steps, TypeOK
    <3>2. SpentType'
      BY <2>1, LifecycleConstants DEF OpenCheck, SpentType, TypeOK
    <3>3. WalletType' /\ MarketType' /\ GateType' /\ PassType'
      BY <2>1 DEF OpenCheck, TypeOK, WalletType, MarketType, GateType, PassType,
         Orders, Passes
    <3>4. QED
      BY <3>1, <3>2, <3>3 DEF TypeOK
  <2>2. ASSUME NEW t \in Threads, OpenFill(t)
        PROVE  TypeOK'
    <3>1. MarketOrder(t, "openbook") /\ "openbook" \in Steps
      BY <2>2 DEF OpenFill, Steps
    <3>2. MarketType'
      BY <2>2, <3>1, OrderTyped DEF OpenFill, MarketType, Orders, TypeOK
    <3>3. ActorType'
      BY <2>2, <3>1, OrderTyped DEF OpenFill, ActorType, TypeOK
    <3>4. SpentType'
      BY <2>2, <3>1, OrderTyped DEF OpenFill, SpentType, TypeOK
    <3>5. WalletType' /\ GateType' /\ PassType'
      BY <2>2 DEF OpenFill, TypeOK, WalletType, GateType, PassType, Passes
    <3>6. QED
      BY <3>2, <3>3, <3>4, <3>5 DEF TypeOK
  <2>3. ASSUME NEW t \in Threads, CloseFill(t)
        PROVE  TypeOK'
    <3>1. MarketOrder(t, "closebook") /\ "closebook" \in Steps
      BY <2>3 DEF CloseFill, Steps
    <3>2. MarketType'
      BY <2>3, <3>1, OrderTyped DEF CloseFill, MarketType, Orders, TypeOK
    <3>3. ActorType'
      BY <2>3, <3>1, OrderTyped DEF CloseFill, ActorType, TypeOK
    <3>4. SpentType'
      BY <2>3, <3>1, OrderTyped DEF CloseFill, SpentType, TypeOK
    <3>5. WalletType' /\ GateType' /\ PassType'
      BY <2>3 DEF CloseFill, TypeOK, WalletType, GateType, PassType, Passes
    <3>6. QED
      BY <3>2, <3>3, <3>4, <3>5 DEF TypeOK
  <2>4. ASSUME NEW t \in Threads, PartialFill(t)
        PROVE  TypeOK'
    <3>1. MarketOrder(t, "partbook") /\ "partbook" \in Steps
      BY <2>4 DEF PartialFill, Steps
    <3>2. MarketType'
      BY <2>4, <3>1, OrderTyped DEF PartialFill, MarketType, Orders, TypeOK
    <3>3. ActorType'
      BY <2>4, <3>1, OrderTyped DEF PartialFill, ActorType, TypeOK
    <3>4. SpentType'
      BY <2>4, <3>1, OrderTyped DEF PartialFill, SpentType, TypeOK
    <3>5. WalletType' /\ GateType' /\ PassType'
      BY <2>4 DEF PartialFill, TypeOK, WalletType, GateType, PassType, Passes
    <3>6. QED
      BY <3>2, <3>3, <3>4, <3>5 DEF TypeOK
  <2>5. ASSUME NEW t \in Threads, OpenBook(t)
        PROVE  TypeOK'
    <3> DEFINE p == [NoPos EXCEPT !.open = TRUE, !.qty = Lot]
    <3>1. p \in Positions
      <4>1. Lot \in Int
        BY LifecycleConstants
      <4>2. QED
        BY <4>1 DEF NoPos, Positions
    <3>2. CASE EntryDeclined
      <4>1. ActorType'
        BY <2>5, <3>2, LifecycleConstants
           DEF OpenBook, EntryDeclined, TypeOK, ActorType, Goto, Steps
      <4>2. UNCHANGED <<wallet, market, gates, rec, spent>>
        BY <2>5, <3>2 DEF OpenBook, EntryDeclined
      <4>3. QED
        BY <4>1, <4>2 DEF TypeOK, WalletType, MarketType, GateType, PassType,
           SpentType, Orders, Passes
    <3>3. CASE EntryBooked
      <4>1. Protect(p) /\ opens' = opens + 1 /\ exitFailed' = FALSE /\ dropped' = dropped
        BY <3>3 DEF EntryBooked
      <4>2. ProtectTypes
        BY <3>1, <4>1, ProtectTyped
      <4>3. WalletType' /\ MarketType' /\ GateType'
        BY <2>5, <4>1, <4>2 DEF OpenBook, ProtectTypes, TypeOK, WalletType,
           MarketType, GateType, Orders
      <4>4. ActorType'
        BY <2>5, <4>1 DEF OpenBook, TypeOK, ActorType, Goto, Steps
      <4>5. PassType' /\ SpentType'
        BY <2>5, <4>2 DEF OpenBook, ProtectTypes, TypeOK, PassType, SpentType,
           MarketType, Passes
      <4>6. QED
        BY <4>3, <4>4, <4>5 DEF TypeOK
    <3>4. QED
      BY <2>5, <3>2, <3>3 DEF OpenBook
  <2>6. ASSUME NEW t \in Threads, NEW hold \in BOOLEAN, CloseCheck(t, hold)
        PROVE  TypeOK'
    <3>1. PICK kept \in SUBSET Legs, readFails \in BOOLEAN :
            /\ CancelLegs(kept)
            /\ Spend(CancelFault(kept) \cup If("read", readFails))
            /\ plan' = [plan EXCEPT ![t] = -Sign(pos.qty) * ExitQuantity(readFails)]
            /\ Goto(t, IF ExitQuantity(readFails) = 0 THEN "closebook" ELSE "closefill")
            /\ blind' = blind \cup If("read", readFails) \cup If("leg", resting' # {})
                             \cup If("overlap", Exiting) \cup If("late", LateExit)
      BY <2>6, Zenon DEF CloseCheck
    <3>2. WalletType' /\ MarketType'
      BY <2>6, <3>1, CancelTyped DEF CloseCheck, TypeOK, WalletType, MarketType, Orders
    <3>3. -Sign(pos.qty) * ExitQuantity(readFails) \in Int
      <4>1. pos.qty \in Int /\ venue \in Int
        BY DEF TypeOK, WalletType, MarketType, Positions
      <4>2. Sign(pos.qty) \in {-1, 0, 1}
        BY <4>1 DEF Sign
      <4>3. ExitQuantity(readFails) \in Int
        BY <4>1 DEF ExitQuantity, Abs, Lesser
      <4>4. QED
        BY <4>2, <4>3
    <3>4. blind' \subseteq Blindness
      BY <3>1 DEF TypeOK, ActorType, If, Blindness
    <3>5. ActorType'
      BY <2>6, <3>1, <3>3, <3>4 DEF CloseCheck, TypeOK, ActorType, Goto, Steps
    <3>6. SpentType'
      BY <2>6, <3>1, SpendBounded DEF CloseCheck, TypeOK, SpentType
    <3>7. GateType' /\ PassType'
      BY <2>6 DEF CloseCheck, TypeOK, GateType, PassType, Passes
    <3>8. QED
      BY <3>2, <3>5, <3>6, <3>7 DEF TypeOK
  <2>7. ASSUME NEW t \in Threads, CloseBook(t)
        PROVE  TypeOK'
    <3>1. WalletType'
      BY <2>7 DEF CloseBook, WalletType, Positions, NoPos, TypeOK
    <3>2. ActorType'
      BY <2>7 DEF CloseBook, ActorType, Goto, Unlock, Steps, TypeOK
    <3>3. MarketType' /\ GateType' /\ PassType' /\ SpentType'
      BY <2>7 DEF CloseBook, TypeOK, MarketType, GateType, PassType, SpentType,
         Orders, Passes
    <3>4. QED
      BY <3>1, <3>2, <3>3 DEF TypeOK
  <2>8. ASSUME NEW t \in Threads, NEW hold \in BOOLEAN, PartialCheck(t, hold)
        PROVE  TypeOK'
    <3>1. PICK kept : CancelLegs(kept) /\ Spend(CancelFault(kept))
      BY <2>8 DEF PartialCheck
    <3>2. WalletType' /\ MarketType'
      BY <2>8, <3>1, CancelTyped DEF PartialCheck, TypeOK, WalletType, MarketType, Orders
    <3>3. -Slice(pos.qty) \in Int
      BY SliceTyped DEF TypeOK, WalletType, Positions
    <3>4. blind' \subseteq Blindness
      BY <2>8 DEF PartialCheck, TypeOK, ActorType, If, Blindness
    <3>5. ActorType'
      BY <2>8, <3>3, <3>4 DEF PartialCheck, TypeOK, ActorType, Goto, Steps
    <3>6. SpentType'
      BY <2>8, <3>1, SpendBounded DEF PartialCheck, TypeOK, SpentType
    <3>7. GateType' /\ PassType'
      BY <2>8 DEF PartialCheck, TypeOK, GateType, PassType, Passes
    <3>8. QED
      BY <3>2, <3>5, <3>6, <3>7 DEF TypeOK
  <2>9. ASSUME NEW t \in Threads, PartialBook(t)
        PROVE  TypeOK'
    <3> DEFINE reduced == [pos EXCEPT !.qty = @ - Slice(@)]
    <3>1. reduced \in Positions
      BY ReducedTyped DEF TypeOK, WalletType
    <3>2. ActorType'
      BY <2>9 DEF PartialBook, TypeOK, ActorType, Goto, Unlock, Steps
    <3>3. CASE pos.open /\ restop[t]
      <4>1. Protect(reduced)
        BY <2>9, <3>3 DEF PartialBook
      <4>2. ProtectTypes
        BY <3>1, <4>1, ProtectTyped
      <4>3. WalletType' /\ MarketType' /\ GateType'
        BY <2>9, <4>2 DEF PartialBook, ProtectTypes, TypeOK, WalletType, MarketType,
           GateType, Orders
      <4>4. PassType' /\ SpentType'
        BY <2>9, <4>2 DEF PartialBook, ProtectTypes, TypeOK, PassType, SpentType,
           MarketType, Passes
      <4>5. QED
        BY <3>2, <4>3, <4>4 DEF TypeOK
    <3>4. CASE ~(pos.open /\ restop[t])
      <4>1. pos' \in {reduced, pos} /\ UNCHANGED <<resting, nextId, halt, closes, faults>>
        BY <2>9, <3>4 DEF PartialBook
      <4>2. pos' \in Positions
        BY <3>1, <4>1 DEF TypeOK, WalletType
      <4>3. QED
        BY <2>9, <3>2, <4>1, <4>2 DEF PartialBook, TypeOK, WalletType, MarketType,
           GateType, PassType, SpentType, Orders, Passes
    <3>5. QED
      BY <3>3, <3>4
  <2>10. ASSUME NEW o \in resting, FireProtective(o)
        PROVE  TypeOK'
    <3>1. MarketType'
      <4>1. o \in Orders /\ resting \subseteq Orders /\ venue \in Int /\ nextId \in Nat \ {0}
            /\ notices \subseteq 1 .. nextId - 1 /\ late' \subseteq Strays
        BY <2>10 DEF FireProtective, TypeOK, MarketType
      <4>2. o.id \in 1 .. nextId - 1 /\ o.size \in Int
        BY <4>1 DEF Orders
      <4>2a. nextId' = nextId /\ notices' = notices \cup {o.id}
        BY <2>10 DEF FireProtective
      <4>2b. venue' \in Int
        BY <2>10, <4>1, <4>2 DEF FireProtective
      <4>3. venue' \in Int /\ nextId' = nextId /\ notices' \subseteq 1 .. nextId - 1
        BY <4>1, <4>2, <4>2a, <4>2b
      <4>4. resting' \subseteq Orders /\ Orders' = Orders
        BY <2>10, <4>1, <4>3 DEF FireProtective, Orders
      <4>5. QED
        BY <4>1, <4>3, <4>4 DEF MarketType
    <3>2. SpentType'
      BY <2>10, LifecycleConstants DEF FireProtective, SpentType, TypeOK
    <3>3. WalletType' /\ GateType' /\ ActorType' /\ PassType'
      BY <2>10 DEF FireProtective, TypeOK, WalletType, GateType, ActorType,
         PassType, Passes
    <3>4. QED
      BY <3>1, <3>2, <3>3 DEF TypeOK
  <2>11. ASSUME NEW id \in notices, LoseNotice(id)
        PROVE  TypeOK'
    <3>1. MarketType'
      BY <2>11 DEF LoseNotice, MarketType, Orders, TypeOK
    <3>2. WalletType' /\ GateType' /\ ActorType' /\ PassType' /\ SpentType'
      BY <2>11 DEF LoseNotice, TypeOK, WalletType, GateType, ActorType,
         PassType, SpentType, Passes
    <3>3. QED
      BY <3>1, <3>2 DEF TypeOK
  <2>12. ASSUME NEW id \in notices, StreamFill(id)
        PROVE  TypeOK'
    <3>1. MarketType'
      BY <2>12 DEF StreamFill, MarketType, Orders, TypeOK
    <3>2. ActorType'
      BY <2>12 DEF StreamFill, ActorType, WalletType, TypeOK
    <3>3. WalletType' /\ GateType' /\ PassType' /\ SpentType'
      BY <2>12 DEF StreamFill, TypeOK, WalletType, GateType, PassType,
         SpentType, Passes
    <3>4. QED
      BY <3>1, <3>2, <3>3 DEF TypeOK
  <2>13. ASSUME StreamBook
        PROVE  TypeOK'
    <3>1. WalletType'
      BY <2>13 DEF StreamBook, WalletType, Positions, NoPos, TypeOK
    <3>2. ActorType'
      <4>1. blind' \subseteq Blindness
        BY <2>13 DEF StreamBook, ActorType, TypeOK, If, Blindness
      <4>2. QED
        BY <2>13, <4>1 DEF StreamBook, ActorType, TypeOK
    <3>3. MarketType' /\ GateType' /\ PassType' /\ SpentType'
      BY <2>13 DEF StreamBook, TypeOK, MarketType, GateType, PassType,
         SpentType, Orders, Passes
    <3>4. QED
      BY <3>1, <3>2, <3>3 DEF TypeOK
  <2>14. ASSUME ReadPositions
        PROVE  TypeOK'
    <3>1. PassType'
      BY <2>14 DEF ReadPositions, PassType, Passes, NoRec, MarketType, TypeOK
    <3>2. SpentType'
      BY <2>14, LifecycleConstants DEF ReadPositions, SpentType, TypeOK
    <3>3. WalletType' /\ MarketType' /\ GateType' /\ ActorType'
      BY <2>14 DEF ReadPositions, TypeOK, WalletType, MarketType, GateType,
         ActorType, Orders
    <3>4. QED
      BY <3>1, <3>2, <3>3 DEF TypeOK
  <2>15. ASSUME ReadOrders
        PROVE  TypeOK'
    <3>1. PassType'
      <4>1. Ids(resting) \subseteq 1 .. nextId - 1
        BY DEF Ids, MarketType, Orders, TypeOK
      <4>2. rec \in Passes /\ nextId' = nextId
        BY <2>15 DEF ReadOrders, PassType, TypeOK
      <4>3. rec' = [rec EXCEPT !.at = "positions", !.ids = Ids(resting)]
        BY <2>15 DEF ReadOrders
      <4>4. QED
        BY <4>1, <4>2, <4>3 DEF PassType, Passes
    <3>2. WalletType' /\ MarketType' /\ GateType' /\ ActorType' /\ SpentType'
      BY <2>15 DEF ReadOrders, TypeOK, WalletType, MarketType, GateType,
         ActorType, SpentType, Orders
    <3>3. QED
      BY <3>1, <3>2 DEF TypeOK
  <2>16. ASSUME Report
        PROVE  TypeOK'
    <3>1. PassType'
      BY <2>16 DEF Report, RecNext, PassType, Passes, Ghost, Drift, Missing,
         TypeOK
    <3>2. WalletType' /\ MarketType' /\ GateType' /\ ActorType' /\ SpentType'
      BY <2>16 DEF Report, TypeOK, WalletType, MarketType, GateType, ActorType,
         SpentType, Orders
    <3>3. QED
      BY <3>1, <3>2 DEF TypeOK
  <2>17. ASSUME AlignDrift
        PROVE  TypeOK'
    <3>1. WalletType'
      BY <2>17 DEF AlignDrift, WalletType, PassType, Passes, Positions, Sign,
         Abs, TypeOK
    <3>2. PassType'
      BY <2>17 DEF AlignDrift, RecNext, PassType, Passes, TypeOK
    <3>3. MarketType' /\ GateType' /\ ActorType' /\ SpentType'
      BY <2>17 DEF AlignDrift, TypeOK, MarketType, GateType, ActorType,
         SpentType, Orders
    <3>4. QED
      BY <3>1, <3>2, <3>3 DEF TypeOK
  <2>18. ASSUME Adopt
        PROVE  TypeOK'
    <3> DEFINE p == [NoPos EXCEPT !.open = TRUE, !.qty = rec.qty]
    <3>1. p \in Positions
      BY DEF TypeOK, PassType, Passes, NoPos, Positions
    <3>2. Protect(p) /\ \E bad \in BOOLEAN : RecNext("stops", bad)
      BY <2>18, LifecycleConstants DEF Adopt, Protect
    <3>3. ProtectTypes
      BY <3>1, <3>2, ProtectTyped
    <3>4. WalletType' /\ MarketType' /\ GateType'
      BY <2>18, <3>3 DEF Adopt, ProtectTypes, TypeOK, WalletType, MarketType, GateType,
         Orders
    <3>5. ActorType'
      BY <2>18 DEF Adopt, TypeOK, ActorType
    <3>6. PassType'
      <4>1. nextId \in Nat /\ nextId' \in Nat /\ nextId' >= nextId /\ PassType
        BY <3>3 DEF ProtectTypes, TypeOK, MarketType
      <4>2. PICK bad \in BOOLEAN : RecNext("stops", bad)
        BY <3>2
      <4>3. QED
        BY <4>1, <4>2, NextPass
    <3>7. SpentType'
      BY <2>18, <3>3 DEF Adopt, ProtectTypes, TypeOK, SpentType
    <3>8. QED
      BY <3>4, <3>5, <3>6, <3>7 DEF TypeOK
  <2>19. ASSUME SyncStops
        PROVE  TypeOK'
    <3>1. \/ UNCHANGED <<pos, closes, resting, nextId, halt, faults>>
          \/ Protect(pos)
      BY <2>19 DEF SyncStops, Protect
    <3>2. ProtectTypes
      <4>1. CASE Protect(pos)
        BY <4>1, ProtectTyped DEF TypeOK, WalletType
      <4>2. CASE UNCHANGED <<pos, closes, resting, nextId, halt, faults>>
        <5>1. pos' \in Positions /\ closes' \in Nat /\ faults' \in 0 .. MaxFaults
          BY <4>2 DEF TypeOK, WalletType, SpentType
        <5>2. nextId' \in Nat \ {0} /\ nextId <= nextId' /\ resting' \subseteq Orders'
          BY <4>2 DEF TypeOK, MarketType, Orders
        <5>3. halt' \in BOOLEAN
          BY <4>2, Zenon DEF TypeOK, GateType
        <5>4. QED
          BY <5>1, <5>2, <5>3 DEF ProtectTypes
      <4>3. QED
        BY <3>1, <4>1, <4>2
    <3>3. rec' = NoRec \/ \E bad \in BOOLEAN : RecNext("orphans", bad)
      BY <2>19 DEF SyncStops
    <3>4. WalletType' /\ MarketType' /\ GateType'
      <4>1. UNCHANGED <<opens, venue, notices, live, kill>>
        BY <2>19 DEF SyncStops
      <4>2. WalletType'
        BY <4>1, <3>2 DEF ProtectTypes, TypeOK, WalletType
      <4>3. MarketType'
        <5>1. nextId \in Nat \ {0} /\ nextId' \in Nat /\ nextId' >= nextId
          BY <3>2 DEF ProtectTypes, TypeOK, MarketType
        <5>2. notices' \subseteq 1 .. nextId' - 1
          BY <4>1, <5>1, IdsGrow DEF TypeOK, MarketType
        <5>3. resting' \subseteq Orders'
          BY <3>2 DEF ProtectTypes
        <5>4. venue' \in Int /\ late' \subseteq Strays
          BY <2>19 DEF SyncStops, TypeOK, MarketType
        <5>5. nextId' \in Nat \ {0}
          BY <5>1
        <5>6. QED
          BY <5>2, <5>3, <5>4, <5>5 DEF MarketType
      <4>4. GateType'
        BY <4>1, <3>2, Zenon DEF ProtectTypes, TypeOK, GateType
      <4>5. QED
        BY <4>2, <4>3, <4>4
    <3>5. ActorType'
      BY <2>19 DEF SyncStops, TypeOK, ActorType
    <3>6. PassType'
      <4>1. CASE rec' = NoRec
        BY <4>1 DEF PassType, Passes, NoRec
      <4>2. CASE \E bad \in BOOLEAN : RecNext("orphans", bad)
        <5>1. nextId \in Nat /\ nextId' \in Nat /\ nextId' >= nextId /\ PassType
          BY <3>2 DEF ProtectTypes, TypeOK, MarketType
        <5>2. PICK bad \in BOOLEAN : RecNext("orphans", bad)
          BY <4>2
        <5>3. QED
          BY <5>1, <5>2, NextPass
      <4>3. QED
        BY <3>3, <4>1, <4>2
    <3>7. SpentType'
      BY <2>19, <3>2 DEF SyncStops, ProtectTypes, TypeOK, SpentType
    <3>8. QED
      BY <3>4, <3>5, <3>6, <3>7 DEF TypeOK
  <2>20. ASSUME Conclude
        PROVE  TypeOK'
    <3>1. PICK kept \in SUBSET resting :
            /\ Spend(CancelFault(kept))
            /\ resting' \subseteq resting \cup kept
      BY <2>20 DEF Conclude
    <3>2. kill' \in BOOLEAN /\ live' \in BOOLEAN
      BY <2>20, Zenon DEF Conclude, TypeOK, GateType
    <3>3. MarketType'
      BY <2>20, <3>1 DEF Conclude, TypeOK, MarketType, Orders
    <3>4. GateType'
      BY <2>20, <3>2 DEF Conclude, TypeOK, GateType
    <3>5. PassType'
      BY <2>20 DEF Conclude, PassType, Passes, NoRec
    <3>6. SpentType'
      BY <2>20, <3>1, SpendBounded DEF Conclude, TypeOK, SpentType
    <3>7. WalletType' /\ ActorType'
      BY <2>20 DEF Conclude, TypeOK, WalletType, ActorType
    <3>8. QED
      BY <3>3, <3>4, <3>5, <3>6, <3>7 DEF TypeOK
  <2>21. ASSUME Crash
        PROVE  TypeOK'
    <3>1. MarketType'
      <4>1. late' \subseteq Strays
        BY <2>21, InFlightTyped DEF Crash, MarketType, TypeOK
      <4>2. QED
        BY <2>21, <4>1 DEF Crash, MarketType, Orders, TypeOK
    <3>2. GateType'
      BY <2>21 DEF Crash, GateType, TypeOK
    <3>3. ActorType'
      <4>1. pc' \in [Threads -> Steps] /\ plan' \in [Threads -> Int]
            /\ restop' \in [Threads -> BOOLEAN]
        BY <2>21 DEF Crash, Steps
      <4>2. lock' \in Threads \cup {Free} /\ strm' \in Nat /\ blind' \subseteq Blindness
            /\ dropped' \in Nat
        BY <2>21 DEF Crash, TypeOK, ActorType
      <4>3. exitFailed' \in BOOLEAN
        BY <2>21, Zenon DEF Crash
      <4>4. QED
        BY <4>1, <4>2, <4>3 DEF ActorType
    <3>4. PassType'
      BY <2>21 DEF Crash, PassType, Passes, NoRec, TypeOK
    <3>5. SpentType'
      BY <2>21, LifecycleConstants DEF Crash, SpentType, TypeOK
    <3>6. WalletType'
      BY <2>21 DEF Crash, TypeOK, WalletType
    <3>7. QED
      BY <3>1, <3>2, <3>3, <3>4, <3>5, <3>6 DEF TypeOK
  <2>21a. ASSUME NEW o \in late, SettleLate(o)
          PROVE  TypeOK'
    <3>1. o.size \in Int /\ venue \in Int
      BY DEF TypeOK, MarketType, Strays
    <3>2. MarketType'
      BY <2>21a, <3>1 DEF SettleLate, MarketType, Orders, TypeOK
    <3>3. WalletType' /\ GateType' /\ ActorType' /\ PassType' /\ SpentType'
      BY <2>21a DEF SettleLate, TypeOK, WalletType, GateType, ActorType, PassType,
         SpentType, Passes
    <3>4. QED
      BY <3>2, <3>3 DEF TypeOK
  <2>22. CASE UNCHANGED vars
    BY <2>22 DEF vars, TypeOK, WalletType, MarketType, GateType, ActorType, PassType,
       SpentType, Orders, Passes
  <2>23. QED
    BY <2>1, <2>2, <2>3, <2>4, <2>5, <2>6, <2>7, <2>8, <2>9, <2>10, <2>11,
       <2>12, <2>13, <2>14, <2>15, <2>16, <2>17, <2>18, <2>19, <2>20, <2>21,
       <2>21a, <2>22 DEF Next, Thread, Reconcile
<1>3. QED
  BY <1>1, <1>2, PTL DEF Spec

-----------------------------------------------------------------------------

(* The books for any number of threads, faults, fires, passes and crashes: *)
(* a position is booked closed exactly once for every time one is booked   *)
(* open, and never while another is open -- although close_position, the   *)
(* user stream, the emergency exit and the Reconciler decide on their own. *)
THEOREM BooksBalance == Spec => []ClosedOncePerOpen
<1>1. Init => ClosedOncePerOpen
  BY DEF Init, ClosedOncePerOpen, NoPos
<1>2. TypeOK /\ ClosedOncePerOpen /\ [Next]_vars => ClosedOncePerOpen'
  <2> SUFFICES ASSUME TypeOK, ClosedOncePerOpen, [Next]_vars
               PROVE  ClosedOncePerOpen'
    OBVIOUS
  <2> USE DEF wallet, market, gates, actors, past, spent, ClosedOncePerOpen
  <2>a. opens \in Nat /\ closes \in Nat /\ pos \in Positions /\ NoPos.open = FALSE
    BY DEF TypeOK, WalletType, NoPos
  <2>b. ASSUME NEW p \in Positions, Protect(p), pos.open, p.open, opens' = opens
        PROVE  ClosedOncePerOpen'
    BY <2>a, <2>b, ProtectKeepsOrCloses DEF KeepsOrCloses
  <2>c. ASSUME NEW p \in Positions, Protect(p), ~pos.open, p.open, opens' = opens + 1
        PROVE  ClosedOncePerOpen'
    BY <2>a, <2>c, ProtectKeepsOrCloses DEF KeepsOrCloses
  <2>d. ASSUME pos' = NoPos, closes' = (IF pos.open THEN closes + 1 ELSE closes),
               opens' = opens
        PROVE  ClosedOncePerOpen'
    BY <2>a, <2>d
  <2>e. ASSUME pos'.open = pos.open, UNCHANGED <<opens, closes>>
        PROVE  ClosedOncePerOpen'
    BY <2>e
  <2>1. ASSUME NEW t \in Threads, OpenBook(t)
        PROVE  ClosedOncePerOpen'
    <3> DEFINE p == [NoPos EXCEPT !.open = TRUE, !.qty = Lot]
    <3>1. p \in Positions /\ p.open
      <4>1. Lot \in Int
        BY LifecycleConstants
      <4>2. QED
        BY <4>1 DEF NoPos, Positions
    <3>2. CASE EntryDeclined
      BY <3>2 DEF EntryDeclined
    <3>3. CASE EntryBooked
      <4>1. Protect(p) /\ opens' = opens + 1 /\ ~pos.open
        BY <3>3 DEF EntryBooked
      <4>2. QED
        BY <2>c, <3>1, <4>1
    <3>4. QED
      BY <2>1, <3>2, <3>3 DEF OpenBook
  <2>2. ASSUME NEW t \in Threads, NEW hold \in BOOLEAN,
               CloseCheck(t, hold) \/ PartialCheck(t, hold)
        PROVE  ClosedOncePerOpen'
    <3>1. PICK kept : CancelLegs(kept)
      BY <2>2 DEF CloseCheck, PartialCheck
    <3>2. UNCHANGED <<opens, closes>>
      BY <2>2 DEF CloseCheck, PartialCheck
    <3>3. QED
      BY <2>e, <3>1, <3>2, CancelTyped
  <2>3. ASSUME NEW t \in Threads, CloseBook(t)
        PROVE  ClosedOncePerOpen'
    BY <2>3, <2>d DEF CloseBook
  <2>4. ASSUME NEW t \in Threads, PartialBook(t)
        PROVE  ClosedOncePerOpen'
    <3> DEFINE reduced == [pos EXCEPT !.qty = @ - Slice(@)]
    <3>1. reduced \in Positions /\ reduced.open = pos.open
      BY <2>a, ReducedTyped
    <3>2. CASE pos.open /\ restop[t]
      <4>1. Protect(reduced) /\ opens' = opens
        BY <2>4, <3>2 DEF PartialBook
      <4>2. QED
        BY <2>b, <3>1, <3>2, <4>1
    <3>3. CASE ~(pos.open /\ restop[t])
      <4>1. pos' \in {reduced, pos} /\ UNCHANGED <<opens, closes>>
        BY <2>4, <3>3 DEF PartialBook
      <4>2. QED
        BY <2>e, <3>1, <4>1
    <3>4. QED
      BY <3>2, <3>3
  <2>5. ASSUME StreamBook
        PROVE  ClosedOncePerOpen'
    BY <2>5, <2>d DEF StreamBook
  <2>6. ASSUME AlignDrift
        PROVE  ClosedOncePerOpen'
    BY <2>6, <2>a, <2>e DEF AlignDrift, Positions
  <2>7. ASSUME Adopt
        PROVE  ClosedOncePerOpen'
    <3> DEFINE p == [NoPos EXCEPT !.open = TRUE, !.qty = rec.qty]
    <3>1. p \in Positions /\ p.open
      BY DEF TypeOK, PassType, Passes, NoPos, Positions
    <3>2. Protect(p) /\ opens' = opens + 1 /\ ~pos.open
      BY <2>7 DEF Adopt, Protect, Missing
    <3>3. QED
      BY <2>c, <3>1, <3>2
  <2>8. ASSUME SyncStops
        PROVE  ClosedOncePerOpen'
    <3>1. CASE ~StopGone
      BY <2>8, <3>1, <2>e DEF SyncStops
    <3>2. CASE StopGone
      <4>1. Protect(pos) /\ opens' = opens /\ pos.open
        BY <2>8, <3>2 DEF SyncStops, Protect, StopGone
      <4>2. QED
        BY <2>a, <2>b, <4>1
    <3>3. QED
      BY <3>1, <3>2
  <2>9. ASSUME \/ \E t \in Threads : \/ OpenCheck(t) \/ OpenFill(t) \/ CloseFill(t)
                                     \/ PartialFill(t)
               \/ \E o \in late : SettleLate(o)
               \/ \E o \in resting : FireProtective(o)
               \/ \E id \in notices : LoseNotice(id) \/ StreamFill(id)
               \/ ReadPositions \/ ReadOrders \/ Report \/ Conclude \/ Crash
               \/ UNCHANGED vars
        PROVE  ClosedOncePerOpen'
    <3>1. UNCHANGED wallet
      BY <2>9 DEF OpenCheck, OpenFill, CloseFill, PartialFill, SettleLate, FireProtective,
         LoseNotice, StreamFill, ReadPositions, ReadOrders, Report, Conclude, Crash, vars
    <3>2. QED
      BY <2>e, <3>1
  <2>10. QED
    BY <2>1, <2>2, <2>3, <2>4, <2>5, <2>6, <2>7, <2>8, <2>9 DEF Next, Thread, Reconcile
<1>3. QED
  BY <1>1, <1>2, TypeCorrect, PTL DEF Spec
-----------------------------------------------------------------------------
(* What the properties below need of the steps they share.                 *)

(* A position whose protective orders were placed keeps its quantity, and  *)
(* its stop rests.                                                         *)
LEMMA Placed ==
  ASSUME TypeOK, NEW p \in Positions, ProtectPlaced(p)
  PROVE  /\ pos'.open = p.open /\ pos'.qty = p.qty /\ pos'.sl = nextId
         /\ nextId \in Ids(resting') /\ halt' = halt /\ live
<1> DEFINE j == IF VenueTP THEN nextId + 1 ELSE p.tp
           o == [id |-> nextId, size |-> -p.qty]
<1>1. pos' = [p EXCEPT !.sl = nextId, !.tp = j]
  BY DEF ProtectPlaced
<1>2. o \in resting' /\ o.id = nextId
  BY DEF ProtectPlaced
<1> HIDE DEF j, o
<1>3. pos'.open = p.open /\ pos'.qty = p.qty /\ pos'.sl = nextId
  BY <1>1 DEF Positions
<1>4. nextId \in Ids(resting')
  BY <1>2 DEF Ids
<1> QED
  BY <1>3, <1>4 DEF ProtectPlaced

(* A step that spends no fault makes no call fail.                         *)
LEMMA NothingSpent ==
  ASSUME faults \in Nat, NEW kinds, Spend(kinds)
  PROVE  faults' >= faults /\ (faults' = faults => kinds = {})
<1>1. IsFiniteSet(kinds)
  BY FaultKindsFinite, FS_Subset DEF Spend
<1>2. Cardinality(kinds) \in Nat /\ (Cardinality(kinds) = 0 <=> kinds = {})
  BY <1>1, FS_EmptySet, FS_CardinalityType
<1> QED
  BY <1>2 DEF Spend

(* Cancelled legs are off the venue and off the wallet's books.            *)
LEMMA Cancelled ==
  ASSUME TypeOK, NEW kept, CancelLegs(kept)
  PROVE  /\ pos'.open = pos.open /\ pos'.qty = pos.qty /\ pos'.sl = 0
         /\ resting' \subseteq resting
<1>1. pos' = [pos EXCEPT !.sl = 0, !.tp = 0] /\ pos \in Positions
  BY DEF CancelLegs, TypeOK, WalletType
<1>2. pos'.open = pos.open /\ pos'.qty = pos.qty /\ pos'.sl = 0
  BY <1>1 DEF Positions
<1> QED
  BY <1>2 DEF CancelLegs, Legs

-----------------------------------------------------------------------------
(* NoFlip: the exit that read the venue and ran alone.                     *)

Closing == {"closefill", "closebook"}
Slicing == {"partfill", "partbook"}

(* A close on its way, or given up and perhaps still to fill, is covered by*)
(* the venue's quantity, and nothing can take that away: no protective     *)
(* order rests, none is placed for a position without a stop, and no other *)
(* exit runs.                                                              *)
Covered(size) == pos.open /\ pos.sl = 0 /\ resting = {} /\ venue + size >= 0
StaysCovered(size) == pos'.open /\ pos'.sl = 0 /\ resting' = {} /\ venue' + size >= 0

OneExit ==
  /\ venue >= 0
  /\ \A t \in Threads : pc[t] \notin Slicing
  /\ \A t \in Threads : pc[t] = "openfill" => plan[t] >= 0
  /\ \A t, u \in Threads : pc[t] \in Closing /\ pc[u] \in Closing => t = u
  /\ \A t \in Threads : pc[t] = "closefill" => Covered(plan[t])
  /\ \A o \in late : IF o.exit THEN Covered(o.size) ELSE o.size >= 0
  /\ \A o, q \in late : o.exit /\ q.exit => o = q
  /\ LateExit => \A t \in Threads : pc[t] \notin Closing

FlipInv == PositionAttached /\ blind = {} => OneExit

(* The history of how exits were sized only grows.                         *)
LEMMA BlindGrows ==
  ASSUME [Next]_vars
  PROVE  blind \subseteq blind'
<1> USE DEF wallet, market, gates, actors, past, spent
<1>1. ASSUME NEW t \in Threads, Thread(t) PROVE blind \subseteq blind'
  BY <1>1 DEF Thread, OpenCheck, OpenFill, OpenBook, CloseCheck, PartialCheck,
     CloseFill, CloseBook, PartialFill, PartialBook
<1>2. CASE \/ \E o \in late : SettleLate(o)
           \/ \E o \in resting : FireProtective(o)
           \/ \E id \in notices : LoseNotice(id) \/ StreamFill(id)
           \/ StreamBook \/ Crash \/ UNCHANGED vars
  BY <1>2 DEF SettleLate, FireProtective, LoseNotice, StreamFill, StreamBook, Crash, vars
<1>3. CASE Reconcile
  BY <1>3 DEF Reconcile, ReadPositions, ReadOrders, Report, AlignDrift, Adopt,
     SyncStops, Conclude
<1> QED
  BY <1>1, <1>2, <1>3 DEF Next

(* Steps that send no order: threads stay or end, and what covers a close  *)
(* stays.                                                                  *)
LEMMA FlipBeside ==
  ASSUME OneExit, plan' = plan, venue' = venue, late' = late,
         \A t \in Threads : pc'[t] \in {pc[t], "idle"},
         pos.open /\ pos.sl = 0
           => pos'.open /\ pos'.sl = 0 /\ resting' \subseteq resting
  PROVE  OneExit'
<1>1. \A t \in Threads : pc'[t] \in Closing => pc[t] \in Closing
  BY DEF Closing
<1>2. ASSUME NEW n, Covered(n) PROVE Covered(n)'
  BY <1>2 DEF Covered
<1>3. \A t \in Threads : pc'[t] = "closefill" => Covered(plan[t])'
  BY <1>2 DEF OneExit
<1>4. \A o \in late : IF o.exit THEN Covered(o.size)' ELSE o.size >= 0
  BY <1>2 DEF OneExit
<1> QED
  BY <1>1, <1>3, <1>4 DEF OneExit, Slicing, LateExit

LEMMA BuysKeepAbove == \A v, w, n \in Int : w >= v /\ v + n >= 0 => w + n >= 0
OBVIOUS

(* An entry that fills, is given up or does not fill adds to the venue's   *)
(* quantity, if not now then later.                                        *)
LEMMA FlipOpenFill ==
  ASSUME TypeOK, OneExit, NEW t \in Threads, OpenFill(t)
  PROVE  OneExit'
<1>1. /\ plan[t] >= 0 /\ venue \in Int /\ plan[t] \in Int /\ late \subseteq Strays
      /\ \A u \in Threads : plan[u] \in Int
  BY DEF OneExit, OpenFill, TypeOK, MarketType, ActorType
<1>2. venue' \in {venue, venue + plan[t]} /\ venue >= 0
  BY DEF OpenFill, MarketOrder, OneExit
<1>3. /\ pc'[t] \in {"idle", "openbook"}
      /\ \A u \in Threads \ {t} : pc'[u] = pc[u] /\ plan'[u] = plan[u]
  BY DEF OpenFill, MarketOrder, Goto, TypeOK, ActorType
<1>4. UNCHANGED <<pos, resting>>
  BY DEF OpenFill, wallet
<1>5. late' \subseteq late \cup {InFlight(t)} /\ ~InFlight(t).exit /\ InFlight(t).size >= 0
  BY <1>1 DEF OpenFill, MarketOrder, InFlight
<1>6. ASSUME NEW n \in Int, Covered(n) PROVE StaysCovered(n)
  <2>1. venue' >= venue /\ venue' \in Int
    BY <1>1, <1>2
  <2>2. venue + n >= 0
    BY <1>6 DEF Covered
  <2>3. venue' + n >= 0
    BY <1>1, <1>6, <2>1, <2>2, BuysKeepAbove, Zenon
  <2> QED
    BY <1>4, <1>6, <2>3 DEF Covered, StaysCovered
<1>7. ASSUME NEW u \in Threads, pc'[u] = "closefill" PROVE Covered(plan[u])'
  <2>1. u # t /\ Covered(plan[u]) /\ plan'[u] = plan[u]
    BY <1>3, <1>7 DEF OneExit
  <2>2. StaysCovered(plan[u])
    BY <1>1, <1>6, <2>1
  <2> QED
    BY <2>1, <2>2 DEF Covered, StaysCovered
<1>8. venue' >= 0
  BY <1>1, <1>2
<1>9. \A u \in Threads : pc'[u] \notin Slicing /\ (pc'[u] = "openfill" => plan'[u] >= 0)
  BY <1>3 DEF OneExit, Slicing
<1>10. \A u \in Threads : pc'[u] \in Closing => u # t /\ pc[u] \in Closing
  BY <1>3 DEF Closing
<1>11. \A o \in late' : IF o.exit THEN Covered(o.size)' ELSE o.size >= 0
  <2>1. \A o \in late : o.size \in Int
    BY <1>1 DEF Strays
  <2>2. \A o \in late' : IF o.exit THEN StaysCovered(o.size) ELSE o.size >= 0
    BY <1>5, <1>6, <2>1 DEF OneExit
  <2> QED
    BY <2>2 DEF Covered, StaysCovered
<1>12. \A o \in late' : o.exit => o \in late
  BY <1>5
<1> QED
  BY <1>7, <1>8, <1>9, <1>10, <1>11, <1>12 DEF OneExit, LateExit

(* The covered close leaves the venue flat or LONG, and one given up stays *)
(* covered.                                                                *)
LEMMA FlipCloseFill ==
  ASSUME TypeOK, OneExit, NEW t \in Threads, CloseFill(t)
  PROVE  OneExit'
<1>1. Covered(plan[t]) /\ pc[t] = "closefill" /\ venue \in Int /\ plan[t] \in Int
  BY DEF OneExit, CloseFill, TypeOK, MarketType, ActorType
<1>2. ~LateExit
  BY <1>1 DEF OneExit, Closing
<1>3. /\ pc'[t] \in {"idle", "closebook"}
      /\ \A u \in Threads \ {t} : pc'[u] = pc[u] /\ plan'[u] = plan[u]
  BY DEF CloseFill, MarketOrder, Goto, TypeOK, ActorType
<1>4. \A u \in Threads \ {t} : pc[u] \notin Closing
  BY <1>1 DEF OneExit, Closing
<1>5. \A u \in Threads : pc'[u] \in Closing => u = t
  BY <1>3, <1>4
<1>6. \A u \in Threads : pc'[u] # "closefill"
  BY <1>3, <1>4 DEF Closing
<1>7. \A u \in Threads : pc'[u] \notin Slicing /\ (pc'[u] = "openfill" => plan'[u] >= 0)
  BY <1>3 DEF OneExit, Slicing
<1>8. CASE late' = late /\ venue' \in {venue, venue + plan[t]}
  <2>1. venue' >= 0
    BY <1>1, <1>8 DEF OneExit, Covered
  <2>2. ~LateExit' /\ \A o \in late' : ~o.exit /\ o.size >= 0
    BY <1>2, <1>8 DEF LateExit, OneExit
  <2> QED
    BY <1>5, <1>6, <1>7, <2>1, <2>2 DEF OneExit
<1>9. CASE late' = late \cup {InFlight(t)} /\ venue' = venue /\ pc'[t] = "idle"
  <2>1. InFlight(t).exit /\ InFlight(t).size = plan[t] /\ StaysCovered(plan[t])
    <3>1. UNCHANGED <<pos, resting>>
      BY DEF CloseFill, wallet
    <3> QED
      BY <1>1, <1>9, <3>1 DEF InFlight, Covered, StaysCovered
  <2>2. \A o \in late : ~o.exit /\ o.size >= 0
    BY <1>2 DEF LateExit, OneExit
  <2>3. \A o \in late' : IF o.exit THEN Covered(o.size)' ELSE o.size >= 0
    BY <1>9, <2>1, <2>2 DEF Covered, StaysCovered
  <2>4. \A o, q \in late' : o.exit /\ q.exit => o = q
    BY <1>9, <2>2
  <2>5. \A u \in Threads : pc'[u] \notin Closing
    BY <1>3, <1>4, <1>9 DEF Closing
  <2> QED
    BY <1>6, <1>7, <1>9, <2>3, <2>4, <2>5 DEF OneExit
<1> QED
  BY <1>8, <1>9 DEF CloseFill, MarketOrder, Goto, TypeOK, ActorType

(* A close is clamped to what the venue holds, and is the only exit.       *)
LEMMA FlipCloseCheck ==
  ASSUME TypeOK, OneExit, NEW t \in Threads, NEW hold \in BOOLEAN,
         CloseCheck(t, hold), blind' = {}
  PROVE  OneExit'
<1>1. PICK kept \in SUBSET Legs, readFails \in BOOLEAN :
        /\ CancelLegs(kept)
        /\ plan' = [plan EXCEPT ![t] = -Sign(pos.qty) * ExitQuantity(readFails)]
        /\ Goto(t, IF ExitQuantity(readFails) = 0 THEN "closebook" ELSE "closefill")
        /\ blind' = blind \cup If("read", readFails) \cup If("leg", resting' # {})
                         \cup If("overlap", Exiting) \cup If("late", LateExit)
  BY Zenon DEF CloseCheck
<1>2. ~readFails /\ resting' = {} /\ ~Exiting /\ ~LateExit
  BY <1>1 DEF If
<1>3. \A u \in Threads : pc[u] \notin Closing \cup Slicing
  BY <1>2 DEF Exiting, Closing, Slicing
<1>4. /\ pc'[t] \in Closing
      /\ \A u \in Threads \ {t} : pc'[u] = pc[u] /\ plan'[u] = plan[u]
  BY <1>1 DEF Goto, Closing, TypeOK, ActorType
<1>5. pos'.open /\ pos'.sl = 0 /\ venue' = venue /\ late' = late
  BY <1>1, Cancelled DEF CloseCheck
<1>6. venue + plan'[t] >= 0
  <2>1. pos.qty \in Int /\ venue \in Int /\ venue >= 0
    BY DEF TypeOK, WalletType, MarketType, Positions, OneExit
  <2>2. plan'[t] = -Sign(pos.qty) * ExitQuantity(FALSE)
    BY <1>1, <1>2 DEF TypeOK, ActorType
  <2>3. ExitQuantity(FALSE) \in 0 .. venue
    BY <2>1 DEF ExitQuantity, Abs, Lesser
  <2>4. Sign(pos.qty) \in {-1, 0, 1}
    BY <2>1 DEF Sign
  <2>5. ASSUME NEW q \in 0 .. venue, NEW s \in {-1, 0, 1} PROVE venue + (-s * q) >= 0
    BY <2>1
  <2> QED
    BY <2>2, <2>3, <2>4, <2>5
<1>7. ASSUME NEW u \in Threads, pc'[u] = "closefill" PROVE Covered(plan[u])'
  <2>1. u = t
    BY <1>3, <1>4, <1>7 DEF Closing
  <2> QED
    BY <1>2, <1>5, <1>6, <2>1 DEF Covered
<1>8. \A u \in Threads : pc'[u] \notin Slicing /\ (pc'[u] = "openfill" => plan'[u] >= 0)
  BY <1>3, <1>4 DEF OneExit, Closing, Slicing
<1>9. \A u \in Threads : pc'[u] \in Closing => u = t
  BY <1>3, <1>4
<1>10. ~LateExit' /\ \A o \in late' : ~o.exit /\ o.size >= 0
  BY <1>2, <1>5 DEF LateExit, OneExit
<1> QED
  BY <1>5, <1>7, <1>8, <1>9, <1>10 DEF OneExit

(* A booking ends its thread's operation; a position that was open is not  *)
(* booked over, and the close that ends is the only one.                   *)
LEMMA FlipBook ==
  ASSUME TypeOK, OneExit, NEW t \in Threads, OpenBook(t) \/ CloseBook(t)
  PROVE  OneExit'
<1>1. /\ plan' = plan /\ venue' = venue /\ late' = late
      /\ pc'[t] = "idle" /\ \A u \in Threads \ {t} : pc'[u] = pc[u]
  BY DEF OpenBook, CloseBook, Goto, market, TypeOK, ActorType
<1>2. CASE OpenBook(t)
  <2>1. pos.open => UNCHANGED <<pos, resting>>
    BY <1>2 DEF OpenBook, EntryDeclined, EntryBooked, wallet
  <2> QED
    BY <1>1, <2>1, FlipBeside
<1>3. CASE CloseBook(t)
  <2>1. \A u \in Threads : pc'[u] \notin Closing
    BY <1>1, <1>3 DEF CloseBook, OneExit, Closing
  <2>2. \A u \in Threads : pc'[u] # "closefill"
    BY <2>1 DEF Closing
  <2>3. ~LateExit' /\ \A o \in late' : ~o.exit /\ o.size >= 0
    BY <1>1, <1>3 DEF CloseBook, OneExit, LateExit, Closing
  <2> QED
    BY <1>1, <2>1, <2>2, <2>3 DEF OneExit, Slicing
<1> QED
  BY <1>2, <1>3

(* The stream books a close only where no exit is under way; a protective  *)
(* order that fires flattens, and none rests beside a close; an order that *)
(* fills late is covered; a process that dies leaves one exit at most.     *)
LEMMA FlipVenue ==
  ASSUME TypeOK, OneExit, PositionAttached, blind' = {},
         \/ \E o \in late : SettleLate(o)
         \/ \E o \in resting : FireProtective(o)
         \/ \E id \in notices : LoseNotice(id) \/ StreamFill(id)
         \/ StreamBook \/ Crash \/ UNCHANGED vars
  PROVE  OneExit'
<1> USE DEF wallet, market, gates, actors, past, spent
<1>0. ASSUME NEW o \in late, SettleLate(o) PROVE OneExit'
  <2>1. /\ UNCHANGED <<pos, resting, pc, plan>>
        /\ late' = late \ {o} /\ venue' \in {venue, venue + o.size}
    BY <1>0 DEF SettleLate
  <2>2. /\ venue \in Int /\ o.size \in Int
        /\ \A q \in late : q.size \in Int
        /\ \A t \in Threads : plan[t] \in Int
    BY DEF TypeOK, MarketType, ActorType, Strays
  <2>3. CASE o.exit
    <3>1. venue' >= 0
      BY <2>1, <2>2, <2>3 DEF OneExit, Covered
    <3>2. \A t \in Threads : pc[t] \notin Closing
      BY <2>3 DEF OneExit, LateExit
    <3>3. \A q \in late' : ~q.exit /\ q.size >= 0
      BY <2>1, <2>3 DEF OneExit
    <3> QED
      BY <2>1, <3>1, <3>2, <3>3 DEF OneExit, LateExit, Closing
  <2>4. CASE ~o.exit
    <3>1. o.size >= 0 /\ venue' >= venue /\ venue' >= 0
      BY <2>1, <2>2, <2>4 DEF OneExit
    <3>2. ASSUME NEW n \in Int, Covered(n) PROVE StaysCovered(n)
      <4>1. venue + n >= 0
        BY <3>2 DEF Covered
      <4>2. venue' \in Int
        BY <2>1, <2>2
      <4>3. venue' + n >= 0
        BY <2>1, <2>2, <3>1, <3>2, <4>1, <4>2, BuysKeepAbove, Zenon
      <4> QED
        BY <2>1, <3>2, <4>3 DEF Covered, StaysCovered
    <3>3. \A t \in Threads : pc[t] = "closefill" => StaysCovered(plan[t])
      BY <2>2, <3>2 DEF OneExit
    <3>4. \A q \in late' : IF q.exit THEN StaysCovered(q.size) ELSE q.size >= 0
      BY <2>1, <2>2, <3>2 DEF OneExit
    <3> QED
      BY <2>1, <3>1, <3>3, <3>4 DEF OneExit, LateExit, Covered, StaysCovered
  <2> QED
    BY <2>3, <2>4
<1>1. CASE \E o \in resting : FireProtective(o)
  <2>1. /\ venue' = 0 /\ resting # {}
        /\ UNCHANGED <<pos, late, pc, plan>>
    BY <1>1 DEF FireProtective
  <2>2. \A t \in Threads : pc[t] # "closefill"
    BY <2>1 DEF OneExit, Covered
  <2>3. \A o \in late : ~o.exit /\ o.size >= 0
    BY <2>1 DEF OneExit, Covered
  <2> QED
    BY <2>1, <2>2, <2>3 DEF OneExit, LateExit
<1>2. CASE \/ \E id \in notices : LoseNotice(id) \/ StreamFill(id)
           \/ UNCHANGED vars
  <2>1. UNCHANGED <<pos, venue, late, resting, pc, plan>>
    BY <1>2 DEF LoseNotice, StreamFill, vars
  <2> QED
    BY <2>1, FlipBeside
<1>3. CASE StreamBook
  <2>1. UNCHANGED <<venue, late, resting, pc, plan>>
    BY <1>3 DEF StreamBook
  <2>2. ~(pos.open /\ Exiting) /\ ~(pos.open /\ LateExit)
    BY <1>3 DEF StreamBook, If
  <2>3. \A t \in Threads : pc[t] # "closefill"
    BY <2>2 DEF Exiting, OneExit, Covered
  <2>4. \A o \in late : ~o.exit /\ o.size >= 0
    BY <2>2 DEF LateExit, OneExit, Covered
  <2> QED
    BY <2>1, <2>3, <2>4 DEF OneExit, LateExit
<1>4. CASE Crash
  <2>1. PICK sent \in SUBSET {t \in Threads : pc[t] \in Filling} :
          late' = late \cup {InFlight(t) : t \in sent}
    BY <1>4 DEF Crash
  <2>2. /\ UNCHANGED <<pos, venue, resting>>
        /\ \A t \in Threads : pc'[t] = "idle"
    BY <1>4 DEF Crash
  <2>3. ASSUME NEW n, Covered(n) PROVE StaysCovered(n)
    BY <2>2, <2>3 DEF Covered, StaysCovered
  <2>4. ASSUME NEW t \in sent
        PROVE  /\ InFlight(t).size = plan[t] /\ t \in Threads
               /\ IF InFlight(t).exit THEN pc[t] = "closefill" ELSE pc[t] = "openfill"
    BY DEF InFlight, OneExit, Filling, Slicing
  <2>5. \A t \in sent : IF InFlight(t).exit THEN StaysCovered(InFlight(t).size)
                                            ELSE InFlight(t).size >= 0
    BY <2>3, <2>4 DEF OneExit
  <2>6. \A o \in late' : IF o.exit THEN StaysCovered(o.size) ELSE o.size >= 0
    BY <2>1, <2>3, <2>5 DEF OneExit
  <2>7. \A t \in sent : InFlight(t).exit => ~LateExit
    BY <2>4 DEF OneExit, Closing
  <2>8. \A t, u \in sent : InFlight(t).exit /\ InFlight(u).exit => t = u
    BY <2>4 DEF OneExit, Closing
  <2>9. \A o, q \in late' : o.exit /\ q.exit => o = q
    BY <2>1, <2>7, <2>8 DEF OneExit, LateExit
  <2> QED
    BY <2>2, <2>6, <2>9 DEF OneExit, Closing, Slicing, Covered, StaysCovered
<1> QED
  BY <1>0, <1>1, <1>2, <1>3, <1>4

(* The Reconciler re-places the stop of a position that has one, and adopts*)
(* where the wallet has none: in neither is a close under way.             *)
LEMMA FlipReconcile ==
  ASSUME TypeOK, OneExit, Reconcile
  PROVE  OneExit'
<1> USE DEF wallet, market, gates, actors, past, spent
<1>1. UNCHANGED <<venue, late, pc, plan>>
  BY DEF Reconcile, ReadPositions, ReadOrders, Report, AlignDrift, Adopt, SyncStops, Conclude
<1>2. CASE ReadPositions \/ ReadOrders \/ Report
  <2>1. UNCHANGED <<pos, resting>>
    BY <1>2 DEF ReadPositions, ReadOrders, Report
  <2> QED
    BY <1>1, <2>1, FlipBeside
<1>3. CASE AlignDrift
  <2>1. resting' = resting
    BY <1>3 DEF AlignDrift
  <2>2. pos'.open = pos.open /\ pos'.sl = pos.sl
    BY <1>3 DEF AlignDrift, TypeOK, WalletType, Positions
  <2> QED
    BY <1>1, <2>1, <2>2, FlipBeside
<1>4. CASE Adopt
  <2>1. ~pos.open
    BY <1>4 DEF Adopt, Missing
  <2> QED
    BY <1>1, <2>1, FlipBeside
<1>5. CASE SyncStops
  <2>1. StopGone => pos.sl # 0
    BY DEF StopGone
  <2>2. ~StopGone => UNCHANGED <<pos, resting>>
    BY <1>5 DEF SyncStops
  <2> QED
    BY <1>1, <2>1, <2>2, FlipBeside
<1>6. CASE Conclude
  <2>1. pos' = pos /\ resting' \subseteq resting
    BY <1>6 DEF Conclude
  <2> QED
    BY <1>1, <2>1, FlipBeside
<1> QED
  BY <1>2, <1>3, <1>4, <1>5, <1>6 DEF Reconcile

(* README G10, with legs attached to the position and a venue that starts  *)
(* flat or LONG: the flip-guard keeps an exit from opening the opposite    *)
(* position while every exit read the venue, left no protective order      *)
(* behind and ran alone, its order filling in time, late or after a crash  *)
(* -- for every number of threads, entries, faults, fires, reconcile passes*)
(* and crashes.                                                            *)
THEOREM NoFlipHolds ==
  ASSUME Prior \subseteq Nat
  PROVE  Spec => []NoFlip
<1>1. Init => FlipInv
  BY DEF Init, FlipInv, OneExit, LateExit, Closing, Slicing
<1>2. TypeOK /\ FlipInv /\ [Next]_vars => FlipInv'
  <2> SUFFICES ASSUME TypeOK, FlipInv, [Next]_vars, PositionAttached, blind' = {}
               PROVE  OneExit'
    BY DEF FlipInv
  <2>1. OneExit
    BY BlindGrows DEF FlipInv
  <2>2. ASSUME NEW t \in Threads, Thread(t) PROVE OneExit'
    <3>1. CASE OpenCheck(t)
      <4>1. /\ UNCHANGED <<pos, venue, late, resting>>
            /\ pc'[t] = "openfill" /\ plan'[t] = Lot
            /\ \A u \in Threads \ {t} : pc'[u] = pc[u] /\ plan'[u] = plan[u]
        BY <3>1 DEF OpenCheck, Goto, wallet, market, gates, TypeOK, ActorType
      <4>2. Lot >= 0
        BY LifecycleConstants
      <4>3. \A u \in Threads : pc'[u] = "closefill" => Covered(plan[u])'
        BY <2>1, <4>1 DEF OneExit, Covered
      <4>4. \A o \in late' : IF o.exit THEN Covered(o.size)' ELSE o.size >= 0
        BY <2>1, <4>1 DEF OneExit, Covered
      <4>5. \A u \in Threads : pc'[u] \in Closing => pc[u] \in Closing /\ u # t
        BY <4>1 DEF Closing
      <4>6. LateExit' <=> LateExit
        BY <4>1 DEF LateExit
      <4> QED
        BY <2>1, <4>1, <4>2, <4>3, <4>4, <4>5, <4>6 DEF OneExit, Slicing
    <3>2. CASE \E hold \in BOOLEAN : CloseCheck(t, hold)
      BY <2>1, <3>2, FlipCloseCheck
    <3>3. CASE \E hold \in BOOLEAN : PartialCheck(t, hold)
      BY <3>3 DEF PartialCheck
    <3>4. CASE PartialFill(t) \/ PartialBook(t)
      BY <2>1, <3>4 DEF PartialFill, PartialBook, OneExit, Slicing
    <3> QED
      BY <2>1, <2>2, <3>1, <3>2, <3>3, <3>4, FlipOpenFill, FlipCloseFill, FlipBook DEF Thread
  <2> QED
    BY <2>1, <2>2, FlipVenue, FlipReconcile DEF Next
<1>3. FlipInv => NoFlip
  BY DEF FlipInv, OneExit, NoFlip
<1> QED
  BY <1>1, <1>2, <1>3, TypeCorrect, PTL DEF Spec
-----------------------------------------------------------------------------
(* Agreement: what one undisturbed operation after another leaves behind.  *)

(* Nothing the venue or the process does of its own, no failing call, and  *)
(* no exit beside another.                                                 *)
Calm == "overlap" \notin blind /\ faults = 0 /\ fires = 0 /\ crashes = 0

Alone(t) == \A u \in Threads \ {t} : pc[u] = "idle"

(* Where an operation is, and by how much wallet and venue differ there.   *)
Entry(t) ==
  /\ ~pos.open /\ t \in Entering
  /\ \/ pc[t] = "openfill" /\ venue = dropped /\ plan[t] = Lot
     \/ pc[t] = "openbook" /\ venue = Lot + dropped
Exit(t) ==
  /\ pos.open /\ pos.sl = 0
  /\ \/ pc[t] = "closefill" /\ venue = pos.qty + dropped /\ plan[t] = -pos.qty
     \/ pc[t] = "closebook" /\ venue = dropped
     \/ pc[t] = "partfill" /\ venue = pos.qty + dropped /\ plan[t] = -Slice(pos.qty)
     \/ pc[t] = "partbook" /\ venue = pos.qty - Slice(pos.qty) + dropped

Quiet == ~halt /\ strm = 0 /\ notices = {} /\ late = {}
Sized == IF pos.open THEN pos.qty > 0 ELSE pos.qty = 0
OneAtWork == \A t \in Threads : pc[t] # "idle" => live /\ (Entry(t) \/ Exit(t)) /\ Alone(t)
Even == live /\ (\A t \in Threads : pc[t] = "idle") => venue = pos.qty + dropped

(* The boot: the first pass finds what the venue holds, and a wallet that  *)
(* starts empty refuses to start beside a position it does not know.       *)
Booting ==
  ~live => /\ ~pos.open /\ dropped = 0
           /\ rec.at \in {"orders", "positions"} => rec.qty = venue
           /\ rec.at \in {"stops", "orphans"} /\ venue # 0 => rec.bad

Agreed == Quiet /\ Sized /\ OneAtWork /\ Even /\ Booting
AgreeInv == Calm => Agreed

(* Faults, fires and crashes are not taken back.                           *)
LEMMA SpentGrows ==
  ASSUME TypeOK, [Next]_vars
  PROVE  faults' >= faults /\ fires' >= fires /\ crashes' >= crashes
<1> USE DEF spent
<1>1. faults \in Nat /\ fires \in Nat /\ crashes \in Nat
  BY LifecycleConstants DEF TypeOK, SpentType
<1>2. ASSUME NEW kinds, Spend(kinds) PROVE faults' >= faults
  BY <1>1, <1>2, NothingSpent
<1>3. ASSUME NEW t \in Threads, Thread(t)
      PROVE  faults' >= faults /\ UNCHANGED <<fires, crashes>>
  <2>1. CASE OpenCheck(t) \/ CloseBook(t)
    BY <1>1, <2>1 DEF OpenCheck, CloseBook
  <2>2. CASE OpenFill(t) \/ CloseFill(t) \/ PartialFill(t)
    <3>1. \E kinds : Spend(kinds)
      BY <2>2 DEF OpenFill, CloseFill, PartialFill, MarketOrder
    <3> QED
      BY <1>2, <2>2, <3>1 DEF OpenFill, CloseFill, PartialFill
  <2>3. CASE OpenBook(t) \/ PartialBook(t)
    <3>1. faults' = faults \/ \E kinds : Spend(kinds)
      BY <2>3 DEF OpenBook, EntryDeclined, EntryBooked, PartialBook, Protect, ProtectPlaced, ProtectFailed, ProtectSkipped
    <3> QED
      BY <1>1, <1>2, <2>3, <3>1 DEF OpenBook, PartialBook
  <2>4. CASE \E hold \in BOOLEAN : CloseCheck(t, hold) \/ PartialCheck(t, hold)
    <3>1. \E kinds : Spend(kinds)
      BY <2>4 DEF CloseCheck, PartialCheck
    <3> QED
      BY <1>2, <2>4, <3>1 DEF CloseCheck, PartialCheck
  <2> QED
    BY <1>3, <2>1, <2>2, <2>3, <2>4 DEF Thread
<1>4. ASSUME \/ \E o \in late : SettleLate(o)
             \/ \E o \in resting : FireProtective(o)
             \/ \E id \in notices : LoseNotice(id) \/ StreamFill(id)
             \/ StreamBook \/ Crash \/ UNCHANGED vars
      PROVE  faults' >= faults /\ fires' >= fires /\ crashes' >= crashes
  BY <1>1, <1>4 DEF SettleLate, FireProtective, LoseNotice, StreamFill, StreamBook, Crash, vars
<1>5. ASSUME Reconcile
      PROVE  faults' >= faults /\ UNCHANGED <<fires, crashes>>
  <2>1. CASE ReadPositions \/ ReadOrders \/ Report \/ AlignDrift
    <3>1. UNCHANGED <<faults, fires, crashes>>
      BY <2>1, Zenon DEF ReadPositions, ReadOrders, Report, AlignDrift
    <3> QED
      BY <1>1, <3>1
  <2>2. CASE Adopt \/ SyncStops \/ Conclude
    <3>1. faults' = faults \/ \E kinds : Spend(kinds)
      BY <2>2 DEF Adopt, SyncStops, Conclude, ProtectPlaced, ProtectFailed, ProtectSkipped
    <3>2. UNCHANGED <<fires, crashes>>
      BY <2>2, Zenon DEF Adopt, SyncStops, Conclude
    <3> QED
      BY <1>1, <1>2, <3>1, <3>2
  <2> QED
    BY <1>5, <2>1, <2>2 DEF Reconcile
<1> QED
  BY <1>1, <1>3, <1>4, <1>5 DEF Next

LEMMA CalmBefore ==
  ASSUME TypeOK, [Next]_vars, Calm'
  PROVE  Calm
<1>1. faults \in Nat /\ fires \in Nat /\ crashes \in Nat
  BY LifecycleConstants DEF TypeOK, SpentType
<1>2. faults' = 0 /\ fires' = 0 /\ crashes' = 0
  BY DEF Calm
<1> QED
  BY <1>1, <1>2, SpentGrows, BlindGrows DEF Calm

(* A call that fails is not calm.                                          *)
LEMMA CalmSpends ==
  ASSUME TypeOK, Calm, faults' = 0, NEW kinds, Spend(kinds)
  PROVE  kinds = {}
<1>1. faults \in Nat /\ faults' = faults
  BY LifecycleConstants DEF TypeOK, SpentType, Calm
<1> QED
  BY <1>1, NothingSpent

LEMMA SliceSmaller ==
  ASSUME NEW q \in Nat, q > 0
  PROVE  Slice(q) \in Int /\ q - Slice(q) > 0
<1>1. Slice(q) = q \div 2
  BY DEF Slice, Sign, Abs
<1>2. q \div 2 \in Int /\ q \div 2 < q
  OBVIOUS
<1> QED
  BY <1>1, <1>2

(* In a calm run the order of a fill step fills and is confirmed.          *)
LEMMA CalmFills ==
  ASSUME TypeOK, Calm, faults' = 0, ~halt, NEW t \in Threads, NEW booking,
         MarketOrder(t, booking)
  PROVE  venue' = venue + plan[t] /\ Goto(t, booking) /\ late' = late
<1>1. ~Spend({"refused"}) /\ ~Spend({"unconfirmed"})
  BY CalmSpends
<1> QED
  BY <1>1 DEF MarketOrder

(* ... and the orders of a position the venue holds are placed.            *)
LEMMA CalmProtects ==
  ASSUME TypeOK, Calm, faults' = 0, ~halt, live, venue # 0, NEW p \in Positions, Protect(p)
  PROVE  pos'.open = p.open /\ pos'.qty = p.qty /\ halt' = halt
<1>1. ~Spend({"tpsl"})
  BY CalmSpends
<1>2. ProtectPlaced(p)
  BY <1>1, Zenon DEF Protect, ProtectFailed, ProtectSkipped
<1> QED
  BY <1>2, Placed

(* The steps of an entry.                                                  *)
LEMMA AgreeEntry ==
  ASSUME TypeOK, Calm, Agreed, faults' = 0, \A s, u \in Entering : s = u,
         NEW t \in Threads, OpenCheck(t) \/ OpenFill(t) \/ OpenBook(t)
  PROVE  Agreed'
<1> USE DEF wallet, market, gates, past
<1>q. Lot \in Nat /\ Lot > 0 /\ dropped \in Nat /\ venue \in Int
  BY LifecycleConstants DEF TypeOK, ActorType, MarketType
<1>0. /\ \A s : Goto(t, s) => pc'[t] = s /\ \A u \in Threads \ {t} : pc'[u] = pc[u]
      /\ pos \in Positions
  BY DEF Goto, TypeOK, ActorType, WalletType
<1>1. CASE OpenCheck(t)
  <2>1. \A u \in Threads : pc[u] = "idle"
    BY <1>1 DEF OpenCheck, Agreed, OneAtWork, Entry, Exit
  <2>2. venue = dropped /\ pos.qty = 0 /\ ~pos.open /\ live /\ t \in Entering
    BY <1>q, <1>1, <2>1 DEF OpenCheck, Agreed, Even, Sized
  <2>3. /\ pc'[t] = "openfill" /\ plan'[t] = Lot
        /\ \A u \in Threads \ {t} : pc'[u] = "idle"
    BY <1>0, <1>1, <2>1 DEF OpenCheck, TypeOK, ActorType
  <2>4. UNCHANGED <<pos, venue, late, dropped, notices, live, halt, strm, rec>>
    BY <1>1 DEF OpenCheck
  <2>5. OneAtWork' /\ Even'
    BY <2>2, <2>3, <2>4 DEF OneAtWork, Even, Entry, Alone
  <2> QED
    BY <2>4, <2>5 DEF Agreed, Quiet, Sized, Booting
<1>2. CASE OpenFill(t)
  <2>1. pc[t] = "openfill" /\ Entry(t) /\ Alone(t) /\ live /\ ~halt
    BY <1>2 DEF OpenFill, Agreed, OneAtWork, Exit, Quiet
  <2>2. venue' = venue + plan[t] /\ Goto(t, "openbook") /\ late' = late
    BY <1>2, <2>1, CalmFills DEF OpenFill
  <2>3. venue' = Lot + dropped
    BY <1>q, <1>2, <2>1, <2>2 DEF Entry, OpenFill
  <2>4. UNCHANGED <<pos, dropped, notices, live, halt, strm, rec>>
    BY <1>2 DEF OpenFill
  <2>5. pc'[t] = "openbook" /\ \A u \in Threads \ {t} : pc'[u] = "idle"
    BY <1>0, <2>1, <2>2 DEF Alone
  <2>6. OneAtWork' /\ Even' /\ Booting'
    BY <2>1, <2>3, <2>4, <2>5 DEF OneAtWork, Even, Booting, Entry, Alone
  <2> QED
    BY <2>2, <2>4, <2>6 DEF Agreed, Quiet, Sized
<1>3. CASE OpenBook(t)
  <2> DEFINE p == [NoPos EXCEPT !.open = TRUE, !.qty = Lot]
  <2>1. venue = Lot + dropped /\ ~pos.open /\ Alone(t) /\ live /\ ~halt /\ Goto(t, "idle")
    BY <1>3 DEF OpenBook, Agreed, OneAtWork, Entry, Exit, Quiet
  <2>2. UNCHANGED <<venue, late, notices, live, strm, rec>>
    BY <1>3 DEF OpenBook
  <2>3. \A u \in Threads : pc'[u] = "idle"
    BY <1>0, <2>1 DEF Alone
  <2>4. p \in Positions /\ p.open /\ p.qty = Lot
    <3>1. Lot \in Int
      BY <1>q
    <3>2. p \in Positions /\ p.open
      BY <3>1 DEF NoPos, Positions
    <3>3. p.qty = Lot
      BY DEF NoPos
    <3> QED
      BY <3>2, <3>3
  <2>5. ~halt' /\ Sized' /\ venue = pos'.qty + dropped'
    <3>1. CASE EntryDeclined
      <4>1. UNCHANGED <<pos, halt>> /\ dropped' = dropped + Lot /\ pos.qty = 0
        BY <2>1, <3>1 DEF EntryDeclined, Agreed, Sized
      <4> QED
        BY <1>q, <2>1, <4>1 DEF Agreed, Sized
    <3>2. CASE EntryBooked
      <4>1. Protect(p) /\ dropped' = dropped
        BY <3>2 DEF EntryBooked
      <4> HIDE DEF p
      <4>2. venue # 0
        BY <1>q, <2>1
      <4>3. pos'.open /\ pos'.qty = Lot /\ ~halt'
        BY <2>1, <2>4, <4>1, <4>2, CalmProtects
      <4> QED
        BY <1>q, <2>1, <4>1, <4>3 DEF Sized
    <3> QED
      BY <1>3, <3>1, <3>2 DEF OpenBook
  <2>6. OneAtWork' /\ Even' /\ Booting'
    BY <2>1, <2>2, <2>3, <2>5 DEF OneAtWork, Even, Booting
  <2> QED
    BY <2>2, <2>5, <2>6 DEF Agreed, Quiet
<1> QED
  BY <1>1, <1>2, <1>3

(* The legs of a position are cancelled and its one exit starts: its order *)
(* is sized by what wallet and venue both hold.                            *)
LEMMA AgreeExitStarts ==
  ASSUME TypeOK, Agreed, NEW t \in Threads, pos.open, live, ~Exiting,
         pos'.open, pos'.qty = pos.qty, pos'.sl = 0, NEW s \in {"closefill", "partfill"},
         Goto(t, s), venue' = venue,
         plan'[t] = IF s = "closefill" THEN -pos.qty ELSE -Slice(pos.qty),
         UNCHANGED <<live, halt, strm, notices, rec, late, dropped>>
  PROVE  Agreed'
<1>1. \A u \in Threads : pc[u] = "idle"
  BY DEF Agreed, OneAtWork, Entry, Exit, Exiting
<1>2. venue = pos.qty + dropped
  BY <1>1 DEF Agreed, Even
<1>3. pc'[t] = s /\ \A u \in Threads \ {t} : pc'[u] = "idle"
  BY <1>1 DEF Goto, TypeOK, ActorType
<1>4. Exit(t)' /\ Alone(t)'
  BY <1>2, <1>3 DEF Exit, Alone
<1>5. OneAtWork' /\ Even' /\ Booting'
  BY <1>3, <1>4 DEF OneAtWork, Even, Booting
<1> QED
  BY <1>5 DEF Agreed, Quiet, Sized

(* No exit starts beside another, and no read or cancel fails.             *)
LEMMA AgreeExit ==
  ASSUME TypeOK, Calm, Agreed, Calm', NEW t \in Threads, NEW hold \in BOOLEAN,
         CloseCheck(t, hold) \/ PartialCheck(t, hold)
  PROVE  Agreed'
<1> USE DEF gates, market
<1>0. pos.open /\ live /\ pos.qty \in Int /\ pos.qty > 0 /\ faults' = 0 /\ dropped \in Nat
  BY DEF CloseCheck, PartialCheck, Agreed, Sized, Calm, TypeOK, WalletType, Positions, ActorType
<1>1. ~Exiting /\ UNCHANGED <<venue, late, dropped, live, halt, strm, notices, rec>>
  BY DEF CloseCheck, PartialCheck, Calm, If
<1>2. CASE CloseCheck(t, hold)
  <2>1. PICK kept \in SUBSET Legs, readFails \in BOOLEAN :
          /\ CancelLegs(kept)
          /\ Spend(CancelFault(kept) \cup If("read", readFails))
          /\ plan' = [plan EXCEPT ![t] = -Sign(pos.qty) * ExitQuantity(readFails)]
          /\ Goto(t, IF ExitQuantity(readFails) = 0 THEN "closebook" ELSE "closefill")
    BY <1>2, Zenon DEF CloseCheck
  <2>2. readFails = FALSE
    <3>1. CancelFault(kept) \cup If("read", readFails) = {}
      BY <1>0, <2>1, CalmSpends
    <3> QED
      BY <3>1 DEF If
  <2>3. pos'.open /\ pos'.qty = pos.qty /\ pos'.sl = 0
    BY <1>0, <2>1, Cancelled
  <2>4. venue = pos.qty + dropped => ExitQuantity(FALSE) = pos.qty
    BY <1>0 DEF ExitQuantity, Abs, Lesser
  <2>5. venue = pos.qty + dropped
    BY <1>0, <1>1 DEF Agreed, OneAtWork, Even, Entry, Exit, Exiting
  <2>6. Goto(t, "closefill")
    <3>1. ExitQuantity(readFails) = pos.qty
      BY <2>2, <2>4, <2>5
    <3>2. ExitQuantity(readFails) # 0
      BY <1>0, <3>1
    <3> QED
      BY <2>1, <3>2
  <2>7. plan'[t] = -pos.qty
    <3>1. plan'[t] = -Sign(pos.qty) * pos.qty
      BY <2>1, <2>2, <2>4, <2>5 DEF TypeOK, ActorType
    <3>2. Sign(pos.qty) = 1
      BY <1>0 DEF Sign
    <3> QED
      BY <1>0, <3>1, <3>2
  <2> QED
    BY <1>0, <1>1, <2>3, <2>6, <2>7, AgreeExitStarts
<1>3. CASE PartialCheck(t, hold)
  <2>1. pos'.open /\ pos'.qty = pos.qty /\ pos'.sl = 0
    BY <1>0, <1>3, Cancelled DEF PartialCheck
  <2>2. Goto(t, "partfill") /\ plan'[t] = -Slice(pos.qty)
    BY <1>3 DEF PartialCheck, TypeOK, ActorType
  <2> QED
    BY <1>0, <1>1, <2>1, <2>2, AgreeExitStarts
<1> QED
  BY <1>2, <1>3

(* Its order fills ...                                                     *)
LEMMA AgreeExitFills ==
  ASSUME TypeOK, Calm, Agreed, faults' = 0, NEW t \in Threads,
         CloseFill(t) \/ PartialFill(t)
  PROVE  Agreed'
<1> USE DEF wallet, gates
<1>0. dropped \in Nat /\ dropped' = dropped
  BY DEF CloseFill, PartialFill, TypeOK, ActorType
<1>1. pc[t] # "idle" /\ Exit(t) /\ Alone(t) /\ live /\ ~halt
  BY DEF CloseFill, PartialFill, Agreed, OneAtWork, Entry, Quiet
<1>2. UNCHANGED <<pos, notices, live, halt, strm, rec>>
  BY DEF CloseFill, PartialFill
<1>3. pos.qty \in Int /\ venue \in Int /\ Slice(pos.qty) \in Int
  BY SliceTyped DEF TypeOK, WalletType, MarketType, Positions
<1>r. late' = late
  BY <1>1, CalmFills DEF CloseFill, PartialFill
<1>4. ASSUME NEW s \in {"closebook", "partbook"}, Goto(t, s)
      PROVE  pc'[t] = s /\ \A u \in Threads \ {t} : pc'[u] = "idle"
  BY <1>1, <1>4 DEF Goto, Alone, TypeOK, ActorType
<1>5. Exit(t)' /\ pc'[t] # "idle" /\ \A u \in Threads \ {t} : pc'[u] = "idle"
  <2>1. CASE CloseFill(t)
    <3>1. venue' = venue + plan[t] /\ Goto(t, "closebook")
      BY <1>1, <2>1, CalmFills DEF CloseFill
    <3>2. venue' = dropped
      BY <1>0, <1>1, <1>3, <2>1, <3>1 DEF CloseFill, Exit
    <3> QED
      BY <1>0, <1>1, <1>2, <1>4, <3>1, <3>2 DEF Exit
  <2>2. CASE PartialFill(t)
    <3>1. venue' = venue + plan[t] /\ Goto(t, "partbook")
      BY <1>1, <2>2, CalmFills DEF PartialFill
    <3>2. venue' = pos.qty - Slice(pos.qty) + dropped
      BY <1>0, <1>1, <1>3, <2>2, <3>1 DEF PartialFill, Exit
    <3> QED
      BY <1>0, <1>1, <1>2, <1>4, <3>1, <3>2 DEF Exit
  <2> QED
    BY <2>1, <2>2
<1>6. OneAtWork' /\ Even' /\ Booting'
  BY <1>1, <1>2, <1>5 DEF OneAtWork, Even, Booting, Alone
<1> QED
  BY <1>r, <1>2, <1>6 DEF Agreed, Quiet, Sized

(* ... and is booked for what it took off the venue.                       *)
LEMMA AgreeExitBooks ==
  ASSUME TypeOK, Calm, Agreed, faults' = 0, NEW t \in Threads,
         CloseBook(t) \/ PartialBook(t)
  PROVE  Agreed'
<1> USE DEF market, gates
<1>0. dropped \in Nat /\ dropped' = dropped
  BY DEF CloseBook, PartialBook, past, TypeOK, ActorType
<1>1. pc[t] # "idle" /\ Exit(t) /\ Alone(t) /\ live /\ ~halt
  BY DEF CloseBook, PartialBook, Agreed, OneAtWork, Entry, Quiet
<1>2. UNCHANGED <<venue, late, notices, live, strm, rec>> /\ Goto(t, "idle")
  BY DEF CloseBook, PartialBook
<1>3. \A u \in Threads : pc'[u] = "idle"
  BY <1>1, <1>2 DEF Goto, Alone, TypeOK, ActorType
<1>4. pos.qty \in Int /\ pos.qty > 0 /\ pos.open
  BY <1>1 DEF Exit, Agreed, Sized, TypeOK, WalletType, Positions
<1>5. ~halt' /\ Sized' /\ venue = pos'.qty + dropped
  <2>1. CASE CloseBook(t)
    BY <1>0, <1>1, <2>1 DEF CloseBook, Exit, NoPos, Sized
  <2>2. CASE PartialBook(t)
    <3> DEFINE reduced == [pos EXCEPT !.qty = @ - Slice(@)]
    <3>1. /\ reduced \in Positions /\ reduced.open
          /\ reduced.qty = pos.qty - Slice(pos.qty)
      BY <1>4, ReducedTyped DEF TypeOK, WalletType, Positions
    <3>2. IF restop[t] THEN Protect(reduced) ELSE pos' = reduced /\ halt' = halt
      BY <1>4, <2>2 DEF PartialBook
    <3>3. venue = pos.qty - Slice(pos.qty) + dropped
      BY <1>1, <2>2 DEF PartialBook, Exit
    <3> HIDE DEF reduced
    <3>4. venue > 0 /\ pos.qty - Slice(pos.qty) > 0
      BY <1>0, <1>4, <3>3, SliceSmaller
    <3>5. pos'.open /\ pos'.qty = reduced.qty /\ halt' = halt
      <4>1. CASE restop[t]
        BY <1>1, <3>1, <3>2, <3>4, <4>1, CalmProtects
      <4>2. CASE ~restop[t]
        BY <3>1, <3>2, <4>2
      <4> QED
        BY <4>1, <4>2
    <3> QED
      BY <1>1, <3>1, <3>3, <3>4, <3>5 DEF Sized
  <2> QED
    BY <2>1, <2>2
<1>6. OneAtWork' /\ Even' /\ Booting'
  BY <1>0, <1>1, <1>2, <1>3, <1>5 DEF OneAtWork, Even, Booting
<1> QED
  BY <1>1, <1>2, <1>5, <1>6 DEF Agreed, Quiet

(* A pass of the Reconciler that does not adopt leaves quantities alone,   *)
(* and re-places a stop only between operations.                           *)
LEMMA AgreeReconcile ==
  ASSUME TypeOK, Calm, Agreed, faults' = 0, ~AdoptVenue, Reconcile
  PROVE  Agreed'
<1> USE DEF wallet, market, gates, past
<1>1. UNCHANGED <<venue, late, dropped, notices, pc, plan, strm>> /\ (live => live')
  <2>1. UNCHANGED <<venue, late, dropped, notices, pc, plan, strm>>
    BY DEF Reconcile, ReadPositions, ReadOrders, Report, AlignDrift, Adopt, SyncStops, Conclude
  <2>2. live' = live \/ Conclude
    BY DEF Reconcile, ReadPositions, ReadOrders, Report, AlignDrift, Adopt, SyncStops
  <2>3. Conclude /\ live => live'
    BY Zenon DEF Conclude
  <2> QED
    BY <2>1, <2>2, <2>3
<1>2. CASE ReadPositions \/ ReadOrders \/ Report
  <2>1. UNCHANGED <<pos, halt, live>>
    BY <1>2 DEF ReadPositions, ReadOrders, Report
  <2>2. Booting'
    <3>1. CASE ReadPositions
      BY <3>1 DEF ReadPositions, NoRec, Agreed, Booting
    <3>2. CASE ReadOrders
      BY <3>2 DEF ReadOrders, Agreed, Booting, TypeOK, PassType, Passes
    <3>3. CASE Report
      BY <3>3 DEF Report, RecNext, Missing, Agreed, Booting, TypeOK, PassType, Passes
    <3> QED
      BY <1>2, <3>1, <3>2, <3>3
  <2>3. OneAtWork' /\ Even'
    BY <1>1, <2>1 DEF Agreed, OneAtWork, Even, Entry, Exit, Alone
  <2> QED
    BY <1>1, <2>1, <2>2, <2>3 DEF Agreed, Quiet, Sized
<1>3. CASE SyncStops
  <2>1. CASE ~StopGone
    <3>1. UNCHANGED <<pos, halt, live>> /\ RecNext("orphans", FALSE)
      BY <1>3, <2>1 DEF SyncStops
    <3>2. Booting'
      BY <1>1, <1>3, <3>1 DEF SyncStops, RecNext, Agreed, Booting, TypeOK, PassType, Passes
    <3>3. OneAtWork' /\ Even'
      BY <1>1, <3>1 DEF Agreed, OneAtWork, Even, Entry, Exit, Alone
    <3> QED
      BY <1>1, <3>1, <3>2, <3>3 DEF Agreed, Quiet, Sized
  <2>2. CASE StopGone
    <3>1. pos.open /\ pos.sl # 0 /\ live /\ ~halt /\ pos \in Positions
      BY <2>2 DEF StopGone, Agreed, Booting, Quiet, TypeOK, WalletType
    <3>2. \A t \in Threads : pc[t] = "idle"
      BY <3>1 DEF Agreed, OneAtWork, Entry, Exit
    <3>3. venue = pos.qty + dropped /\ pos.qty \in Int /\ pos.qty > 0 /\ dropped \in Nat
      BY <3>1, <3>2 DEF Agreed, Even, Sized, Positions, TypeOK, ActorType
    <3>4. Protect(pos) /\ live' = live
      BY <1>3, <2>2 DEF SyncStops, Protect
    <3>5. pos'.open = pos.open /\ pos'.qty = pos.qty /\ halt' = halt
      <4>1. venue # 0
        BY <3>3
      <4> QED
        BY <3>1, <3>4, <4>1, CalmProtects
    <3>6. OneAtWork' /\ Even' /\ Booting'
      BY <1>1, <3>1, <3>2, <3>3, <3>4, <3>5 DEF OneAtWork, Even, Booting
    <3> QED
      BY <1>1, <3>5, <3>6 DEF Agreed, Quiet, Sized
  <2> QED
    BY <2>1, <2>2
<1>4. CASE Conclude
  <2>1. UNCHANGED <<pos, halt>> /\ rec' = NoRec /\ rec.at = "orphans"
    BY <1>4 DEF Conclude
  <2>2. ~live /\ live' => ~rec.bad
    BY <1>4 DEF Conclude
  <2>3. OneAtWork'
    BY <1>1, <2>1 DEF Agreed, OneAtWork, Entry, Exit, Alone
  <2>4. Even'
    <3>1. CASE live
      BY <1>1, <2>1, <3>1 DEF Agreed, Even
    <3>2. CASE ~live /\ live'
      <4>1. venue = 0 /\ pos.qty = 0 /\ dropped = 0
        BY <2>1, <2>2, <3>2 DEF Agreed, Booting, Sized
      <4> QED
        BY <1>1, <2>1, <4>1 DEF Even
    <3> QED
      BY <3>1, <3>2 DEF Even
  <2>5. Booting'
    BY <1>1, <2>1 DEF Agreed, Booting, NoRec
  <2> QED
    BY <1>1, <2>1, <2>3, <2>4, <2>5 DEF Agreed, Quiet, Sized
<1> QED
  BY <1>2, <1>3, <1>4 DEF Reconcile, AlignDrift, Adopt

(* The venue holds what the wallet holds and the entries it declined, and  *)
(* nothing else, whenever nothing is in progress, for every number of      *)
(* exiting threads, entries and reconcile passes: each exit takes from the *)
(* wallet what it took from the venue.                                     *)
(* One candle loop opens positions (engine.py builds one per system), and  *)
(* the Reconciler reports rather than adopts: an adoption acts on a read a *)
(* close may have overtaken.                                               *)
THEOREM AgreementHolds ==
  ASSUME \A s, u \in Entering : s = u, ~AdoptVenue
  PROVE  Spec => []Agreement
<1>1. Init => AgreeInv
  BY DEF Init, AgreeInv, Agreed, Quiet, Sized, OneAtWork, Even, Booting, NoPos, NoRec
<1>2. TypeOK /\ AgreeInv /\ [Next]_vars => AgreeInv'
  <2> SUFFICES ASSUME TypeOK, AgreeInv, [Next]_vars, Calm'
               PROVE  Agreed'
    BY DEF AgreeInv
  <2>1. Calm /\ Agreed
    BY CalmBefore DEF AgreeInv
  <2>2. faults' = 0 /\ fires' = 0 /\ crashes' = 0
    BY DEF Calm
  <2>3. ASSUME NEW t \in Threads, Thread(t) PROVE Agreed'
    <3>1. CASE \E hold \in BOOLEAN : CloseCheck(t, hold) \/ PartialCheck(t, hold)
      BY <2>1, <3>1, AgreeExit
    <3> QED
      BY <2>1, <2>2, <2>3, <3>1, AgreeEntry, AgreeExitFills, AgreeExitBooks DEF Thread
  <2>4. ~\E o \in resting : FireProtective(o)
    BY <2>2, LifecycleConstants DEF FireProtective, TypeOK, SpentType
  <2>5. ~Crash
    BY <2>2, LifecycleConstants DEF Crash, TypeOK, SpentType
  <2>6. notices = {} /\ late = {} /\ ~StreamBook
    BY <2>1 DEF Agreed, Quiet, StreamBook
  <2>7. CASE UNCHANGED vars
    <3>1. UNCHANGED <<pos, venue, late, dropped, notices, live, halt, pc, plan, strm, rec>>
      BY <2>7 DEF vars, wallet, market, gates, actors, past
    <3> QED
      BY <2>1, <3>1 DEF Agreed, Quiet, Sized, OneAtWork, Even, Booting, Entry, Exit, Alone
  <2> QED
    BY <2>1, <2>2, <2>3, <2>4, <2>5, <2>6, <2>7, AgreeReconcile DEF Next
<1>3. AgreeInv => Agreement
  BY DEF AgreeInv, Agreed, Even, Calm, Agreement, Settled
<1> QED
  BY <1>1, <1>2, <1>3, TypeCorrect, PTL DEF Spec

-----------------------------------------------------------------------------
(* Protected: an exit under way holds the stop it cancelled, and gives it  *)
(* back or fails where the system can see it.                              *)

Holds(t) == pc[t] \in Closing \/ (pc[t] \in Slicing /\ restop[t])

StopKept ==
  RequireSL /\ pos.open /\ ~halt /\ ~exitFailed => StopRests \/ \E t \in Threads : Holds(t)

(* Until the first boot passes there is nothing to protect.                *)
Unstarted ==
  ~live => /\ ~pos.open
           /\ late = {} /\ (AdoptVenue => venue = 0 /\ rec.qty = 0)
           /\ \A t \in Threads : pc[t] = "idle"

StopInv == fires = 0 /\ crashes = 0 => StopKept /\ Unstarted

(* A step that protects a position leaves its stop on the venue, or HALT.  *)
LEMMA StopPlaced ==
  ASSUME TypeOK, NEW p \in Positions, Protect(p), live
  PROVE  StopKept'
<1>1. CASE ProtectPlaced(p)
  <2>1. pos'.sl = nextId /\ nextId \in Ids(resting')
    BY <1>1, Placed
  <2>2. Ids(resting') = Ids(resting)'
    BY DEF Ids
  <2> QED
    BY <2>1, <2>2 DEF StopKept, StopRests
<1>2. CASE ProtectFailed(p)
  <2>1. RequireSL => halt'
    BY <1>2, Zenon DEF ProtectFailed
  <2> QED
    BY <2>1 DEF StopKept
<1> QED
  BY <1>1, <1>2 DEF Protect, ProtectSkipped

(* A step that leaves a position its stop, and every exit what it holds.   *)
LEMMA StopBeside ==
  ASSUME StopKept, halt => halt', exitFailed => exitFailed', pos'.open => pos.open,
         pos'.sl = pos.sl, resting \subseteq resting', \A t \in Threads : Holds(t) => Holds(t)'
  PROVE  StopKept'
<1>1. StopRests => StopRests'
  BY DEF StopRests, Ids
<1> QED
  BY <1>1 DEF StopKept

(* An exit takes the stop, and the duty to give it back.                   *)
LEMMA StopTaken ==
  ASSUME TypeOK, StopKept, NEW t \in Threads, NEW hold \in BOOLEAN,
         CloseCheck(t, hold) \/ PartialCheck(t, hold)
  PROVE  StopKept'
<1>1. /\ UNCHANGED <<halt, exitFailed>> /\ pos.open
      /\ \A u \in Threads \ {t} : pc'[u] = pc[u] /\ restop'[u] = restop[u]
      /\ pc[t] = "idle"
  BY DEF CloseCheck, PartialCheck, gates, past, Goto, TypeOK, ActorType
<1>2. \A u \in Threads : Holds(u) => Holds(u)'
  BY <1>1 DEF Holds, Closing, Slicing
<1>3. StopRests => Holds(t)'
  <2>1. CASE CloseCheck(t, hold)
    <3>1. pc'[t] \in Closing
      BY <2>1 DEF CloseCheck, Goto, Closing, TypeOK, ActorType
    <3> QED
      BY <3>1 DEF Holds
  <2>2. CASE PartialCheck(t, hold)
    <3>1. pc'[t] \in Slicing /\ restop'[t] = (Tracked # {})
      BY <2>2 DEF PartialCheck, Goto, Slicing, TypeOK, ActorType
    <3>2. StopRests => pos.sl # 0
      BY DEF StopRests, Ids, TypeOK, MarketType, Orders
    <3>3. StopRests => restop'[t]
      BY <3>1, <3>2 DEF Tracked
    <3> QED
      BY <3>1, <3>3 DEF Holds
  <2> QED
    BY <2>1, <2>2
<1> QED
  BY <1>1, <1>2, <1>3 DEF StopKept

(* An order that fills passes the duty on; one that raises is an exit that *)
(* failed.                                                                 *)
LEMMA StopOrdered ==
  ASSUME TypeOK, StopKept, NEW t \in Threads,
         OpenFill(t) \/ CloseFill(t) \/ PartialFill(t)
  PROVE  StopKept'
<1> USE DEF wallet, gates
<1>1. UNCHANGED <<pos, resting, halt>>
  BY DEF OpenFill, CloseFill, PartialFill
<1>2. exitFailed => exitFailed'
  BY Zenon DEF OpenFill, CloseFill, PartialFill, MarketOrder
<1>3. \A u \in Threads \ {t} : pc'[u] = pc[u] /\ restop'[u] = restop[u]
  BY DEF OpenFill, CloseFill, PartialFill, MarketOrder, Goto, TypeOK, ActorType
<1>4. Holds(t) => exitFailed' \/ Holds(t)'
  <2>1. CASE OpenFill(t)
    BY <2>1 DEF OpenFill, Holds, Closing, Slicing
  <2>2. CASE CloseFill(t)
    <3>1. exitFailed' \/ Goto(t, "closebook")
      BY <2>2, Zenon DEF CloseFill, MarketOrder
    <3> QED
      BY <3>1 DEF Goto, Holds, Closing, TypeOK, ActorType
  <2>3. CASE PartialFill(t)
    <3>1. exitFailed' \/ (Goto(t, "partbook") /\ restop' = restop)
      BY <2>3, Zenon DEF PartialFill, MarketOrder
    <3>2. pc[t] = "partfill"
      BY <2>3 DEF PartialFill
    <3> QED
      BY <3>1, <3>2 DEF Goto, Holds, Closing, Slicing, TypeOK, ActorType
  <2> QED
    BY <2>1, <2>2, <2>3
<1>5. \A u \in Threads : Holds(u) => exitFailed' \/ Holds(u)'
  BY <1>3, <1>4 DEF Holds
<1>6. StopRests => StopRests'
  BY <1>1 DEF StopRests, Ids
<1> QED
  BY <1>1, <1>2, <1>5, <1>6 DEF StopKept

(* A booking protects what it leaves open.                                 *)
LEMMA StopBooked ==
  ASSUME TypeOK, StopKept, live, NEW t \in Threads,
         OpenBook(t) \/ CloseBook(t) \/ PartialBook(t)
  PROVE  StopKept'
<1> USE DEF wallet, market, gates, past
<1>1. /\ \A u \in Threads \ {t} : pc'[u] = pc[u] /\ restop'[u] = restop[u]
  BY DEF OpenBook, CloseBook, PartialBook, Goto, TypeOK, ActorType
<1>2. pos \in Positions
  BY DEF TypeOK, WalletType
<1>3. CASE OpenBook(t)
  <2> DEFINE p == [NoPos EXCEPT !.open = TRUE, !.qty = Lot]
  <2>1. p \in Positions
    <3>1. Lot \in Int
      BY LifecycleConstants
    <3> QED
      BY <3>1 DEF NoPos, Positions
  <2>2. CASE EntryDeclined
    <3>1. UNCHANGED <<pos, resting, halt, exitFailed>> /\ pc[t] = "openbook"
      BY <1>3, <2>2 DEF OpenBook, EntryDeclined
    <3>2. \A u \in Threads : Holds(u) => Holds(u)'
      BY <1>1, <3>1 DEF Holds, Closing, Slicing
    <3> QED
      BY <3>1, <3>2, StopBeside
  <2>3. CASE EntryBooked
    <3>1. Protect(p)
      BY <2>3 DEF EntryBooked
    <3> HIDE DEF p
    <3> QED
      BY <2>1, <3>1, StopPlaced
  <2> QED
    BY <1>3, <2>2, <2>3 DEF OpenBook
<1>4. CASE CloseBook(t)
  BY <1>4 DEF CloseBook, NoPos, StopKept
<1>5. CASE PartialBook(t)
  <2> DEFINE reduced == [pos EXCEPT !.qty = @ - Slice(@)]
  <2>1. reduced \in Positions /\ reduced.sl = pos.sl
    BY <1>2, ReducedTyped DEF Positions
  <2>2. CASE pos.open /\ restop[t]
    <3>1. Protect(reduced)
      BY <1>5, <2>2 DEF PartialBook
    <3> HIDE DEF reduced
    <3> QED
      BY <2>1, <3>1, StopPlaced
  <2>3. CASE ~pos.open
    <3>1. pos' = pos
      BY <1>5, <2>3 DEF PartialBook
    <3> QED
      BY <2>3, <3>1 DEF StopKept
  <2>4. CASE pos.open /\ ~restop[t]
    <3>1. UNCHANGED <<resting, halt, exitFailed>> /\ pos' = reduced /\ pc[t] = "partbook"
      BY <1>5, <2>4 DEF PartialBook
    <3>2. \A u \in Threads : Holds(u) => Holds(u)'
      BY <1>1, <2>4, <3>1 DEF Holds, Closing, Slicing
    <3> HIDE DEF reduced
    <3> QED
      BY <2>1, <2>4, <3>1, <3>2, StopBeside
  <2> QED
    BY <2>2, <2>3, <2>4
<1> QED
  BY <1>3, <1>4, <1>5

(* The Reconciler protects what it adopts and replaces a stop it misses;   *)
(* with a position open it cancels nothing.                                *)
LEMMA StopReconciled ==
  ASSUME TypeOK, StopKept, Unstarted, ~StrictCancel, Reconcile
  PROVE  StopKept' /\ Unstarted'
<1> USE DEF wallet, market, gates, past
<1>1. UNCHANGED <<venue, late, pc, restop>>
  BY DEF Reconcile, ReadPositions, ReadOrders, Report, AlignDrift, Adopt, SyncStops, Conclude
<1>2. CASE ReadPositions \/ ReadOrders \/ Report
  <2>1. UNCHANGED <<pos, resting, halt, exitFailed, live>>
    BY <1>2 DEF ReadPositions, ReadOrders, Report
  <2>2. StopKept'
    BY <1>1, <2>1, StopBeside DEF Holds
  <2>3. ~live /\ AdoptVenue => rec'.qty = 0
    <3>1. ReadPositions => rec'.qty = venue
      BY DEF ReadPositions, NoRec
    <3>2. ReadOrders => rec'.qty = rec.qty
      BY DEF ReadOrders, TypeOK, PassType, Passes
    <3>3. Report => rec'.qty = rec.qty
      BY DEF Report, RecNext, TypeOK, PassType, Passes
    <3> QED
      BY <1>2, <3>1, <3>2, <3>3 DEF Unstarted
  <2> QED
    BY <1>1, <2>1, <2>2, <2>3 DEF Unstarted
<1>3. CASE AlignDrift
  <2>1. UNCHANGED <<resting, halt, exitFailed, live>> /\ pos.open
    BY <1>3 DEF AlignDrift, Drift
  <2>2. pos'.open = pos.open /\ pos'.sl = pos.sl
    BY <1>3 DEF AlignDrift, TypeOK, WalletType, Positions
  <2>3. StopKept'
    BY <1>1, <2>1, <2>2, StopBeside DEF Holds
  <2> QED
    BY <2>1, <2>3 DEF Unstarted
<1>4. CASE Adopt
  <2> DEFINE p == [NoPos EXCEPT !.open = TRUE, !.qty = rec.qty]
  <2>1. p \in Positions
    BY DEF TypeOK, PassType, Passes, NoPos, Positions
  <2>2. live
    BY <1>4 DEF Adopt, Missing, Unstarted
  <2>3. Protect(p) /\ live' = live
    BY <1>4 DEF Adopt, Protect
  <2> HIDE DEF p
  <2> QED
    BY <2>1, <2>2, <2>3, StopPlaced DEF Unstarted
<1>5. CASE SyncStops
  <2>1. CASE StopGone
    <3>1. live /\ pos \in Positions
      BY <2>1 DEF StopGone, Unstarted, TypeOK, WalletType
    <3>2. Protect(pos) /\ live' = live
      BY <1>5, <2>1 DEF SyncStops, Protect
    <3> QED
      BY <3>1, <3>2, StopPlaced DEF Unstarted
  <2>2. CASE ~StopGone
    <3>1. UNCHANGED <<pos, resting, halt, exitFailed, live>> /\ RecNext("orphans", FALSE)
      BY <1>5, <2>2 DEF SyncStops
    <3>2. StopKept'
      BY <1>1, <3>1, StopBeside DEF Holds
    <3>3. rec'.qty = rec.qty
      BY <3>1 DEF RecNext, TypeOK, PassType, Passes
    <3> QED
      BY <1>1, <3>1, <3>2, <3>3 DEF Unstarted
  <2> QED
    BY <2>1, <2>2
<1>6. CASE Conclude
  <2>1. UNCHANGED <<pos, halt, exitFailed>> /\ rec' = NoRec
    BY <1>6 DEF Conclude
  <2>2. pos.open => resting \subseteq resting'
    BY <1>6 DEF Conclude
  <2>3. live => live'
    BY <1>6, Zenon DEF Conclude
  <2>4. StopKept'
    <3>1. CASE pos.open
      BY <1>1, <2>1, <2>2, <3>1, StopBeside DEF Holds
    <3>2. CASE ~pos.open
      BY <2>1, <3>2 DEF StopKept
    <3> QED
      BY <3>1, <3>2
  <2> QED
    BY <1>1, <2>1, <2>3, <2>4 DEF Unstarted, NoRec
<1> QED
  BY <1>2, <1>3, <1>4, <1>5, <1>6 DEF Reconcile

(* A required stop is on the venue whenever nothing is in progress, through*)
(* entries, exits, adoptions and stops re-placed by the Reconciler, for    *)
(* every number of threads, entries, failing calls and reconcile passes -- *)
(* until the venue fires one or the process restarts.  A first boot that   *)
(* may adopt finds the venue flat: what it adopts before an engine is      *)
(* attached has no stop yet.  A strict cancel takes the tracked stop too.  *)
THEOREM ProtectedHolds ==
  ASSUME AdoptVenue => Prior \subseteq {0}, ~StrictCancel
  PROVE  Spec => [](fires = 0 /\ crashes = 0 => Protected)
<1>1. Init => StopInv
  BY DEF Init, StopInv, StopKept, Unstarted, NoPos, NoRec
<1>2. TypeOK /\ StopInv /\ [Next]_vars => StopInv'
  <2> SUFFICES ASSUME TypeOK, StopInv, [Next]_vars, fires' = 0, crashes' = 0
               PROVE  StopKept' /\ Unstarted'
    BY DEF StopInv
  <2> USE DEF wallet, market, gates, actors, past, spent
  <2>0. fires \in Nat /\ crashes \in Nat
    BY LifecycleConstants DEF TypeOK, SpentType
  <2>1. StopKept /\ Unstarted
    BY <2>0, SpentGrows DEF StopInv
  <2>2. ASSUME NEW t \in Threads, Thread(t) PROVE StopKept' /\ Unstarted'
    <3>1. live' = live
      BY <2>2 DEF Thread, OpenCheck, OpenFill, OpenBook, CloseCheck, PartialCheck,
         CloseFill, CloseBook, PartialFill, PartialBook
    <3>2. live
      <4>1. live \/ pc[t] # "idle"
        BY <2>2 DEF Thread, OpenCheck, OpenFill, OpenBook, CloseCheck, PartialCheck,
           CloseFill, CloseBook, PartialFill, PartialBook
      <4> QED
        BY <2>1, <4>1 DEF Unstarted
    <3>3. CASE OpenCheck(t)
      <4>1. UNCHANGED <<pos, resting, halt, exitFailed, restop>>
            /\ \A u \in Threads : pc[u] # "idle" => pc'[u] = pc[u]
        BY <3>3 DEF OpenCheck, Goto, TypeOK, ActorType
      <4>2. StopKept'
        BY <2>1, <4>1, StopBeside DEF Holds, Closing, Slicing
      <4> QED
        BY <3>1, <3>2, <4>2 DEF Unstarted
    <3>4. CASE \E hold \in BOOLEAN : CloseCheck(t, hold) \/ PartialCheck(t, hold)
      BY <2>1, <3>1, <3>2, <3>4, StopTaken DEF Unstarted
    <3>5. CASE OpenFill(t) \/ CloseFill(t) \/ PartialFill(t)
      BY <2>1, <3>1, <3>2, <3>5, StopOrdered DEF Unstarted
    <3>6. CASE OpenBook(t) \/ CloseBook(t) \/ PartialBook(t)
      BY <2>1, <3>1, <3>2, <3>6, StopBooked DEF Unstarted
    <3> QED
      BY <2>2, <3>3, <3>4, <3>5, <3>6 DEF Thread
  <2>3. ~\E o \in resting : FireProtective(o)
    BY <2>0 DEF FireProtective
  <2>4. ~Crash
    BY <2>0 DEF Crash
  <2>5. CASE \/ \E id \in notices : LoseNotice(id) \/ StreamFill(id)
             \/ UNCHANGED vars
    <3>1. UNCHANGED <<pos, venue, late, resting, halt, live, exitFailed, pc, restop, rec>>
      BY <2>5 DEF LoseNotice, StreamFill, vars
    <3> QED
      BY <2>1, <3>1, StopBeside DEF Unstarted, Holds
  <2>6. CASE StreamBook
    BY <2>1, <2>6 DEF StreamBook, NoPos, StopKept, Unstarted
  <2>7. ASSUME NEW o \in late, SettleLate(o) PROVE StopKept' /\ Unstarted'
    <3>1. UNCHANGED <<pos, resting, halt, live, exitFailed, pc, restop, rec>> /\ live
      BY <2>1, <2>7 DEF SettleLate, Unstarted
    <3> QED
      BY <2>1, <3>1, StopBeside DEF Unstarted, Holds
  <2> QED
    BY <2>1, <2>2, <2>3, <2>4, <2>5, <2>6, <2>7, StopReconciled DEF Next
<1>3. StopInv => (fires = 0 /\ crashes = 0 => Protected)
  BY DEF StopInv, StopKept, Protected, Settled, Holds, Closing, Slicing
<1> QED
  BY <1>1, <1>2, <1>3, TypeCorrect, PTL DEF Spec

-----------------------------------------------------------------------------
(* The contract of a position: what a step of the wallet is to those who   *)
(* know the position by its symbol.                                        *)

(* An open position is not empty.                                          *)
Filled == pos.open => pos.qty # 0

ContractStep == Filled' /\ [Books!CNext]_(Books!cvars)

SameSide(q, r) == r # 0 /\ (r > 0 <=> q > 0)

LEMMA StaysBooked ==
  ASSUME Filled, pos'.open = pos.open, UNCHANGED <<opens, closes>>,
         pos.open => SameSide(pos.qty, pos'.qty)
  PROVE  ContractStep
<1>1. Filled'
  BY DEF Filled, SameSide
<1>2. UNCHANGED Books!cvars
  BY DEF Books!cvars, SameSide
<1> QED
  BY <1>1, <1>2 DEF ContractStep

LEMMA BookedClosed ==
  ASSUME TypeOK, ClosedOncePerOpen, pos' = NoPos, opens' = opens,
         closes' = IF pos.open THEN closes + 1 ELSE closes
  PROVE  ContractStep
<1>1. ~pos'.open
  BY DEF NoPos
<1>2. Filled'
  BY <1>1 DEF Filled
<1>3. CASE pos.open
  <2>1. opens # 0
    BY <1>3 DEF TypeOK, WalletType, ClosedOncePerOpen
  <2>2. Books!Close
    BY <1>1, <1>3, <2>1 DEF Books!Close
  <2> QED
    BY <1>2, <2>2 DEF ContractStep, Books!CNext
<1>4. CASE ~pos.open
  <2>1. UNCHANGED Books!cvars
    BY <1>1, <1>4 DEF Books!cvars
  <2> QED
    BY <1>2, <2>1 DEF ContractStep
<1> QED
  BY <1>3, <1>4

(* A position booked open with its protection is open, or taken back.      *)
LEMMA BookedOpen ==
  ASSUME TypeOK, ~pos.open, opens' = opens + 1,
         NEW p \in Positions, p.open, p.qty # 0, Protect(p)
  PROVE  ContractStep
<1>1. CASE pos'.open = p.open /\ pos'.qty = p.qty /\ closes' = closes
  <2> DEFINE s == IF p.qty > 0 THEN "LONG" ELSE "SHORT"
  <2>1. Books!Open(s)
    BY <1>1 DEF Books!Open
  <2>2. s \in {"LONG", "SHORT"}
    OBVIOUS
  <2>3. Filled'
    BY <1>1 DEF Filled
  <2> QED
    BY <2>1, <2>2, <2>3 DEF ContractStep, Books!CNext
<1>2. CASE pos' = NoPos /\ closes' = closes + 1
  <2>1. ~pos'.open
    BY <1>2 DEF NoPos
  <2>2. Books!TakeBack
    BY <1>2, <2>1 DEF Books!TakeBack
  <2> QED
    BY <2>1, <2>2 DEF ContractStep, Books!CNext, Filled
<1> QED
  BY <1>1, <1>2, ProtectKeepsOrCloses DEF KeepsOrCloses

(* One that is protected again stays what it is, or is booked closed.      *)
LEMMA ProtectedAgain ==
  ASSUME TypeOK, ClosedOncePerOpen, Filled, pos.open, opens' = opens,
         NEW p \in Positions, p.open, SameSide(pos.qty, p.qty), Protect(p)
  PROVE  ContractStep
<1>1. CASE pos'.open = p.open /\ pos'.qty = p.qty /\ closes' = closes
  BY <1>1, StaysBooked DEF TypeOK, WalletType, Positions
<1>2. CASE pos' = NoPos /\ closes' = closes + 1
  BY <1>2, BookedClosed
<1> QED
  BY <1>1, <1>2, ProtectKeepsOrCloses DEF KeepsOrCloses

(* Half of a position leaves a position on the same side.                  *)
LEMMA SliceKeepsSide ==
  ASSUME NEW q \in Int, q # 0
  PROVE  SameSide(q, q - Slice(q))
<1>1. CASE q > 0
  BY <1>1, SliceSmaller DEF SameSide
<1>2. CASE q < 0
  <2>1. Slice(q) = -((-q) \div 2)
    BY <1>2 DEF Slice, Sign, Abs
  <2>2. (-q) \div 2 \in Int /\ (-q) \div 2 < -q
    BY <1>2
  <2> QED
    BY <1>2, <2>1, <2>2 DEF SameSide
<1> QED
  BY <1>1, <1>2

(* The venue's quantity is taken over with the wallet's sign.              *)
LEMMA AlignKeepsSide ==
  ASSUME NEW q \in Int, q # 0, NEW r \in Int, r # 0
  PROVE  SameSide(q, Sign(q) * Abs(r))
<1>1. Abs(r) \in Nat /\ Abs(r) > 0
  BY DEF Abs
<1>2. CASE q > 0
  <2>1. Sign(q) * Abs(r) = Abs(r)
    BY <1>1, <1>2 DEF Sign
  <2> QED
    BY <1>1, <1>2, <2>1 DEF SameSide
<1>3. CASE q < 0
  <2>1. Sign(q) * Abs(r) = -Abs(r)
    BY <1>1, <1>3 DEF Sign
  <2> QED
    BY <1>1, <1>3, <2>1 DEF SameSide
<1> QED
  BY <1>2, <1>3

LEMMA ContractSteps ==
  ASSUME TypeOK, ClosedOncePerOpen, Filled, [Next]_vars
  PROVE  ContractStep
<1>a. pos \in Positions /\ pos.qty \in Int /\ opens \in Nat /\ closes \in Nat
  BY DEF TypeOK, WalletType, Positions
<1>b. pos.open => SameSide(pos.qty, pos.qty)
  BY DEF Filled, SameSide
<1>1. ASSUME NEW t \in Threads, OpenBook(t)
      PROVE  ContractStep
  <2> DEFINE p == [NoPos EXCEPT !.open = TRUE, !.qty = Lot]
  <2>1. p \in Positions /\ p.open /\ p.qty # 0
    <3>1. Lot \in Int /\ Lot # 0
      BY LifecycleConstants
    <3> QED
      BY <3>1 DEF NoPos, Positions
  <2>2. CASE EntryDeclined
    <3>1. UNCHANGED wallet
      BY <2>2 DEF EntryDeclined
    <3> QED
      BY <1>b, <3>1, StaysBooked DEF wallet
  <2>3. CASE EntryBooked
    <3>1. ~pos.open /\ Protect(p) /\ opens' = opens + 1
      BY <2>3 DEF EntryBooked
    <3> HIDE DEF p
    <3> QED
      BY <2>1, <3>1, BookedOpen
  <2> QED
    BY <1>1, <2>2, <2>3 DEF OpenBook
<1>2. ASSUME NEW t \in Threads, NEW hold \in BOOLEAN,
             CloseCheck(t, hold) \/ PartialCheck(t, hold)
      PROVE  ContractStep
  <2>1. PICK kept : CancelLegs(kept)
    BY <1>2 DEF CloseCheck, PartialCheck
  <2>2. UNCHANGED <<opens, closes>>
    BY <1>2 DEF CloseCheck, PartialCheck
  <2> QED
    BY <1>b, <2>1, <2>2, Cancelled, StaysBooked
<1>3. ASSUME NEW t \in Threads, CloseBook(t)
      PROVE  ContractStep
  BY <1>3, BookedClosed DEF CloseBook
<1>4. ASSUME NEW t \in Threads, PartialBook(t)
      PROVE  ContractStep
  <2> DEFINE reduced == [pos EXCEPT !.qty = @ - Slice(@)]
  <2>1. reduced \in Positions /\ reduced.open = pos.open
    BY <1>a, ReducedTyped
  <2>2. pos.open => SameSide(pos.qty, reduced.qty)
    <3>1. reduced.qty = pos.qty - Slice(pos.qty)
      BY <1>a DEF Positions
    <3> HIDE DEF reduced
    <3> QED
      BY <1>a, <3>1, SliceKeepsSide DEF Filled
  <2>3. CASE pos.open /\ restop[t]
    <3>1. Protect(reduced) /\ opens' = opens
      BY <1>4, <2>3 DEF PartialBook
    <3> HIDE DEF reduced
    <3> QED
      BY <2>1, <2>2, <2>3, <3>1, ProtectedAgain
  <2>4. CASE ~(pos.open /\ restop[t])
    <3>1. pos' = (IF pos.open THEN reduced ELSE pos) /\ UNCHANGED <<opens, closes>>
      BY <1>4, <2>4 DEF PartialBook
    <3> HIDE DEF reduced
    <3> QED
      BY <2>1, <2>2, <3>1, StaysBooked
  <2> QED
    BY <2>3, <2>4
<1>5. ASSUME StreamBook
      PROVE  ContractStep
  BY <1>5, BookedClosed DEF StreamBook
<1>6. ASSUME AlignDrift
      PROVE  ContractStep
  <2>1. rec.qty \in Int /\ rec.qty # 0 /\ pos.open
    BY <1>6 DEF AlignDrift, Drift, TypeOK, PassType, Passes
  <2>2. pos'.open = pos.open /\ pos'.qty = Sign(pos.qty) * Abs(rec.qty)
    BY <1>6, <1>a DEF AlignDrift, Positions
  <2>3. SameSide(pos.qty, pos'.qty)
    BY <1>a, <2>1, <2>2, AlignKeepsSide DEF Filled
  <2>4. UNCHANGED <<opens, closes>>
    BY <1>6 DEF AlignDrift
  <2> QED
    BY <2>2, <2>3, <2>4, StaysBooked
<1>7. ASSUME Adopt
      PROVE  ContractStep
  <2> DEFINE p == [NoPos EXCEPT !.open = TRUE, !.qty = rec.qty]
  <2>1. p \in Positions /\ p.open /\ p.qty = rec.qty
    BY DEF TypeOK, PassType, Passes, NoPos, Positions
  <2>2. Protect(p) /\ opens' = opens + 1 /\ ~pos.open /\ rec.qty # 0
    BY <1>7 DEF Adopt, Protect, Missing
  <2> HIDE DEF p
  <2> QED
    BY <2>1, <2>2, BookedOpen
<1>8. ASSUME SyncStops
      PROVE  ContractStep
  <2>1. CASE ~StopGone
    <3>1. pos' = pos /\ UNCHANGED <<opens, closes>>
      BY <1>8, <2>1 DEF SyncStops
    <3> QED
      BY <1>b, <3>1, StaysBooked
  <2>2. CASE StopGone
    <3>1. Protect(pos) /\ opens' = opens /\ pos.open
      BY <1>8, <2>2 DEF SyncStops, Protect, StopGone
    <3> QED
      BY <1>a, <1>b, <3>1, ProtectedAgain
  <2> QED
    BY <2>1, <2>2
<1>9. ASSUME \/ \E t \in Threads : \/ OpenCheck(t) \/ OpenFill(t) \/ CloseFill(t)
                                   \/ PartialFill(t)
             \/ \E o \in late : SettleLate(o)
             \/ \E o \in resting : FireProtective(o)
             \/ \E id \in notices : LoseNotice(id) \/ StreamFill(id)
             \/ ReadPositions \/ ReadOrders \/ Report \/ Conclude \/ Crash
             \/ UNCHANGED vars
      PROVE  ContractStep
  <2>1. UNCHANGED wallet
    BY <1>9 DEF OpenCheck, OpenFill, CloseFill, PartialFill, SettleLate, FireProtective,
       LoseNotice, StreamFill, ReadPositions, ReadOrders, Report, Conclude, Crash, vars
  <2> QED
    BY <1>b, <2>1, StaysBooked DEF wallet
<1> QED
  BY <1>1, <1>2, <1>3, <1>4, <1>5, <1>6, <1>7, <1>8, <1>9 DEF Next, Thread, Reconcile

(* The wallet refines the contract, for every number of threads, faults,   *)
(* fires, passes and crashes, adoptions and alignments included: one       *)
(* position at a time, never turned over, never emptied without a close,   *)
(* closed once.                                                            *)
THEOREM ContractKept == Spec => BooksKeepContract
<1>1. Init => Books!CInit /\ Filled
  BY DEF Init, NoPos, Books!CInit, Filled
<1>2. TypeOK /\ ClosedOncePerOpen /\ Filled /\ [Next]_vars
        => Filled' /\ [Books!CNext]_(Books!cvars)
  BY ContractSteps DEF ContractStep
<1> QED
  BY <1>1, <1>2, TypeCorrect, BooksBalance, PTL DEF Spec, BooksKeepContract, Books!Contract
=============================================================================
