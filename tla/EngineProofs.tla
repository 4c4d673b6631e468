----------------------------- MODULE EngineProofs -----------------------------
(***************************************************************************)
(* Type correctness, OneLateEntry and FitsTheBalance, for every number of  *)
(* engines, account, configured balance and bound. LateInv adds to         *)
(* OneLateEntry where the loop of an engine is once its late entry has     *)
(* filled: not between the gate and the order, where a second one would    *)
(* follow, and it does not pass the gate again as long as it is told to    *)
(* stop. MoneyInv bounds the venue's margin by the account's, and with it  *)
(* the balance that an entry is checked against when it is booked: by the  *)
(* larger of the account's and the configured one, which every event of    *)
(* the wallet brings back. The last part is about the threads that manage  *)
(* the position of one engine, as PositionManagement has them: type        *)
(* correctness and MovesSafely from ManageInv, and the refinement of       *)
(* PositionContract.                                                       *)
(***************************************************************************)
EXTENDS Engine, PositionManagement, FiniteSetTheorems, TLAPS

\* The type of what tells an engine to stop and of what it did since.
LoopTypes ==
  /\ at \in [Engines -> Places] /\ late \in [Engines -> Nat]
  /\ halted \in [Engines -> BOOLEAN] /\ kill \in BOOLEAN

\* An engine that had its late entry is told to stop and has no order ahead.
Spent(e) == late[e] = 0 \/ (late[e] = 1 /\ Told(e) /\ at[e] \notin {"gated", "send"})

LateInv == LoopTypes /\ \A e \in Engines : Spent(e)

\* A loop step before the gate, or away from the order, fills nothing.
LEMMA LoopMoves ==
  ASSUME NEW e \in Engines, NEW p \in Places, LateInv,
         Goes(e, p), p \notin {"gated", "send"} \/ ~Told(e) \/ at[e] \in {"gated", "send"},
         UNCHANGED late,
         halted' \in [Engines -> BOOLEAN], kill' \in BOOLEAN,
         \A f \in Engines : Told(f) => Told(f)'
  PROVE  LateInv'
<1>1. LoopTypes'
  BY DEF LateInv, LoopTypes, Goes
<1>2. ASSUME NEW f \in Engines PROVE Spent(f)'
  <2>1. Spent(f)
    BY DEF LateInv
  <2>2. CASE f # e
    BY <2>1, <2>2 DEF Spent, Goes, LateInv, LoopTypes
  <2>3. CASE f = e
    BY <2>1, <2>3 DEF Spent, Goes, LateInv, LoopTypes
  <2> QED
    BY <2>2, <2>3
<1> QED
  BY <1>1, <1>2 DEF LateInv

\* A step beside the loops only ever tells engines to stop.
LEMMA Beside ==
  ASSUME LateInv, UNCHANGED <<at, late>>,
         halted' \in [Engines -> BOOLEAN], kill' \in BOOLEAN,
         \A f \in Engines : Told(f) => Told(f)'
  PROVE  LateInv'
<1>1. LoopTypes'
  BY DEF LateInv, LoopTypes
<1>2. ASSUME NEW f \in Engines PROVE Spent(f)'
  BY DEF LateInv, Spent
<1> QED
  BY <1>1, <1>2 DEF LateInv

\* The order of an engine is its only one: it leaves the place it was sent at.
LEMMA Filled ==
  ASSUME NEW e \in Engines, NEW p \in Places, LateInv,
         at[e] = "send", p \notin {"gated", "send"}, Goes(e, p), Fills(e),
         UNCHANGED <<halted, kill>>
  PROVE  LateInv'
<1>1. Spent(e) /\ late[e] = 0
  BY DEF LateInv, Spent
<1>2. late' = [late EXCEPT ![e] = IF Told(e) THEN 1 ELSE 0]
  BY <1>1 DEF Fills, LateInv, LoopTypes
<1>3. LoopTypes'
  BY <1>2 DEF LateInv, LoopTypes, Goes
<1>4. ASSUME NEW f \in Engines PROVE Spent(f)'
  <2>1. Spent(f)
    BY DEF LateInv
  <2>2. CASE f # e
    BY <1>2, <2>1, <2>2 DEF Spent, Goes, Told, LateInv, LoopTypes
  <2>3. CASE f = e
    BY <1>2, <2>3 DEF Spent, Goes, Told, LateInv, LoopTypes
  <2> QED
    BY <2>2, <2>3
<1> QED
  BY <1>3, <1>4 DEF LateInv

-----------------------------------------------------------------------------
LEMMA InitLate == Init => LateInv
<1> SUFFICES ASSUME Init PROVE LateInv
  OBVIOUS
<1>1. LoopTypes
  BY DEF Init, LoopTypes, Places
<1>2. ASSUME NEW e \in Engines PROVE Spent(e)
  BY DEF Init, Spent
<1> QED
  BY <1>1, <1>2 DEF LateInv

\* Steps of a loop and of its reconciliation.
LEMMA LoopLate ==
  ASSUME LateInv, NEW e \in Engines, Loop(e) \/ Reconcile(e)
  PROVE  LateInv'
<1> USE DEF Places
<1>t. /\ halted \in [Engines -> BOOLEAN] /\ kill \in BOOLEAN
      /\ at \in [Engines -> Places]
  BY DEF LateInv, LoopTypes
<1>1. CASE Supervise(e)
  BY <1>1, <1>t, LoopMoves DEF Supervise, guards, Told
<1>2. CASE FailStop(e)
  BY <1>2, <1>t, LoopMoves DEF FailStop, Told
<1>3. CASE Gate(e)
  BY <1>3, <1>t, LoopMoves DEF Gate, MayTick, guards, Told
<1>4. CASE Skip(e) \/ NoEntry(e)
  BY <1>4, <1>t, LoopMoves DEF Skip, NoEntry, guards, Told
<1>5. CASE TickExit(e)
  BY <1>5, <1>t, Beside DEF TickExit, guards, loops, Told
<1>6. CASE Crash(e)
  BY <1>6, <1>t, LoopMoves DEF Crash, guards, Told
<1>7. CASE Decide(e)
  BY <1>7, <1>t, LoopMoves DEF Decide, guards, Told
<1>8. CASE Send(e)
  BY <1>8, <1>t, Filled DEF Send, guards
<1>9. CASE Refused(e)
  BY <1>9, <1>t, LoopMoves DEF Refused, guards, Told
<1>10. CASE Doubtful(e)
  <2>1. CASE UNCHANGED late
    BY <1>10, <1>t, <2>1, LoopMoves DEF Doubtful, guards, Told
  <2>2. CASE Fills(e)
    BY <1>10, <1>t, <2>2, Filled DEF Doubtful, guards
  <2> QED
    BY <1>10, <2>1, <2>2 DEF Doubtful
<1>11. CASE SkippedButFilled(e)
  BY <1>11, <1>t, Filled DEF SkippedButFilled, guards
<1>12. CASE Book(e)
  BY <1>12, <1>t, LoopMoves DEF Book, guards, Told
<1>13. CASE StopRefused(e)
  BY <1>13, <1>t, LoopMoves DEF StopRefused, Told
<1>14. CASE EntryFailure(e)
  BY <1>14, <1>t, LoopMoves DEF EntryFailure, Told
<1>15. CASE Reconcile(e)
  BY <1>15, <1>t, LoopMoves DEF Reconcile, Told
<1> QED
  BY <1>1, <1>2, <1>3, <1>4, <1>5, <1>6, <1>7, <1>8, <1>9, <1>10, <1>11,
     <1>12, <1>13, <1>14, <1>15 DEF Loop

\* The monitor, the operator, the venue and the threads.
LEMMA OtherLate ==
  ASSUME LateInv, NEW e \in Engines,
         \/ Monitor(e) \/ MonitorExit(e) \/ HealthGood(e) \/ Kill(e)
         \/ VenueCloses(e) \/ Disconnect(e) \/ ThreadDies(e)
  PROVE  LateInv'
<1>t. halted \in [Engines -> BOOLEAN] /\ kill \in BOOLEAN
  BY DEF LateInv, LoopTypes
<1>1. CASE HealthBad(e)
  BY <1>1, <1>t, Beside DEF HealthBad, loops, Told
<1>2. CASE HealthUnread(e)
  <2> DEFINE trip == misses'[e] = 3 /\ book[e] # 0
  <2>1. kill' = (kill \/ trip) /\ halted' = [halted EXCEPT ![e] = @ \/ trip]
    BY <1>2 DEF HealthUnread
  <2>2. trip \in BOOLEAN
    OBVIOUS
  <2>3. kill' \in BOOLEAN /\ halted' \in [Engines -> BOOLEAN]
    BY <1>t, <2>1, <2>2
  <2>4. ASSUME NEW f \in Engines, Told(f) PROVE Told(f)'
    BY <1>t, <2>1, <2>4 DEF Told
  <2>5. UNCHANGED <<at, late>>
    BY <1>2 DEF HealthUnread, loops
  <2> QED
    BY <2>3, <2>4, <2>5, Beside
<1>3. CASE \/ HealthSilent(e) \/ Reconnect(e) \/ MonitorExit(e) \/ HealthGood(e)
           \/ VenueCloses(e) \/ Disconnect(e) \/ ThreadDies(e)
  <2>1. UNCHANGED <<at, late, halted, kill>>
    BY <1>3 DEF HealthSilent, Reconnect, MonitorExit, HealthGood, VenueCloses, Disconnect,
       ThreadDies, loops, guards
  <2> QED
    BY <1>t, <2>1, Beside DEF Told
<1>4. CASE Kill(e)
  BY <1>4, <1>t, Beside DEF Kill, loops, Told
<1> QED
  BY <1>1, <1>2, <1>3, <1>4 DEF Monitor

\* The operator lets an engine go on: what it filled before counts no more.
LEMMA ResumeLate ==
  ASSUME LateInv, NEW e \in Engines, Resume(e)
  PROVE  LateInv'
<1>1. LoopTypes'
  BY DEF LateInv, LoopTypes, Resume
<1>2. ASSUME NEW f \in Engines PROVE Spent(f)'
  <2>1. Spent(f) /\ late \in [Engines -> Nat] /\ halted \in [Engines -> BOOLEAN]
    BY DEF LateInv, LoopTypes
  <2>2. CASE f # e
    BY <2>1, <2>2 DEF Spent, Resume, Told
  <2>3. CASE f = e
    BY <2>1, <2>3 DEF Spent, Resume
  <2> QED
    BY <2>2, <2>3
<1> QED
  BY <1>1, <1>2 DEF LateInv

LEMMA NextLate == LateInv /\ [Next]_vars => LateInv'
<1> SUFFICES ASSUME LateInv, [Next]_vars PROVE LateInv'
  OBVIOUS
<1>1. CASE \E e \in Engines : Loop(e) \/ Reconcile(e)
  BY <1>1, LoopLate
<1>2. CASE \E e \in Engines :
             \/ Monitor(e) \/ MonitorExit(e) \/ HealthGood(e) \/ Kill(e)
             \/ VenueCloses(e) \/ Disconnect(e) \/ ThreadDies(e)
  BY <1>2, OtherLate
<1>3. CASE \E e \in Engines : Resume(e)
  BY <1>3, ResumeLate
<1>4. CASE Clear \/ MarginTurns \/ UNCHANGED vars
  <2>1. UNCHANGED <<at, late, halted, kill>>
    BY <1>4 DEF Clear, MarginTurns, vars, loops, guards
  <2>2. halted \in [Engines -> BOOLEAN] /\ kill \in BOOLEAN
    BY DEF LateInv, LoopTypes
  <2> QED
    BY <2>1, <2>2, Beside DEF Told
<1> QED
  BY <1>1, <1>2, <1>3, <1>4 DEF Next

\* An engine told to stop fills at most the one entry that had passed the gate
\* by then (engine_ws.py:941, 2112), however the engines, their monitors and
\* the operator interleave and whatever fails.
THEOREM OneLateEntryHolds == Spec => []OneLateEntry
<1>1. LateInv => OneLateEntry
  BY DEF LateInv, OneLateEntry, Spent, LoopTypes
<1> QED
  BY <1>1, InitLate, NextLate, PTL DEF Spec
-----------------------------------------------------------------------------
(* Sums of margins.                                                        *)

LEMMA UnitsMember ==
  ASSUME NEW f, NEW e, NEW n
  PROVE  <<e, n>> \in Units(f) <=> e \in Engines /\ n \in 1 .. f[e]
BY DEF Units

LEMMA UnitsPairs ==
  ASSUME NEW f, NEW p \in Units(f)
  PROVE  \E e, n : e \in Engines /\ n \in 1 .. f[e] /\ p = <<e, n>>
BY DEF Units

LEMMA TotalType ==
  ASSUME NEW f \in [Engines -> Nat]
  PROVE  IsFiniteSet(Units(f)) /\ Total(f) \in Nat
<1> DEFINE g == [e \in Engines |-> {e} \X (1 .. f[e])]
           S == {{e} \X (1 .. f[e]) : e \in Engines}
<1>1. g \in Surjection(Engines, S)
  BY DEF Surjection
<1>2. IsFiniteSet(S)
  BY <1>1, FS_Surjection, EngineConstants
<1>3. ASSUME NEW T \in S PROVE IsFiniteSet(T)
  <2>1. PICK e \in Engines : T = {e} \X (1 .. f[e])
    OBVIOUS
  <2>2. IsFiniteSet(1 .. f[e])
    BY FS_Interval
  <2>3. IsFiniteSet({e})
    BY FS_Singleton
  <2> QED
    BY <2>1, <2>2, <2>3, FS_Product
<1>4. IsFiniteSet(UNION S)
  BY <1>2, <1>3, FS_UNION
<1>5. IsFiniteSet(Units(f))
  BY <1>4 DEF Units
<1> QED
  BY <1>5, FS_CardinalityType DEF Total

\* Nobody's margin grows: neither does the sum.
LEMMA TotalShrinks ==
  ASSUME NEW f \in [Engines -> Nat], NEW g \in [Engines -> Nat],
         \A e \in Engines : g[e] <= f[e]
  PROVE  Total(g) <= Total(f)
<1>1. ASSUME NEW p \in Units(g) PROVE p \in Units(f)
  <2>1. PICK e, n : e \in Engines /\ n \in 1 .. g[e] /\ p = <<e, n>>
    BY UnitsPairs
  <2>2. g[e] <= f[e] /\ g[e] \in Nat /\ f[e] \in Nat
    BY <2>1
  <2>3. n \in 1 .. f[e]
    BY <2>1, <2>2
  <2> QED
    BY <2>1, <2>3, UnitsMember
<1>2. Units(g) \in SUBSET Units(f)
  BY <1>1
<1> QED
  BY <1>2, TotalType, FS_Subset DEF Total

\* One engine's margin grows by m: so does the sum.
LEMMA TotalGrows ==
  ASSUME NEW f \in [Engines -> Nat], NEW e \in Engines, NEW m \in Nat
  PROVE  Total([f EXCEPT ![e] = f[e] + m]) = Total(f) + m
<1> DEFINE g == [f EXCEPT ![e] = f[e] + m]
           N == {e} \X (f[e] + 1 .. f[e] + m)
<1>1. /\ g \in [Engines -> Nat] /\ g[e] = f[e] + m /\ f[e] \in Nat
      /\ \A d \in Engines \ {e} : g[d] = f[d]
  OBVIOUS
<1>2. IsFiniteSet(f[e] + 1 .. f[e] + m) /\ Cardinality(f[e] + 1 .. f[e] + m) = m
  <2>1. f[e] + 1 \in Int /\ f[e] + m \in Int
    BY <1>1
  <2>2. IsFiniteSet(f[e] + 1 .. f[e] + m)
    BY <2>1, FS_Interval
  <2>3. Cardinality(f[e] + 1 .. f[e] + m)
          = IF f[e] + 1 > f[e] + m THEN 0 ELSE (f[e] + m) - (f[e] + 1) + 1
    BY <2>1, FS_Interval
  <2> QED
    BY <1>1, <2>2, <2>3
<1>3. IsFiniteSet({e}) /\ Cardinality({e}) = 1
  BY FS_Singleton
<1>4. IsFiniteSet(N) /\ Cardinality(N) = m
  <2> DEFINE I == f[e] + 1 .. f[e] + m
  <2>1. IsFiniteSet(I) /\ Cardinality(I) = m
    BY <1>2
  <2> HIDE DEF I
  <2>2. IsFiniteSet({e} \X I) /\ Cardinality({e} \X I) = Cardinality({e}) * Cardinality(I)
    BY <1>3, <2>1, FS_Product
  <2>3. Cardinality({e}) * Cardinality(I) = m
    BY <1>3, <2>1
  <2> QED
    BY <2>2, <2>3 DEF I
<1>5. Units(g) = Units(f) \cup N
  <2>1. ASSUME NEW p \in Units(g) PROVE p \in Units(f) \cup N
    <3>1. PICK d, n : d \in Engines /\ n \in 1 .. g[d] /\ p = <<d, n>>
      BY UnitsPairs
    <3>2. CASE d = e
      <4>1. n \in 1 .. f[e] \/ n \in f[e] + 1 .. f[e] + m
        BY <1>1, <3>1, <3>2
      <4> QED
        BY <3>1, <3>2, <4>1, UnitsMember
    <3>3. CASE d # e
      BY <1>1, <3>1, <3>3, UnitsMember
    <3> QED
      BY <3>2, <3>3
  <2>2. ASSUME NEW p \in Units(f) PROVE p \in Units(g)
    <3>1. PICK d, n : d \in Engines /\ n \in 1 .. f[d] /\ p = <<d, n>>
      BY UnitsPairs
    <3>2. f[d] <= g[d] /\ f[d] \in Nat /\ g[d] \in Nat
      BY <1>1, <3>1
    <3>3. n \in 1 .. g[d]
      BY <3>1, <3>2
    <3> QED
      BY <3>1, <3>3, UnitsMember
  <2>3. ASSUME NEW p \in N PROVE p \in Units(g)
    <3>1. PICK n \in f[e] + 1 .. f[e] + m : p = <<e, n>>
      OBVIOUS
    <3>2. n \in 1 .. g[e]
      BY <1>1
    <3> QED
      BY <3>1, <3>2, UnitsMember
  <2> QED
    BY <2>1, <2>2, <2>3
<1>6. Units(f) \cap N = {}
  <2>1. SUFFICES ASSUME NEW p \in Units(f), p \in N PROVE FALSE
    OBVIOUS
  <2>2. PICK d, n : d \in Engines /\ n \in 1 .. f[d] /\ p = <<d, n>>
    BY <2>1, UnitsPairs
  <2>3. d = e /\ n \in f[e] + 1 .. f[e] + m
    BY <2>1, <2>2
  <2> QED
    BY <1>1, <2>2, <2>3
<1>7. Total(g) = Total(f) + m - Cardinality({})
  BY <1>4, <1>5, <1>6, TotalType, FS_Union DEF Total
<1> QED
  BY <1>7, FS_EmptySet, TotalType

LEMMA TotalOfNone == Total([e \in Engines |-> 0]) = 0
<1>1. Units([e \in Engines |-> 0]) = {}
  BY DEF Units
<1> QED
  BY <1>1, FS_EmptySet DEF Total
-----------------------------------------------------------------------------
(* The account's margin.                                                   *)

\* The venue never carries more margin than the account has: that is what
\* keeps the balance a reconciliation reads from going below zero.
MoneyInv ==
  /\ want \in [Engines -> Nat] /\ book \in [Engines -> Nat]
  /\ venue \in [Engines -> Nat] /\ Total(venue) <= Balance
  /\ balance \in 0 .. Larger

LEMMA InitMoney == Init => MoneyInv
<1>1. Balance \in Nat /\ Balance \in 0 .. Larger
  BY EngineConstants DEF Larger
<1> QED
  BY <1>1, TotalOfNone DEF Init, MoneyInv

\* The venue's positions only shrink, the balance is the reducer's or stays.
LEMMA Releases ==
  ASSUME MoneyInv, want' \in [Engines -> Nat], book' \in [Engines -> Nat],
         venue' \in [Engines -> Nat], \A e \in Engines : venue'[e] <= venue[e],
         balance' \in {balance, Initial}
  PROVE  MoneyInv'
<1>1. Total(venue') <= Total(venue) /\ Total(venue') \in Nat /\ Total(venue) \in Nat
  BY TotalShrinks, TotalType DEF MoneyInv
<1>2. Total(venue)' = Total(venue')
  BY DEF Total, Units
<1>3. balance' \in 0 .. Larger
  BY EngineConstants DEF MoneyInv, Larger
<1> QED
  BY <1>1, <1>2, <1>3, EngineConstants DEF MoneyInv

LEMMA CloseMoney ==
  ASSUME MoneyInv, NEW e \in Engines, Close(e), want' \in [Engines -> Nat]
  PROVE  MoneyInv'
<1>1. \A f \in Engines : book[f] \in Nat /\ venue[f] \in Nat
  BY DEF MoneyInv
<1> DEFINE left == IF venue[e] > book[e] THEN venue[e] - book[e] ELSE 0
<1>2. left \in Nat /\ left <= venue[e]
  BY <1>1
<1>3. venue' = [venue EXCEPT ![e] = left]
  BY DEF Close
<1> HIDE DEF left
<1>4. venue' \in [Engines -> Nat] /\ \A f \in Engines : venue'[f] <= venue[f]
  BY <1>1, <1>2, <1>3 DEF MoneyInv
<1>5. book' \in [Engines -> Nat] /\ balance' = Initial
  BY DEF Close, Books, MoneyInv
<1> QED
  BY <1>4, <1>5, Releases

\* The money stays as it is.
LEMMA StaysMoney ==
  ASSUME MoneyInv, want' \in [Engines -> Nat], UNCHANGED money
  PROVE  MoneyInv'
BY DEF MoneyInv, money, Total, Units

\* An entry fills at the venue, which does not let the account overdraw.
LEMMA FillMoney ==
  ASSUME MoneyInv, NEW e \in Engines, Affords(e), Fills(e),
         want' \in [Engines -> Nat], UNCHANGED <<book, balance>>
  PROVE  MoneyInv'
<1>1. venue[e] \in Nat /\ want[e] \in Nat
  BY DEF MoneyInv
<1>2. venue' = [venue EXCEPT ![e] = venue[e] + want[e]]
  BY DEF Fills
<1>3. venue' \in [Engines -> Nat]
  BY <1>1, <1>2 DEF MoneyInv
<1>4. Total(venue') <= Balance
  BY <1>1, <1>2, TotalGrows DEF MoneyInv, Affords
<1>5. Total(venue)' = Total(venue')
  BY DEF Total, Units
<1> QED
  BY <1>3, <1>4, <1>5 DEF MoneyInv

\* The balance of the reducer, or what the venue shows as free.
LEMMA ReconcileMoney ==
  ASSUME MoneyInv, NEW e \in Engines, Reconcile(e)
  PROVE  MoneyInv'
<1>1. want' = want /\ venue' = venue
  BY DEF Reconcile
<1>2. book' \in [Engines -> Nat]
  BY DEF Reconcile, Compared, MoneyInv
<1>3. balance' = balance \/ balance' = Balance - Total(venue)
  BY DEF Reconcile, Synced
<1>4. Total(venue) \in Nat /\ Total(venue) <= Balance /\ Balance \in Nat
  BY TotalType, EngineConstants DEF MoneyInv
<1>5. balance' \in 0 .. Larger
  BY <1>3, <1>4, EngineConstants DEF MoneyInv, Larger
<1>6. Total(venue)' = Total(venue)
  BY <1>1 DEF Total, Units
<1> QED
  BY <1>1, <1>2, <1>5, <1>6 DEF MoneyInv

\* A fill is booked over whatever the wallet had.
LEMMA BookMoney ==
  ASSUME MoneyInv, NEW e \in Engines, Books(e, want[e]), venue' = venue,
         want' \in [Engines -> Nat]
  PROVE  MoneyInv'
<1>1. book' \in [Engines -> Nat] /\ balance' = Initial
  BY DEF Books, MoneyInv
<1>2. \A f \in Engines : venue'[f] <= venue[f]
  BY DEF MoneyInv
<1> QED
  BY <1>1, <1>2, Releases DEF MoneyInv

LEMMA LoopMoney ==
  ASSUME MoneyInv, NEW e \in Engines, Loop(e)
  PROVE  MoneyInv'
<1>w. want' \in [Engines -> Nat]
  <2>1. 0 \in Nat /\ Sizes \subseteq Nat /\ want \in [Engines -> Nat]
    BY EngineConstants DEF MoneyInv
  <2>2. \/ want' = want \/ want' = [want EXCEPT ![e] = 0]
        \/ \E m \in Sizes : want' = [want EXCEPT ![e] = m]
    BY DEF Loop, Supervise, FailStop, Gate, Skip, NoEntry, TickExit, Crash, Decide,
       Send, Refused, Doubtful, SkippedButFilled, Book, StopRefused, EntryFailure, loops
  <2> QED
    BY <2>1, <2>2
<1>1. CASE UNCHANGED money
  BY <1>1, <1>w, StaysMoney
<1>2. CASE TickExit(e)
  BY <1>2, <1>w, CloseMoney DEF TickExit
<1>3. CASE Fills(e) /\ Affords(e) /\ UNCHANGED <<book, balance>>
  BY <1>3, <1>w, FillMoney
<1>4. CASE Books(e, want[e]) /\ venue' = venue
  BY <1>4, <1>w, BookMoney
<1> QED
  BY <1>1, <1>2, <1>3, <1>4
  DEF Loop, Supervise, FailStop, Gate, Skip, NoEntry, Crash, CloseFails, Decide,
      Send, Refused, Doubtful, SkippedButFilled, Book, StopRefused, EntryFailure, money

\* What a guard does with the position of its engine.
LEMMA FlattenMoney ==
  ASSUME MoneyInv, NEW e \in Engines, Flattens(e), want' = want
  PROVE  MoneyInv'
<1>1. want' \in [Engines -> Nat]
  BY DEF MoneyInv
<1> QED
  BY <1>1, CloseMoney, StaysMoney DEF Flattens, CloseFails

LEMMA OtherMoney ==
  ASSUME MoneyInv, NEW e \in Engines,
         \/ Monitor(e) \/ MonitorExit(e) \/ HealthGood(e) \/ Kill(e) \/ Resume(e)
         \/ VenueCloses(e) \/ Disconnect(e) \/ ThreadDies(e)
  PROVE  MoneyInv'
<1>w. want' = want /\ want' \in [Engines -> Nat]
  BY DEF Monitor, HealthBad, HealthUnread, HealthSilent, Reconnect, MonitorExit, HealthGood, Kill,
     Resume, VenueCloses, Disconnect, ThreadDies, loops, MoneyInv
<1>1. CASE HealthBad(e)
  BY <1>1, <1>w, FlattenMoney DEF HealthBad, GuardFlattens
<1>2. CASE Close(e)
  BY <1>2, <1>w, CloseMoney
<1>3. CASE VenueCloses(e)
  <2>1. venue' \in [Engines -> Nat] /\ \A f \in Engines : venue'[f] <= venue[f]
    BY <1>3 DEF VenueCloses, MoneyInv
  <2>2. book' \in [Engines -> Nat] /\ balance' = balance
    BY <1>3 DEF VenueCloses, MoneyInv
  <2> QED
    BY <1>w, <2>1, <2>2, Releases
<1>4. CASE UNCHANGED money
  BY <1>4, <1>w, StaysMoney
<1> QED
  BY <1>1, <1>2, <1>3, <1>4
  DEF Monitor, HealthUnread, HealthSilent, Reconnect, MonitorExit, HealthGood, Kill, Resume,
      Disconnect, ThreadDies, money

LEMMA NextMoney == MoneyInv /\ [Next]_vars => MoneyInv'
<1> SUFFICES ASSUME MoneyInv, [Next]_vars PROVE MoneyInv'
  OBVIOUS
<1>1. CASE \E e \in Engines : Loop(e) \/ Reconcile(e)
  BY <1>1, LoopMoney, ReconcileMoney
<1>2. CASE \E e \in Engines :
             \/ Monitor(e) \/ MonitorExit(e) \/ HealthGood(e) \/ Kill(e) \/ Resume(e)
             \/ VenueCloses(e) \/ Disconnect(e) \/ ThreadDies(e)
  BY <1>2, OtherMoney
<1>3. CASE Clear \/ MarginTurns \/ UNCHANGED vars
  BY <1>3, StaysMoney DEF Clear, MarginTurns, vars, loops, MoneyInv
<1> QED
  BY <1>1, <1>2, <1>3 DEF Next

\* open_position's second phase looks at the balance again, under the wallet's
\* lock: what it books beside the other positions fits the larger of the account's
\* balance and the configured one, although the size was decided before and other
\* engines may have filled since.
THEOREM FitsTheBalanceHolds == Spec => FitsTheBalance
<1> DEFINE Fits == \A e \in Engines : book[e] = 0 /\ book'[e] # 0 => Total(book') <= Larger
<1>1. MoneyInv /\ [Next]_vars => [Fits]_vars
  <2> SUFFICES ASSUME MoneyInv, Next, NEW e \in Engines, book[e] = 0, book'[e] # 0
               PROVE  Total(book') <= Larger
    OBVIOUS
  <2>1. PICK d \in Engines : book' # book /\ (Loop(d) \/ Reconcile(d) \/ Monitor(d)
                              \/ MonitorExit(d) \/ Kill(d))
    BY DEF Next, HealthGood, Resume, VenueCloses, Disconnect, ThreadDies, Clear,
       MarginTurns, money
  <2>2. \/ Close(d)
        \/ Compared(d)
        \/ Bookable(d) /\ Books(d, want[d])
    BY <2>1 DEF Loop, Supervise, FailStop, Gate, Skip, NoEntry, TickExit, Crash, Decide,
       Send, Refused, Doubtful, SkippedButFilled, Book, StopRefused, EntryFailure,
       Reconcile, Monitor, HealthBad, GuardFlattens, Flattens, CloseFails, HealthUnread,
       HealthSilent, Reconnect, MonitorExit, Kill, money
  <2>3. ~Close(d) /\ ~Compared(d)
    BY DEF Close, Books, Compared, MoneyInv
  <2>4. Bookable(d) /\ book' = [book EXCEPT ![d] = want[d]]
    BY <2>2, <2>3 DEF Books
  <2>5. d = e /\ book[e] \in Nat /\ want[e] \in Nat
    BY <2>4 DEF MoneyInv
  <2>6. book' = [book EXCEPT ![e] = book[e] + want[e]]
    <3>1. book[e] + want[e] = want[e]
      BY <2>5
    <3> QED
      BY <2>4, <2>5, <3>1, Zenon
  <2>7. Total(book') = Total(book) + want[e]
    BY <2>5, <2>6, TotalGrows DEF MoneyInv
  <2>8. want[e] <= balance - Total(book) /\ balance <= Larger /\ Total(book) \in Nat
        /\ balance \in Int /\ Larger \in Int
    BY <2>4, <2>5, TotalType, EngineConstants DEF Bookable, Used, MoneyInv, Larger
  <2> QED
    BY <2>5, <2>7, <2>8
<1> QED
  BY <1>1, InitMoney, NextMoney, PTL DEF Spec, FitsTheBalance

-----------------------------------------------------------------------------
(* Type correctness.                                                       *)

\* The types that neither LateInv nor MoneyInv keeps.
RestTypes ==
  /\ alarm \in [Engines -> BOOLEAN] /\ halt \in BOOLEAN
  /\ watch \in [Engines -> {"on", "off", "dead"}] /\ misses \in [Engines -> 0 .. 3]
  /\ danger \in BOOLEAN
  /\ faults \in 0 .. MaxFaults /\ entries \in 0 .. MaxEntries /\ commands \in 0 .. MaxCommands

LEMMA SpentTypes ==
  ASSUME RestTypes,
         \/ UNCHANGED spent \/ Fault
         \/ Sent /\ UNCHANGED faults
         \/ Command /\ UNCHANGED entries
              /\ (faults' = faults \/ (faults < MaxFaults /\ faults' = faults + 1))
  PROVE  /\ faults' \in 0 .. MaxFaults /\ entries' \in 0 .. MaxEntries
         /\ commands' \in 0 .. MaxCommands
BY EngineConstants DEF RestTypes, Fault, Sent, Command, spent

\* Every step spends at most one fault, one order or one command.
LEMMA SpendsOne ==
  ASSUME [Next]_vars
  PROVE  \/ UNCHANGED spent \/ Fault
         \/ Sent /\ UNCHANGED faults
         \/ Command /\ UNCHANGED entries
              /\ (faults' = faults \/ (faults < MaxFaults /\ faults' = faults + 1))
<1>1. ASSUME NEW e \in Engines, Loop(e)
      PROVE  UNCHANGED spent \/ Fault \/ (Sent /\ UNCHANGED faults)
  BY <1>1 DEF Loop, Supervise, FailStop, Gate, Skip, NoEntry, TickExit, Crash, CloseFails,
     Decide, Send, Refused, Doubtful, SkippedButFilled, Book, StopRefused, EntryFailure
<1>2. ASSUME NEW e \in Engines,
             \/ Reconcile(e) \/ Monitor(e) \/ MonitorExit(e) \/ HealthGood(e)
             \/ VenueCloses(e) \/ Disconnect(e) \/ ThreadDies(e)
      PROVE  UNCHANGED spent \/ Fault
  BY <1>2 DEF Reconcile, Monitor, HealthBad, GuardFlattens, Flattens, CloseFails,
     HealthUnread, HealthSilent, Reconnect, MonitorExit, HealthGood, VenueCloses, Disconnect, ThreadDies
<1>3. ASSUME NEW e \in Engines, Kill(e) \/ Resume(e)
      PROVE  /\ Command /\ UNCHANGED entries
             /\ faults' = faults \/ (faults < MaxFaults /\ faults' = faults + 1)
  BY <1>3 DEF Kill, Resume
<1>4. CASE Clear \/ MarginTurns \/ UNCHANGED vars
  BY <1>4 DEF Clear, MarginTurns, vars
<1> QED
  BY <1>1, <1>2, <1>3, <1>4 DEF Next

LEMMA GuardTypes ==
  ASSUME RestTypes, [Next]_vars
  PROVE  alarm' \in [Engines -> BOOLEAN] /\ halt' \in BOOLEAN /\ danger' \in BOOLEAN
<1>1. halt' \in {halt, TRUE, FALSE} /\ danger' \in {danger, ~danger}
  BY DEF Next, Loop, Supervise, FailStop, Gate, Skip, NoEntry, TickExit, Crash, Decide,
     Send, Refused, Doubtful, SkippedButFilled, Book, StopRefused, EntryFailure,
     Reconcile, Monitor, HealthBad, HealthUnread, HealthSilent, Reconnect, MonitorExit, HealthGood,
     Kill, Resume, VenueCloses, Disconnect, ThreadDies, Clear, MarginTurns, vars, guards
<1>2. alarm' = alarm \/ \E e \in Engines : Compared(e)
  BY DEF Next, Loop, Supervise, FailStop, Gate, Skip, NoEntry, TickExit, Crash, Decide,
     Send, Refused, Doubtful, SkippedButFilled, Book, StopRefused, EntryFailure,
     Reconcile, Monitor, HealthBad, HealthUnread, HealthSilent, Reconnect, MonitorExit, HealthGood,
     Kill, Resume, VenueCloses, Disconnect, ThreadDies, Clear, MarginTurns, vars, guards
<1>3. ASSUME NEW e \in Engines, Compared(e) PROVE alarm' \in [Engines -> BOOLEAN]
  <2> DEFINE b == alarm[e] \/ OutOfStep(e)
  <2>1. b \in BOOLEAN /\ alarm' = [alarm EXCEPT ![e] = b]
    BY <1>3 DEF Compared
  <2> HIDE DEF b
  <2> QED
    BY <2>1 DEF RestTypes
<1> QED
  BY <1>1, <1>2, <1>3 DEF RestTypes

LEMMA HealthTypes ==
  ASSUME RestTypes, [Next]_vars
  PROVE  watch' \in [Engines -> {"on", "off", "dead"}] /\ misses' \in [Engines -> 0 .. 3]
<1>1. \/ watch' = watch
      \/ \E e \in Engines : \E w \in {"on", "off", "dead"} : watch' = [watch EXCEPT ![e] = w]
  BY DEF Next, Loop, Supervise, FailStop, Gate, Skip, NoEntry, TickExit, Crash, Decide,
     Send, Refused, Doubtful, SkippedButFilled, Book, StopRefused, EntryFailure,
     Reconcile, Monitor, HealthBad, HealthUnread, HealthSilent, Reconnect, MonitorExit, HealthGood,
     Kill, Resume, VenueCloses, Disconnect, ThreadDies, Clear, MarginTurns, vars, health
<1>2. \/ misses' = misses
      \/ \E e \in Engines : misses' = [misses EXCEPT ![e] = 0]
      \/ \E e \in Engines :
           misses' = [misses EXCEPT ![e] = IF misses[e] < 3 THEN misses[e] + 1 ELSE 3]
  BY DEF Next, Loop, Supervise, FailStop, Gate, Skip, NoEntry, TickExit, Crash, Decide,
     Send, Refused, Doubtful, SkippedButFilled, Book, StopRefused, EntryFailure,
     Reconcile, Monitor, HealthBad, HealthUnread, HealthSilent, Reconnect, MonitorExit, HealthGood,
     Kill, Resume, VenueCloses, Disconnect, ThreadDies, Clear, MarginTurns, vars, health
<1>3. watch' \in [Engines -> {"on", "off", "dead"}]
  BY <1>1 DEF RestTypes
<1>4. misses' \in [Engines -> 0 .. 3]
  BY <1>2 DEF RestTypes
<1> QED
  BY <1>3, <1>4

\* Every variable keeps its type; the balance that sizes an entry stays within
\* the larger of the account's and the configured one, whatever a sync reads.
THEOREM TypeCorrect == Spec => []TypeOK
<1>1. Init => RestTypes
  <2> SUFFICES ASSUME Init PROVE RestTypes
    OBVIOUS
  <2>1. 0 \in 0 .. MaxFaults /\ 0 \in 0 .. MaxEntries /\ 0 \in 0 .. MaxCommands
    BY EngineConstants
  <2>2. alarm \in [Engines -> BOOLEAN] /\ halt \in BOOLEAN /\ danger \in BOOLEAN
    BY Zenon DEF Init
  <2>3. watch \in [Engines -> {"on", "off", "dead"}] /\ misses \in [Engines -> 0 .. 3]
    BY DEF Init
  <2> QED
    BY <2>1, <2>2, <2>3 DEF Init, RestTypes
<1>2. RestTypes /\ [Next]_vars => RestTypes'
  BY SpendsOne, SpentTypes, GuardTypes, HealthTypes DEF RestTypes
<1>3. LateInv /\ MoneyInv /\ RestTypes => TypeOK
  BY DEF LateInv, LoopTypes, MoneyInv, RestTypes, TypeOK
<1> QED
  BY <1>1, <1>2, <1>3, InitLate, NextLate, InitMoney, NextMoney, PTL DEF Spec

-----------------------------------------------------------------------------
(* The threads that manage the position of one of the symbols: the         *)
(* reassessment loop and the monitor beside the engine's candle tick, as   *)
(* PositionManagement has them.  ManageInv is what they rely on of each    *)
(* other: a trade has a stop that may be put back, the monitor acts on     *)
(* something it saw, and an evaluation is about a trade whose side and     *)
(* entry do not change under its number.                                   *)

\* A trade has a number, an entry of the feed and a stop, or is no trade.
TradeInv ==
  /\ trade.id <= opened
  /\ IF trade.id = 0 THEN trade = NoTrade ELSE trade.entry \in Prices /\ trade.sl # 0

\* The monitor that acts has looked at a trade and decided something.
MonInv ==
  /\ mon.at # "idle" => mon.want # "none"
  /\ mon.at = "move" => mon.want = "TP1"
  /\ mon.want = "TP1" => mon.entry \in Prices

\* The evaluation under way has a trigger and a price, and is about a trade
\* that was open; if it still is, its side and entry are those of the snapshot.
LoopInv ==
  /\ loop.at = "turn" => loop.left # 0
  /\ loop.at \in {"context", "assess"} => loop.ltp \in Prices
  /\ loop.at = "assess" =>
       /\ loop.seen.id # 0 /\ loop.seen.id <= opened /\ loop.seen.entry \in Prices
       /\ trade.id = loop.seen.id =>
            trade.side = loop.seen.side /\ trade.entry = loop.seen.entry

\* The types, actor by actor.
FeedTypes ==
  /\ price \in Prices \cup {0} /\ queue \in 0..MaxQueue
  /\ recent \in BOOLEAN /\ unseen \in BOOLEAN
TradeTypes == trade \in Trade /\ venueSl \in Nat /\ opened \in 0..MaxTrades
OutlookTypes ==
  /\ haltFile \in BOOLEAN /\ running \in BOOLEAN /\ refusals \in 0..MaxRefusals
Loops == [at : {"sleep", "turn", "context", "assess", "done"}, left : 0..MaxQueue + 1,
          forced : BOOLEAN, ltp : Prices \cup {0}, seen : Snapshots]
Mons == [at : {"idle", "act", "move"}, want : Levels \cup {"none", "close"},
         entry : Prices \cup {0}]

\* What each actor's step has to keep of the wallet and the venue: the trade
\* under the same number keeps side and entry.
BookInv == TradeTypes /\ TradeInv
SameTrade ==
  /\ opened' = opened
  /\ trade'.id \in {0, trade.id}
  /\ trade'.id # 0 => trade'.side = trade.side /\ trade'.entry = trade.entry

ManageInv ==
  /\ FeedTypes /\ BookInv
  /\ loop \in Loops /\ LoopInv
  /\ mon \in Mons /\ MonInv

LEMMA PricePositive ==
  \A p \in Prices : p \in Nat /\ p # 0
<1> SUFFICES ASSUME NEW p \in Prices PROVE p \in Nat /\ p # 0
  OBVIOUS
<1>1. p \in Nat /\ p >= 1000
  BY ManagementConstants
<1> QED
  BY <1>1

LEMMA NoTradeTyped ==
  NoTrade \in Trade /\ NoTrade.id = 0 /\ Unseen \in Snapshots
BY ManagementConstants DEF NoTrade, Trade, Sides, Levels, Unseen, Snapshot, Snapshots

LEMMA SnapshotTyped ==
  ASSUME NEW t \in Trade
  PROVE  /\ Snapshot(t) \in Snapshots
         /\ Snapshot(t).id = t.id /\ Snapshot(t).side = t.side /\ Snapshot(t).entry = t.entry
BY DEF Trade, Snapshot, Snapshots

\* A trade that is closed leaves nothing behind.
LEMMA ClosedBook ==
  ASSUME BookInv, trade' = NoTrade, venueSl' \in Nat, opened' = opened
  PROVE  BookInv' /\ SameTrade
<1>1. opened \in Nat
  BY ManagementConstants DEF BookInv, TradeTypes
<1> QED
  BY <1>1, NoTradeTyped DEF BookInv, TradeTypes, TradeInv, SameTrade

LEMMA KeptBook ==
  ASSUME BookInv, trade' = trade, venueSl' \in Nat, opened' = opened
  PROVE  BookInv' /\ SameTrade
BY DEF BookInv, TradeTypes, TradeInv, SameTrade

\* A stop that is moved is a stop.
LEMMA MovedBook ==
  ASSUME BookInv, trade.id # 0, opened' = opened,
         NEW s \in Nat, s # 0, NEW h \in SUBSET Levels,
         trade' = [trade EXCEPT !.hits = h, !.sl = s], venueSl' \in Nat
  PROVE  BookInv' /\ SameTrade
<1>1. trade \in Trade /\ trade.entry \in Prices
  BY DEF BookInv, TradeTypes, TradeInv
<1>2. /\ trade'.id = trade.id /\ trade'.side = trade.side /\ trade'.book = trade.book
      /\ trade'.entry = trade.entry /\ trade'.sl = s /\ trade'.hits = h
  BY <1>1 DEF Trade
<1>3. trade' = [id |-> trade'.id, side |-> trade'.side, book |-> trade'.book,
                entry |-> trade'.entry, sl |-> trade'.sl, hits |-> trade'.hits]
  BY <1>1 DEF Trade
<1>4. trade' \in Trade
  BY <1>1, <1>2, <1>3 DEF Trade
<1> QED
  BY <1>1, <1>2, <1>4 DEF BookInv, TradeTypes, TradeInv, SameTrade

LEMMA StopMoved ==
  ASSUME BookInv, opened' = opened, venueSl' = venueSl,
         NEW s \in Nat, s # 0, StopAt(s)
  PROVE  BookInv' /\ SameTrade
<1>0. venueSl' \in Nat
  BY DEF BookInv, TradeTypes
<1>1. CASE trade.id = 0
  <2>1. trade' = trade
    BY <1>1 DEF StopAt
  <2> QED
    BY <1>0, <2>1, KeptBook
<1>2. CASE trade.id # 0
  <2>1. trade \in Trade /\ trade.hits \subseteq Levels
    BY DEF BookInv, TradeTypes, Trade
  <2>2. trade' = [trade EXCEPT !.sl = s]
    BY <1>2 DEF StopAt
  <2>3. [trade EXCEPT !.sl = s] = [trade EXCEPT !.hits = trade.hits, !.sl = s]
    BY <2>1 DEF Trade
  <2> QED
    BY <1>0, <1>2, <2>1, <2>2, <2>3, MovedBook
<1> QED
  BY <1>1, <1>2

\* What an exit leaves on the venue is a stop or none.
LEMMA DroppedTyped ==
  ASSUME BookInv, NEW way, Dropped(way)
  PROVE  venueSl' \in Nat /\ opened' = opened
BY DEF Dropped, BookInv, TradeTypes, Trade

\* An exit closes the trade, takes a slice of it or is refused.
LEMMA ExitBook ==
  ASSUME BookInv, NEW level \in SUBSET Levels, NEW way \in Ways,
         Exits(level, way)
  PROVE  BookInv' /\ SameTrade
<1>1. venueSl' \in Nat /\ opened' = opened
  BY DroppedTyped DEF Exits
<1>2. CASE way = "closed"
  <2>1. trade' = NoTrade
    BY <1>2 DEF Exits, Left
  <2> QED
    BY <1>1, <2>1, ClosedBook
<1>3. CASE way = "refused"
  <2>1. trade' = trade
    BY <1>3 DEF Exits, Left
  <2> QED
    BY <1>1, <2>1, KeptBook
<1>4. CASE way \notin {"closed", "refused"}
  <2>1. trade' = [trade EXCEPT !.hits = trade.hits \cup level] /\ trade.id # 0
    BY <1>4 DEF Exits, Left, Ends
  <2>2. trade \in Trade /\ trade.sl \in Nat /\ trade.sl # 0 /\ trade.hits \cup level \subseteq Levels
    BY <2>1 DEF BookInv, TradeTypes, TradeInv, Trade
  <2>3. [trade EXCEPT !.hits = trade.hits \cup level]
        = [trade EXCEPT !.hits = trade.hits \cup level, !.sl = trade.sl]
    BY <2>2 DEF Trade
  <2> QED
    BY <1>1, <2>1, <2>2, <2>3, MovedBook
<1> QED
  BY <1>2, <1>3, <1>4

\* Steps of the wallet and the venue leave an evaluation about its trade.
LEMMA StillSeen ==
  ASSUME BookInv, loop \in Loops, LoopInv, SameTrade, opened' = opened, loop' = loop
  PROVE  loop' \in Loops /\ LoopInv'
BY DEF LoopInv, SameTrade

\* The feed, time and other triggers touch neither the trade nor an actor.
LEMMA FeedSteps ==
  ASSUME ManageInv,
         (\E p \in Prices : Tick(p)) \/ Nudge \/ Elapse \/ TripHalt \/ ClearHalt
           \/ UNCHANGED managerVars
  PROVE  ManageInv' /\ SameTrade
<1> USE DEF held, manager
<1>1. MaxQueue \in Nat
  BY ManagementConstants
<1>2. FeedTypes
  BY DEF ManageInv
<1>3. FeedTypes' /\ UNCHANGED <<trade, venueSl, opened, loop, mon>>
  <2>1. CASE \E p \in Prices : Tick(p)
    <3>1. PICK p \in Prices : Tick(p)
      BY <2>1
    <3>2. UNCHANGED <<trade, venueSl, opened, loop, mon, recent>> /\ price' = p
      BY <3>1 DEF Tick
    <3>3. queue' \in 0..MaxQueue
      BY <1>1, <1>2, <3>1 DEF Tick, FeedTypes
    <3>4. unseen' \in BOOLEAN
      BY <1>2, <3>1, Zenon DEF Tick, FeedTypes
    <3> QED
      BY <1>2, <3>2, <3>3, <3>4 DEF FeedTypes
  <2>2. CASE Nudge
    BY <1>1, <1>2, <2>2 DEF Nudge, FeedTypes
  <2>3. CASE Elapse
    BY <1>2, <2>3 DEF Elapse, FeedTypes
  <2>4. CASE TripHalt \/ ClearHalt \/ UNCHANGED managerVars
    BY <1>2, <2>4 DEF TripHalt, ClearHalt, managerVars, FeedTypes
  <2> QED
    BY <2>1, <2>2, <2>3, <2>4
<1>4. BookInv' /\ loop' \in Loops /\ LoopInv' /\ mon' \in Mons /\ MonInv'
  BY <1>3 DEF ManageInv, BookInv, TradeTypes, TradeInv, Loops, LoopInv, Mons, MonInv
<1>5. SameTrade
  BY <1>3 DEF SameTrade
<1> QED
  BY <1>3, <1>4, <1>5 DEF ManageInv

\* A new trade has a number of its own, so no evaluation is about it.
LEMMA EnterStep ==
  ASSUME ManageInv, NEW side, NEW playbook, NEW rests \in BOOLEAN,
         <<side, playbook>> \in Setups, Enter(side, playbook, rests)
  PROVE  ManageInv'
<1> USE DEF manager
<1>0. FeedTypes /\ BookInv /\ loop \in Loops /\ LoopInv /\ mon \in Mons /\ MonInv
  BY DEF ManageInv
<1>1. /\ opened \in Nat /\ opened + 1 \in 0..MaxTrades
      /\ price \in Prices
  BY <1>0, ManagementConstants DEF Enter, BookInv, TradeTypes, FeedTypes
<1>1a. side \in Sides /\ playbook \in {"INTRADAY", "SWING"}
  BY ManagementConstants
<1>2. Behind(side, price, Risk) \in Nat \ {0}
  <2>1. price \in Nat /\ Risk \in Nat /\ Risk < price
    BY <1>1, ManagementConstants
  <2>2. side \in {"LONG", "SHORT"}
    BY <1>1a DEF Sides
  <2> QED
    BY <2>1, <2>2 DEF Behind
<1> DEFINE s == Behind(side, price, Risk)
<1> HIDE DEF s
<1>3. trade' = [id |-> opened + 1, side |-> side, book |-> playbook, entry |-> price,
                sl |-> s, hits |-> {}] /\ venueSl' \in {s, 0} /\ opened' = opened + 1
  BY DEF Enter, s
<1>4. s \in Nat /\ s # 0
  BY <1>2 DEF s
<1>5. trade' \in Trade
  BY <1>1, <1>1a, <1>3, <1>4 DEF Trade
<1>6. BookInv'
  BY <1>1, <1>3, <1>4, <1>5 DEF BookInv, TradeTypes, TradeInv
<1>7. loop' = loop /\ mon' = mon /\ UNCHANGED <<price, queue, recent, unseen>>
  BY DEF Enter
<1>8. loop.seen.id \in Nat
  BY <1>0 DEF Loops, Snapshots
<1>9. loop.at = "assess" => loop.seen.id <= opened' /\ trade'.id # loop.seen.id
  BY <1>0, <1>1, <1>3, <1>8 DEF LoopInv
<1>10. LoopInv'
  BY <1>0, <1>7, <1>9 DEF LoopInv
<1> QED
  BY <1>0, <1>6, <1>7, <1>10 DEF ManageInv, FeedTypes, MonInv

\* An exit of the venue, of a user or of the candle tick.
LEMMA EngineSteps ==
  ASSUME ManageInv, ClosedOutside \/ \E way \in Ways : CandleTick(way)
  PROVE  ManageInv' /\ SameTrade
<1> USE DEF manager
<1>0. FeedTypes /\ BookInv /\ loop \in Loops /\ LoopInv /\ mon \in Mons /\ MonInv
  BY DEF ManageInv
<1>1. UNCHANGED <<price, queue, recent, unseen, opened, loop, mon>>
  BY DEF ClosedOutside, CandleTick, Dropped
<1>2. BookInv' /\ SameTrade
  <2>1. CASE ClosedOutside
    <3>1. trade' = NoTrade /\ venueSl' \in Nat
      BY <2>1 DEF ClosedOutside
    <3> QED
      BY <1>0, <1>1, <3>1, ClosedBook
  <2>2. ASSUME NEW way \in Ways, CandleTick(way)
        PROVE  BookInv' /\ SameTrade
    <3> DEFINE takes == trade.book = "SWING" /\ Hit(trade, price) # {}
               level == IF takes THEN {FirstHit(trade, price)} ELSE {}
               t == Left(level, way)
    <3>1. level \in SUBSET Levels
      BY DEF FirstHit, Levels
    <3>2. /\ Ends(way) /\ Dropped(way) /\ trade.id # 0
          /\ trade' = IF level = {"TP1"} THEN AtEntry(t, way) ELSE t
      BY <2>2 DEF CandleTick
    <3> HIDE DEF level
    <3>3. CASE trade' = t
      BY <1>0, <3>1, <3>2, <3>3, ExitBook DEF Exits
    <3>4. CASE trade' # t
      <4>1. /\ trade' = AtEntry(t, way) /\ t.id # 0 /\ ~Raises(way)
            /\ trade' = [t EXCEPT !.sl = t.entry]
        BY <3>2, <3>4 DEF AtEntry
      <4>2. way \notin {"closed", "refused"}
        BY <4>1, NoTradeTyped DEF Left, Raises
      <4>3. t = [trade EXCEPT !.hits = trade.hits \cup level]
        BY <4>2 DEF Left
      <4>4. /\ trade \in Trade /\ trade.entry \in Prices
            /\ trade.hits \cup level \in SUBSET Levels
        BY <1>0, <3>1, <3>2 DEF BookInv, TradeTypes, TradeInv, Trade
      <4>5. trade.entry \in Nat /\ trade.entry # 0
        BY <4>4, PricePositive
      <4> HIDE DEF t
      <4>6. [t EXCEPT !.sl = t.entry]
            = [trade EXCEPT !.hits = trade.hits \cup level, !.sl = trade.entry]
        BY <4>3, <4>4 DEF Trade
      <4>7. venueSl' \in Nat
        BY <1>0, <3>2, DroppedTyped
      <4>8. trade' = [trade EXCEPT !.hits = trade.hits \cup level, !.sl = trade.entry]
        BY <4>1, <4>6
      <4> QED
        BY <1>0, <1>1, <3>2, <4>4, <4>5, <4>7, <4>8, MovedBook
    <3> QED
      BY <3>3, <3>4
  <2> QED
    BY <2>1, <2>2
<1>3. loop' \in Loops /\ LoopInv'
  BY <1>0, <1>1, <1>2, StillSeen
<1> QED
  BY <1>0, <1>1, <1>2, <1>3 DEF ManageInv, FeedTypes, MonInv

\* The monitor looks, and acts on whatever trade there is by then.
LEMMA MonitorSteps ==
  ASSUME ManageInv, LookAtProfit \/ MonitorStep
  PROVE  ManageInv' /\ SameTrade
<1> USE DEF manager, held
<1>0. FeedTypes /\ BookInv /\ loop \in Loops /\ LoopInv /\ mon \in Mons /\ MonInv
  BY DEF ManageInv
<1>1. CASE LookAtProfit \/ LookAtLevels
  <2>1. PICK w : Decides(w) /\ Watching /\ w \in Levels \cup {"close"}
    BY <1>1 DEF LookAtProfit, LookAtLevels, FirstHit, Levels
  <2>2. UNCHANGED <<price, queue, recent, unseen, trade, venueSl, opened, loop>>
    BY <2>1 DEF Decides
  <2>3. trade.entry \in Prices
    BY <1>0, <2>1 DEF Watching, BookInv, TradeInv
  <2>4. mon' = [at |-> "act", want |-> w, entry |-> IF w = "TP1" THEN trade.entry ELSE 0]
    BY <2>1 DEF Decides
  <2>5. mon' \in Mons /\ MonInv'
    BY <2>1, <2>3, <2>4 DEF Mons, MonInv, Levels
  <2>6. BookInv' /\ SameTrade
    BY <1>0, <2>2 DEF BookInv, TradeTypes, TradeInv, SameTrade
  <2> QED
    BY <1>0, <2>2, <2>5, <2>6, StillSeen DEF ManageInv, FeedTypes
<1>2. CASE \E way \in Ways : Exit(way)
  <2>1. PICK way \in Ways : Exit(way)
    BY <1>2
  <2>2. UNCHANGED <<price, queue, recent, unseen, opened, loop>>
    BY <2>1 DEF Exit, Exits, Dropped
  <2>3. BookInv' /\ SameTrade
    <3>1. PICK level \in SUBSET Levels : Exits(level, way)
      <4>1. CASE mon.want = "close"
        BY <2>1, <4>1 DEF Exit
      <4>2. CASE mon.want # "close"
        <5>1. {mon.want} \in SUBSET Levels
          BY <1>0, <2>1, <4>2 DEF Exit, MonInv, Mons
        <5> QED
          BY <2>1, <4>2, <5>1 DEF Exit
      <4> QED
        BY <4>1, <4>2
    <3> QED
      BY <1>0, <3>1, ExitBook
  <2>4. mon' \in Mons /\ MonInv'
    <3>1. CASE mon' = [mon EXCEPT !.at = "move"] /\ mon.want = "TP1"
      BY <1>0, <3>1 DEF Mons, MonInv
    <3>2. CASE mon' = Idle
      BY <3>2 DEF Idle, Mons, MonInv
    <3> QED
      BY <2>1, <3>1, <3>2 DEF Exit
  <2> QED
    BY <1>0, <2>2, <2>3, <2>4, StillSeen DEF ManageInv, FeedTypes
<1>3. CASE ToBreakeven
  <2>1. mon.entry \in Nat /\ mon.entry # 0
    <3>1. mon.entry \in Prices
      BY <1>0, <1>3 DEF ToBreakeven, MonInv
    <3> QED
      BY <3>1, Zenon, PricePositive
  <2>2. UNCHANGED <<price, queue, recent, unseen, opened, loop, venueSl>> /\ StopAt(mon.entry)
    BY <1>3 DEF ToBreakeven
  <2>3. BookInv' /\ SameTrade
    BY <1>0, <2>1, <2>2, StopMoved
  <2>4. mon' \in Mons /\ MonInv'
    BY <1>3 DEF ToBreakeven, Idle, Mons, MonInv
  <2> QED
    BY <1>0, <2>2, <2>3, <2>4, StillSeen DEF ManageInv, FeedTypes
<1> QED
  BY <1>1, <1>2, <1>3 DEF MonitorStep

\* The loop's record, field by field.
LEMMA LoopFields ==
  ASSUME NEW l \in Loops
  PROVE  /\ l.at \in {"sleep", "turn", "context", "assess", "done"}
         /\ l.left \in 0..MaxQueue + 1 /\ l.forced \in BOOLEAN
         /\ l.ltp \in Prices \cup {0} /\ l.seen \in Snapshots
<1>1. /\ l.at \in {"sleep", "turn", "context", "assess", "done"}
      /\ l.left \in 0..MaxQueue + 1 /\ l.ltp \in Prices \cup {0} /\ l.seen \in Snapshots
  BY DEF Loops
<1>2. l.forced \in BOOLEAN
  BY DEF Loops
<1> QED
  BY <1>1, <1>2

LEMMA LoopMade ==
  ASSUME NEW a \in {"sleep", "turn", "context", "assess", "done"}, NEW n \in 0..MaxQueue + 1,
         NEW f \in BOOLEAN, NEW p \in Prices \cup {0}, NEW s \in Snapshots
  PROVE  [at |-> a, left |-> n, forced |-> f, ltp |-> p, seen |-> s] \in Loops
BY Zenon DEF Loops

LEMMA LoopEnds ==
  ASSUME NEW l \in Loops, NEW a, NEW p, NEW s, NEW r, r = [l EXCEPT !.at = a, !.ltp = p, !.seen = s]
  PROVE  r = [at |-> a, left |-> l.left, forced |-> l.forced, ltp |-> p, seen |-> s]
<1>1. r = [at |-> r.at, left |-> r.left, forced |-> r.forced, ltp |-> r.ltp, seen |-> r.seen]
  BY DEF Loops
<1>2. r.at = a /\ r.left = l.left /\ r.forced = l.forced /\ r.ltp = p /\ r.seen = s
  BY DEF Loops
<1> QED
  BY <1>1, <1>2

LEMMA LoopTurns ==
  ASSUME MaxQueue \in Nat, loop \in Loops, NEW n \in 1..MaxQueue + 1, NEW f \in BOOLEAN,
         loop' = [loop EXCEPT !.at = "turn", !.left = n, !.forced = f]
  PROVE  loop' \in Loops /\ LoopInv'
<1>1. loop' = [at |-> loop'.at, left |-> loop'.left, forced |-> loop'.forced,
               ltp |-> loop'.ltp, seen |-> loop'.seen]
  BY DEF Loops
<1>2. loop'.at = "turn" /\ loop'.left = n /\ loop'.ltp = loop.ltp /\ loop'.seen = loop.seen
  BY DEF Loops
<1>3. loop'.forced = f
  BY DEF Loops
<1>4. n \in 0..MaxQueue + 1 /\ n # 0
  OBVIOUS
<1>5. loop' \in Loops
  BY <1>1, <1>2, <1>3, <1>4, LoopFields, LoopMade
<1> QED
  BY <1>2, <1>4, <1>5 DEF LoopInv

LEMMA LoopReads ==
  ASSUME NEW l \in Loops, NEW a, NEW p, NEW r, r = [l EXCEPT !.at = a, !.ltp = p]
  PROVE  r = [at |-> a, left |-> l.left, forced |-> l.forced, ltp |-> p, seen |-> l.seen]
<1>1. r = [at |-> r.at, left |-> r.left, forced |-> r.forced, ltp |-> r.ltp, seen |-> r.seen]
  BY DEF Loops
<1>2. r.at = a /\ r.left = l.left /\ r.forced = l.forced /\ r.ltp = p /\ r.seen = l.seen
  BY DEF Loops
<1> QED
  BY <1>1, <1>2

LEMMA LoopSees ==
  ASSUME NEW l \in Loops, NEW a, NEW s, NEW r, r = [l EXCEPT !.at = a, !.seen = s]
  PROVE  r = [at |-> a, left |-> l.left, forced |-> l.forced, ltp |-> l.ltp, seen |-> s]
<1>1. r = [at |-> r.at, left |-> r.left, forced |-> r.forced, ltp |-> r.ltp, seen |-> r.seen]
  BY DEF Loops
<1>2. r.at = a /\ r.left = l.left /\ r.forced = l.forced /\ r.ltp = l.ltp /\ r.seen = s
  BY DEF Loops
<1> QED
  BY <1>1, <1>2

\* An evaluation that ends hands over to the next, if a trigger is left.
LEMMA LoopOver ==
  ASSUME NEW l \in Loops, loop' = Over(l)
  PROVE  loop' \in Loops /\ LoopInv'
<1> DEFINE next == IF l.left > 0 THEN "turn" ELSE IF l.forced THEN "done" ELSE "sleep"
<1>1. loop' = [l EXCEPT !.at = next, !.ltp = 0, !.seen = Unseen]
  BY DEF Over
<1>2. next \in {"turn", "done", "sleep"} /\ (next = "turn" => l.left # 0)
  BY DEF Loops
<1> HIDE DEF next
<1>3. /\ loop'.at = next /\ loop'.left = l.left /\ loop'.forced = l.forced
      /\ loop'.ltp = 0 /\ loop'.seen = Unseen
  BY <1>1 DEF Loops
<1>4. loop' = [at |-> next, left |-> l.left, forced |-> l.forced, ltp |-> 0, seen |-> Unseen]
  BY <1>1, LoopEnds
<1>5. loop' \in Loops
  BY <1>2, <1>4, NoTradeTyped, LoopFields, LoopMade
<1> QED
  BY <1>2, <1>3, <1>5 DEF LoopInv

LEMMA CountedTyped ==
  ASSUME loop \in Loops, LoopInv, loop.at = "turn"
  PROVE  Counted(loop) \in Loops
<1>1. loop.left \in 0..MaxQueue + 1 /\ loop.left # 0 /\ MaxQueue \in Nat
  BY ManagementConstants DEF Loops, LoopInv
<1>2. loop.left - 1 \in 0..MaxQueue + 1
  BY <1>1
<1>3. Counted(loop) = [at |-> loop.at, left |-> loop.left - 1, forced |-> loop.forced,
                       ltp |-> loop.ltp, seen |-> loop.seen]
  BY DEF Counted, Loops
<1> QED
  BY <1>2, <1>3 DEF Loops

\* The loop between its evaluations, and what an evaluation reads.
LEMMA LoopSteps ==
  ASSUME ManageInv, TakeQueue \/ Sweep \/ Rest \/ Begin \/ Snap \/ NoAction
  PROVE  ManageInv' /\ SameTrade
<1> USE DEF held
<1>0. FeedTypes /\ BookInv /\ loop \in Loops /\ LoopInv /\ mon \in Mons /\ MonInv
  BY DEF ManageInv
<1>a. MaxQueue \in Nat
  BY ManagementConstants
<1>1. UNCHANGED <<price, trade, venueSl, opened, mon>>
  BY DEF TakeQueue, Sweep, Rest, Begin, Snap, NoAction
<1>2. FeedTypes'
  <2>1. queue' \in {queue, 0} /\ recent' \in {recent, TRUE} /\ unseen' \in {unseen, FALSE}
    BY DEF TakeQueue, Sweep, Rest, Begin, Snap, NoAction
  <2>2. queue' \in 0..MaxQueue
    BY <1>a, <1>0, <2>1 DEF FeedTypes
  <2>3. recent' \in BOOLEAN /\ unseen' \in BOOLEAN
    <3>1. recent \in BOOLEAN /\ unseen \in BOOLEAN
      BY <1>0, Zenon DEF FeedTypes
    <3>2. recent' \in BOOLEAN
      BY <2>1, <3>1, Zenon
    <3>3. unseen' \in BOOLEAN
      BY <2>1, <3>1, Zenon
    <3> QED
      BY <3>2, <3>3
  <2> QED
    BY <1>0, <1>1, <2>2, <2>3 DEF FeedTypes
<1>3. BookInv' /\ mon' \in Mons /\ MonInv'
  BY <1>0, <1>1 DEF BookInv, TradeTypes, TradeInv, MonInv
<1>4. loop' \in Loops /\ LoopInv'
  <2>1. CASE TakeQueue
    <3>1. queue \in 1..MaxQueue + 1
      BY <1>a, <1>0, <2>1 DEF TakeQueue, FeedTypes
    <3>2. loop' = [loop EXCEPT !.at = "turn", !.left = queue, !.forced = TRUE]
      BY <2>1 DEF TakeQueue
    <3> QED
      BY <1>a, <1>0, <3>1, <3>2, LoopTurns
  <2>2. CASE Sweep
    <3>1. 1 \in 1..MaxQueue + 1
      BY <1>a
    <3>2. loop' = [loop EXCEPT !.at = "turn", !.left = 1, !.forced = FALSE]
      BY <2>2 DEF Sweep
    <3> QED
      BY <1>a, <1>0, <3>1, <3>2, LoopTurns
  <2>3. CASE Rest
    <3>1. loop' = [at |-> "sleep", left |-> 0, forced |-> FALSE, ltp |-> 0, seen |-> Unseen]
      BY <2>3 DEF Rest, Asleep
    <3>2. 0 \in 0..MaxQueue + 1
      BY <1>a
    <3> QED
      BY <3>1, <3>2, NoTradeTyped DEF Loops, LoopInv
  <2>4. CASE Begin
    <3> DEFINE l == Counted(loop)
    <3>1. l \in Loops
      BY <1>0, <2>4, CountedTyped DEF Begin
    <3> HIDE DEF l
    <3>2. CASE loop' = Over(l)
      BY <3>1, <3>2, LoopOver
    <3>3. CASE loop' # Over(l)
      <4>1. loop' = [l EXCEPT !.at = "context", !.ltp = price] /\ price \in Prices
        BY <1>0, <2>4, <3>3 DEF Begin, l, FeedTypes
      <4>2. loop' = [at |-> "context", left |-> l.left, forced |-> l.forced,
                     ltp |-> price, seen |-> l.seen]
        BY <3>1, <4>1, LoopReads
      <4>3. loop' \in Loops
        <5>1. price \in Prices \cup {0} /\ l.seen \in Snapshots
              /\ l.left \in 0..MaxQueue + 1 /\ l.forced \in BOOLEAN
          BY <3>1, <4>1, LoopFields
        <5> QED
          BY <4>2, <5>1, LoopMade
      <4> QED
        BY <4>1, <4>2, <4>3 DEF LoopInv
    <3> QED
      BY <3>2, <3>3
  <2>5. CASE Snap
    <3>1. CASE trade.id = 0
      BY <1>0, <2>5, <3>1, LoopOver DEF Snap
    <3>2. CASE trade.id # 0
      <4>1. loop' = [at |-> "assess", left |-> loop.left, forced |-> loop.forced,
                     ltp |-> loop.ltp, seen |-> Snapshot(trade)]
        BY <1>0, <2>5, <3>2, LoopSees DEF Snap
      <4>2. loop.ltp \in Prices /\ trade \in Trade
        BY <1>0, <2>5 DEF Snap, LoopInv, BookInv, TradeTypes
      <4>3. trade.id <= opened /\ trade.entry \in Prices
        BY <1>0, <3>2 DEF BookInv, TradeInv
      <4>4. loop' \in Loops
        BY <1>0, <4>1, <4>2, SnapshotTyped, LoopFields, LoopMade
      <4> QED
        BY <1>1, <3>2, <4>1, <4>2, <4>3, <4>4, SnapshotTyped DEF LoopInv
    <3> QED
      BY <3>1, <3>2
  <2>6. CASE NoAction
    BY <1>0, <2>6, LoopOver DEF NoAction
  <2> QED
    BY <2>1, <2>2, <2>3, <2>4, <2>5, <2>6
<1>5. SameTrade
  BY <1>1 DEF SameTrade
<1> QED
  BY <1>1, <1>2, <1>3, <1>4, <1>5 DEF ManageInv

\* A stop the executor is given is a price or none.
LEMMA StopTyped ==
  ASSUME NEW s \in Snapshots, s.entry \in Prices, NEW ltp \in Prices,
         NEW advice \in Decisions
  PROVE  /\ Completed(advice, s, ltp).stop \in Nat
         /\ Completed(advice, s, ltp).action = advice.action
         /\ ClampedStop(Completed(advice, s, ltp), s, ltp) \in Nat
<1>1. /\ advice.stop \in Nat /\ advice.action \in Actions /\ advice \in Decision
  <2>1. CASE advice \in Advised
    BY <2>1, ManagementConstants DEF Decision
  <2>2. CASE advice \in Scored
    BY <2>2 DEF Scored, Decision, Actions, Holds, Tight, Types, Pcts
  <2> QED
    BY <2>1, <2>2 DEF Decisions
<1>2. /\ s.sl \in Nat /\ ltp \in Nat /\ s.entry \in Nat
      /\ ltp >= TrailGap /\ s.entry >= Buffer /\ TrailGap \in Nat /\ Buffer \in Nat
  <2>1. s.sl \in Nat
    BY DEF Snapshots
  <2>2. ltp \in Nat /\ s.entry \in Nat
    BY PricePositive
  <2>3. TrailGap \in Nat /\ Buffer \in Nat /\ TrailGap < ltp /\ Buffer < s.entry
    BY ManagementConstants
  <2> QED
    BY <2>1, <2>2, <2>3
<1>3. Trailed(s, ltp) \in Nat /\ Ahead(s.side, s.entry, Buffer) \in Nat
  BY <1>2 DEF Trailed, Behind, Ahead
<1> DEFINE d == Completed(advice, s, ltp)
<1>4. /\ d.stop \in {advice.stop, Trailed(s, ltp), Ahead(s.side, s.entry, Buffer)}
      /\ d.action = advice.action
  BY <1>1 DEF Completed, Decision
<1> HIDE DEF d
<1>5. d.stop \in Nat
  BY <1>1, <1>3, <1>4
<1>6. Snapped(d.stop, s, ltp) \in Nat
  BY <1>2, <1>5 DEF Snapped
<1>7. ClampedStop(d, s, ltp) \in Nat
  BY <1>2, <1>6 DEF ClampedStop, Reverted
<1> QED
  BY <1>4, <1>5, <1>7 DEF d

\* The answer is carried out on whatever trade there is by then.
LEMMA ActStep ==
  ASSUME ManageInv, NEW advice \in Decisions, Act(advice)
  PROVE  ManageInv' /\ SameTrade
<1>0. FeedTypes /\ BookInv /\ loop \in Loops /\ LoopInv /\ mon \in Mons /\ MonInv
  BY DEF ManageInv
<1> DEFINE s == loop.seen
           d == Completed(advice, s, loop.ltp)
           p == Params(d, s, loop.ltp)
<1>1. /\ loop.at = "assess" /\ loop' = Over(loop)
      /\ UNCHANGED <<price, queue, recent, unseen, mon>>
      /\ Executed(d.action, p, s)
  BY DEF Act
<1>2. s \in Snapshots /\ s.entry \in Prices /\ loop.ltp \in Prices
  BY <1>0, <1>1 DEF LoopInv, Loops
<1>3. ClampedStop(d, s, loop.ltp) \in Nat
  BY <1>2, StopTyped
<1>4. p.stop \in Nat
  BY <1>3 DEF Params
<1> HIDE DEF s, d, p
<1>5. BookInv' /\ SameTrade
  <2>1. CASE UNCHANGED held
    BY <1>0, <2>1, KeptBook DEF held, BookInv, TradeTypes
  <2>2. CASE \E way \in Ways : Exits({}, way)
    <3>1. {} \in SUBSET Levels
      OBVIOUS
    <3> QED
      BY <1>0, <2>2, <3>1, ExitBook
  <2>3. CASE p.stop # 0 /\ StopAt(p.stop) /\ UNCHANGED <<venueSl, opened>>
    BY <1>0, <1>4, <2>3, StopMoved
  <2> QED
    BY <1>1, <2>1, <2>2, <2>3 DEF Executed, Closings, Ways
<1>6. loop' \in Loops /\ LoopInv'
  BY <1>0, <1>1, LoopOver
<1> QED
  BY <1>0, <1>1, <1>5, <1>6 DEF ManageInv, FeedTypes, MonInv

LEMMA ManageStep ==
  ASSUME ManageInv, [ManagerNext]_(managerVars)
  PROVE  ManageInv'
<1>1. ASSUME NEW setup \in Setups, NEW rests \in BOOLEAN, Enter(setup[1], setup[2], rests)
      PROVE  ManageInv'
  <2>1. setup = <<setup[1], setup[2]>>
    BY ManagementConstants
  <2> QED
    BY <1>1, <2>1, EnterStep
<1>2. ASSUME NEW d \in Decisions, Act(d)
      PROVE  ManageInv'
  BY <1>2, ActStep
<1> QED
  BY <1>1, <1>2, FeedSteps, EngineSteps, MonitorSteps, LoopSteps DEF ManagerNext, Manage

LEMMA ManageStarts ==
  ASSUME ManagerInit
  PROVE  ManageInv
<1>1. MaxQueue \in Nat /\ MaxTrades \in Nat
  BY ManagementConstants
<1>2. FeedTypes /\ BookInv
  <2>1. FeedTypes
    <3>1. recent \in BOOLEAN /\ unseen \in BOOLEAN
      BY Zenon DEF ManagerInit
    <3>2. price = 0 /\ queue = 0 /\ 0 \in 0..MaxQueue
      BY <1>1 DEF ManagerInit
    <3> QED
      BY <3>1, <3>2 DEF FeedTypes
  <2>2. trade = NoTrade /\ venueSl = 0 /\ opened = 0
    BY DEF ManagerInit
  <2>3. BookInv
    BY <1>1, <2>2, NoTradeTyped DEF BookInv, TradeTypes, TradeInv
  <2> QED
    BY <2>1, <2>3
<1>3. loop = [at |-> "sleep", left |-> 0, forced |-> FALSE, ltp |-> 0, seen |-> Unseen]
  BY DEF ManagerInit, Asleep
<1>4. 0 \in 0..MaxQueue + 1 /\ Unseen \in Snapshots
  <2>1. 0 \in 0..MaxQueue + 1
    BY <1>1
  <2> QED
    BY <2>1, NoTradeTyped
<1>5. loop \in Loops /\ LoopInv
  BY <1>3, <1>4 DEF Loops, LoopInv
<1>6. mon \in Mons /\ MonInv
  BY DEF ManagerInit, Idle, Mons, MonInv
<1> QED
  BY <1>2, <1>5, <1>6 DEF ManageInv

\* The HALT file, the engine and the bound change by steps of all actors.
LEMMA OutlookStep ==
  ASSUME OutlookTypes, [ManagerNext]_(managerVars)
  PROVE  OutlookTypes'
<1> DEFINE Same == UNCHANGED outlook
           Ended == \E way \in Ways : Ends(way) /\ Dropped(way) /\ running' \in BOOLEAN
<1>1. ASSUME Same PROVE OutlookTypes'
  BY <1>1, Zenon DEF outlook, OutlookTypes
<1>2. ASSUME refusals' = refusals \/ Refusal, haltFile' \in BOOLEAN, running' \in BOOLEAN
      PROVE  OutlookTypes'
  <2>1. refusals' \in 0..MaxRefusals
    BY <1>2, ManagementConstants DEF Refusal, OutlookTypes
  <2> QED
    BY <1>2, <2>1 DEF OutlookTypes
<1>3. haltFile \in BOOLEAN /\ running \in BOOLEAN
  BY Zenon DEF OutlookTypes
<1>4. ASSUME Ended PROVE OutlookTypes'
  <2>1. PICK way \in Ways : Ends(way) /\ Dropped(way) /\ running' \in BOOLEAN
    BY <1>4
  <2>2. refusals' = refusals \/ Refusal
    BY <2>1 DEF Ends
  <2>3. haltFile' \in BOOLEAN
    BY <2>1 DEF Dropped
  <2> QED
    BY <1>2, <2>1, <2>2, <2>3
<1>5. ASSUME NEW p \in Prices, Tick(p) PROVE Same
  BY <1>5 DEF Tick, held
<1>6. ASSUME Nudge \/ Elapse \/ ClosedOutside \/ LookAtProfit \/ LookAtLevels \/ ToBreakeven
      PROVE  Same
  <2>1. LookAtProfit \/ LookAtLevels => Same
    BY DEF LookAtProfit, LookAtLevels, Decides, held
  <2> QED
    BY <1>6, <2>1 DEF Nudge, Elapse, ClosedOutside, ToBreakeven, held
<1>7. ASSUME TakeQueue \/ Sweep \/ Rest \/ Begin \/ Snap \/ NoAction PROVE Same
  BY <1>7 DEF TakeQueue, Sweep, Rest, Begin, Snap, NoAction, held
<1>8. ASSUME UNCHANGED managerVars PROVE Same
  BY <1>8 DEF managerVars, held
<1>9. ASSUME TripHalt \/ ClearHalt PROVE OutlookTypes'
  <2>1. /\ refusals' = refusals \/ Refusal
        /\ haltFile' \in BOOLEAN /\ running' = running
    BY <1>9 DEF TripHalt, ClearHalt
  <2> QED
    BY <1>2, <1>3, <2>1
<1>10. ASSUME NEW setup \in Setups, NEW rests \in BOOLEAN, Enter(setup[1], setup[2], rests)
       PROVE  OutlookTypes'
  <2>1. refusals' = refusals \/ Refusal
    BY <1>10 DEF Enter
  <2>2. haltFile' \in BOOLEAN
    BY <1>10 DEF Enter
  <2>3. running' = running
    BY <1>10 DEF Enter
  <2> QED
    BY <1>2, <1>3, <2>1, <2>2, <2>3
<1>11. ASSUME NEW way \in Ways, CandleTick(way) PROVE Ended
  BY <1>11 DEF CandleTick
<1>12. ASSUME NEW way \in Ways, Exit(way) PROVE Ended
  BY <1>3, <1>12 DEF Exit, Exits
<1>13. ASSUME NEW d \in Decisions, Act(d) PROVE Same \/ Ended
  <2>1. CASE UNCHANGED held \/ UNCHANGED outlook
    BY <2>1 DEF held
  <2>2. CASE UNCHANGED running /\ \E way \in Ways : Exits({}, way)
    BY <1>3, <2>2 DEF Exits
  <2> QED
    BY <1>13, <2>1, <2>2 DEF Act, Executed, Closings, Ways
<1> HIDE DEF Same, Ended
<1> QED
  BY <1>1, <1>4, <1>5, <1>6, <1>7, <1>8, <1>9, <1>10, <1>11, <1>12, <1>13
     DEF ManagerNext, Manage, MonitorStep

\* Every variable of the manager's module keeps its type: a stop moved by the
\* assessment, the clamps or the monitor is a price, whatever the model advised.
THEOREM ManagementTypeCorrect ==
  ManagerSpec => []ManagerTypeOK
<1>1. ManagerInit => ManageInv /\ OutlookTypes
  <2>1. ASSUME ManagerInit PROVE OutlookTypes
    <3>1. haltFile \in BOOLEAN /\ running \in BOOLEAN
      BY <2>1, Zenon DEF ManagerInit
    <3>2. refusals \in 0..MaxRefusals
      BY <2>1, ManagementConstants DEF ManagerInit
    <3> QED
      BY <3>1, <3>2 DEF OutlookTypes
  <2> QED
    BY <2>1, ManageStarts
<1>2. ManageInv /\ OutlookTypes /\ [ManagerNext]_(managerVars) => ManageInv' /\ OutlookTypes'
  BY ManageStep, OutlookStep
<1>3. ManageInv /\ OutlookTypes => ManagerTypeOK
  BY DEF ManageInv, FeedTypes, BookInv, TradeTypes, OutlookTypes, Loops, Mons, ManagerTypeOK
<1> QED
  BY <1>1, <1>2, <1>3, PTL DEF ManagerSpec

\* A stop on the near side of the price is moved a thousandth of it off.
LEMMA SnappedOff ==
  ASSUME NEW ltp \in Nat, ltp >= 1000, NEW stop \in Nat, NEW s \in Snapshots, stop # 0
  PROVE  ~Through(s.side, ltp, Snapped(stop, s, ltp))
<1>1. s.side \in {"LONG", "SHORT"}
  BY DEF Snapshots, Sides
<1>2. (ltp * 999) \div 1000 < ltp /\ (ltp * 1001) \div 1000 > ltp
  OBVIOUS
<1>3. CASE Through(s.side, ltp, stop)
  <2>1. Snapped(stop, s, ltp) = (ltp * (IF s.side = "LONG" THEN 999 ELSE 1001)) \div 1000
    BY <1>3 DEF Snapped
  <2>2. CASE s.side = "LONG"
    <3>1. Snapped(stop, s, ltp) = (ltp * 999) \div 1000
      BY <2>1, <2>2
    <3>2. (ltp * 999) \div 1000 \in Int
      OBVIOUS
    <3> HIDE DEF Snapped
    <3> QED
      BY <1>2, <2>2, <3>1, <3>2 DEF Through
  <2>3. CASE s.side = "SHORT"
    <3>1. Snapped(stop, s, ltp) = (ltp * 1001) \div 1000
      BY <2>1, <2>3
    <3>2. (ltp * 1001) \div 1000 \in Int
      OBVIOUS
    <3> QED
      BY <1>2, <2>3, <3>1, <3>2 DEF Through
  <2> QED
    BY <1>1, <2>2, <2>3
<1>4. CASE ~Through(s.side, ltp, stop)
  BY <1>4 DEF Snapped
<1> QED
  BY <1>3, <1>4

\* A stop the executor moves is the one the snap left, and a tightening action
\* was not widened: where the clamp went back to the present stop, there is
\* nothing to move.
LEMMA MovedStop ==
  ASSUME ManageInv, NEW advice \in Decisions,
         Act(advice), trade'.sl # trade.sl, trade'.id = trade.id,
         trade.id = loop.seen.id, trade.sl = loop.seen.sl
  PROVE  /\ ~Through(trade.side, loop.ltp, trade'.sl)
         /\ advice.action \in Tight =>
              Apart(trade.entry, trade'.sl) <= Apart(trade.entry, trade.sl)
<1> DEFINE s == loop.seen
           d == Completed(advice, s, loop.ltp)
           p == Params(d, s, loop.ltp)
<1>0. BookInv /\ loop \in Loops /\ LoopInv
  BY DEF ManageInv
<1>1. loop.at = "assess" /\ Executed(d.action, p, s)
  BY DEF Act
<1>2. /\ s \in Snapshots /\ s.entry \in Prices /\ loop.ltp \in Prices /\ trade.id # 0
      /\ trade.side = s.side /\ trade.entry = s.entry /\ trade \in Trade
  BY <1>0, <1>1 DEF LoopInv, Loops, BookInv, TradeTypes
<1>3. d.stop \in Nat /\ d.action = advice.action
  <2>1. s \in Snapshots /\ s.entry \in Prices /\ loop.ltp \in Prices
    BY <1>2
  <2>2. ASSUME NEW x \in Snapshots, x.entry \in Prices, NEW y \in Prices
        PROVE  Completed(advice, x, y).stop \in Nat /\ Completed(advice, x, y).action = advice.action
    BY <2>2, StopTyped
  <2> HIDE DEF s, p
  <2> QED
    BY <2>1, <2>2
<1> DEFINE c == ClampedStop(d, s, loop.ltp)
           n == Snapped(d.stop, s, loop.ltp)
<1>4. c \in Nat /\ p.stop \in {0, c}
  BY <1>2, StopTyped DEF Params
<1> HIDE DEF s, d, p
<1>5. p.stop \notin {0, s.sl} /\ StopAt(p.stop)
  <2>1. trade' # trade /\ trade'.id # 0
    BY <1>2
  <2>2. ASSUME NEW way, Exits({}, way) PROVE FALSE
    <3>1. trade' \in {NoTrade, trade, [trade EXCEPT !.hits = @ \cup {}]}
      BY <2>2 DEF Exits, Left
    <3>2. trade'.sl = trade.sl
      BY <1>2, <2>1, <3>1, NoTradeTyped DEF Trade
    <3> QED
      BY <3>2
  <2> QED
    BY <1>1, <2>1, <2>2 DEF Executed, held
<1>6. trade'.sl = c /\ p.stop = c /\ c # 0 /\ c # s.sl
  <2>1. trade' = [trade EXCEPT !.sl = p.stop]
    BY <1>2, <1>5 DEF StopAt
  <2>2. trade'.sl = p.stop
    BY <1>2, <2>1 DEF Trade
  <2> QED
    BY <1>4, <1>5, <2>2
<1>7. /\ c = n /\ n # 0
      /\ d.action \in Tight => ~(Apart(s.entry, n) > Apart(s.entry, s.sl))
  BY <1>6, Zenon DEF ClampedStop, Reverted
<1>8. d.stop # 0
  BY <1>7 DEF Snapped, Through
<1>9. ~Through(s.side, loop.ltp, n)
  <2>1. loop.ltp \in Nat /\ loop.ltp >= 1000
    BY <1>2, ManagementConstants
  <2> QED
    BY <1>2, <1>3, <1>8, <2>1, SnappedOff
<1>10. n \in Nat /\ s.sl \in Nat /\ s.entry \in Nat
  <2>1. s.sl \in Nat
    BY <1>2 DEF Snapshots
  <2>2. s.entry \in Nat
    BY <1>2, PricePositive
  <2> QED
    BY <1>4, <1>7, <2>1, <2>2
<1>11. d.action \in Tight => Apart(s.entry, n) <= Apart(s.entry, s.sl)
  <2> DEFINE x == Apart(s.entry, n)
             y == Apart(s.entry, s.sl)
  <2>1. x \in Int /\ y \in Int
    BY <1>10 DEF Apart
  <2>2. d.action \in Tight => ~(x > y)
    BY <1>7
  <2> HIDE DEF x, y
  <2>3. d.action \in Tight => x <= y
    BY <2>1, <2>2
  <2> QED
    BY <2>3 DEF x, y
<1> QED
  BY <1>2, <1>3, <1>6, <1>7, <1>9, <1>11 DEF s

\* A stop the manager moves on the position it assessed stays off the price it
\* was assessed at, and a tightening one gets no farther from the entry -- for
\* every price, advice and computed stop (policy_guard.py:250-283): the snap
\* comes first, and a clamp back to the present stop moves nothing.
THEOREM MovesSafelyHolds ==
  ManagerSpec => MovesSafely
<1>1. ManagerInit => ManageInv
  BY ManageStarts
<1>2. ManageInv /\ [ManagerNext]_(managerVars) => ManageInv'
  BY ManageStep
<1>3. ManageInv /\ trade'.sl # trade.sl /\ trade'.id = trade.id
      /\ trade.id = loop.seen.id /\ trade.sl = loop.seen.sl
        => \A d \in Decisions : Act(d) =>
             /\ ~Through(trade.side, loop.ltp, trade'.sl)
             /\ d.action \in Tight =>
                  Apart(trade.entry, trade'.sl) <= Apart(trade.entry, trade.sl)
  BY MovedStop
<1> QED
  BY <1>1, <1>2, <1>3, PTL DEF ManagerSpec, MovesSafely

-----------------------------------------------------------------------------
(* The contract of a position, with exits of one step.                     *)

\* Steps that move no trade to another number or side are a close or nothing.
LEMMA SameTradeKept ==
  ASSUME ManageInv, SameTrade
  PROVE  [Trades!CNext]_(Trades!cvars)
<1>1. opened \in Nat /\ opened' = opened
  BY ManagementConstants DEF ManageInv, BookInv, TradeTypes, SameTrade
<1>2. CASE trade'.id = trade.id
  <2>1. trade.id # 0 => trade'.side = trade.side
    BY <1>2 DEF SameTrade
  <2> QED
    BY <1>1, <1>2, <2>1 DEF Trades!cvars
<1>3. CASE trade'.id = 0 /\ trade.id # 0
  BY <1>1, <1>3 DEF Trades!CNext, Trades!Close
<1> QED
  BY <1>2, <1>3 DEF SameTrade

LEMMA EnterOpens ==
  ASSUME ManageInv, NEW side \in Sides, NEW playbook, NEW rests,
         Enter(side, playbook, rests)
  PROVE  Trades!CNext
<1>1. opened \in Nat
  BY ManagementConstants DEF ManageInv, BookInv, TradeTypes
<1>2. /\ trade.id = 0 /\ opened' = opened + 1
      /\ trade'.id = opened + 1 /\ trade'.side = side
  BY DEF Enter
<1>3. Trades!Open(side)
  BY <1>1, <1>2 DEF Trades!Open
<1>4. side \in {"LONG", "SHORT"}
  BY DEF Sides
<1> QED
  BY <1>3, <1>4 DEF Trades!CNext

LEMMA TradeStep ==
  ASSUME ManageInv, [ManagerNext]_(managerVars)
  PROVE  [Trades!CNext]_(Trades!cvars)
<1>1. ASSUME NEW setup \in Setups, NEW rests \in BOOLEAN, Enter(setup[1], setup[2], rests)
      PROVE  [Trades!CNext]_(Trades!cvars)
  <2>1. setup[1] \in Sides
    BY ManagementConstants
  <2> QED
    BY <1>1, <2>1, EnterOpens
<1>2. ASSUME SameTrade
      PROVE  [Trades!CNext]_(Trades!cvars)
  BY <1>2, SameTradeKept
<1>3. ASSUME NEW d \in Decisions, Act(d)
      PROVE  SameTrade
  BY <1>3, ActStep
<1> QED
  BY <1>1, <1>2, <1>3, FeedSteps, EngineSteps, MonitorSteps, LoopSteps
     DEF ManagerNext, Manage

\* Manager, monitor and candle tick, each acting by symbol on what it looked at
\* some steps ago, keep the contract of a position that PositionLifecycle keeps
\* with exits of several steps: for every feed, advice and number of trades no
\* closed position comes back and none is turned over.
THEOREM TradesContractKept == ManagerSpec => TradesKeepContract
<1>1. ManagerInit => ManageInv
  BY ManageStarts
<1>2. ManagerInit => Trades!CInit
  BY DEF ManagerInit, NoTrade, Trades!CInit
<1>3. ManageInv /\ [ManagerNext]_managerVars => ManageInv' /\ [Trades!CNext]_(Trades!cvars)
  BY ManageStep, TradeStep
<1> QED
  BY <1>1, <1>2, <1>3, PTL DEF ManagerSpec, TradesKeepContract, Trades!Contract
=============================================================================
