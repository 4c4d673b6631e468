-------------------------- MODULE FundingArbProofs --------------------------
(***************************************************************************)
(* FundingArb for every quantity, interval, fault and crash budget: types, *)
(* the book telling the truth, and the bound on funding accruals.          *)
(***************************************************************************)
EXTENDS FundingArb, TLAPS

(* What the arb in memory is at each step of a tick.                       *)
StageInv ==
  /\ pc \in {"short", "closed"} => mem.state = "NONE"
  /\ pc \in {"opened", "buy", "rebuy"} => mem.state = "PERP_ONLY"
  /\ pc \in {"hedged", "resolved", "manage"} => mem.state = "HEDGED"
  /\ pc \in {"roll", "rollbuy", "rolled", "buyback"} => mem.state = "UNWINDING_PERP"
  /\ pc = "unwind" => mem.state \in {"HEDGED", "UNWINDING_PERP"}
  /\ pc \in {"bought", "sell"} => mem.state = "UNWINDING_SPOT"

(* The perp the two records tell of, during a tick as well: memory lags    *)
(* behind only once a roll-back has bought the short back, the snapshot    *)
(* only while a fill is being written.                                     *)
PerpInv ==
  ~torn =>
    /\ IF pc = "rolled" THEN perp = 0 ELSE PerpOf(mem) = perp
    /\ pc \notin Booking => PerpOf(disk) = perp

(* The same of the spot leg; a roll-back goes through the state of an      *)
(* unwind with no spot behind it.                                          *)
SpotInv ==
  ~torn /\ ~halfRolled =>
    /\ IF pc \in {"roll", "rollbuy", "rolled"} THEN spot = 0
                                              ELSE SpotOf(mem) = spot
    /\ pc \notin Booking \cup {"rollbuy"} => SpotOf(disk) = spot

(* Accruals fit in the time from entry to the latest one.                  *)
Accrued(arb) ==
  /\ arb.opened <= arb.last /\ arb.last <= clock
  /\ arb.paid * Interval <= arb.last - arb.opened

FundingInv == Accrued(mem) /\ Accrued(disk)

-----------------------------------------------------------------------------
(* A move of the clock or an accrual is all that touches an accrual count. *)
LEMMA OneMoreAccrual ==
  ASSUME NEW p \in Nat, NEW i \in Nat, NEW from \in Int, NEW now \in Int,
         NEW since \in Int,
         p * i <= from - since, now - from >= i
  PROVE  (p + 1) * i <= now - since
<1>1. (p + 1) * i = p * i + i
  OBVIOUS
<1>2. p * i \in Int
  OBVIOUS
<1>. QED
  BY <1>1, <1>2

(* The bounds, one by one. *)
LEMMA Bounds ==
  /\ MaxFaults \in Nat /\ MaxCrashes \in Nat /\ MaxTime \in Nat
  /\ Qty \in Nat \ {0} /\ Interval \in Nat \ {0}
  BY ArbConstants DEF ArbConstants

LEMMA NoArbFacts ==
  /\ NoArb \in Arbs /\ NoArb.state = "NONE"
  /\ NoArb.opened = 0 /\ NoArb.last = 0 /\ NoArb.paid = 0
  BY Bounds DEF NoArb, Arbs, States

LEMMA NoArbAccrued == NoArb.paid * Interval = 0
  <1>1. 0 * Interval = 0
    BY Bounds
  <1>. QED
    BY <1>1, NoArbFacts

LEMMA AccrualType ==
  ASSUME NEW a \in Arbs, NEW now \in 0 .. MaxTime
  PROVE  [a EXCEPT !.paid = @ + 1, !.last = now] \in Arbs
<1>. DEFINE b == [a EXCEPT !.paid = @ + 1]
<1>1. b \in Arbs
  BY DEF Arbs
<1>. HIDE DEF b
<1>2. [b EXCEPT !.last = now] \in Arbs
  BY <1>1 DEF Arbs
<1>. QED
  BY <1>2 DEF b

(* Every step keeps the types. *)
LEMMA BookTypeStep ==
  ASSUME BookType, [Next]_vars
  PROVE  BookType'
<1>. USE Bounds, NoArbFacts DEF BookType, Arbs, States, Stages, Booking, Fault, NoFault, Blocked, venues, past
<1>1. CASE Tick
  BY <1>1 DEF Tick
<1>2. CASE ShortPerp
  BY <1>2 DEF ShortPerp, Fills, Raises
<1>3. CASE BookPerp
  BY <1>3 DEF BookPerp, Writes, WriteFails
<1>4. CASE BuySpot
  BY <1>4 DEF BuySpot, Fills, Raises, SetState
<1>5. CASE BookHedge
  BY <1>5 DEF BookHedge, Writes, WriteFails
<1>6. CASE BookResolved
  BY <1>6 DEF BookResolved, Writes, WriteFails, SetState
<1>7. CASE BookRollback
  BY <1>7 DEF BookRollback, Writes, WriteFails
<1>8. CASE RollbackPerp
  BY <1>8 DEF RollbackPerp, Fills, Raises
<1>9. CASE BookRolledBack
  BY <1>9 DEF BookRolledBack, Writes, WriteFails, Closed
<1>10. CASE Manage
  <2>. DEFINE accrued == [mem EXCEPT !.paid = @ + 1, !.last = clock]
  <2>1. accrued \in Arbs
    BY AccrualType
  <2>2. mem' \in {mem, accrued} /\ disk' \in {disk, mem, accrued}
    BY <1>10 DEF Manage, Writes, WriteFails
  <2>3. mem' \in Arbs /\ disk' \in Arbs
    BY <2>1, <2>2
  <2>. HIDE DEF accrued
  <2>. QED
    BY <1>10, <2>3 DEF Manage, Writes, WriteFails
<1>11. CASE BookUnwind
  BY <1>11 DEF BookUnwind, Writes, WriteFails, SetState
<1>12. CASE BuyBack
  BY <1>12 DEF BuyBack, Fills, Raises, SetState
<1>13. CASE BookBought
  BY <1>13 DEF BookBought, Writes, WriteFails
<1>14. CASE SellSpot
  BY <1>14 DEF SellSpot, Fills, Raises, Closed
<1>15. CASE BookClose
  BY <1>15 DEF BookClose, Writes, WriteFails
<1>16. CASE Crash
  BY <1>16 DEF Crash
<1>17. CASE Halt
  BY <1>17 DEF Halt
<1>18. CASE Clock
  BY <1>18 DEF Clock
<1>19. CASE UNCHANGED vars
  BY <1>19 DEF vars, venues, past
<1>. QED
  BY <1>1, <1>2, <1>3, <1>4, <1>5, <1>6, <1>7, <1>8, <1>9, <1>10, <1>11, <1>12, <1>13, <1>14, <1>15, <1>16, <1>17, <1>18, <1>19 DEF Next, Manager

LEMMA FlagTypeStep ==
  ASSUME FlagType, [Next]_vars
  PROVE  FlagType'
<1>. USE DEF FlagType, venues, past
<1>1. CASE Tick
  BY <1>1 DEF Tick
<1>2. CASE ShortPerp
  BY <1>2 DEF ShortPerp, Fills, Raises
<1>3. CASE BookPerp
  BY <1>3 DEF BookPerp, Writes, WriteFails
<1>4. CASE BuySpot
  BY <1>4 DEF BuySpot, Fills, Raises, SetState
<1>5. CASE BookHedge
  BY <1>5 DEF BookHedge, Writes, WriteFails
<1>6. CASE BookResolved
  BY <1>6 DEF BookResolved, Writes, WriteFails, SetState
<1>7. CASE BookRollback
  BY <1>7 DEF BookRollback, Writes, WriteFails
<1>8. CASE RollbackPerp
  BY <1>8 DEF RollbackPerp, Fills, Raises
<1>9. CASE BookRolledBack
  BY <1>9 DEF BookRolledBack, Writes, WriteFails, Closed
<1>10. CASE Manage
  BY <1>10 DEF Manage, Writes, WriteFails
<1>11. CASE BookUnwind
  BY <1>11 DEF BookUnwind, Writes, WriteFails, SetState
<1>12. CASE BuyBack
  BY <1>12 DEF BuyBack, Fills, Raises, SetState
<1>13. CASE BookBought
  BY <1>13 DEF BookBought, Writes, WriteFails
<1>14. CASE SellSpot
  BY <1>14 DEF SellSpot, Fills, Raises, Closed
<1>15. CASE BookClose
  BY <1>15 DEF BookClose, Writes, WriteFails
<1>16. CASE Crash
  BY <1>16 DEF Crash
<1>17. CASE Halt
  BY <1>17 DEF Halt
<1>18. CASE Clock
  BY <1>18 DEF Clock
<1>19. CASE UNCHANGED vars
  BY <1>19 DEF vars, venues, past
<1>. QED
  BY <1>1, <1>2, <1>3, <1>4, <1>5, <1>6, <1>7, <1>8, <1>9, <1>10, <1>11, <1>12, <1>13, <1>14, <1>15, <1>16, <1>17, <1>18, <1>19 DEF Next, Manager

(* Type correctness, for any number of faults, crashes and hours.          *)
THEOREM TypeCorrect == Spec => []TypeOK
<1>1. Init => TypeOK
  <2>1. Init => BookType
    BY Bounds, NoArbFacts DEF Init, BookType, Stages
  <2>2. Init => FlagType
    BY DEF Init, FlagType
  <2>. QED
    BY <2>1, <2>2 DEF TypeOK
<1>2. TypeOK /\ [Next]_vars => TypeOK'
  BY BookTypeStep, FlagTypeStep DEF TypeOK
<1>. QED
  BY <1>1, <1>2, PTL DEF Spec

-----------------------------------------------------------------------------
(* Each step of a tick leaves the arb in the state the next one expects.   *)
LEMMA StageStep ==
  ASSUME TypeOK, StageInv, [Next]_vars
  PROVE  StageInv'
<1>. USE DEF StageInv, TypeOK, BookType, FlagType, Arbs, NoArb, venues, past
<1>1. CASE Tick
  BY <1>1 DEF Tick
<1>2. CASE ShortPerp
  BY <1>2 DEF ShortPerp, Fills, Raises
<1>3. CASE BookPerp
  BY <1>3 DEF BookPerp, Writes, WriteFails
<1>4. CASE BuySpot
  BY <1>4 DEF BuySpot, Fills, Raises, SetState
<1>5. CASE BookHedge
  BY <1>5 DEF BookHedge, Writes, WriteFails
<1>6. CASE BookResolved
  BY <1>6 DEF BookResolved, Writes, WriteFails, SetState
<1>7. CASE BookRollback
  BY <1>7 DEF BookRollback, Writes, WriteFails
<1>8. CASE RollbackPerp
  BY <1>8 DEF RollbackPerp, Fills, Raises
<1>9. CASE BookRolledBack
  BY <1>9 DEF BookRolledBack, Writes, WriteFails, Closed
<1>10. CASE Manage
  BY <1>10 DEF Manage, Writes, WriteFails
<1>11. CASE BookUnwind
  BY <1>11 DEF BookUnwind, Writes, WriteFails, SetState
<1>12. CASE BuyBack
  BY <1>12 DEF BuyBack, Fills, Raises, SetState
<1>13. CASE BookBought
  BY <1>13 DEF BookBought, Writes, WriteFails
<1>14. CASE SellSpot
  BY <1>14 DEF SellSpot, Fills, Raises, Closed
<1>15. CASE BookClose
  BY <1>15 DEF BookClose, Writes, WriteFails
<1>16. CASE Crash
  BY <1>16 DEF Crash
<1>17. CASE Halt
  BY <1>17 DEF Halt
<1>18. CASE Clock
  BY <1>18 DEF Clock
<1>19. CASE UNCHANGED vars
  BY <1>19 DEF vars, venues, past
<1>. QED
  BY <1>1, <1>2, <1>3, <1>4, <1>5, <1>6, <1>7, <1>8, <1>9, <1>10, <1>11, <1>12, <1>13, <1>14, <1>15, <1>16, <1>17, <1>18, <1>19 DEF Next, Manager

(* An order that fills changes perp and the state in memory together, or   *)
(* stands before a write whose loss sets torn.                             *)
LEMMA PerpStep ==
  ASSUME TypeOK, StageInv, PerpInv, [Next]_vars
  PROVE  PerpInv'
<1>. USE Bounds, NoArbFacts DEF PerpInv, PerpOf, StageInv, TypeOK, BookType, FlagType, Arbs, Booking, venues, past
<1>1. CASE Tick
  BY <1>1 DEF Tick
<1>2. CASE ShortPerp
  BY <1>2 DEF ShortPerp, Fills, Raises
<1>3. CASE BookPerp
  BY <1>3 DEF BookPerp, Writes, WriteFails
<1>4. CASE BuySpot
  BY <1>4 DEF BuySpot, Fills, Raises, SetState
<1>5. CASE BookHedge
  BY <1>5 DEF BookHedge, Writes, WriteFails
<1>6. CASE BookResolved
  BY <1>6 DEF BookResolved, Writes, WriteFails, SetState
<1>7. CASE BookRollback
  BY <1>7 DEF BookRollback, Writes, WriteFails
<1>8. CASE RollbackPerp
  BY <1>8 DEF RollbackPerp, Fills, Raises
<1>9. CASE BookRolledBack
  BY <1>9 DEF BookRolledBack, Writes, WriteFails, Closed
<1>10. CASE Manage
  BY <1>10 DEF Manage, Writes, WriteFails
<1>11. CASE BookUnwind
  BY <1>11 DEF BookUnwind, Writes, WriteFails, SetState
<1>12. CASE BuyBack
  BY <1>12 DEF BuyBack, Fills, Raises, SetState
<1>13. CASE BookBought
  BY <1>13 DEF BookBought, Writes, WriteFails
<1>14. CASE SellSpot
  BY <1>14 DEF SellSpot, Fills, Raises, Closed
<1>15. CASE BookClose
  BY <1>15 DEF BookClose, Writes, WriteFails
<1>16. CASE Crash
  BY <1>16 DEF Crash
<1>17. CASE Halt
  BY <1>17 DEF Halt
<1>18. CASE Clock
  BY <1>18 DEF Clock
<1>19. CASE UNCHANGED vars
  BY <1>19 DEF vars, venues, past
<1>. QED
  BY <1>1, <1>2, <1>3, <1>4, <1>5, <1>6, <1>7, <1>8, <1>9, <1>10, <1>11, <1>12, <1>13, <1>14, <1>15, <1>16, <1>17, <1>18, <1>19 DEF Next, Manager

LEMMA SpotStep ==
  ASSUME TypeOK, StageInv, SpotInv, [Next]_vars
  PROVE  SpotInv'
<1>. USE Bounds, NoArbFacts DEF SpotInv, SpotOf, StageInv, TypeOK, BookType, FlagType, Arbs, Booking, venues, past
<1>1. CASE Tick
  BY <1>1 DEF Tick
<1>2. CASE ShortPerp
  BY <1>2 DEF ShortPerp, Fills, Raises
<1>3. CASE BookPerp
  BY <1>3 DEF BookPerp, Writes, WriteFails
<1>4. CASE BuySpot
  BY <1>4 DEF BuySpot, Fills, Raises, SetState
<1>5. CASE BookHedge
  BY <1>5 DEF BookHedge, Writes, WriteFails
<1>6. CASE BookResolved
  BY <1>6 DEF BookResolved, Writes, WriteFails, SetState
<1>7. CASE BookRollback
  BY <1>7 DEF BookRollback, Writes, WriteFails
<1>8. CASE RollbackPerp
  BY <1>8 DEF RollbackPerp, Fills, Raises
<1>9. CASE BookRolledBack
  BY <1>9 DEF BookRolledBack, Writes, WriteFails, Closed
<1>10. CASE Manage
  BY <1>10 DEF Manage, Writes, WriteFails
<1>11. CASE BookUnwind
  BY <1>11 DEF BookUnwind, Writes, WriteFails, SetState
<1>12. CASE BuyBack
  BY <1>12 DEF BuyBack, Fills, Raises, SetState
<1>13. CASE BookBought
  BY <1>13 DEF BookBought, Writes, WriteFails
<1>14. CASE SellSpot
  BY <1>14 DEF SellSpot, Fills, Raises, Closed
<1>15. CASE BookClose
  BY <1>15 DEF BookClose, Writes, WriteFails
<1>16. CASE Crash
  BY <1>16 DEF Crash
<1>17. CASE Halt
  BY <1>17 DEF Halt
<1>18. CASE Clock
  BY <1>18 DEF Clock
<1>19. CASE UNCHANGED vars
  BY <1>19 DEF vars, venues, past
<1>. QED
  BY <1>1, <1>2, <1>3, <1>4, <1>5, <1>6, <1>7, <1>8, <1>9, <1>10, <1>11, <1>12, <1>13, <1>14, <1>15, <1>16, <1>17, <1>18, <1>19 DEF Next, Manager

BookInv == StageInv /\ PerpInv /\ SpotInv

(* The recorded state tells what the venues hold at every rest, in memory  *)
(* and on disk, as long as no fill went unrecorded.                        *)
THEOREM BookTellsTheTruth == Spec => []BookIsTrue
<1>1. Init => BookInv
  BY DEF Init, BookInv, StageInv, PerpInv, SpotInv, PerpOf, SpotOf, NoArb
<1>2. TypeOK /\ BookInv /\ [Next]_vars => BookInv'
  BY StageStep, PerpStep, SpotStep DEF BookInv
<1>3. BookInv => BookIsTrue
  BY DEF BookInv, PerpInv, SpotInv, BookIsTrue, Booking
<1>. QED
  BY <1>1, <1>2, <1>3, TypeCorrect, PTL DEF Spec

-----------------------------------------------------------------------------
(* Funding is accrued only when a whole interval has passed since the last *)
(* accrual, and the snapshot carries the time with the amount.             *)
LEMMA FundingStep ==
  ASSUME TypeOK, FundingInv, [Next]_vars
  PROVE  FundingInv'
<1>. USE Bounds, NoArbFacts, NoArbAccrued DEF FundingInv, Accrued, TypeOK, BookType, Arbs, venues, past
<1>1. CASE Tick
  BY <1>1 DEF Tick
<1>2. CASE ShortPerp
  BY <1>2 DEF ShortPerp, Fills, Raises
<1>3. CASE BookPerp
  BY <1>3 DEF BookPerp, Writes, WriteFails
<1>4. CASE BuySpot
  BY <1>4 DEF BuySpot, Fills, Raises, SetState
<1>5. CASE BookHedge
  BY <1>5 DEF BookHedge, Writes, WriteFails
<1>6. CASE BookResolved
  BY <1>6 DEF BookResolved, Writes, WriteFails, SetState
<1>7. CASE BookRollback
  BY <1>7 DEF BookRollback, Writes, WriteFails
<1>8. CASE RollbackPerp
  BY <1>8 DEF RollbackPerp, Fills, Raises
<1>9. CASE BookRolledBack
  BY <1>9 DEF BookRolledBack, Writes, WriteFails, Closed
<1>10. CASE Manage
  <2>. DEFINE accrued == [mem EXCEPT !.paid = @ + 1, !.last = clock]
  <2>1. ASSUME clock - mem.last >= Interval
        PROVE  Accrued(accrued)
    <3>1. (mem.paid + 1) * Interval <= clock - mem.opened
      BY <2>1, OneMoreAccrual
    <3>. QED
      BY <3>1
  <2>2. clock' = clock /\ mem' \in {mem, accrued} /\ disk' \in {disk, accrued}
    BY <1>10 DEF Manage, Writes, WriteFails
  <2>3. mem' = accrued \/ disk' = accrued =>
          (mem' = mem /\ disk' = disk) \/ clock - mem.last >= Interval
    BY <1>10 DEF Manage, Writes, WriteFails
  <2>. QED
    BY <2>1, <2>2, <2>3
<1>11. CASE BookUnwind
  BY <1>11 DEF BookUnwind, Writes, WriteFails, SetState
<1>12. CASE BuyBack
  BY <1>12 DEF BuyBack, Fills, Raises, SetState
<1>13. CASE BookBought
  BY <1>13 DEF BookBought, Writes, WriteFails
<1>14. CASE SellSpot
  BY <1>14 DEF SellSpot, Fills, Raises, Closed
<1>15. CASE BookClose
  BY <1>15 DEF BookClose, Writes, WriteFails
<1>16. CASE Crash
  BY <1>16 DEF Crash
<1>17. CASE Halt
  BY <1>17 DEF Halt
<1>18. CASE Clock
  BY <1>18 DEF Clock
<1>19. CASE UNCHANGED vars
  BY <1>19 DEF vars, venues, past
<1>. QED
  BY <1>1, <1>2, <1>3, <1>4, <1>5, <1>6, <1>7, <1>8, <1>9, <1>10, <1>11, <1>12, <1>13, <1>14, <1>15, <1>16, <1>17, <1>18, <1>19 DEF Next, Manager

(* No arb is ever credited more than one funding payment per interval.     *)
THEOREM FundingBounded == Spec => []FundingOncePerInterval
<1>1. Init => FundingInv
  BY NoArbFacts, NoArbAccrued DEF Init, FundingInv, Accrued
<1>2. TypeOK /\ FundingInv /\ [Next]_vars => FundingInv'
  BY FundingStep
<1>3. TypeOK /\ FundingInv => FundingOncePerInterval
  BY ArbConstants DEF ArbConstants, TypeOK, BookType, Arbs, FundingInv, Accrued, FundingOncePerInterval
<1>. QED
  BY <1>1, <1>2, <1>3, TypeCorrect, PTL DEF Spec
=============================================================================
