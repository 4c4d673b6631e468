--------------------------- MODULE RiskGateProofs ---------------------------
(***************************************************************************)
(* RiskGate for any number of engines, limits, results, days and mishaps:  *)
(* types, the bounds on entries in flight, and the daily-loss halt of a    *)
(* wallet that announces every close.                                      *)
(***************************************************************************)
EXTENDS RiskGate, FiniteSetTheorems, TLAPS

(* The bounds, one by one. *)
LEMMA Bounds ==
  /\ MaxDaily \in Nat /\ MaxDaily >= 1 /\ MaxConsecutive \in Nat
  /\ InitialBalance \in Nat /\ LossDivisor \in Nat /\ LossDivisor >= 1
  /\ MaxDays \in Nat /\ MaxDays >= 1
  /\ MaxTrades \in Nat /\ MaxMishaps \in Nat
  /\ Results \subseteq Int
  BY RiskConstants

(* What a manager goes through keeps its type.                             *)
LEMMA FreshTyped == Fresh \in Managers
  BY Bounds DEF Fresh, Managers

LEMMA RolledTyped ==
  ASSUME NEW m \in Managers, day \in 1 .. MaxDays
  PROVE  /\ Rolled(m) \in Managers
         /\ Rolled(m).day = day /\ Rolled(m).kill = m.kill
         /\ Rolled(m).count = IF m.day = day THEN m.count ELSE 0
         /\ Rolled(m).pnl = IF m.day = day THEN m.pnl ELSE 0
<1>1. CASE m.day = day
  BY <1>1 DEF Rolled
<1>2. CASE m.day # day
  <2>1. day \in 0 .. MaxDays
    BY Bounds
  <2>2. Rolled(m) = [m EXCEPT !.count = 0, !.pnl = 0, !.day = day]
    BY <1>2 DEF Rolled
  <2>3. ASSUME NEW d \in 0 .. MaxDays
        PROVE  [m EXCEPT !.count = 0, !.pnl = 0, !.day = d] \in Managers
    <3>. DEFINE a == [m EXCEPT !.count = 0]
                b == [a EXCEPT !.pnl = 0]
    <3>1. a \in Managers
      BY DEF Managers
    <3>. HIDE DEF a
    <3>2. b \in Managers
      BY <3>1 DEF Managers
    <3>. HIDE DEF b
    <3>3. [b EXCEPT !.day = d] \in Managers
      BY <3>2 DEF Managers
    <3>. QED
      BY <3>3 DEF a, b
  <2>4. Rolled(m).day = day /\ Rolled(m).kill = m.kill /\ Rolled(m).count = 0 /\ Rolled(m).pnl = 0
    BY <2>2 DEF Managers
  <2>. QED
    BY <1>2, <2>1, <2>2, <2>3, <2>4
<1>. QED
  BY <1>1, <1>2

LEMMA KilledTyped ==
  ASSUME NEW m \in Managers
  PROVE  /\ [m EXCEPT !.kill = TRUE] \in Managers
         /\ [m EXCEPT !.kill = TRUE].kill
         /\ [m EXCEPT !.kill = TRUE].day = m.day
         /\ [m EXCEPT !.kill = TRUE].pnl = m.pnl
         /\ [m EXCEPT !.kill = TRUE].count = m.count
  BY DEF Managers

LEMMA CountedTyped ==
  ASSUME NEW m \in Managers
  PROVE  /\ [m EXCEPT !.count = @ + 1] \in Managers
         /\ [m EXCEPT !.count = @ + 1].count = m.count + 1
         /\ [m EXCEPT !.count = @ + 1].day = m.day
         /\ [m EXCEPT !.count = @ + 1].pnl = m.pnl
         /\ [m EXCEPT !.count = @ + 1].kill = m.kill
  BY DEF Managers

(* The manager record_close leaves. *)
AfterClose(m, r) ==
  [m EXCEPT !.pnl = @ + r, !.losses = IF r > 0 THEN 0 ELSE @ + 1]

LEMMA AfterCloseTyped ==
  ASSUME NEW m \in Managers, NEW r \in Int
  PROVE  /\ AfterClose(m, r) \in Managers
         /\ AfterClose(m, r).pnl = m.pnl + r
         /\ AfterClose(m, r).day = m.day
         /\ AfterClose(m, r).count = m.count
         /\ AfterClose(m, r).kill = m.kill
<1>. DEFINE l == IF r > 0 THEN 0 ELSE m.losses + 1
<1>1. l \in Nat /\ m.pnl + r \in Int
  BY DEF Managers
<1>2. AfterClose(m, r) = [m EXCEPT !.pnl = m.pnl + r, !.losses = l]
  BY DEF AfterClose, Managers
<1>. HIDE DEF l
<1>. QED
  BY <1>1, <1>2 DEF Managers

-----------------------------------------------------------------------------
(* Type correctness, a group of variables at a time.                       *)

LEMMA ManagerTypeStep ==
  ASSUME TypeOK, [Next]_vars
  PROVE  ManagerType'
<1>. USE FreshTyped DEF TypeOK, ManagerType, ProcessType, Stages
<1>1. ASSUME NEW e \in Engines, Gate(e)
     PROVE  ManagerType'
  BY <1>1, RolledTyped DEF Gate, Goto, CopyOf, account, bounds, history
<1>2. ASSUME NEW e \in Engines, SavePeak(e)
     PROVE  ManagerType'
  BY <1>2 DEF SavePeak, Goto, CopyOf, SaveFails, Saves, Mishap, account, bounds, history
<1>3. ASSUME NEW e \in Engines, Enter(e)
     PROVE  ManagerType'
  BY <1>3 DEF Enter, Goto, Mishap, account, bounds, history
<1>4. ASSUME NEW e \in Engines, RecordOpen(e)
     PROVE  ManagerType'
  BY <1>4, RolledTyped, CountedTyped DEF RecordOpen, CopyOf, account, bounds, history
<1>5. ASSUME NEW e \in Engines, SaveOpen(e)
     PROVE  ManagerType'
  BY <1>5 DEF SaveOpen, Goto, CopyOf, SaveFails, Saves, Mishap, account, bounds, history
<1>6. ASSUME NEW e \in Engines, Trip(e)
     PROVE  ManagerType'
  BY <1>6, KilledTyped DEF Trip, CopyOf, account, bounds, history
<1>7. ASSUME NEW e \in Engines, ReconcilerTrip(e)
     PROVE  ManagerType'
  BY <1>7, KilledTyped DEF ReconcilerTrip, CopyOf, account, bounds, history
<1>8. ASSUME NEW e \in Engines, SaveKill(e)
     PROVE  ManagerType'
  BY <1>8 DEF SaveKill, Goto, CopyOf, SaveFails, Saves, Mishap, account, bounds, history
<1>9. ASSUME NEW e \in Engines, Close(e)
     PROVE  ManagerType'
  <2>1. PICK r \in Results, heard \in {TRUE, WalletPublishes} :
          /\ balance' = balance + r
          /\ closing' = IF heard
                THEN [stage |-> "booked", pnl |-> r, bal |-> balance', copy |-> Fresh]
                ELSE NoClosing
    BY <1>9 DEF Close
  <2>2. r \in Int /\ balance' \in Int
    BY <2>1, Bounds DEF HistoryType
  <2>3. closing' \in Closings
    BY <2>1, <2>2 DEF Closings, NoClosing
  <2>. QED
    BY <1>9, <2>3 DEF Close, account, bounds, history
<1>10. CASE RecordClose
  <2>1. closing \in Closings /\ closing.pnl \in Int
    BY DEF Closings
  <2>2. AfterClose(Rolled(shared), closing.pnl) \in Managers
    BY <2>1, RolledTyped, AfterCloseTyped
  <2>3. shared' \in Managers /\ closing' \in Closings
    BY <1>10, <2>1, <2>2 DEF RecordClose, AfterClose, Closings
  <2>. QED
    BY <1>10, <2>3 DEF RecordClose, account, bounds, history
<1>11. CASE SaveClose
  <2>1. closing \in Closings /\ NoClosing \in Closings /\ closing.copy \in Managers
    BY DEF Closings, NoClosing
  <2>2. [closing EXCEPT !.stage = "check", !.copy = Fresh] \in Closings
    BY <2>1 DEF Closings
  <2>. QED
    BY <1>11, <2>1, <2>2 DEF SaveClose, SaveFails, Saves, account, bounds, history
<1>12. CASE CheckDailyLoss
  <2>1. closing \in Closings /\ [shared EXCEPT !.kill = TRUE] \in Managers
    BY KilledTyped
  <2>2. NoClosing \in Closings
    BY DEF NoClosing, Closings
  <2>4. ASSUME NEW k \in Managers
        PROVE  [closing EXCEPT !.stage = "killsave", !.copy = k] \in Closings
    BY <2>1 DEF Closings
  <2>3. closing' \in Closings /\ shared' \in Managers
    BY <1>12, <2>1, <2>2, <2>4 DEF CheckDailyLoss
  <2>. QED
    BY <1>12, <2>3 DEF CheckDailyLoss, account, bounds, history
<1>13. CASE SaveHalt
  BY <1>13 DEF SaveHalt, SaveFails, Saves, Mishap, NoClosing, Closings, account, bounds, history
<1>14. CASE Midnight
  BY <1>14 DEF Midnight, account, bounds, history
<1>15. CASE Crash
  BY <1>15 DEF Crash, Mishap, NoClosing, Closings, account, bounds, history
<1>16. CASE Restart
  BY <1>16 DEF Restart, account, bounds, history
<1>17. CASE ClearRisk
  BY <1>17 DEF ClearRisk, Managers, account, bounds, history
<1>18. CASE UNCHANGED vars
  BY <1>18 DEF vars, account, bounds, history
<1>. QED
  BY <1>1, <1>2, <1>3, <1>4, <1>5, <1>6, <1>7, <1>8, <1>9, <1>10, <1>11, <1>12, <1>13, <1>14, <1>15, <1>16, <1>17, <1>18 DEF Next, Engine, Handler

LEMMA ProcessTypeStep ==
  ASSUME TypeOK, [Next]_vars
  PROVE  ProcessType'
<1>. USE Bounds DEF TypeOK, ProcessType, Stages
<1>1. ASSUME NEW e \in Engines, Gate(e)
     PROVE  ProcessType'
  BY <1>1 DEF Gate, Goto, CopyOf, account, bounds, history
<1>2. ASSUME NEW e \in Engines, SavePeak(e)
     PROVE  ProcessType'
  BY <1>2 DEF SavePeak, Goto, CopyOf, SaveFails, Saves, Mishap, account, bounds, history
<1>3. ASSUME NEW e \in Engines, Enter(e)
     PROVE  ProcessType'
  BY <1>3 DEF Enter, Goto, Mishap, account, bounds, history
<1>4. ASSUME NEW e \in Engines, RecordOpen(e)
     PROVE  ProcessType'
  BY <1>4 DEF RecordOpen, Goto, CopyOf, account, bounds, history
<1>5. ASSUME NEW e \in Engines, SaveOpen(e)
     PROVE  ProcessType'
  BY <1>5 DEF SaveOpen, Goto, CopyOf, SaveFails, Saves, Mishap, account, bounds, history
<1>6. ASSUME NEW e \in Engines, Trip(e)
     PROVE  ProcessType'
  BY <1>6 DEF Trip, Goto, CopyOf, Mishap, account, bounds, history
<1>7. ASSUME NEW e \in Engines, ReconcilerTrip(e)
     PROVE  ProcessType'
  BY <1>7 DEF ReconcilerTrip, Goto, CopyOf, Mishap, account, bounds, history
<1>8. ASSUME NEW e \in Engines, SaveKill(e)
     PROVE  ProcessType'
  BY <1>8 DEF SaveKill, Goto, CopyOf, SaveFails, Saves, Mishap, account, bounds, history
<1>9. ASSUME NEW e \in Engines, Close(e)
     PROVE  ProcessType'
  BY <1>9 DEF Close, NoClosing, account, bounds, history
<1>10. CASE RecordClose
  BY <1>10 DEF RecordClose, account, bounds, history
<1>11. CASE SaveClose
  BY <1>11 DEF SaveClose, SaveFails, Saves, Mishap, NoClosing, account, bounds, history
<1>12. CASE CheckDailyLoss
  BY <1>12 DEF CheckDailyLoss, NoClosing, account, bounds, history
<1>13. CASE SaveHalt
  BY <1>13 DEF SaveHalt, SaveFails, Saves, Mishap, NoClosing, account, bounds, history
<1>14. CASE Midnight
  BY <1>14 DEF Midnight, account, bounds, history
<1>15. CASE Crash
  BY <1>15 DEF Crash, Mishap, NoClosing, account, bounds, history
<1>16. CASE Restart
  BY <1>16 DEF Restart, account, bounds, history
<1>17. CASE ClearRisk
  BY <1>17 DEF ClearRisk, account, bounds, history
<1>18. CASE UNCHANGED vars
  BY <1>18 DEF vars, account, bounds, history
<1>. QED
  BY <1>1, <1>2, <1>3, <1>4, <1>5, <1>6, <1>7, <1>8, <1>9, <1>10, <1>11, <1>12, <1>13, <1>14, <1>15, <1>16, <1>17, <1>18 DEF Next, Engine, Handler

LEMMA HistoryTypeStep ==
  ASSUME TypeOK, [Next]_vars
  PROVE  HistoryType'
<1>. USE Bounds DEF TypeOK, HistoryType, ProcessType
<1>1. ASSUME NEW e \in Engines, Gate(e)
     PROVE  HistoryType'
  BY <1>1 DEF Gate, Goto, CopyOf, account, bounds, history
<1>2. ASSUME NEW e \in Engines, SavePeak(e)
     PROVE  HistoryType'
  BY <1>2 DEF SavePeak, Goto, CopyOf, SaveFails, Saves, Mishap, account, bounds, history
<1>3. ASSUME NEW e \in Engines, Enter(e)
     PROVE  HistoryType'
  BY <1>3 DEF Enter, Goto, Mishap, account, bounds, history
<1>4. ASSUME NEW e \in Engines, RecordOpen(e)
     PROVE  HistoryType'
  BY <1>4 DEF RecordOpen, Goto, CopyOf, account, bounds, history
<1>5. ASSUME NEW e \in Engines, SaveOpen(e)
     PROVE  HistoryType'
  BY <1>5 DEF SaveOpen, Goto, CopyOf, SaveFails, Saves, Mishap, account, bounds, history
<1>6. ASSUME NEW e \in Engines, Trip(e)
     PROVE  HistoryType'
  BY <1>6 DEF Trip, Goto, CopyOf, Mishap, account, bounds, history
<1>7. ASSUME NEW e \in Engines, ReconcilerTrip(e)
     PROVE  HistoryType'
  BY <1>7 DEF ReconcilerTrip, Goto, CopyOf, Mishap, account, bounds, history
<1>8. ASSUME NEW e \in Engines, SaveKill(e)
     PROVE  HistoryType'
  BY <1>8 DEF SaveKill, Goto, CopyOf, SaveFails, Saves, Mishap, account, bounds, history
<1>9. ASSUME NEW e \in Engines, Close(e)
     PROVE  HistoryType'
  BY <1>9 DEF Close, NoClosing, account, bounds, history
<1>10. CASE RecordClose
  BY <1>10 DEF RecordClose, account, bounds, history
<1>11. CASE SaveClose
  BY <1>11 DEF SaveClose, SaveFails, Saves, Mishap, NoClosing, account, bounds, history
<1>12. CASE CheckDailyLoss
  BY <1>12 DEF CheckDailyLoss, NoClosing, account, bounds, history
<1>13. CASE SaveHalt
  BY <1>13 DEF SaveHalt, SaveFails, Saves, Mishap, NoClosing, account, bounds, history
<1>14. CASE Midnight
  <2>1. closing.pnl \in Int
    BY DEF ManagerType, Closings
  <2>. QED
    BY <1>14, <2>1 DEF Midnight, account, bounds, history
<1>15. CASE Crash
  BY <1>15 DEF Crash, Mishap, NoClosing, account, bounds, history
<1>16. CASE Restart
  BY <1>16 DEF Restart, account, bounds, history
<1>17. CASE ClearRisk
  BY <1>17 DEF ClearRisk, account, bounds, history
<1>18. CASE UNCHANGED vars
  BY <1>18 DEF vars, account, bounds, history
<1>. QED
  BY <1>1, <1>2, <1>3, <1>4, <1>5, <1>6, <1>7, <1>8, <1>9, <1>10, <1>11, <1>12, <1>13, <1>14, <1>15, <1>16, <1>17, <1>18 DEF Next, Engine, Handler

LEMMA FlagTypeStep ==
  ASSUME FlagType, [Next]_vars
  PROVE  FlagType'
<1>. USE DEF FlagType
<1>1. ASSUME NEW e \in Engines, Gate(e)
     PROVE  FlagType'
  BY <1>1 DEF Gate, Goto, CopyOf, account, bounds, history
<1>2. ASSUME NEW e \in Engines, SavePeak(e)
     PROVE  FlagType'
  BY <1>2 DEF SavePeak, Goto, CopyOf, SaveFails, Saves, Mishap, account, bounds, history
<1>3. ASSUME NEW e \in Engines, Enter(e)
     PROVE  FlagType'
  BY <1>3 DEF Enter, Goto, Mishap, account, bounds, history
<1>4. ASSUME NEW e \in Engines, RecordOpen(e)
     PROVE  FlagType'
  BY <1>4 DEF RecordOpen, Goto, CopyOf, account, bounds, history
<1>5. ASSUME NEW e \in Engines, SaveOpen(e)
     PROVE  FlagType'
  BY <1>5 DEF SaveOpen, Goto, CopyOf, SaveFails, Saves, Mishap, account, bounds, history
<1>6. ASSUME NEW e \in Engines, Trip(e)
     PROVE  FlagType'
  BY <1>6 DEF Trip, Goto, CopyOf, Mishap, account, bounds, history
<1>7. ASSUME NEW e \in Engines, ReconcilerTrip(e)
     PROVE  FlagType'
  BY <1>7 DEF ReconcilerTrip, Goto, CopyOf, Mishap, account, bounds, history
<1>8. ASSUME NEW e \in Engines, SaveKill(e)
     PROVE  FlagType'
  BY <1>8 DEF SaveKill, Goto, CopyOf, SaveFails, Saves, Mishap, account, bounds, history
<1>9. ASSUME NEW e \in Engines, Close(e)
     PROVE  FlagType'
  BY <1>9 DEF Close, NoClosing, account, bounds, history
<1>10. CASE RecordClose
  BY <1>10 DEF RecordClose, account, bounds, history
<1>11. CASE SaveClose
  BY <1>11 DEF SaveClose, SaveFails, Saves, Mishap, NoClosing, account, bounds, history
<1>12. CASE CheckDailyLoss
  BY <1>12 DEF CheckDailyLoss, NoClosing, account, bounds, history
<1>13. CASE SaveHalt
  BY <1>13 DEF SaveHalt, SaveFails, Saves, Mishap, NoClosing, account, bounds, history
<1>14. CASE Midnight
  BY <1>14 DEF Midnight, account, bounds, history
<1>15. CASE Crash
  BY <1>15 DEF Crash, Mishap, NoClosing, account, bounds, history
<1>16. CASE Restart
  BY <1>16 DEF Restart, account, bounds, history
<1>17. CASE ClearRisk
  BY <1>17 DEF ClearRisk, account, bounds, history
<1>18. CASE UNCHANGED vars
  BY <1>18 DEF vars, account, bounds, history
<1>. QED
  BY <1>1, <1>2, <1>3, <1>4, <1>5, <1>6, <1>7, <1>8, <1>9, <1>10, <1>11, <1>12, <1>13, <1>14, <1>15, <1>16, <1>17, <1>18 DEF Next, Engine, Handler

LEMMA TypedInit == Init => TypeOK
<1>1. Init => ManagerType
  BY FreshTyped DEF Init, ManagerType, Closings, NoClosing
<1>2. Init => ProcessType /\ HistoryType
  BY Bounds DEF Init, ProcessType, HistoryType, Stages
<1>3. Init => FlagType
  BY DEF Init, FlagType
<1>. QED
  BY <1>1, <1>2, <1>3 DEF TypeOK

LEMMA TypedStep == TypeOK /\ [Next]_vars => TypeOK'
  BY ManagerTypeStep, ProcessTypeStep, HistoryTypeStep, FlagTypeStep DEF TypeOK

(* Every variable keeps its type and every bound is kept: no manager, copy *)
(* or file is ever dated outside the calendar, whatever fails.             *)
THEOREM TypeCorrect == Spec => []TypeOK
  BY TypedInit, TypedStep, PTL DEF Spec

-----------------------------------------------------------------------------
(* Entries in flight: past the gate, and opened but not yet counted.       *)
Waiting == {e \in Engines : pc[e] \in {"peak", "enter"}}
Opening == {e \in Engines : pc[e] = "opened"}

CountToday == IF shared.day = day THEN shared.count ELSE 0
PnlToday   == IF shared.day = day THEN shared.pnl ELSE 0

(* A process that is down has done nothing yet.                            *)
DownInv == ~up => opened = 0 /\ late = 0 /\ \A e \in Engines : pc[e] = "idle"

(* What was opened today is counted, or about to be.                       *)
CountedInv == opened <= CountToday + Cardinality(Opening)

(* Every engine past the gate was let through below the limit.             *)
DailyInv == opened + Cardinality(Waiting) <= MaxDaily - 1 + Cardinality(Engines)

(* Late entries were past the gate when the switch came on.                *)
LateInv ==
  /\ late + Cardinality(Waiting) <= Cardinality(Engines)
  /\ ~shared.kill => late = 0

InFlightInv == DownInv /\ CountedInv /\ DailyInv /\ LateInv

(* Cardinalities of the engines in flight, now and in the next state.      *)
Headcount ==
  /\ IsFiniteSet(Waiting) /\ IsFiniteSet(Opening)
  /\ Cardinality(Waiting) \in Nat /\ Cardinality(Opening) \in Nat
  /\ Cardinality(Engines) \in Nat
  /\ Cardinality(Waiting) + Cardinality(Opening) <= Cardinality(Engines)
  /\ Cardinality(Waiting) <= Cardinality(Engines)

LEMMA InFlight == Headcount
<1>1. IsFiniteSet(Engines)
  BY RiskConstants
<1>2. Waiting \in SUBSET Engines /\ Opening \in SUBSET Engines /\ Waiting \cup Opening \in SUBSET Engines
  BY DEF Waiting, Opening
<1>3. IsFiniteSet(Waiting) /\ IsFiniteSet(Opening)
  BY <1>1, <1>2, FS_Subset
<1>4. /\ Cardinality(Waiting) \in Nat /\ Cardinality(Opening) \in Nat
      /\ Cardinality(Engines) \in Nat
  BY <1>1, <1>3, FS_CardinalityType
<1>5. Waiting \cap Opening = {}
  BY DEF Waiting, Opening
<1>6. Cardinality(Waiting \cup Opening) = Cardinality(Waiting) + Cardinality(Opening)
  <2>1. Cardinality(Waiting \cup Opening)
          = Cardinality(Waiting) + Cardinality(Opening) - Cardinality(Waiting \cap Opening)
    BY <1>3, FS_Union
  <2>2. Cardinality(Waiting \cap Opening) = 0
    BY <1>5, FS_EmptySet
  <2>. QED
    BY <1>4, <2>1, <2>2
<1>7. Cardinality(Waiting \cup Opening) <= Cardinality(Engines)
  BY <1>1, <1>2, FS_Subset
<1>8. Cardinality(Waiting) <= Cardinality(Engines)
  BY <1>1, <1>2, FS_Subset
<1>. QED
  BY <1>3, <1>4, <1>6, <1>7, <1>8 DEF Headcount

LEMMA InFlightNext == Headcount'
  BY InFlight, PTL

(* One engine moves to another stage.                                      *)
LEMMA OneMoves ==
  ASSUME TypeOK, NEW e \in Engines, NEW s \in Stages, Goto(e, s)
  PROVE  /\ Waiting' = IF s \in {"peak", "enter"} THEN Waiting \cup {e} ELSE Waiting \ {e}
         /\ Opening' = IF s = "opened" THEN Opening \cup {e} ELSE Opening \ {e}
  BY DEF TypeOK, ProcessType, Goto, Waiting, Opening, Stages

(* It joins those in flight, goes from waiting to opening, or leaves.      *)
LEMMA JoinsWaiting ==
  ASSUME TypeOK, NEW e \in Engines, NEW s \in {"peak", "enter"}, Goto(e, s),
         pc[e] = "idle"
  PROVE  /\ Cardinality(Waiting') = Cardinality(Waiting) + 1
         /\ Opening' = Opening
<1>1. e \notin Waiting /\ e \notin Opening
  BY DEF Waiting, Opening
<1>2. Waiting' = Waiting \cup {e} /\ Opening' = Opening \ {e}
  BY OneMoves DEF Stages
<1>3. Opening' = Opening
  BY <1>1, <1>2
<1>4. Cardinality(Waiting') = Cardinality(Waiting) + 1
  BY <1>1, <1>2, InFlight, FS_AddElement DEF Headcount
<1>. QED
  BY <1>3, <1>4

LEMMA WaitingToOpening ==
  ASSUME TypeOK, NEW e \in Engines, Goto(e, "opened"), pc[e] = "enter"
  PROVE  /\ Cardinality(Waiting') = Cardinality(Waiting) - 1
         /\ Cardinality(Opening') = Cardinality(Opening) + 1
<1>1. e \in Waiting /\ e \notin Opening
  BY DEF Waiting, Opening
<1>2. Waiting' = Waiting \ {e} /\ Opening' = Opening \cup {e}
  BY OneMoves DEF Stages
<1>. QED
  BY <1>1, <1>2, InFlight, FS_AddElement, FS_RemoveElement DEF Headcount

LEMMA LeavesWaiting ==
  ASSUME TypeOK, NEW e \in Engines, NEW s \in Stages \ {"peak", "enter", "opened"},
         Goto(e, s), pc[e] \in {"peak", "enter"}
  PROVE  /\ Cardinality(Waiting') = Cardinality(Waiting) - 1
         /\ Opening' = Opening
<1>1. e \in Waiting /\ e \notin Opening
  BY DEF Waiting, Opening
<1>2. Waiting' = Waiting \ {e} /\ Opening' = Opening \ {e}
  BY OneMoves
<1>3. Opening' = Opening
  BY <1>1, <1>2
<1>4. Cardinality(Waiting') = Cardinality(Waiting) - 1
  BY <1>1, <1>2, InFlight, FS_RemoveElement DEF Headcount
<1>. QED
  BY <1>3, <1>4

LEMMA LeavesOpening ==
  ASSUME TypeOK, NEW e \in Engines, NEW s \in Stages \ {"peak", "enter", "opened"},
         Goto(e, s), pc[e] = "opened"
  PROVE  /\ Waiting' = Waiting
         /\ Cardinality(Opening') = Cardinality(Opening) - 1
<1>1. e \notin Waiting /\ e \in Opening
  BY DEF Waiting, Opening
<1>2. Waiting' = Waiting \ {e} /\ Opening' = Opening \ {e}
  BY OneMoves
<1>3. Waiting' = Waiting
  BY <1>1, <1>2
<1>4. Cardinality(Opening') = Cardinality(Opening) - 1
  BY <1>1, <1>2, InFlight, FS_RemoveElement DEF Headcount
<1>. QED
  BY <1>3, <1>4

LEMMA StaysOut ==
  ASSUME TypeOK, NEW e \in Engines, NEW s \in Stages \ {"peak", "enter", "opened"},
         Goto(e, s), pc[e] \notin {"peak", "enter", "opened"}
  PROVE  Waiting' = Waiting /\ Opening' = Opening
<1>1. e \notin Waiting /\ e \notin Opening
  BY DEF Waiting, Opening
<1>2. Waiting' = Waiting \ {e} /\ Opening' = Opening \ {e}
  BY OneMoves
<1>. QED
  BY <1>1, <1>2

(* A step that opens nothing, moves no one in or out of flight and keeps   *)
(* the count and a switch that is on.                                      *)
LEMMA Uninvolved ==
  ASSUME TypeOK, InFlightInv, up, up' = up, day' = day, opened' = opened, late' = late,
         Cardinality(Waiting') <= Cardinality(Waiting), Cardinality(Waiting') \in Nat,
         Opening' = Opening,
         shared'.kill \/ shared'.kill = shared.kill, CountToday' = CountToday
  PROVE  InFlightInv'
  BY InFlight, Bounds
  DEF Headcount, InFlightInv, DownInv, CountedInv, DailyInv, LateInv, TypeOK, HistoryType

(* A roll-over keeps what counts for today. *)
LEMMA RolledToday ==
  ASSUME TypeOK, shared' = Rolled(shared), day' = day
  PROVE  CountToday' = CountToday /\ PnlToday' = PnlToday /\ shared'.kill = shared.kill
         /\ shared'.count = CountToday
  BY RolledTyped DEF TypeOK, ManagerType, ProcessType, CountToday, PnlToday

(* No engine moves.                                                        *)
LEMMA NobodyMoves ==
  ASSUME pc' = pc
  PROVE  Waiting' = Waiting /\ Opening' = Opening
  BY DEF Waiting, Opening

(* Nothing of it changes. *)
LEMMA NothingMoves ==
  ASSUME InFlightInv, UNCHANGED <<up, day, shared, pc, opened, late>>
  PROVE  InFlightInv'
  BY DEF InFlightInv, DownInv, CountedInv, DailyInv, LateInv, CountToday, Waiting, Opening

LEMMA InFlightStep ==
  ASSUME TypeOK, InFlightInv, [Next]_vars
  PROVE  InFlightInv'
<1>. USE InFlight DEF Headcount, account, bounds, history
<1>1. ASSUME NEW e \in Engines, Gate(e)
     PROVE  InFlightInv'
  <2>1. up /\ up' = up /\ day' = day /\ opened' = opened /\ late' = late /\ pc[e] = "idle"
        /\ shared' = Rolled(shared)
    BY <1>1 DEF Gate
  <2>2. CountToday' = CountToday /\ shared'.kill = shared.kill /\ shared'.count = CountToday
    BY <2>1, RolledToday
  <2>3. CASE pc' = pc
    BY <2>1, <2>2, <2>3, NobodyMoves, Uninvolved
  <2>4. CASE pc' # pc
    <3>1. CanTrade(shared') /\ \E s \in {"peak", "enter"} : Goto(e, s)
      BY <1>1, <2>4 DEF Gate
    <3>2. Cardinality(Waiting') = Cardinality(Waiting) + 1 /\ Opening' = Opening
      BY <2>1, <3>1, JoinsWaiting
    <3>3. CountToday < MaxDaily /\ ~shared.kill
      BY <2>2, <3>1 DEF CanTrade
    <3>4. CountToday \in Nat /\ opened \in Nat /\ late \in Nat
      BY DEF TypeOK, ManagerType, HistoryType, Managers, CountToday
    <3>5. Cardinality(Waiting') + Cardinality(Opening') <= Cardinality(Engines)
      BY InFlightNext DEF Headcount
    <3>6. DownInv' /\ CountedInv'
      BY <2>1, <2>2, <3>2 DEF InFlightInv, DownInv, CountedInv
    <3>7. DailyInv'
      BY <2>1, <3>2, <3>3, <3>4, <3>5, Bounds DEF InFlightInv, CountedInv, DailyInv
    <3>8. LateInv'
      BY <2>1, <2>2, <3>2, <3>3, <3>4, <3>5 DEF InFlightInv, LateInv
    <3>. QED
      BY <3>6, <3>7, <3>8 DEF InFlightInv
  <2>. QED
    BY <2>3, <2>4
<1>2. ASSUME NEW e \in Engines, SavePeak(e)
     PROVE  InFlightInv'
  <2>1. up /\ up' = up /\ UNCHANGED <<day, shared, opened, late>> /\ pc[e] = "peak"
    BY <1>2 DEF SavePeak
  <2>2. CountToday' = CountToday
    BY <2>1 DEF CountToday
  <2>3. CASE Goto(e, "enter")
    <3>1. Waiting' = Waiting /\ Opening' = Opening
      BY <2>1, <2>3, OneMoves DEF Waiting, Opening, Stages
    <3>. QED
      BY <2>1, <2>2, <3>1, Uninvolved
  <2>4. CASE Goto(e, "dead")
    <3>1. Cardinality(Waiting') = Cardinality(Waiting) - 1 /\ Opening' = Opening
      BY <2>1, <2>4, LeavesWaiting DEF Stages
    <3>2. Cardinality(Waiting') \in Nat
      BY InFlightNext DEF Headcount
    <3>. QED
      BY <2>1, <2>2, <3>1, <3>2, Uninvolved
  <2>. QED
    BY <1>2, <2>3, <2>4 DEF SavePeak
<1>3. ASSUME NEW e \in Engines, Enter(e)
     PROVE  InFlightInv'
  <2>1. up /\ up' = up /\ UNCHANGED <<day, shared>> /\ pc[e] = "enter"
    BY <1>3 DEF Enter
  <2>2. CountToday' = CountToday
    BY <2>1 DEF CountToday
  <2>3. CASE Goto(e, "opened")
    <3>1. opened' = opened + 1 /\ late' = IF shared.kill THEN late + 1 ELSE late
      BY <1>3, <2>3 DEF Enter, Goto, TypeOK, ProcessType
    <3>2. /\ Cardinality(Waiting') = Cardinality(Waiting) - 1
          /\ Cardinality(Opening') = Cardinality(Opening) + 1
      BY <2>1, <2>3, WaitingToOpening
    <3>3. CountToday \in Nat /\ opened \in Nat /\ late \in Nat
      BY DEF TypeOK, ManagerType, HistoryType, Managers, CountToday
    <3>. QED
      BY <2>1, <2>2, <3>1, <3>2, <3>3, Bounds DEF InFlightInv, DownInv, CountedInv, DailyInv, LateInv
  <2>4. CASE (Goto(e, "idle") \/ Goto(e, "trip")) /\ UNCHANGED <<opened, late>>
    <3>1. Cardinality(Waiting') = Cardinality(Waiting) - 1 /\ Opening' = Opening
      BY <2>1, <2>4, LeavesWaiting DEF Stages
    <3>2. Cardinality(Waiting') \in Nat
      BY InFlightNext DEF Headcount
    <3>. QED
      BY <2>1, <2>2, <2>4, <3>1, <3>2, Uninvolved
  <2>. QED
    BY <1>3, <2>3, <2>4 DEF Enter
<1>4. ASSUME NEW e \in Engines, RecordOpen(e)
     PROVE  InFlightInv'
  <2>1. up /\ up' = up /\ UNCHANGED <<day, opened, late>> /\ pc[e] = "opened" /\ Goto(e, "save")
    BY <1>4 DEF RecordOpen
  <2>2. /\ shared' = [Rolled(shared) EXCEPT !.count = @ + 1]
        /\ Rolled(shared) \in Managers
    BY <1>4, RolledTyped DEF RecordOpen, TypeOK, ManagerType, ProcessType
  <2>3. CountToday' = CountToday + 1 /\ shared'.kill = shared.kill /\ CountToday \in Nat
    BY <2>1, <2>2, RolledTyped, CountedTyped DEF TypeOK, ManagerType, ProcessType, Managers, CountToday
  <2>4. Waiting' = Waiting /\ Cardinality(Opening') = Cardinality(Opening) - 1
    BY <2>1, LeavesOpening DEF Stages
  <2>. QED
    BY <2>1, <2>3, <2>4 DEF InFlightInv, DownInv, CountedInv, DailyInv, LateInv, TypeOK, HistoryType
<1>5. ASSUME NEW e \in Engines, SaveOpen(e)
     PROVE  InFlightInv'
  <2>1. up /\ up' = up /\ UNCHANGED <<day, shared, opened, late>> /\ pc[e] = "save"
        /\ (Goto(e, "idle") \/ Goto(e, "trip"))
    BY <1>5 DEF SaveOpen
  <2>2. Waiting' = Waiting /\ Opening' = Opening /\ CountToday' = CountToday
    BY <2>1, StaysOut DEF Stages, CountToday
  <2>. QED
    BY <2>1, <2>2, Uninvolved
<1>6. ASSUME NEW e \in Engines, Trip(e)
     PROVE  InFlightInv'
  <2>1. up /\ up' = up /\ UNCHANGED <<day, opened, late>> /\ pc[e] \in {"idle", "trip"}
        /\ Goto(e, "killsave") /\ shared' = [shared EXCEPT !.kill = TRUE]
    BY <1>6 DEF Trip
  <2>2. Waiting' = Waiting /\ Opening' = Opening
    BY <2>1, StaysOut DEF Stages
  <2>3. CountToday' = CountToday /\ shared'.kill
    BY <2>1, KilledTyped DEF CountToday, TypeOK, ManagerType
  <2>. QED
    BY <2>1, <2>2, <2>3, Uninvolved
<1>7. ASSUME NEW e \in Engines, ReconcilerTrip(e)
     PROVE  InFlightInv'
  <2>1. up /\ up' = up /\ UNCHANGED <<day, shared, opened, late>> /\ pc[e] = "idle"
        /\ Goto(e, "killsave")
    BY <1>7 DEF ReconcilerTrip
  <2>2. Waiting' = Waiting /\ Opening' = Opening /\ CountToday' = CountToday
    BY <2>1, StaysOut DEF Stages, CountToday
  <2>. QED
    BY <2>1, <2>2, Uninvolved
<1>8. ASSUME NEW e \in Engines, SaveKill(e)
     PROVE  InFlightInv'
  <2>1. up /\ up' = up /\ UNCHANGED <<day, shared, opened, late>> /\ pc[e] = "killsave"
        /\ Goto(e, "idle")
    BY <1>8 DEF SaveKill
  <2>2. Waiting' = Waiting /\ Opening' = Opening /\ CountToday' = CountToday
    BY <2>1, StaysOut DEF Stages, CountToday
  <2>. QED
    BY <2>1, <2>2, Uninvolved
<1>9. ASSUME NEW e \in Engines, Close(e)
     PROVE  InFlightInv'
  BY <1>9, NothingMoves DEF Close
<1>10. CASE RecordClose
  <2>1. up /\ UNCHANGED <<up, day, pc, opened, late>> /\ closing.pnl \in Int
        /\ shared' = AfterClose(Rolled(shared), closing.pnl)
    BY <1>10 DEF RecordClose, AfterClose, TypeOK, ManagerType, Closings
  <2>2. /\ Rolled(shared) \in Managers /\ Rolled(shared).day = day
        /\ Rolled(shared).kill = shared.kill /\ Rolled(shared).count = CountToday
    BY RolledTyped DEF TypeOK, ManagerType, ProcessType, CountToday
  <2>3. shared'.day = day /\ shared'.count = CountToday /\ shared'.kill = shared.kill
    BY <2>1, <2>2, AfterCloseTyped
  <2>4. CountToday' = CountToday
    BY <2>1, <2>3 DEF CountToday
  <2>. QED
    BY <2>1, <2>3, <2>4, NobodyMoves, Uninvolved
<1>11. CASE SaveClose
  BY <1>11, NothingMoves DEF SaveClose
<1>12. CASE CheckDailyLoss
  <2>1. up /\ UNCHANGED <<up, day, pc, opened, late>>
        /\ (shared' = shared \/ shared' = [shared EXCEPT !.kill = TRUE])
    BY <1>12 DEF CheckDailyLoss
  <2>2. CountToday' = CountToday /\ (shared'.kill \/ shared'.kill = shared.kill)
    BY <2>1, KilledTyped DEF TypeOK, ManagerType, CountToday
  <2>. QED
    BY <2>1, <2>2, NobodyMoves, Uninvolved
<1>13. CASE SaveHalt
  BY <1>13, NothingMoves DEF SaveHalt
<1>14. CASE Midnight
  <2>1. UNCHANGED <<up, shared, pc, late>> /\ opened' = 0
    BY <1>14 DEF Midnight
  <2>2. Waiting' = Waiting /\ Opening' = Opening
    BY <2>1, NobodyMoves
  <2>3. CountToday' \in Nat
    BY <2>1 DEF TypeOK, ManagerType, Managers, CountToday
  <2>. QED
    BY <2>1, <2>2, <2>3, Bounds DEF InFlightInv, DownInv, CountedInv, DailyInv, LateInv
<1>15. CASE Crash
  <2>1. ~up' /\ opened' = 0 /\ late' = 0 /\ shared' = Fresh /\ \A e \in Engines : pc'[e] = "idle"
    BY <1>15 DEF Crash
  <2>2. Waiting' = {} /\ Opening' = {}
    BY <2>1 DEF Waiting, Opening
  <2>3. Cardinality(Waiting') = 0 /\ Cardinality(Opening') = 0
    BY <2>2, FS_EmptySet
  <2>4. CountToday' = 0
    BY <2>1 DEF CountToday, Fresh
  <2>. QED
    BY <2>1, <2>3, <2>4, Bounds DEF InFlightInv, DownInv, CountedInv, DailyInv, LateInv
<1>16. CASE Restart
  <2>1. ~up /\ up' /\ UNCHANGED <<day, pc, opened, late>> /\ shared' = file
    BY <1>16 DEF Restart
  <2>2. Waiting' = Waiting /\ Opening' = Opening
    BY <2>1, NobodyMoves
  <2>3. opened = 0 /\ late = 0 /\ CountToday' \in Nat
    BY <2>1 DEF InFlightInv, DownInv, TypeOK, ManagerType, Managers, CountToday
  <2>. QED
    BY <2>1, <2>2, <2>3, Bounds DEF InFlightInv, DownInv, CountedInv, DailyInv, LateInv
<1>17. CASE ClearRisk
  BY <1>17, NothingMoves DEF ClearRisk
<1>18. CASE UNCHANGED vars
  BY <1>18, NothingMoves DEF vars
<1>. QED
  BY <1>1, <1>2, <1>3, <1>4, <1>5, <1>6, <1>7, <1>8, <1>9, <1>10, <1>11, <1>12, <1>13, <1>14, <1>15, <1>16, <1>17, <1>18 DEF Next, Engine, Handler

(* Nothing is in flight at first. *)
LEMMA InFlightInit == Init => InFlightInv
<1>. SUFFICES ASSUME Init PROVE InFlightInv
  OBVIOUS
<1>1. TypeOK
  BY TypedInit
<1>2. Waiting = {} /\ Opening = {}
  BY DEF Init, Waiting, Opening
<1>3. Cardinality(Waiting) = 0 /\ Cardinality(Opening) = 0
  BY <1>2, FS_EmptySet
<1>4. CountToday = 0 /\ up /\ opened = 0 /\ late = 0
  BY DEF Init, CountToday, Fresh
<1>. QED
  BY <1>1, <1>3, <1>4, InFlight, Bounds DEF Headcount, InFlightInv, DownInv, CountedInv, DailyInv, LateInv

(* The daily limit is overshot by at most one entry for every engine but   *)
(* one, whatever fails between the gate and the count.                     *)
THEOREM DailyTradesSafe == Spec => []DailyTradesBounded
<1>1. TypeOK /\ InFlightInv => DailyTradesBounded
  BY InFlight, Bounds DEF Headcount, InFlightInv, DailyInv, DailyTradesBounded, TypeOK, HistoryType
<1>. QED
  BY <1>1, TypedInit, TypedStep, InFlightInit, InFlightStep, PTL DEF Spec

(* With the switch on, no engine opens more than the entry it was already  *)
(* past the gate with.                                                     *)
THEOREM KillSafe == Spec => []KillStopsEntries
<1>1. TypeOK /\ InFlightInv => KillStopsEntries
  BY InFlight DEF Headcount, InFlightInv, LateInv, KillStopsEntries, TypeOK, HistoryType
<1>. QED
  BY <1>1, TypedInit, TypedStep, InFlightInit, InFlightStep, PTL DEF Spec

-----------------------------------------------------------------------------
(* The halt on the day's loss, of a wallet that announces every close.     *)

(* No manager, copy or file is dated tomorrow. *)
Past(m) == m.day <= day
PastInv ==
  /\ Past(shared) /\ Past(file) /\ Past(closing.copy)
  /\ \A e \in Engines : Past(own[e]) /\ Past(copy[e])

LEMMA PastFacts ==
  ASSUME TypeOK
  PROVE  /\ Past(Fresh)
         /\ \A m \in Managers : Rolled(m) \in Managers /\ Past(Rolled(m))
         /\ \A m \in Managers : Past(m) => Past([m EXCEPT !.kill = TRUE])
         /\ \A m \in Managers : Past(m) => Past([m EXCEPT !.count = @ + 1])
         /\ \A m \in Managers, r \in Int : Past(m) => Past(AfterClose(m, r))
<1>1. Past(Fresh)
  BY Bounds DEF TypeOK, ProcessType, Past, Fresh
<1>2. \A m \in Managers : Rolled(m) \in Managers /\ Past(Rolled(m))
  BY RolledTyped, Bounds DEF TypeOK, ProcessType, Past
<1>. QED
  BY <1>1, <1>2, KilledTyped, CountedTyped, AfterCloseTyped DEF Past

(* The calendar stands still: what is dated today or before stays so.      *)
LEMMA SameDay ==
  ASSUME day' = day, Past(shared'), Past(file'), Past(closing'.copy),
         \A e \in Engines : Past(own'[e]) /\ Past(copy'[e])
  PROVE  PastInv'
  BY DEF PastInv, Past

(* What a close the handler has not recorded yet will add to the day. *)
Unrecorded == IF closing.stage = "booked" THEN closing.pnl ELSE 0

(* The balance has moved by the day's recorded result since midnight.      *)
LossHit == dayStart > 0 /\ PnlToday * LossDivisor <= -dayStart

AccountInv ==
  /\ closing.stage # "idle" => closing.bal = balance
  /\ up /\ clean => balance - dayStart = PnlToday + Unrecorded
  /\ up /\ clean /\ closing.stage \in {"idle", "killsave"} /\ LossHit => shared.kill

LEMMA PastStep ==
  ASSUME TypeOK, PastInv, [Next]_vars
  PROVE  PastInv'
<1>. USE DEF account, bounds, history
<1>0. /\ shared \in Managers /\ file \in Managers /\ closing.copy \in Managers /\ closing.pnl \in Int
      /\ own \in [Engines -> Managers] /\ copy \in [Engines -> Managers]
  BY DEF TypeOK, ManagerType, Closings
<1>00. /\ Past(shared) /\ Past(file) /\ Past(closing.copy)
       /\ \A e \in Engines : Past(own[e]) /\ Past(copy[e])
  BY DEF PastInv
<1>. USE <1>0, <1>00, PastFacts, SameDay
<1>1. ASSUME NEW e \in Engines, Gate(e)
     PROVE  PastInv'
  <2>1. Past(shared') /\ \A f \in Engines : copy'[f] = copy[f] \/ copy'[f] = shared'
    BY <1>1 DEF Gate, Goto, CopyOf
  <2>. QED
    BY <1>1, <2>1 DEF Gate
<1>2. ASSUME NEW e \in Engines, SavePeak(e)
     PROVE  PastInv'
  <2>1. \A f \in Engines : Past(copy'[f])
    BY <1>2 DEF SavePeak, CopyOf
  <2>2. file' = file \/ file' = copy[e]
    BY <1>2 DEF SavePeak, Saves, SaveFails
  <2>. QED
    BY <1>2, <2>1, <2>2 DEF SavePeak
<1>3. ASSUME NEW e \in Engines, Enter(e)
     PROVE  PastInv'
  BY <1>3 DEF Enter
<1>4. ASSUME NEW e \in Engines, RecordOpen(e)
     PROVE  PastInv'
  <2>1. shared' = [Rolled(shared) EXCEPT !.count = @ + 1] /\ copy' = [copy EXCEPT ![e] = shared']
    BY <1>4 DEF RecordOpen, CopyOf
  <2>2. Past(shared')
    BY <2>1
  <2>3. \A f \in Engines : Past(copy'[f])
    BY <2>1, <2>2
  <2>. QED
    BY <1>4, <2>2, <2>3 DEF RecordOpen
<1>5. ASSUME NEW e \in Engines, SaveOpen(e)
     PROVE  PastInv'
  <2>1. \A f \in Engines : Past(copy'[f])
    BY <1>5 DEF SaveOpen, CopyOf
  <2>2. file' = file \/ file' = copy[e]
    BY <1>5 DEF SaveOpen, Saves, SaveFails
  <2>. QED
    BY <1>5, <2>1, <2>2 DEF SaveOpen
<1>6. ASSUME NEW e \in Engines, Trip(e)
     PROVE  PastInv'
  <2>1. shared' = [shared EXCEPT !.kill = TRUE] /\ copy' = [copy EXCEPT ![e] = shared']
    BY <1>6 DEF Trip, CopyOf
  <2>2. Past(shared')
    BY <2>1
  <2>3. \A f \in Engines : Past(copy'[f])
    BY <2>1, <2>2
  <2>. QED
    BY <1>6, <2>2, <2>3 DEF Trip
<1>7. ASSUME NEW e \in Engines, ReconcilerTrip(e)
     PROVE  PastInv'
  <2>. DEFINE m == [own[e] EXCEPT !.kill = TRUE]
  <2>1. Past(m)
    OBVIOUS
  <2>2. own' = [own EXCEPT ![e] = m] /\ copy' = [copy EXCEPT ![e] = m]
    BY <1>7 DEF ReconcilerTrip, CopyOf
  <2>3. \A f \in Engines : Past(own'[f]) /\ Past(copy'[f])
    BY <2>1, <2>2
  <2>. QED
    BY <1>7, <2>3 DEF ReconcilerTrip
<1>8. ASSUME NEW e \in Engines, SaveKill(e)
     PROVE  PastInv'
  <2>1. \A f \in Engines : Past(copy'[f])
    BY <1>8 DEF SaveKill, CopyOf
  <2>2. file' = file \/ file' = copy[e]
    BY <1>8 DEF SaveKill, Saves, SaveFails
  <2>. QED
    BY <1>8, <2>1, <2>2 DEF SaveKill
<1>9. ASSUME NEW e \in Engines, Close(e)
     PROVE  PastInv'
  <2>1. closing'.copy = Fresh
    BY <1>9 DEF Close, NoClosing
  <2>. QED
    BY <1>9, <2>1 DEF Close
<1>10. CASE RecordClose
  <2>1. shared' = AfterClose(Rolled(shared), closing.pnl) /\ closing'.copy = shared'
    BY <1>10 DEF RecordClose, AfterClose, TypeOK, ManagerType, Closings
  <2>2. Past(shared')
    BY <2>1
  <2>. QED
    BY <1>10, <2>1, <2>2 DEF RecordClose
<1>11. CASE SaveClose
  <2>1. closing'.copy = Fresh
    <3>1. closing \in Closings
      BY DEF TypeOK, ManagerType
    <3>2. CASE closing' = NoClosing
      BY <3>2 DEF NoClosing
    <3>3. CASE closing' = [closing EXCEPT !.stage = "check", !.copy = Fresh]
      BY <3>1, <3>3 DEF Closings
    <3>. QED
      BY <1>11, <3>2, <3>3 DEF SaveClose
  <2>2. file' = file \/ file' = closing.copy
    BY <1>11 DEF SaveClose, Saves, SaveFails
  <2>. QED
    BY <1>11, <2>1, <2>2 DEF SaveClose
<1>12. CASE CheckDailyLoss
  <2>1. shared' = shared \/ shared' = [shared EXCEPT !.kill = TRUE]
    BY <1>12 DEF CheckDailyLoss
  <2>2. Past(shared')
    BY <2>1
  <2>3. closing'.copy = Fresh \/ closing'.copy = shared'
    <3>1. closing \in Closings
      BY DEF TypeOK, ManagerType
    <3>2. CASE closing' = NoClosing
      BY <3>2 DEF NoClosing
    <3>3. CASE closing' = [closing EXCEPT !.stage = "killsave", !.copy = shared']
      BY <3>1, <3>3 DEF Closings
    <3>. QED
      BY <1>12, <3>2, <3>3 DEF CheckDailyLoss
  <2>. QED
    BY <1>12, <2>2, <2>3 DEF CheckDailyLoss
<1>13. CASE SaveHalt
  <2>1. closing'.copy = Fresh
    BY <1>13 DEF SaveHalt, NoClosing
  <2>2. file' = file \/ file' = closing.copy
    BY <1>13 DEF SaveHalt, Saves, SaveFails
  <2>. QED
    BY <1>13, <2>1, <2>2 DEF SaveHalt
<1>14. CASE Midnight
  <2>1. day' = day + 1 /\ UNCHANGED <<shared, own, file, copy, closing>>
    BY <1>14 DEF Midnight
  <2>2. ASSUME NEW m \in Managers, Past(m)
        PROVE  m.day <= day + 1
    BY <2>2 DEF Past, TypeOK, ProcessType, Managers
  <2>. QED
    BY <2>1, <2>2 DEF PastInv, Past
<1>15. CASE Crash
  BY <1>15 DEF Crash, NoClosing
<1>16. CASE Restart
  BY <1>16 DEF Restart
<1>17. CASE ClearRisk
  <2>1. file' = [file EXCEPT !.kill = FALSE, !.losses = 0]
    BY <1>17 DEF ClearRisk
  <2>2. Past(file')
    BY <2>1 DEF Past, Managers
  <2>. QED
    BY <1>17, <2>2 DEF ClearRisk
<1>18. CASE UNCHANGED vars
  BY <1>18 DEF vars
<1>. QED
  BY <1>1, <1>2, <1>3, <1>4, <1>5, <1>6, <1>7, <1>8, <1>9, <1>10, <1>11, <1>12, <1>13, <1>14, <1>15, <1>16, <1>17, <1>18 DEF Next, Engine, Handler

(* A close the handler has recorded, or none: an unchanged account.        *)
LEMMA AccountKept ==
  ASSUME AccountInv, UNCHANGED <<up, balance, dayStart, clean, closing>>,
         PnlToday' = PnlToday, shared.kill => shared'.kill
  PROVE  AccountInv'
  BY DEF AccountInv, Unrecorded, LossHit

LEMMA AccountUntouched ==
  ASSUME AccountInv, UNCHANGED <<up, day, balance, dayStart, clean, closing, shared>>
  PROVE  AccountInv'
  BY DEF AccountInv, Unrecorded, LossHit, PnlToday

LEMMA AccountStep ==
  ASSUME WalletPublishes, TypeOK, PastInv, AccountInv, [Next]_vars
  PROVE  AccountInv'
<1>. USE DEF account, bounds, history
<1>1. ASSUME NEW e \in Engines, Gate(e)
     PROVE  AccountInv'
  <2>1. shared' = Rolled(shared) /\ UNCHANGED <<up, day, balance, dayStart, clean, closing>>
    BY <1>1 DEF Gate
  <2>. QED
    BY <2>1, RolledToday, AccountKept
<1>2. ASSUME NEW e \in Engines, SavePeak(e)
     PROVE  AccountInv'
  BY <1>2, AccountUntouched DEF SavePeak
<1>3. ASSUME NEW e \in Engines, Enter(e)
     PROVE  AccountInv'
  BY <1>3, AccountUntouched DEF Enter
<1>4. ASSUME NEW e \in Engines, RecordOpen(e)
     PROVE  AccountInv'
  <2>1. /\ shared' = [Rolled(shared) EXCEPT !.count = @ + 1]
        /\ UNCHANGED <<up, day, balance, dayStart, clean, closing>>
    BY <1>4 DEF RecordOpen
  <2>2. /\ Rolled(shared) \in Managers /\ Rolled(shared).day = day
        /\ Rolled(shared).kill = shared.kill /\ Rolled(shared).pnl = PnlToday
    BY RolledTyped DEF TypeOK, ManagerType, ProcessType, PnlToday
  <2>3. shared'.day = day /\ shared'.pnl = PnlToday /\ shared'.kill = shared.kill
    BY <2>1, <2>2, CountedTyped
  <2>4. PnlToday' = PnlToday
    BY <2>1, <2>3 DEF PnlToday
  <2>. QED
    BY <2>1, <2>3, <2>4, AccountKept
<1>5. ASSUME NEW e \in Engines, SaveOpen(e)
     PROVE  AccountInv'
  BY <1>5, AccountUntouched DEF SaveOpen
<1>6. ASSUME NEW e \in Engines, Trip(e)
     PROVE  AccountInv'
  <2>1. /\ shared' = [shared EXCEPT !.kill = TRUE]
        /\ UNCHANGED <<up, day, balance, dayStart, clean, closing>>
    BY <1>6 DEF Trip
  <2>2. PnlToday' = PnlToday /\ shared'.kill
    BY <2>1, KilledTyped DEF PnlToday, TypeOK, ManagerType
  <2>. QED
    BY <2>1, <2>2, AccountKept
<1>7. ASSUME NEW e \in Engines, ReconcilerTrip(e)
     PROVE  AccountInv'
  BY <1>7, AccountUntouched DEF ReconcilerTrip
<1>8. ASSUME NEW e \in Engines, SaveKill(e)
     PROVE  AccountInv'
  BY <1>8, AccountUntouched DEF SaveKill
<1>9. ASSUME NEW e \in Engines, Close(e)
     PROVE  AccountInv'
  <2>1. PICK r \in Results :
          /\ balance' = balance + r
          /\ closing' = [stage |-> "booked", pnl |-> r, bal |-> balance', copy |-> Fresh]
    BY <1>9 DEF Close
  <2>2. UNCHANGED <<up, day, dayStart, clean, shared>> /\ closing.stage = "idle"
    BY <1>9 DEF Close
  <2>3. r \in Int /\ balance \in Int /\ dayStart \in Int /\ PnlToday \in Int
    BY Bounds DEF TypeOK, ProcessType, HistoryType, ManagerType, Managers, PnlToday
  <2>4. PnlToday' = PnlToday
    BY <2>2 DEF PnlToday
  <2>. QED
    BY <2>1, <2>2, <2>3, <2>4 DEF AccountInv, Unrecorded
<1>10. CASE RecordClose
  <2>1. /\ shared' = AfterClose(Rolled(shared), closing.pnl) /\ closing.pnl \in Int
        /\ UNCHANGED <<up, day, balance, dayStart, clean>>
        /\ closing.stage = "booked" /\ closing'.stage = "save" /\ closing'.bal = closing.bal
    BY <1>10 DEF RecordClose, AfterClose, TypeOK, ManagerType, Closings
  <2>2. /\ Rolled(shared) \in Managers /\ Rolled(shared).day = day
        /\ Rolled(shared).pnl = PnlToday
    BY RolledTyped DEF TypeOK, ManagerType, ProcessType, PnlToday
  <2>3. PnlToday' = PnlToday + closing.pnl
    BY <2>1, <2>2, AfterCloseTyped DEF PnlToday
  <2>4. Unrecorded = closing.pnl /\ Unrecorded' = 0
    BY <2>1 DEF Unrecorded
  <2>5. PnlToday \in Int
    BY DEF TypeOK, ManagerType, Managers, PnlToday
  <2>. QED
    BY <2>1, <2>3, <2>4, <2>5 DEF AccountInv
<1>11. CASE SaveClose
  <2>1. UNCHANGED <<up, day, balance, dayStart, shared>> /\ closing.stage = "save"
    BY <1>11 DEF SaveClose
  <2>2. PnlToday' = PnlToday /\ Unrecorded = 0
    BY <2>1 DEF PnlToday, Unrecorded
  <2>3. CASE clean' = FALSE /\ closing' = NoClosing
    BY <2>1, <2>3 DEF AccountInv, NoClosing
  <2>4. CASE clean' = clean /\ closing' = [closing EXCEPT !.stage = "check", !.copy = Fresh]
    <3>1. closing'.stage = "check" /\ closing'.bal = closing.bal
      BY <2>4 DEF TypeOK, ManagerType, Closings
    <3>2. Unrecorded' = 0
      BY <3>1 DEF Unrecorded
    <3>. QED
      BY <2>1, <2>2, <2>4, <3>1, <3>2 DEF AccountInv
  <2>. QED
    BY <1>11, <2>3, <2>4 DEF SaveClose
<1>12. CASE CheckDailyLoss
  <2>. DEFINE opening == closing.bal - shared.pnl
              hit == opening # 0 /\ shared.pnl * LossDivisor <= -opening
  <2>1. UNCHANGED <<up, day, balance, dayStart, clean>> /\ closing.stage = "check"
    BY <1>12 DEF CheckDailyLoss
  <2>2. /\ shared.pnl \in Int /\ balance \in Int /\ dayStart \in Int /\ PnlToday \in Int
        /\ closing.bal = balance
    BY <2>1 DEF TypeOK, ProcessType, HistoryType, ManagerType, Managers, PnlToday, AccountInv
  <2>3. /\ closing'.stage \in {"idle", "killsave"}
        /\ closing'.stage # "idle" => closing'.bal = balance
    <3>1. closing \in Closings
      BY DEF TypeOK, ManagerType
    <3>2. CASE closing' = NoClosing
      BY <3>2 DEF NoClosing
    <3>3. CASE closing' = [closing EXCEPT !.stage = "killsave", !.copy = shared']
      BY <2>2, <3>1, <3>3 DEF Closings
    <3>. QED
      BY <1>12, <3>2, <3>3 DEF CheckDailyLoss
  <2>4. Unrecorded = 0 /\ Unrecorded' = 0
    BY <2>1, <2>3 DEF Unrecorded
  <2>5. PnlToday' = PnlToday /\ (hit => shared'.kill)
    BY <1>12, <2>1, KilledTyped DEF CheckDailyLoss, PnlToday, TypeOK, ManagerType
  <2>6. ASSUME up, clean, LossHit
        PROVE  hit
    <3>1. balance - dayStart = PnlToday
      BY <2>2, <2>4, <2>6 DEF AccountInv
    <3>2. CASE shared.day = day
      <4>1. PnlToday = shared.pnl
        BY <3>2 DEF PnlToday
      <4>2. opening = dayStart
        BY <2>2, <3>1, <4>1
      <4>. QED
        BY <2>2, <2>6, <4>1, <4>2 DEF LossHit
    <3>3. CASE shared.day # day
      <4>1. PnlToday = 0
        BY <3>3 DEF PnlToday
      <4>2. 0 * LossDivisor = 0
        BY Bounds
      <4>. QED
        BY <2>2, <2>6, <4>1, <4>2 DEF LossHit
    <3>. QED
      BY <3>2, <3>3
  <2>7. LossHit' = LossHit
    BY <2>1, <2>5 DEF LossHit
  <2>. HIDE DEF opening, hit
  <2>. QED
    BY <2>1, <2>2, <2>3, <2>4, <2>5, <2>6, <2>7 DEF AccountInv
<1>13. CASE SaveHalt
  <2>1. UNCHANGED <<up, day, balance, dayStart, clean, shared>>
        /\ closing.stage = "killsave" /\ closing'.stage = "idle"
    BY <1>13 DEF SaveHalt, NoClosing
  <2>. QED
    BY <2>1 DEF AccountInv, Unrecorded, LossHit, PnlToday
<1>14. CASE Midnight
  <2>1. /\ UNCHANGED <<up, balance, shared, closing>> /\ day' = day + 1
        /\ dayStart' = IF closing.stage = "booked" THEN balance - closing.pnl ELSE balance
    BY <1>14 DEF Midnight
  <2>2. PnlToday' = 0
    BY <2>1 DEF PastInv, Past, TypeOK, ProcessType, ManagerType, Managers, PnlToday
  <2>3. /\ balance \in Int /\ closing.pnl \in Int
        /\ Unrecorded' = Unrecorded /\ dayStart' = balance - Unrecorded
    BY <2>1 DEF TypeOK, ProcessType, ManagerType, Closings, Unrecorded
  <2>4. Unrecorded \in Int
    BY <2>3 DEF Unrecorded
  <2>5. dayStart' \in Int
    BY <2>3, <2>4
  <2>6. ~LossHit'
    <3>1. 0 * LossDivisor = 0
      BY Bounds
    <3>. QED
      BY <2>2, <2>5, <3>1 DEF LossHit
  <2>. QED
    BY <2>1, <2>2, <2>3, <2>4, <2>6 DEF AccountInv
<1>15. CASE Crash
  BY <1>15 DEF Crash, NoClosing, AccountInv
<1>16. CASE Restart
  BY <1>16 DEF Restart, AccountInv
<1>17. CASE ClearRisk
  BY <1>17, AccountUntouched DEF ClearRisk
<1>18. CASE UNCHANGED vars
  BY <1>18, AccountUntouched DEF vars
<1>. QED
  BY <1>1, <1>2, <1>3, <1>4, <1>5, <1>6, <1>7, <1>8, <1>9, <1>10, <1>11, <1>12, <1>13, <1>14, <1>15, <1>16, <1>17, <1>18 DEF Next, Engine, Handler

LEMMA AccountInit == Init => PastInv /\ AccountInv
<1>. SUFFICES ASSUME Init PROVE PastInv /\ AccountInv
  OBVIOUS
<1>1. PastInv
  BY Bounds DEF Init, PastInv, Past, Fresh, NoClosing
<1>2. PnlToday = 0 /\ Unrecorded = 0
  BY DEF Init, PnlToday, Unrecorded, Fresh, NoClosing
<1>3. ~LossHit
  <2>1. 0 * LossDivisor = 0
    BY Bounds
  <2>. QED
    BY <1>2, <2>1, Bounds DEF Init, LossHit
<1>4. AccountInv
  BY <1>2, <1>3, Bounds DEF Init, AccountInv, NoClosing
<1>. QED
  BY <1>1, <1>4

(* With a wallet that announces its closes, a day's loss at the limit has  *)
(* turned the shared switch on by the time no close is being recorded,     *)
(* wherever midnight fell.                                                 *)
THEOREM DailyLossSafe ==
  ASSUME WalletPublishes
  PROVE  Spec => []DailyLossHalts
<1>1. TypeOK /\ AccountInv => DailyLossHalts
  BY DEF TypeOK, ProcessType, HistoryType, ManagerType, Managers,
         AccountInv, Unrecorded, LossHit, PnlToday, DailyLossHalts
<1>2. TypeOK /\ PastInv /\ AccountInv /\ [Next]_vars => PastInv' /\ AccountInv'
  BY PastStep, AccountStep
<1>. QED
  BY <1>1, <1>2, TypedInit, TypedStep, AccountInit, PTL DEF Spec

=============================================================================
