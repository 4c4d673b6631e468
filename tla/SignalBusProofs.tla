--------------------------- MODULE SignalBusProofs ---------------------------
(***************************************************************************)
(* Safety of the signal bus for any number of messages, workers, crashes   *)
(* and failed XPENDING reads.                                              *)
(***************************************************************************)
EXTENDS SignalBus, TLAPS

-----------------------------------------------------------------------------
(* What the steps of a worker have in common.                              *)

(* Moving a worker to another stage keeps the loop's types as long as a    *)
(* stage of the handler chain is entered with a message at hand.           *)
LEMMA GotoType ==
  ASSUME LoopType, NEW w \in Workers, NEW s \in Stages, Goto(w, s),
         s \in Handling => cur[w] \in Msgs,
         UNCHANGED <<from, todo, cur, held>>
  PROVE  LoopType'
BY DEF LoopType, Goto, Stages, Handling

LEMMA BumpType ==
  ASSUME NEW f \in [Msgs -> Nat], NEW m \in Msgs
  PROVE  /\ Bump(f, m) \in [Msgs -> Nat]
         /\ Bump(f, m)[m] = f[m] + 1
         /\ \A k \in Msgs \ {m} : Bump(f, m)[k] = f[k]
BY DEF Bump

-----------------------------------------------------------------------------

(* Every variable keeps its type, and a worker with a message in its       *)
(* handler chain names one of the stream.                                  *)
THEOREM TypeCorrect == Spec => []TypeOK
<1>1. Init => TypeOK
  BY BusConstants DEF Init, TypeOK, StreamType, LoopType, HistoryType, Msgs, Kinds,
     Stages, Handling
<1>2. TypeOK /\ [Next]_vars => TypeOK'
  <2> SUFFICES ASSUME StreamType, LoopType, HistoryType, [Next]_vars
               PROVE  StreamType' /\ LoopType' /\ HistoryType'
    BY DEF TypeOK
  <2> USE DEF stream, history, loop
  <2>1. ASSUME NEW k \in Kinds, Publish(k)
        PROVE  StreamType' /\ LoopType' /\ HistoryType'
    <3>1. StreamType'
      BY <2>1, BusConstants DEF Publish, StreamType, Msgs
    <3>2. LoopType' /\ HistoryType'
      BY <2>1 DEF Publish, LoopType, HistoryType
    <3>3. QED
      BY <3>1, <3>2
  <2>2. ASSUME NEW m \in Msgs, ExpireMarker(m)
        PROVE  StreamType' /\ LoopType' /\ HistoryType'
    BY <2>2 DEF ExpireMarker, StreamType, LoopType, HistoryType
  <2>3. ASSUME NEW w \in Workers, ReadPending(w)
        PROVE  StreamType' /\ LoopType' /\ HistoryType'
    <3> DEFINE batch == FirstOf(PendingOf(w), PendingCount)
    <3>1. batch \subseteq Msgs
      BY DEF FirstOf, PendingOf
    <3>2. StreamType'
      BY <2>3, <3>1 DEF ReadPending, StreamType
    <3>3. LoopType'
      BY <2>3, <3>1 DEF ReadPending, LoopType, Stages, Handling
    <3>4. HistoryType'
      BY <2>3 DEF ReadPending, HistoryType
    <3>5. QED
      BY <3>2, <3>3, <3>4
  <2>4. ASSUME NEW w \in Workers, ReadNew(w)
        PROVE  StreamType' /\ LoopType' /\ HistoryType'
    <3>1. StreamType'
      BY <2>4, BusConstants DEF ReadNew, StreamType
    <3>2. LoopType'
      BY <2>4 DEF ReadNew, LoopType, Stages, Handling
    <3>3. HistoryType'
      BY <2>4 DEF ReadNew, HistoryType
    <3>4. QED
      BY <3>1, <3>2, <3>3
  <2>5. ASSUME NEW w \in Workers, TakeNext(w)
        PROVE  StreamType' /\ LoopType' /\ HistoryType'
    <3>1. LoopType'
      BY <2>5 DEF TakeNext, LoopType, Stages, Handling
    <3>2. QED
      BY <2>5, <3>1 DEF TakeNext, StreamType, HistoryType
  <2>6. ASSUME NEW w \in Workers, EndOfBatch(w)
        PROVE  StreamType' /\ LoopType' /\ HistoryType'
    <3>1. LoopType'
      BY <2>6 DEF EndOfBatch, LoopType, Stages, Handling
    <3>2. QED
      BY <2>6, <3>1 DEF EndOfBatch, StreamType, HistoryType
  <2>7. ASSUME NEW w \in Workers, CheckDeliveries(w)
        PROVE  StreamType' /\ LoopType' /\ HistoryType'
    <3>1. cur[w] \in Msgs
      BY <2>7 DEF CheckDeliveries, LoopType, Handling
    <3>2. LoopType'
      BY <2>7, <3>1, GotoType DEF CheckDeliveries, Screen, Stages
    <3>3. HistoryType'
      BY <2>7, <3>1, BusConstants DEF CheckDeliveries, HistoryType
    <3>4. QED
      BY <2>7, <3>2, <3>3 DEF CheckDeliveries, StreamType
  <2>8. ASSUME NEW w \in Workers, DeadLetter(w)
        PROVE  StreamType' /\ LoopType' /\ HistoryType'
    <3>1. cur[w] \in Msgs
      BY <2>8 DEF DeadLetter, LoopType, Handling
    <3>2. LoopType'
      BY <2>8, <3>1, GotoType DEF DeadLetter, Stages
    <3>3. QED
      BY <2>8, <3>1, <3>2 DEF DeadLetter, StreamType, HistoryType
  <2>9. ASSUME NEW w \in Workers, CheckDuplicate(w)
        PROVE  StreamType' /\ LoopType' /\ HistoryType'
    <3>1. cur[w] \in Msgs
      BY <2>9 DEF CheckDuplicate, LoopType, Handling
    <3>2. LoopType'
      BY <2>9, <3>1, GotoType DEF CheckDuplicate, Stages
    <3>3. QED
      BY <2>9, <3>2 DEF CheckDuplicate, StreamType, HistoryType
  <2>10. ASSUME NEW w \in Workers, RiskGate(w)
         PROVE  StreamType' /\ LoopType' /\ HistoryType'
    <3>1. cur[w] \in Msgs
      BY <2>10 DEF RiskGate, LoopType, Handling
    <3>2. LoopType'
      BY <2>10, <3>1, GotoType DEF RiskGate, Stages
    <3>3. QED
      BY <2>10, <3>1, <3>2 DEF RiskGate, StreamType, HistoryType
  <2>11. ASSUME NEW w \in Workers, Execute(w)
         PROVE  StreamType' /\ LoopType' /\ HistoryType'
    <3> USE DEF ExecuteOpens, ExecuteDrops, ExecuteNoop, ExecuteFails, ExecuteUnconfirmed
    <3>1. cur[w] \in Msgs
      BY <2>11 DEF Execute, LoopType, Handling
    <3>2. Position(w) \in Workers \X Symbols
      BY <3>1, BusConstants DEF Position
    <3>3. LoopType'
      BY <2>11, <3>1, <3>2 DEF Execute, LoopType, Goto, Stages, Handling
    <3>4. HistoryType'
      <4>1. attempts' = Bump(attempts, cur[w]) /\ UNCHANGED <<vetoed, opens, crashes, misreads>>
        BY <2>11 DEF Execute
      <4>2. completed' \in {completed, Bump(completed, cur[w])}
        BY <2>11 DEF Execute
      <4>3. fills' \in {fills, Bump(fills, cur[w])}
        BY <2>11 DEF Execute
      <4>4. unconfirmed' \in {unconfirmed, Bump(unconfirmed, cur[w])}
        BY <2>11 DEF Execute
      <4>5. QED
        BY <3>1, <4>1, <4>2, <4>3, <4>4, BumpType DEF HistoryType
    <3>5. QED
      BY <2>11, <3>3, <3>4 DEF Execute, StreamType
  <2>12. ASSUME NEW w \in Workers, RecordOpen(w)
         PROVE  StreamType' /\ LoopType' /\ HistoryType'
    <3>1. cur[w] \in Msgs
      BY <2>12 DEF RecordOpen, LoopType, Handling
    <3>2. LoopType'
      BY <2>12, <3>1, GotoType DEF RecordOpen, Stages
    <3>3. QED
      BY <2>12, <3>1, <3>2, BumpType DEF RecordOpen, StreamType, HistoryType
  <2>13. ASSUME NEW w \in Workers, MarkProcessed(w)
         PROVE  StreamType' /\ LoopType' /\ HistoryType'
    <3>1. cur[w] \in Msgs
      BY <2>13 DEF MarkProcessed, LoopType, Handling
    <3>2. LoopType'
      BY <2>13, <3>1, GotoType DEF MarkProcessed, Stages
    <3>3. QED
      BY <2>13, <3>1, <3>2 DEF MarkProcessed, StreamType, HistoryType
  <2>14. ASSUME NEW w \in Workers, Ack(w)
         PROVE  StreamType' /\ LoopType' /\ HistoryType'
    <3>1. cur[w] \in Msgs
      BY <2>14 DEF Ack, LoopType, Handling
    <3>2. LoopType'
      BY <2>14, <3>1, GotoType DEF Ack, Stages
    <3>3. QED
      BY <2>14, <3>1, <3>2 DEF Ack, StreamType, HistoryType
  <2>15. ASSUME NEW w \in Workers, Crash(w)
         PROVE  StreamType' /\ LoopType' /\ HistoryType'
    <3>1. LoopType'
      BY <2>15 DEF Crash, LoopType, Goto, Stages, Handling
    <3>2. HistoryType'
      BY <2>15, BusConstants DEF Crash, HistoryType
    <3>3. QED
      BY <2>15, <3>1, <3>2 DEF Crash, StreamType
  <2>16. ASSUME NEW w \in Workers, Restart(w)
         PROVE  StreamType' /\ LoopType' /\ HistoryType'
    <3>1. LoopType'
      BY <2>16, GotoType DEF Restart, Stages, Handling
    <3>2. QED
      BY <2>16, <3>1 DEF Restart, StreamType, HistoryType
  <2>17. ASSUME NEW w \in Workers, NEW s \in Symbols, ClosePosition(w, s)
         PROVE  StreamType' /\ LoopType' /\ HistoryType'
    BY <2>17 DEF ClosePosition, StreamType, LoopType, HistoryType
  <2>18. CASE UNCHANGED vars
    BY <2>18 DEF vars, StreamType, LoopType, HistoryType
  <2>19. QED
    BY <2>1, <2>2, <2>3, <2>4, <2>5, <2>6, <2>7, <2>8, <2>9, <2>10, <2>11,
       <2>12, <2>13, <2>14, <2>15, <2>16, <2>17, <2>18 DEF Next, WorkerStep
<1>3. QED
  BY <1>1, <1>2, PTL DEF Spec

-----------------------------------------------------------------------------

(* Keys, workers past the adapter and workers about to ack all vouch for   *)
(* an outcome on record.                                                   *)
LEMMA OutcomeSafe == Spec => []OutcomeInv
<1>1. Init => OutcomeInv
  BY DEF Init, OutcomeInv, NothingLost
<1>2. TypeOK /\ OutcomeInv /\ [Next]_vars => OutcomeInv'
  <2> SUFFICES ASSUME StreamType, LoopType, HistoryType, OutcomeInv, [Next]_vars
               PROVE  OutcomeInv'
    BY DEF TypeOK
  <2> USE DEF stream, history, loop, OutcomeInv, NothingLost, Outcome, Goto
  <2>1. ASSUME NEW k \in Kinds, Publish(k) PROVE OutcomeInv'
    BY <2>1 DEF Publish
  <2>2. ASSUME NEW m \in Msgs, ExpireMarker(m) PROVE OutcomeInv'
    BY <2>2 DEF ExpireMarker
  <2>3. ASSUME NEW w \in Workers, ReadPending(w) PROVE OutcomeInv'
    BY <2>3 DEF ReadPending, LoopType
  <2>4. ASSUME NEW w \in Workers, ReadNew(w) PROVE OutcomeInv'
    BY <2>4 DEF ReadNew, LoopType
  <2>5. ASSUME NEW w \in Workers, TakeNext(w) PROVE OutcomeInv'
    BY <2>5 DEF TakeNext, LoopType
  <2>6. ASSUME NEW w \in Workers, EndOfBatch(w) PROVE OutcomeInv'
    BY <2>6 DEF EndOfBatch, LoopType
  <2>7. ASSUME NEW w \in Workers, CheckDeliveries(w) PROVE OutcomeInv'
    BY <2>7 DEF CheckDeliveries, Screen, LoopType
  <2>8. ASSUME NEW w \in Workers, DeadLetter(w) PROVE OutcomeInv'
    BY <2>8 DEF DeadLetter, LoopType
  <2>9. ASSUME NEW w \in Workers, CheckDuplicate(w) PROVE OutcomeInv'
    BY <2>9 DEF CheckDuplicate, LoopType
  <2>10. ASSUME NEW w \in Workers, RiskGate(w) PROVE OutcomeInv'
    BY <2>10 DEF RiskGate, LoopType
  <2>11. ASSUME NEW w \in Workers, Execute(w) PROVE OutcomeInv'
    <3>1. cur[w] \in Msgs
      BY <2>11 DEF Execute, LoopType, Handling
    <3>2. \/ /\ completed' = Bump(completed, cur[w])
             /\ stage' = [stage EXCEPT ![w] = "record"]
          \/ /\ completed' = completed
             /\ stage' = [stage EXCEPT ![w] = "next"]
      BY <2>11 DEF Execute, ExecuteOpens, ExecuteDrops, ExecuteNoop, ExecuteFails,
                   ExecuteUnconfirmed
    <3>3. /\ \A m \in Msgs : completed[m] > 0 => completed'[m] > 0
          /\ stage'[w] = "record" => completed'[cur[w]] > 0
      <4>1. completed \in [Msgs -> Nat]
        BY DEF HistoryType
      <4>2. /\ Bump(completed, cur[w])[cur[w]] = completed[cur[w]] + 1
            /\ \A k \in Msgs \ {cur[w]} : Bump(completed, cur[w])[k] = completed[k]
        BY <3>1, <4>1, BumpType
      <4>3. QED
        BY <3>1, <3>2, <4>1, <4>2 DEF LoopType
    <3>4. UNCHANGED <<acked, marker, dead, cur, vetoed>>
      BY <2>11 DEF Execute
    <3>5. \A v \in Workers : /\ v # w => stage'[v] = stage[v]
                             /\ stage'[w] \notin {"mark", "ack"}
      BY <3>2 DEF LoopType
    <3>6. \A v \in Workers : stage[v] \in {"record", "mark", "ack"} => cur[v] \in Msgs
      BY DEF LoopType, Handling
    <3>7. QED
      BY <3>1, <3>3, <3>4, <3>5, <3>6 DEF StreamType
  <2>12. ASSUME NEW w \in Workers, RecordOpen(w) PROVE OutcomeInv'
    BY <2>12 DEF RecordOpen, LoopType
  <2>13. ASSUME NEW w \in Workers, MarkProcessed(w) PROVE OutcomeInv'
    BY <2>13 DEF MarkProcessed, LoopType
  <2>14. ASSUME NEW w \in Workers, Ack(w) PROVE OutcomeInv'
    BY <2>14 DEF Ack, LoopType
  <2>15. ASSUME NEW w \in Workers, Crash(w) PROVE OutcomeInv'
    BY <2>15 DEF Crash, LoopType
  <2>16. ASSUME NEW w \in Workers, Restart(w) PROVE OutcomeInv'
    BY <2>16 DEF Restart, LoopType
  <2>17. ASSUME NEW w \in Workers, NEW s \in Symbols, ClosePosition(w, s)
         PROVE  OutcomeInv'
    BY <2>17 DEF ClosePosition
  <2>18. CASE UNCHANGED vars
    BY <2>18 DEF vars
  <2>19. QED
    BY <2>1, <2>2, <2>3, <2>4, <2>5, <2>6, <2>7, <2>8, <2>9, <2>10, <2>11,
       <2>12, <2>13, <2>14, <2>15, <2>16, <2>17, <2>18 DEF Next, WorkerStep
<1>3. QED
  BY <1>1, <1>2, TypeCorrect, PTL DEF Spec

(* Nothing is acked without an outcome on record, for any number of        *)
(* workers, whatever consumer names they use.                              *)
THEOREM NothingLostSafe == Spec => []NothingLost
<1>1. OutcomeInv => NothingLost
  BY DEF OutcomeInv
<1>2. QED
  BY <1>1, OutcomeSafe, PTL

-----------------------------------------------------------------------------

(* With a consumer name per worker, what a worker has read and not         *)
(* finished stays in the PEL under its name until it acks it itself.       *)
LEMMA Ownership == ASSUME OwnConsumerNames PROVE Spec => []OwnershipInv
<1>1. Init => OwnershipInv
  BY BusConstants DEF Init, OwnershipInv, Handling
<1>2. TypeOK /\ OwnershipInv /\ [Next]_vars => OwnershipInv'
  <2> SUFFICES ASSUME StreamType, LoopType, HistoryType, OwnershipInv, [Next]_vars
               PROVE  OwnershipInv'
    BY DEF TypeOK
  <2> USE OwnConsumerNames DEF stream, history, loop, Goto, Handling, OwnConsumerNames
  <2>1. ASSUME NEW k \in Kinds, Publish(k) PROVE OwnershipInv'
    BY <2>1 DEF Publish, OwnershipInv
  <2>2. ASSUME NEW m \in Msgs, ExpireMarker(m) PROVE OwnershipInv'
    BY <2>2 DEF ExpireMarker, OwnershipInv
  <2>3. ASSUME NEW w \in Workers, ReadPending(w) PROVE OwnershipInv'
    <3> DEFINE batch == FirstOf(PendingOf(w), PendingCount)
    <3>1. batch \subseteq Msgs /\ \A m \in batch : owner[m] = NameOf[w]
      BY DEF FirstOf, PendingOf
    <3>2. QED
      BY <2>3, <3>1 DEF ReadPending, LoopType, OwnershipInv
  <2>4. ASSUME NEW w \in Workers, ReadNew(w) PROVE OwnershipInv'
    <3> DEFINE batch == {m \in Msgs : cursor < m /\ m <= lastId /\ m <= cursor + NewCount}
    <3>1. \A m \in batch : owner[m] = Unowned /\ m \notin acked
      BY BusConstants DEF OwnershipInv, StreamType, Msgs
    <3>2. cursor \in Nat /\ lastId \in Nat /\ cursor' \in Nat /\ cursor <= cursor'
      BY <2>4, BusConstants DEF ReadNew, StreamType
    <3>3. \A m \in batch : m <= cursor'
      BY <2>4, <3>2, BusConstants DEF ReadNew, Msgs
    <3>4. /\ owner' = [m \in Msgs |-> IF m \in batch THEN NameOf[w] ELSE owner[m]]
          /\ todo' = [todo EXCEPT ![w] = batch]
          /\ stage' = [stage EXCEPT ![w] = "next"]
          /\ UNCHANGED <<acked, cur>>
      BY <2>4 DEF ReadNew
    <3> HIDE DEF batch
    <3>5. batch \subseteq Msgs
      BY DEF batch
    <3>6. \A v \in Workers : NameOf[v] # Unowned
      BY BusConstants
    <3>7. \A v \in Workers : \A m \in todo[v] : m \in Msgs /\ m \notin batch
      BY <3>1, <3>6 DEF OwnershipInv, LoopType
    <3>8. \A v \in Workers : stage[v] \in Handling => cur[v] \in Msgs /\ cur[v] \notin batch
      BY <3>1, <3>6 DEF OwnershipInv, LoopType
    <3>9. \A m \in Msgs : owner'[m] # Unowned => m \notin acked' /\ m <= cursor'
      BY <3>1, <3>2, <3>3, <3>4 DEF OwnershipInv, Msgs
    <3>10. \A m \in acked' : m <= cursor'
      BY <3>2, <3>4 DEF OwnershipInv, StreamType, Msgs
    <3>11. stage[w] = "new"
      BY <2>4 DEF ReadNew
    <3>12. \A v \in Workers : \A m \in todo'[v] : owner'[m] = NameOf[v]
      BY <3>4, <3>5, <3>7 DEF OwnershipInv, LoopType
    <3>13. \A v \in Workers : stage'[v] \in Handling =>
              owner'[cur'[v]] = NameOf[v] /\ cur'[v] \notin todo'[v]
      BY <3>4, <3>8 DEF OwnershipInv, LoopType
    <3>14. \A v \in Workers : stage'[v] \in {"down", "pending", "new"} => todo'[v] = {}
      BY <3>4 DEF OwnershipInv, LoopType
    <3>15. QED
      BY <3>9, <3>10, <3>12, <3>13, <3>14 DEF OwnershipInv
  <2>5. ASSUME NEW w \in Workers, TakeNext(w) PROVE OwnershipInv'
    BY <2>5 DEF TakeNext, LoopType, OwnershipInv
  <2>6. ASSUME NEW w \in Workers, EndOfBatch(w) PROVE OwnershipInv'
    BY <2>6 DEF EndOfBatch, LoopType, OwnershipInv
  <2>7. ASSUME NEW w \in Workers, CheckDeliveries(w) PROVE OwnershipInv'
    BY <2>7 DEF CheckDeliveries, Screen, LoopType, OwnershipInv
  <2>8. ASSUME NEW w \in Workers, DeadLetter(w) PROVE OwnershipInv'
    BY <2>8 DEF DeadLetter, LoopType, OwnershipInv
  <2>9. ASSUME NEW w \in Workers, CheckDuplicate(w) PROVE OwnershipInv'
    BY <2>9 DEF CheckDuplicate, LoopType, OwnershipInv
  <2>10. ASSUME NEW w \in Workers, RiskGate(w) PROVE OwnershipInv'
    BY <2>10 DEF RiskGate, LoopType, OwnershipInv
  <2>11. ASSUME NEW w \in Workers, Execute(w) PROVE OwnershipInv'
    BY <2>11 DEF Execute, ExecuteOpens, ExecuteDrops, ExecuteNoop, ExecuteFails,
                 ExecuteUnconfirmed, LoopType, OwnershipInv
  <2>12. ASSUME NEW w \in Workers, RecordOpen(w) PROVE OwnershipInv'
    BY <2>12 DEF RecordOpen, LoopType, OwnershipInv
  <2>13. ASSUME NEW w \in Workers, MarkProcessed(w) PROVE OwnershipInv'
    BY <2>13 DEF MarkProcessed, LoopType, OwnershipInv
  <2>14. ASSUME NEW w \in Workers, Ack(w) PROVE OwnershipInv'
    <3>1. cur[w] \in Msgs /\ owner[cur[w]] = NameOf[w] /\ cur[w] \notin todo[w]
      BY <2>14 DEF Ack, LoopType, OwnershipInv
    <3>2. cur[w] <= cursor
      BY <3>1, BusConstants DEF OwnershipInv
    <3>3. \A v \in Workers : \A m \in todo[v] : m # cur[w]
      BY <3>1 DEF OwnershipInv
    <3>4. \A v \in Workers : v # w /\ stage[v] \in Handling => cur[v] # cur[w]
      BY <3>1 DEF OwnershipInv
    <3>5. QED
      BY <2>14, <3>1, <3>2, <3>3, <3>4 DEF Ack, LoopType, StreamType, OwnershipInv
  <2>15. ASSUME NEW w \in Workers, Crash(w) PROVE OwnershipInv'
    BY <2>15 DEF Crash, LoopType, OwnershipInv
  <2>16. ASSUME NEW w \in Workers, Restart(w) PROVE OwnershipInv'
    BY <2>16 DEF Restart, LoopType, OwnershipInv
  <2>17. ASSUME NEW w \in Workers, NEW s \in Symbols, ClosePosition(w, s)
         PROVE  OwnershipInv'
    BY <2>17 DEF ClosePosition, OwnershipInv
  <2>18. CASE UNCHANGED vars
    BY <2>18 DEF vars, OwnershipInv
  <2>19. QED
    BY <2>1, <2>2, <2>3, <2>4, <2>5, <2>6, <2>7, <2>8, <2>9, <2>10, <2>11,
       <2>12, <2>13, <2>14, <2>15, <2>16, <2>17, <2>18 DEF Next, WorkerStep
<1>3. QED
  BY <1>1, <1>2, TypeCorrect, PTL DEF Spec

-----------------------------------------------------------------------------

(* With a consumer name per worker, the adapter runs a message at most     *)
(* signal_max_deliveries times, plus one per XPENDING that failed.         *)
THEOREM AttemptsSafe == ASSUME OwnConsumerNames PROVE Spec => []AttemptsBounded
<1>1. Init => AttemptsInv
  BY BusConstants DEF Init, AttemptsInv, AttemptsBounded, Msgs
<1>2. TypeOK /\ OwnershipInv /\ AttemptsInv /\ [Next]_vars => AttemptsInv'
  <2> SUFFICES ASSUME StreamType, LoopType, HistoryType, OwnershipInv, AttemptsInv,
                      [Next]_vars
               PROVE  AttemptsInv'
    BY DEF TypeOK
  <2> USE DEF stream, history, loop, Goto, AttemptsInv, AttemptsBounded
  <2>1. ASSUME NEW k \in Kinds, Publish(k) PROVE AttemptsInv'
    BY <2>1 DEF Publish
  <2>2. ASSUME NEW m \in Msgs, ExpireMarker(m) PROVE AttemptsInv'
    BY <2>2 DEF ExpireMarker
  <2>3. ASSUME NEW w \in Workers, ReadPending(w) PROVE AttemptsInv'
    <3> DEFINE batch == FirstOf(PendingOf(w), PendingCount)
    <3>1. batch \subseteq Msgs
      BY DEF FirstOf, PendingOf
    <3>2. /\ deliveries' = [m \in Msgs |-> IF m \in batch THEN deliveries[m] + 1
                                                          ELSE deliveries[m]]
          /\ todo' = [todo EXCEPT ![w] = batch]
          /\ stage' = [stage EXCEPT ![w] = "next"]
          /\ UNCHANGED <<attempts, misreads, cursor, cur>>
      BY <2>3 DEF ReadPending
    <3> HIDE DEF batch
    <3>3. /\ \A m \in Msgs : deliveries'[m] >= deliveries[m]
          /\ \A m \in batch : attempts[m] < deliveries'[m]
      BY <3>1, <3>2 DEF StreamType, HistoryType
    <3>4. QED
      BY <3>1, <3>2, <3>3 DEF LoopType, StreamType, HistoryType, Handling
  <2>4. ASSUME NEW w \in Workers, ReadNew(w) PROVE AttemptsInv'
    <3> DEFINE batch == {m \in Msgs : cursor < m /\ m <= lastId /\ m <= cursor + NewCount}
    <3>1. \A m \in batch : attempts[m] = 0
      BY DEF StreamType
    <3>2. cursor \in Nat /\ cursor' \in Nat /\ cursor <= cursor'
      BY <2>4, BusConstants DEF ReadNew, StreamType
    <3>3. /\ deliveries' = [m \in Msgs |-> IF m \in batch THEN 1 ELSE deliveries[m]]
          /\ todo' = [todo EXCEPT ![w] = batch]
          /\ stage' = [stage EXCEPT ![w] = "next"]
          /\ UNCHANGED <<attempts, misreads, cur>>
      BY <2>4 DEF ReadNew
    <3>4. batch \subseteq Msgs
      OBVIOUS
    <3>5. \A m \in batch : owner[m] = Unowned
      BY <3>2, BusConstants DEF OwnershipInv, StreamType, Msgs
    <3> HIDE DEF batch
    <3>6. /\ \A v \in Workers : \A m \in todo[v] : m \notin batch
          /\ \A v \in Workers : stage[v] \in Handling => cur[v] \notin batch
      BY <3>5, BusConstants DEF OwnershipInv
    <3>7. /\ \A m \in Msgs : attempts[m] <= deliveries'[m]
          /\ \A m \in batch : attempts[m] < deliveries'[m]
          /\ \A m \in Msgs \ batch : deliveries'[m] = deliveries[m]
      BY <3>1, <3>3, <3>4 DEF HistoryType, StreamType
    <3>8. \A m \in Msgs : m > cursor' => attempts'[m] = 0
      BY <3>2, <3>3 DEF Msgs
    <3>9. \A v \in Workers : \A m \in todo'[v] : attempts'[m] < deliveries'[m]
      BY <3>3, <3>6, <3>7 DEF LoopType
    <3>10. \A v \in Workers : stage'[v] \in {"check", "dup", "gate", "exec"} =>
             attempts'[cur'[v]] < deliveries'[cur'[v]]
      BY <3>3, <3>6, <3>7 DEF LoopType, Handling
    <3>11. QED
      BY <3>3, <3>7, <3>8, <3>9, <3>10 DEF LoopType
  <2>5. ASSUME NEW w \in Workers, TakeNext(w) PROVE AttemptsInv'
    BY <2>5 DEF TakeNext, LoopType
  <2>6. ASSUME NEW w \in Workers, EndOfBatch(w) PROVE AttemptsInv'
    BY <2>6 DEF EndOfBatch, LoopType
  <2>7. ASSUME NEW w \in Workers, CheckDeliveries(w) PROVE AttemptsInv'
    <3>1. /\ stage[w] = "check" /\ cur[w] \in Msgs
          /\ DeliveryCount(cur[w]) = deliveries[cur[w]]
      BY <2>7, BusConstants DEF CheckDeliveries, LoopType, Handling, OwnershipInv,
                                DeliveryCount
    <3>2. /\ UNCHANGED <<attempts, deliveries, cursor, cur, todo>>
          /\ \E s \in {"dlq", "dup"} : stage' = [stage EXCEPT ![w] = s]
      BY <2>7 DEF CheckDeliveries, Screen
    <3>3. /\ misreads' \in [Msgs -> Nat]
          /\ \A m \in Msgs : misreads'[m] >= misreads[m]
      BY <2>7, <3>1, BusConstants DEF CheckDeliveries, HistoryType
    <3>4. stage'[w] = "dup" => attempts[cur[w]] < MaxDeliveries + misreads'[cur[w]]
      <4>1. CASE Screen(w, deliveries[cur[w]]) /\ UNCHANGED misreads
        <5>1. stage'[w] = "dup" => ~(deliveries[cur[w]] > MaxDeliveries)
          BY <4>1 DEF Screen, LoopType
        <5>2. QED
          BY <5>1, <4>1, <3>1, BusConstants DEF StreamType, HistoryType
      <4>2. CASE misreads' = [misreads EXCEPT ![cur[w]] = @ + 1]
        BY <4>2, <3>1, BusConstants DEF HistoryType
      <4>3. QED
        BY <2>7, <3>1, <4>1, <4>2 DEF CheckDeliveries
    <3>5. \A v \in Workers : v # w => stage'[v] = stage[v]
      BY <3>2 DEF LoopType
    <3>6. stage'[w] \in {"dlq", "dup"}
      BY <3>2 DEF LoopType
    <3>7. \A v \in Workers : stage[v] \in Handling => cur[v] \in Msgs
      BY DEF LoopType
    <3>8. QED
      BY <3>1, <3>2, <3>3, <3>4, <3>5, <3>6, <3>7, BusConstants DEF HistoryType, Handling
  <2>8. ASSUME NEW w \in Workers, DeadLetter(w) PROVE AttemptsInv'
    BY <2>8 DEF DeadLetter, LoopType
  <2>9. ASSUME NEW w \in Workers, CheckDuplicate(w) PROVE AttemptsInv'
    BY <2>9 DEF CheckDuplicate, LoopType
  <2>10. ASSUME NEW w \in Workers, RiskGate(w) PROVE AttemptsInv'
    BY <2>10 DEF RiskGate, LoopType
  <2>11. ASSUME NEW w \in Workers, Execute(w) PROVE AttemptsInv'
    <3>1. cur[w] \in Msgs /\ stage[w] = "exec"
      BY <2>11 DEF Execute, LoopType, Handling
    <3>2. /\ attempts' = Bump(attempts, cur[w])
          /\ UNCHANGED <<misreads, deliveries, cursor, cur, todo>>
          /\ \E s \in {"record", "next"} : stage' = [stage EXCEPT ![w] = s]
      BY <2>11 DEF Execute, ExecuteOpens, ExecuteDrops, ExecuteNoop, ExecuteFails,
                   ExecuteUnconfirmed
    <3>3. attempts \in [Msgs -> Nat]
      BY DEF HistoryType
    <3>4. /\ attempts'[cur[w]] = attempts[cur[w]] + 1
          /\ \A k \in Msgs \ {cur[w]} : attempts'[k] = attempts[k]
      BY <3>1, <3>2, <3>3, BumpType
    <3>5. \A v \in Workers : v # w => stage'[v] = stage[v]
      BY <3>2 DEF LoopType
    <3>6. stage'[w] \in {"record", "next"}
      BY <3>2 DEF LoopType
    <3>7. \A v \in Workers : cur[w] \notin todo[v]
      BY <3>1, OwnConsumerNames DEF OwnershipInv, OwnConsumerNames, Handling
    <3>8. \A v \in Workers : v # w /\ stage[v] \in Handling =>
             cur[v] \in Msgs \ {cur[w]}
      BY <3>1, OwnConsumerNames DEF OwnershipInv, OwnConsumerNames, Handling, LoopType
    <3>9. owner[cur[w]] # Unowned
      BY <3>1, BusConstants DEF OwnershipInv, Handling
    <3>10. cur[w] <= cursor
      BY <3>1, <3>9 DEF OwnershipInv
    <3>11. \A m \in Msgs : m > cursor => m # cur[w]
      BY <3>10, <3>1 DEF Msgs, StreamType
    <3>12. \A m \in Msgs : m > cursor => attempts'[m] = 0
      BY <3>4, <3>11
    <3>13. attempts[cur[w]] + 1 <= deliveries[cur[w]]
      BY <3>1, <3>3 DEF StreamType
    <3>14. attempts[cur[w]] + 1 <= MaxDeliveries + misreads[cur[w]]
      BY <3>1, <3>3, BusConstants DEF HistoryType
    <3>15. \A v \in Workers : \A m \in todo[v] : m \in Msgs \ {cur[w]}
      BY <3>7 DEF LoopType
    <3>16. QED
      BY <3>2, <3>4, <3>5, <3>6, <3>8, <3>12, <3>13, <3>14, <3>15 DEF Handling
  <2>12. ASSUME NEW w \in Workers, RecordOpen(w) PROVE AttemptsInv'
    BY <2>12 DEF RecordOpen, LoopType
  <2>13. ASSUME NEW w \in Workers, MarkProcessed(w) PROVE AttemptsInv'
    BY <2>13 DEF MarkProcessed, LoopType
  <2>14. ASSUME NEW w \in Workers, Ack(w) PROVE AttemptsInv'
    BY <2>14 DEF Ack, LoopType
  <2>15. ASSUME NEW w \in Workers, Crash(w) PROVE AttemptsInv'
    BY <2>15 DEF Crash, LoopType
  <2>16. ASSUME NEW w \in Workers, Restart(w) PROVE AttemptsInv'
    BY <2>16 DEF Restart, LoopType
  <2>17. ASSUME NEW w \in Workers, NEW s \in Symbols, ClosePosition(w, s)
         PROVE  AttemptsInv'
    BY <2>17 DEF ClosePosition
  <2>18. CASE UNCHANGED vars
    BY <2>18 DEF vars
  <2>19. QED
    BY <2>1, <2>2, <2>3, <2>4, <2>5, <2>6, <2>7, <2>8, <2>9, <2>10, <2>11,
       <2>12, <2>13, <2>14, <2>15, <2>16, <2>17, <2>18 DEF Next, WorkerStep
<1>3. QED
  BY <1>1, <1>2, TypeCorrect, Ownership, OwnConsumerNames, PTL
     DEF Spec, AttemptsInv

-----------------------------------------------------------------------------

(* Each fill comes with a completion, or is counted as unconfirmed.        *)
LEMMA FillsCounted == Spec => []FillsInv
<1>1. Init => FillsInv
  BY DEF Init, FillsInv
<1>2. TypeOK /\ FillsInv /\ [Next]_vars => FillsInv'
  <2> SUFFICES ASSUME TypeOK, FillsInv, [Next]_vars PROVE FillsInv'
    OBVIOUS
  <2>0. /\ fills \in [Msgs -> Nat] /\ completed \in [Msgs -> Nat]
        /\ unconfirmed \in [Msgs -> Nat]
    BY DEF TypeOK, HistoryType
  <2>1. ASSUME UNCHANGED <<fills, completed, unconfirmed>> PROVE FillsInv'
    BY <2>1 DEF FillsInv
  <2>2. ASSUME NEW w \in Workers, Execute(w) PROVE FillsInv'
    <3>1. cur[w] \in Msgs
      BY <2>2 DEF Execute, TypeOK, LoopType, Handling
    <3>2. CASE /\ fills' = Bump(fills, cur[w]) /\ completed' = Bump(completed, cur[w])
               /\ UNCHANGED unconfirmed
      BY <2>0, <3>1, <3>2 DEF FillsInv, Bump
    <3>3. CASE completed' = Bump(completed, cur[w]) /\ UNCHANGED <<fills, unconfirmed>>
      BY <2>0, <3>1, <3>3 DEF FillsInv, Bump
    <3>4. CASE /\ fills' = Bump(fills, cur[w]) /\ unconfirmed' = Bump(unconfirmed, cur[w])
               /\ UNCHANGED completed
      BY <2>0, <3>1, <3>4 DEF FillsInv, Bump
    <3>5. QED
      BY <2>1, <2>2, <3>2, <3>3, <3>4
         DEF Execute, ExecuteOpens, ExecuteDrops, ExecuteNoop, ExecuteFails,
             ExecuteUnconfirmed
  <2>3. QED
    BY <2>1, <2>2
       DEF Next, WorkerStep, vars, stream, history, loop, Publish, ExpireMarker,
           ReadPending, ReadNew, TakeNext, EndOfBatch, CheckDeliveries, DeadLetter,
           CheckDuplicate, RiskGate, RecordOpen, MarkProcessed, Ack, Crash, Restart,
           ClosePosition
<1>3. QED
  BY <1>1, <1>2, TypeCorrect, PTL DEF Spec

(* With a consumer name per worker, an execution that returned is repeated *)
(* only after a crash, and an entry fills again only after a crash or a    *)
(* fill that could not be confirmed.                                       *)
THEOREM RepeatSafe == ASSUME OwnConsumerNames PROVE Spec => []RepeatNeedsFault
<1>1. Init => RepeatInv
  BY BusConstants DEF Init, RepeatInv, Msgs
<1>2. TypeOK /\ OwnershipInv /\ RepeatInv /\ [Next]_vars => RepeatInv'
  <2> SUFFICES ASSUME StreamType, LoopType, HistoryType, OwnershipInv, RepeatInv,
                      [Next]_vars
               PROVE  RepeatInv'
    BY DEF TypeOK
  <2> USE DEF stream, history, loop, Goto, RepeatInv
  <2>0. /\ crashes \in Nat /\ completed \in [Msgs -> Nat]
        /\ cursor \in Nat /\ lastId \in Nat /\ cursor <= lastId
    BY BusConstants DEF HistoryType, StreamType
  <2>1. ASSUME UNCHANGED <<cursor, owner, completed, crashes>>,
               \A m \in Msgs : owner[m] # Unowned /\ Finishing(m) => Finishing(m)'
        PROVE  RepeatInv'
    BY <2>1
  <2>2. ASSUME UNCHANGED <<cursor, owner, completed, crashes, stage, cur>>
        PROVE  RepeatInv'
    BY <2>2 DEF Finishing
  <2>3. ASSUME NEW k \in Kinds, Publish(k) PROVE RepeatInv'
    BY <2>2, <2>3 DEF Publish
  <2>4. ASSUME NEW m \in Msgs, ExpireMarker(m) PROVE RepeatInv'
    BY <2>2, <2>4 DEF ExpireMarker
  <2>5. ASSUME NEW w \in Workers, NEW s \in Stages, Goto(w, s),
               stage[w] \in {"record", "mark", "ack"} =>
                 s \in {"record", "mark", "ack"} /\ UNCHANGED cur,
               \A v \in Workers \ {w} : cur'[v] = cur[v],
               UNCHANGED <<cursor, owner, completed, crashes>>
        PROVE  RepeatInv'
    <3>1. \A m \in Msgs : Finishing(m) => Finishing(m)'
      BY <2>5 DEF Finishing, LoopType
    <3>2. QED
      BY <2>1, <2>5, <3>1
  <2>6. ASSUME NEW w \in Workers, ReadPending(w) PROVE RepeatInv'
    BY <2>5, <2>6 DEF ReadPending, Stages
  <2>7. ASSUME NEW w \in Workers, ReadNew(w) PROVE RepeatInv'
    <3> DEFINE batch == {m \in Msgs : cursor < m /\ m <= lastId /\ m <= cursor + NewCount}
    <3>1. /\ UNCHANGED <<completed, crashes, cur>>
          /\ owner' = [m \in Msgs |-> IF m \in batch THEN NameOf[w] ELSE owner[m]]
          /\ stage' = [stage EXCEPT ![w] = "next"]
          /\ stage[w] = "new"
      BY <2>7 DEF ReadNew
    <3>2. cursor' \in Nat /\ cursor <= cursor'
      BY <2>7, <2>0, BusConstants DEF ReadNew
    <3>3. \A m \in batch : completed[m] = 0
      BY <2>0 DEF Msgs
    <3> HIDE DEF batch
    <3>4. \A m \in Msgs : Finishing(m) => Finishing(m)'
      BY <3>1 DEF Finishing, LoopType
    <3>5. \A m \in Msgs : m > cursor' => completed'[m] = 0
      BY <3>1, <3>2, <2>0 DEF Msgs
    <3>6. \A m \in Msgs : owner'[m] # Unowned /\ ~Finishing(m)' => completed'[m] <= crashes'
      BY <3>1, <3>3, <3>4, <2>0
    <3>7. QED
      BY <3>1, <3>5, <3>6
  <2>8. ASSUME NEW w \in Workers, TakeNext(w) PROVE RepeatInv'
    <3>1. \A v \in Workers \ {w} : cur'[v] = cur[v]
      BY <2>8 DEF TakeNext, LoopType
    <3>2. /\ stage[w] = "next" /\ Goto(w, "check")
          /\ UNCHANGED <<cursor, owner, completed, crashes>>
      BY <2>8 DEF TakeNext
    <3>3. \A m \in Msgs : Finishing(m) => Finishing(m)'
      BY <3>1, <3>2 DEF Finishing, LoopType
    <3>4. QED
      BY <2>1, <3>2, <3>3
  <2>9. ASSUME NEW w \in Workers, EndOfBatch(w) PROVE RepeatInv'
    BY <2>5, <2>9 DEF EndOfBatch, Stages
  <2>10. ASSUME NEW w \in Workers, CheckDeliveries(w) PROVE RepeatInv'
    <3>1. \E s \in {"dlq", "dup"} : Goto(w, s)
      BY <2>10 DEF CheckDeliveries, Screen
    <3>2. QED
      BY <2>5, <2>10, <3>1 DEF CheckDeliveries, Stages
  <2>11. ASSUME NEW w \in Workers, DeadLetter(w) PROVE RepeatInv'
    BY <2>5, <2>11 DEF DeadLetter, Stages
  <2>12. ASSUME NEW w \in Workers, CheckDuplicate(w) PROVE RepeatInv'
    <3>1. \E s \in {"ack", "gate"} : Goto(w, s)
      BY <2>12 DEF CheckDuplicate
    <3>2. QED
      BY <2>5, <2>12, <3>1 DEF CheckDuplicate, Stages
  <2>13. ASSUME NEW w \in Workers, RiskGate(w) PROVE RepeatInv'
    <3>1. \E s \in {"ack", "dlq", "exec"} : Goto(w, s)
      BY <2>13 DEF RiskGate
    <3>2. QED
      BY <2>5, <2>13, <3>1 DEF RiskGate, Stages
  <2>14. ASSUME NEW w \in Workers, Execute(w) PROVE RepeatInv'
    <3>1. /\ cur[w] \in Msgs /\ stage[w] = "exec"
          /\ UNCHANGED <<cursor, owner, crashes, cur>>
      BY <2>14 DEF Execute, LoopType, Handling, ExecuteOpens, ExecuteDrops, ExecuteNoop,
                   ExecuteFails, ExecuteUnconfirmed
    <3>2. CASE Goto(w, "next") /\ UNCHANGED completed
      BY <2>5, <3>1, <3>2 DEF Stages
    <3>3. CASE Goto(w, "record") /\ completed' = Bump(completed, cur[w])
      <4>1. /\ completed'[cur[w]] = completed[cur[w]] + 1
            /\ \A k \in Msgs \ {cur[w]} : completed'[k] = completed[k]
        BY <3>1, <3>3, <2>0, BumpType
      <4>2. owner[cur[w]] = NameOf[w] /\ NameOf[w] # Unowned
        BY <3>1, BusConstants DEF OwnershipInv, Handling
      <4>3. ~Finishing(cur[w])
        BY <3>1, <4>2, OwnConsumerNames
           DEF Finishing, OwnershipInv, OwnConsumerNames, Handling
      <4>4. completed[cur[w]] <= crashes
        BY <3>1, <4>2, <4>3
      <4>5. cur[w] <= cursor
        BY <3>1, <4>2 DEF OwnershipInv
      <4>6. Finishing(cur[w])'
        BY <3>1, <3>3 DEF Finishing, LoopType
      <4>7. \A m \in Msgs : Finishing(m) => Finishing(m)'
        BY <3>1, <3>3 DEF Finishing, LoopType
      <4>8. \A m \in Msgs : completed'[m] <= 1 + crashes'
        BY <3>1, <4>1, <4>4, <2>0
      <4>9. \A m \in Msgs : m > cursor' => completed'[m] = 0
        BY <3>1, <4>1, <4>5, <2>0 DEF Msgs
      <4>10. \A m \in Msgs : owner'[m] # Unowned /\ ~Finishing(m)' => completed'[m] <= crashes'
        BY <3>1, <4>1, <4>6, <4>7
      <4>11. QED
        BY <4>8, <4>9, <4>10
    <3>4. QED
      BY <2>14, <3>2, <3>3 DEF Execute, ExecuteOpens, ExecuteDrops, ExecuteNoop, ExecuteFails,
                               ExecuteUnconfirmed
  <2>15. ASSUME NEW w \in Workers, RecordOpen(w) PROVE RepeatInv'
    BY <2>5, <2>15 DEF RecordOpen, Stages
  <2>16. ASSUME NEW w \in Workers, MarkProcessed(w) PROVE RepeatInv'
    BY <2>5, <2>16 DEF MarkProcessed, Stages
  <2>17. ASSUME NEW w \in Workers, Ack(w) PROVE RepeatInv'
    <3>1. /\ UNCHANGED <<cursor, completed, crashes, cur>> /\ Goto(w, "next")
          /\ owner' = [owner EXCEPT ![cur[w]] = Unowned]
          /\ cur[w] \in Msgs
      BY <2>17 DEF Ack, LoopType, Handling
    <3>2. \A m \in Msgs : owner'[m] # Unowned => m # cur[w] /\ owner[m] # Unowned
      BY <3>1 DEF StreamType
    <3>3. \A m \in Msgs : m # cur[w] /\ Finishing(m) => Finishing(m)'
      BY <3>1 DEF Finishing, LoopType
    <3>4. QED
      BY <3>1, <3>2, <3>3
  <2>18. ASSUME NEW w \in Workers, Crash(w) PROVE RepeatInv'
    BY <2>18, <2>0 DEF Crash
  <2>19. ASSUME NEW w \in Workers, Restart(w) PROVE RepeatInv'
    BY <2>5, <2>19 DEF Restart, Stages
  <2>20. ASSUME NEW w \in Workers, NEW s \in Symbols, ClosePosition(w, s)
         PROVE  RepeatInv'
    BY <2>2, <2>20 DEF ClosePosition
  <2>21. CASE UNCHANGED vars
    BY <2>2, <2>21 DEF vars
  <2>22. QED
    BY <2>3, <2>4, <2>6, <2>7, <2>8, <2>9, <2>10, <2>11, <2>12, <2>13, <2>14,
       <2>15, <2>16, <2>17, <2>18, <2>19, <2>20, <2>21 DEF Next, WorkerStep
<1>3. TypeOK /\ FillsInv /\ RepeatInv => RepeatNeedsFault
  BY BusConstants DEF TypeOK, HistoryType, FillsInv, RepeatInv, RepeatNeedsFault
<1>4. QED
  BY <1>1, <1>2, <1>3, TypeCorrect, Ownership, FillsCounted, OwnConsumerNames, PTL
     DEF Spec

-----------------------------------------------------------------------------

(* The bus implements at-least-once delivery: with a consumer name per     *)
(* worker, each of its steps is a step of SignalDelivery or a stutter.     *)
THEOREM DeliverySafe == ASSUME OwnConsumerNames PROVE Spec => DeliversAtLeastOnce
<1> DEFINE Same == /\ UNCHANGED completed
                   /\ \A m \in Msgs : StatusOf(m)' = StatusOf(m)
                   /\ (vetoed \cup dead)' = vetoed \cup dead
<1>1. Init => Abstract!DInit
  BY BusConstants DEF Init, Abstract!DInit, StatusOf, Msgs
<1>2. TypeOK /\ OwnershipInv /\ OutcomeInv /\ [Next]_vars => [Abstract!DNext]_(Abstract!svars)
  <2> SUFFICES ASSUME StreamType, LoopType, HistoryType, OwnershipInv, OutcomeInv,
                      [Next]_vars
               PROVE  Abstract!DNext \/ UNCHANGED Abstract!svars
    BY DEF TypeOK
  <2> USE DEF stream, history, loop, Goto, Abstract!DNext, Abstract!svars
  <2>0. lastId \in Nat /\ cursor <= lastId
    BY BusConstants DEF StreamType
  <2>1. ASSUME Same PROVE UNCHANGED Abstract!svars
    BY <2>1
  <2>2. ASSUME UNCHANGED <<lastId, acked, completed, vetoed, dead>>
        PROVE  UNCHANGED Abstract!svars
    BY <2>2 DEF StatusOf
  <2>3. ASSUME NEW w \in Workers, stage[w] \in Handling
        PROVE  cur[w] \in Msgs /\ StatusOf(cur[w]) = "queued"
    <3>1. cur[w] \in Msgs /\ owner[cur[w]] # Unowned
      BY <2>3, BusConstants DEF LoopType, OwnershipInv
    <3>2. cur[w] \notin acked /\ cur[w] <= cursor
      BY <3>1 DEF OwnershipInv
    <3>3. QED
      BY <3>1, <3>2, <2>0 DEF StatusOf, Msgs, StreamType
  <2>4. ASSUME NEW k \in Kinds, Publish(k) PROVE Abstract!DNext
    <3>1. lastId + 1 \in Msgs /\ lastId + 1 \notin acked
      BY <2>4, <2>0, BusConstants DEF Publish, Msgs, OwnershipInv, StreamType
    <3>2. lastId' = lastId + 1 /\ UNCHANGED <<acked, completed, vetoed, dead>>
      BY <2>4 DEF Publish
    <3>3. \A m \in Msgs : m <= lastId' <=> m <= lastId \/ m = lastId + 1
      BY <3>2, <2>0 DEF Msgs
    <3>4. StatusOf(lastId + 1) = "unsent"
      BY <3>1, <2>0 DEF StatusOf
    <3>5. \A m \in Msgs : StatusOf(m)' = IF m = lastId + 1 THEN "queued" ELSE StatusOf(m)
      BY <3>1, <3>2, <3>3 DEF StatusOf
    <3>6. Abstract!Send(lastId + 1)
      BY <3>1, <3>2, <3>4, <3>5 DEF Abstract!Send
    <3>7. QED
      BY <3>1, <3>6
  <2>5. ASSUME NEW m \in Msgs, ExpireMarker(m) PROVE UNCHANGED Abstract!svars
    BY <2>2, <2>5 DEF ExpireMarker
  <2>6. ASSUME NEW w \in Workers,
               \/ ReadPending(w) \/ ReadNew(w) \/ TakeNext(w) \/ EndOfBatch(w)
               \/ CheckDeliveries(w) \/ CheckDuplicate(w)
               \/ RecordOpen(w) \/ MarkProcessed(w) \/ Crash(w) \/ Restart(w)
        PROVE  UNCHANGED Abstract!svars
    <3>1. UNCHANGED <<lastId, acked, completed, vetoed, dead>>
      BY <2>6 DEF ReadPending, ReadNew, TakeNext, EndOfBatch, CheckDeliveries,
                  CheckDuplicate, RecordOpen, MarkProcessed, Crash, Restart
    <3>2. QED
      BY <2>2, <3>1
  <2>7. ASSUME NEW w \in Workers, NEW s \in Symbols, ClosePosition(w, s)
        PROVE  UNCHANGED Abstract!svars
    BY <2>2, <2>7 DEF ClosePosition
  <2>8. ASSUME NEW w \in Workers, DeadLetter(w) PROVE Abstract!DNext
    <3>1. cur[w] \in Msgs /\ StatusOf(cur[w]) = "queued"
      BY <2>3, <2>8 DEF DeadLetter, Handling
    <3>2. Abstract!Excuse(cur[w])
      BY <2>8, <3>1 DEF DeadLetter, Abstract!Excuse, StatusOf
    <3>3. QED
      BY <3>1, <3>2
  <2>9. ASSUME NEW w \in Workers, RiskGate(w)
        PROVE  Abstract!DNext \/ UNCHANGED Abstract!svars
    <3>1. cur[w] \in Msgs /\ StatusOf(cur[w]) = "queued"
      BY <2>3, <2>9 DEF RiskGate, Handling
    <3>2. CASE vetoed' = vetoed \cup {cur[w]}
      <4>1. Abstract!Excuse(cur[w])
        BY <2>9, <3>1, <3>2 DEF RiskGate, Abstract!Excuse, StatusOf
      <4>2. QED
        BY <3>1, <4>1
    <3>3. CASE UNCHANGED vetoed
      BY <2>2, <2>9, <3>3 DEF RiskGate
    <3>4. QED
      BY <2>9, <3>2, <3>3 DEF RiskGate
  <2>10. ASSUME NEW w \in Workers, Execute(w)
         PROVE  Abstract!DNext \/ UNCHANGED Abstract!svars
    <3>1. cur[w] \in Msgs /\ StatusOf(cur[w]) = "queued"
      BY <2>3, <2>10 DEF Execute, Handling
    <3>2. UNCHANGED <<lastId, acked, vetoed, dead>>
      BY <2>10 DEF Execute
    <3>3. CASE completed' = Bump(completed, cur[w])
      <4>1. Abstract!Run(cur[w])
        BY <3>1, <3>2, <3>3 DEF Abstract!Run, StatusOf, Bump
      <4>2. QED
        BY <3>1, <4>1
    <3>4. CASE UNCHANGED completed
      BY <2>2, <3>2, <3>4
    <3>5. QED
      BY <2>10, <3>3, <3>4 DEF Execute, ExecuteOpens, ExecuteDrops, ExecuteNoop, ExecuteFails,
                               ExecuteUnconfirmed
  <2>11. ASSUME NEW w \in Workers, Ack(w) PROVE Abstract!DNext
    <3>1. cur[w] \in Msgs /\ StatusOf(cur[w]) = "queued" /\ Outcome(cur[w])
      BY <2>3, <2>11 DEF Ack, Handling, OutcomeInv
    <3>2. UNCHANGED <<lastId, completed, vetoed, dead>> /\ acked' = acked \cup {cur[w]}
      BY <2>11 DEF Ack
    <3>3. Abstract!Settle(cur[w])
      BY <3>1, <3>2 DEF Abstract!Settle, StatusOf, Outcome
    <3>4. QED
      BY <3>1, <3>3
  <2>12. CASE UNCHANGED vars
    BY <2>2, <2>12 DEF vars
  <2>13. QED
    BY <2>4, <2>5, <2>6, <2>7, <2>8, <2>9, <2>10, <2>11, <2>12 DEF Next, WorkerStep
<1>3. QED
  BY <1>1, <1>2, TypeCorrect, Ownership, OutcomeSafe, OwnConsumerNames, PTL
     DEF Spec, DeliversAtLeastOnce, Abstract!Delivery
=============================================================================
