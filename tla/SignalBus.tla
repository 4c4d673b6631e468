------------------------------ MODULE SignalBus ------------------------------
(***************************************************************************)
(* The decoupled signal -> execution pipeline: SignalPublisher, the Redis  *)
(* stream "execution:signals" with its consumer group and pending-entries  *)
(* list (PEL), and SignalConsumer with its six-handler chain               *)
(*   PoisonPill -> Parse -> Duplicate -> RiskGate -> Adapter -> Execute.   *)
(*                                                                         *)
(* A message is its stream id: XADD hands out 1, 2, 3, ... so ids are in   *)
(* stream order, and every emit builds a Signal with a fresh signal_id, so *)
(* the idempotency key of a signal is the message itself.  A worker takes  *)
(* one step per Redis call or external effect: between two steps it can    *)
(* crash, and other workers, the wallet's exits and the key's expiry can   *)
(* run.                                                                    *)
(***************************************************************************)
EXTENDS Naturals, FiniteSets

CONSTANTS
  MaxMsgs,        \* bound: messages ever published
  Symbols,        \* traded symbols
  SymbolOf,       \* the symbol each signal trades
  Workers,        \* execution worker processes
  Names,          \* consumer names ("worker-1", "engine-inproc")
  NameOf,         \* the consumer name each worker registers with
  Unowned,        \* not in any PEL
  MaxDeliveries,  \* signal_max_deliveries
  PendingCount,   \* XREADGROUP COUNT when reading the PEL
  NewCount,       \* XREADGROUP COUNT when reading new messages
  MaxCrashes,     \* bound: worker crashes
  MaxMisreads     \* bound: XPENDING calls that raise

Msgs == 1 .. MaxMsgs

ASSUME BusConstants ==
  /\ MaxMsgs \in Nat
  /\ SymbolOf \in [Msgs -> Symbols]
  /\ NameOf \in [Workers -> Names]
  /\ Unowned \notin Names
  /\ MaxDeliveries \in Nat \ {0}
  /\ PendingCount \in Nat \ {0}
  /\ NewCount \in Nat \ {0}
  /\ MaxCrashes \in Nat
  /\ MaxMisreads \in Nat

(* What a payload turns out to be.  "sandbox" is a well-formed signal of   *)
(* an engine whose TradingMode is SANDBOX: the adapters know "paper" and   *)
(* "live" only.                                                            *)
Kinds == {"executable", "malformed", "sandbox"}

VARIABLES
  lastId,      \* XADD: ids 1..lastId are in the stream
  kind,        \* [Msgs -> Kinds] what was published
  cursor,      \* the group's last-delivered id
  owner,       \* [Msgs -> Names \cup {Unowned}] whose PEL holds the message
  deliveries,  \* [Msgs -> Nat] the PEL entry's times_delivered
  acked,       \* messages XACKed
  marker,      \* messages whose idem: key is set
  dead,        \* messages copied to the dead-letter stream
  stage,       \* [Workers -> Stages] where the worker's loop stands
  from,        \* [Workers -> {"pending", "new"}] what the current batch is
  todo,        \* [Workers -> SUBSET Msgs] rest of the batch
  cur,         \* [Workers -> Msgs \cup {0}] the message in the chain
  held,        \* <<worker, symbol>>: the worker's wallet has a position
  vetoed,      \* history: messages the risk gate refused
  attempts,    \* history: adapter.execute calls
  completed,   \* history: adapter.execute calls that returned
  fills,       \* history: entry orders filled
  unconfirmed, \* history: of these, the fills no adapter call returned
  opens,       \* history: record_open calls
  crashes,     \* crashes so far
  misreads     \* [Msgs -> Nat] failed XPENDING reads

stream  == <<lastId, kind, cursor, owner, deliveries, acked>>
history == <<vetoed, attempts, completed, fills, unconfirmed, opens>>
loop    == <<stage, from, todo, cur>>
vars    == <<stream, marker, dead, loop, held, history, crashes, misreads>>

Stages == {"down", "pending", "new", "next", "check", "dlq", "dup", "gate",
           "exec", "record", "mark", "ack"}

(* The stages of a worker that has a message in its handler chain. *)
Handling == {"check", "dlq", "dup", "gate", "exec", "record", "mark", "ack"}

StreamType ==
  /\ lastId \in 0 .. MaxMsgs
  /\ kind \in [Msgs -> Kinds]
  /\ cursor \in 0 .. lastId
  /\ owner \in [Msgs -> Names \cup {Unowned}]
  /\ deliveries \in [Msgs -> Nat]
  /\ acked \subseteq Msgs
  /\ marker \subseteq Msgs
  /\ dead \subseteq Msgs

LoopType ==
  /\ stage \in [Workers -> Stages]
  /\ from \in [Workers -> {"pending", "new"}]
  /\ todo \in [Workers -> SUBSET Msgs]
  /\ cur \in [Workers -> Msgs \cup {0}]
  /\ held \subseteq Workers \X Symbols
  /\ \A w \in Workers : stage[w] \in Handling => cur[w] \in Msgs

HistoryType ==
  /\ vetoed \subseteq Msgs
  /\ attempts \in [Msgs -> Nat]
  /\ completed \in [Msgs -> Nat]
  /\ fills \in [Msgs -> Nat]
  /\ unconfirmed \in [Msgs -> Nat]
  /\ opens \in [Msgs -> Nat]
  /\ crashes \in 0 .. MaxCrashes
  /\ misreads \in [Msgs -> 0 .. MaxMisreads]

TypeOK == StreamType /\ LoopType /\ HistoryType

Init ==
  /\ lastId = 0
  /\ kind = [m \in Msgs |-> "executable"]
  /\ cursor = 0
  /\ owner = [m \in Msgs |-> Unowned]
  /\ deliveries = [m \in Msgs |-> 0]
  /\ acked = {} /\ marker = {} /\ dead = {}
  /\ stage = [w \in Workers |-> "down"]
  /\ from = [w \in Workers |-> "pending"]
  /\ todo = [w \in Workers |-> {}]
  /\ cur = [w \in Workers |-> 0]
  /\ held = {}
  /\ vetoed = {}
  /\ attempts = [m \in Msgs |-> 0]
  /\ completed = [m \in Msgs |-> 0]
  /\ fills = [m \in Msgs |-> 0]
  /\ unconfirmed = [m \in Msgs |-> 0]
  /\ opens = [m \in Msgs |-> 0]
  /\ crashes = 0
  /\ misreads = [m \in Msgs |-> 0]

-----------------------------------------------------------------------------
(* Redis.                                                                  *)

(* XADD of a signal by an engine, or of a broken payload by anyone. *)
Publish(k) ==
  /\ lastId < MaxMsgs
  /\ lastId' = lastId + 1
  /\ kind' = [kind EXCEPT ![lastId + 1] = k]
  /\ UNCHANGED <<cursor, owner, deliveries, acked, marker, dead, loop, held,
                 history, crashes, misreads>>

(* The idempotency key's EX time has passed. *)
ExpireMarker(m) ==
  /\ m \in marker
  /\ marker' = marker \ {m}
  /\ UNCHANGED <<stream, dead, loop, held, history, crashes, misreads>>

(* At most n of the messages of S, the lowest ids first (COUNT n). *)
FirstOf(S, n) == {m \in S : Cardinality({k \in S : k < m}) < n}

(* Mutant: anyone's PEL. *)
PendingOfAnyone(w) == {m \in Msgs : owner[m] # Unowned}

PendingOf(w) == {m \in Msgs : owner[m] = NameOf[w]}

-----------------------------------------------------------------------------
(* The worker loop.                                                        *)

(* XREADGROUP ... 0: re-deliver this consumer name's own backlog. *)
ReadPending(w) ==
  LET batch == FirstOf(PendingOf(w), PendingCount) IN
  /\ stage[w] = "pending"
  /\ deliveries' = [m \in Msgs |-> IF m \in batch THEN deliveries[m] + 1
                                                  ELSE deliveries[m]]
  /\ todo' = [todo EXCEPT ![w] = batch]
  /\ from' = [from EXCEPT ![w] = "pending"]
  /\ stage' = [stage EXCEPT ![w] = "next"]
  /\ UNCHANGED <<lastId, kind, cursor, owner, acked, marker, dead, cur, held,
                 history, crashes, misreads>>

(* XREADGROUP ... >: the group's next never-delivered messages. *)
ReadNew(w) ==
  LET batch == {m \in Msgs : cursor < m /\ m <= lastId /\ m <= cursor + NewCount}
  IN
  /\ stage[w] = "new"
  /\ cursor' = IF cursor + NewCount <= lastId THEN cursor + NewCount ELSE lastId
  /\ owner' = [m \in Msgs |-> IF m \in batch THEN NameOf[w] ELSE owner[m]]
  /\ deliveries' = [m \in Msgs |-> IF m \in batch THEN 1 ELSE deliveries[m]]
  /\ todo' = [todo EXCEPT ![w] = batch]
  /\ from' = [from EXCEPT ![w] = "new"]
  /\ stage' = [stage EXCEPT ![w] = "next"]
  /\ UNCHANGED <<lastId, kind, acked, marker, dead, cur, held, history,
                 crashes, misreads>>

(* The for loop over the batch, in stream order. *)
TakeNext(w) ==
  /\ stage[w] = "next"
  /\ \E m \in todo[w] :
       /\ \A k \in todo[w] : m <= k
       /\ cur' = [cur EXCEPT ![w] = m]
       /\ todo' = [todo EXCEPT ![w] = @ \ {m}]
  /\ stage' = [stage EXCEPT ![w] = "check"]
  /\ UNCHANGED <<stream, marker, dead, from, held, history, crashes, misreads>>

(* Mutant: the PEL is read on boot only. *)
EndOfBatchBootOnly(w) ==
  /\ stage[w] = "next"
  /\ todo[w] = {}
  /\ stage' = [stage EXCEPT ![w] = "new"]
  /\ UNCHANGED <<stream, marker, dead, from, todo, cur, held, history,
                 crashes, misreads>>

EndOfBatch(w) ==
  /\ stage[w] = "next"
  /\ todo[w] = {}
  /\ stage' = [stage EXCEPT ![w] = IF from[w] = "pending" THEN "new"
                                                          ELSE "pending"]
  /\ UNCHANGED <<stream, marker, dead, from, todo, cur, held, history,
                 crashes, misreads>>

-----------------------------------------------------------------------------
(* The handler chain.                                                      *)

Goto(w, s) == stage' = [stage EXCEPT ![w] = s]

(* times_delivered of the PEL entry; 1 when there is no such entry. *)
DeliveryCount(m) == IF owner[m] = Unowned THEN 1 ELSE deliveries[m]

(* Mutants: the limit is off by one; a poison pill is acked with no copy in *)
(* the dead-letter stream.                                                 *)
ScreenOffByOne(w, count) ==
  Goto(w, IF count > MaxDeliveries + 1 \/ kind[cur[w]] = "malformed"
            THEN "dlq" ELSE "dup")
ScreenDrops(w, count) ==
  Goto(w, IF count > MaxDeliveries THEN "ack"
          ELSE IF kind[cur[w]] = "malformed" THEN "dlq" ELSE "dup")

(* PoisonPillHandler and ParseHandler, given the count XPENDING reported. *)
Screen(w, count) ==
  Goto(w, IF count > MaxDeliveries \/ kind[cur[w]] = "malformed"
            THEN "dlq" ELSE "dup")

CheckDeliveries(w) ==
  /\ stage[w] = "check"
  /\ \/ /\ Screen(w, DeliveryCount(cur[w]))
        /\ UNCHANGED misreads
     \/ \* XPENDING raised: delivery_count returns 1
        /\ misreads[cur[w]] < MaxMisreads
        /\ misreads' = [misreads EXCEPT ![cur[w]] = @ + 1]
        /\ Screen(w, 1)
  /\ UNCHANGED <<stream, marker, dead, from, todo, cur, held, history, crashes>>

(* to_dlq: XADD to the dead-letter stream; the XACK is a later call. *)
DeadLetter(w) ==
  /\ stage[w] = "dlq"
  /\ dead' = dead \cup {cur[w]}
  /\ Goto(w, "ack")
  /\ UNCHANGED <<stream, marker, from, todo, cur, held, history, crashes, misreads>>

CheckDuplicate(w) ==
  /\ stage[w] = "dup"
  /\ Goto(w, IF cur[w] \in marker THEN "ack" ELSE "gate")
  /\ UNCHANGED <<stream, marker, dead, from, todo, cur, held, history, crashes,
                 misreads>>

(* Mutant: the idempotency key is claimed before the execution. *)
RiskGatePreClaims(w) ==
  /\ stage[w] = "gate"
  /\ \/ /\ vetoed' = vetoed \cup {cur[w]}
        /\ Goto(w, "ack")
        /\ UNCHANGED marker
     \/ /\ UNCHANGED vetoed
        /\ marker' = marker \cup {cur[w]}
        /\ Goto(w, IF kind[cur[w]] = "sandbox" THEN "dlq" ELSE "exec")
  /\ UNCHANGED <<stream, dead, from, todo, cur, held, attempts,
                 completed, fills, unconfirmed, opens, crashes, misreads>>

(* RiskGateHandler and, on a pass, AdapterHandler: a veto is terminal, a   *)
(* mode without an adapter goes to the dead-letter stream.                 *)
RiskGate(w) ==
  /\ stage[w] = "gate"
  /\ \/ /\ vetoed' = vetoed \cup {cur[w]}
        /\ Goto(w, "ack")
     \/ /\ UNCHANGED vetoed
        /\ Goto(w, IF kind[cur[w]] = "sandbox" THEN "dlq" ELSE "exec")
  /\ UNCHANGED <<stream, marker, dead, from, todo, cur, held, attempts,
                 completed, fills, unconfirmed, opens, crashes, misreads>>

Bump(f, m) == [f EXCEPT ![m] = @ + 1]

Position(w) == <<w, SymbolOf[cur[w]]>>

(* adapter.execute opened a position. *)
ExecuteOpens(w) ==
  /\ Position(w) \notin held
  /\ held' = held \cup {Position(w)}
  /\ fills' = Bump(fills, cur[w])
  /\ completed' = Bump(completed, cur[w])
  /\ Goto(w, "record")
  /\ UNCHANGED unconfirmed

(* The venue filled the order and the wallet, looking a second time, books *)
(* nothing: open_position returned None.                                   *)
ExecuteDrops(w) ==
  /\ Position(w) \notin held
  /\ fills' = Bump(fills, cur[w])
  /\ completed' = Bump(completed, cur[w])
  /\ Goto(w, "record")
  /\ UNCHANGED <<held, unconfirmed>>

(* It returned without opening: the wallet refused (position already open, *)
(* funds, venue minimum) or the maker order was not filled.                *)
ExecuteNoop(w) ==
  /\ completed' = Bump(completed, cur[w])
  /\ Goto(w, "record")
  /\ UNCHANGED <<held, fills, unconfirmed>>

(* Mutant: a failed execution is acked like a successful one. *)
ExecuteFailsAcked(w) ==
  /\ Goto(w, "ack")
  /\ UNCHANGED <<held, fills, unconfirmed, completed>>

(* It raised before any order reached the venue: left in the PEL. *)
ExecuteFails(w) ==
  /\ Goto(w, "next")
  /\ UNCHANGED <<held, fills, unconfirmed, completed>>

(* It raised after the venue took the market order: the fill could not be  *)
(* confirmed in time, so nothing is booked and the signal will be retried. *)
(* Nobody cancels the order: it counts as filled whenever it fills.        *)
ExecuteUnconfirmed(w) ==
  /\ Position(w) \notin held
  /\ fills' = Bump(fills, cur[w])
  /\ unconfirmed' = Bump(unconfirmed, cur[w])
  /\ Goto(w, "next")
  /\ UNCHANGED <<held, completed>>

Execute(w) ==
  /\ stage[w] = "exec"
  /\ attempts' = Bump(attempts, cur[w])
  /\ \/ ExecuteOpens(w)
     \/ ExecuteDrops(w)
     \/ ExecuteNoop(w)
     \/ ExecuteFails(w)
     \/ ExecuteUnconfirmed(w)
  /\ UNCHANGED <<stream, marker, dead, from, todo, cur, vetoed, opens, crashes,
                 misreads>>

(* record_open, after the adapter returned and whatever it did. *)
RecordOpen(w) ==
  /\ stage[w] = "record"
  /\ opens' = Bump(opens, cur[w])
  /\ Goto(w, "mark")
  /\ UNCHANGED <<stream, marker, dead, from, todo, cur, held, vetoed, attempts,
                 completed, fills, unconfirmed, crashes, misreads>>

(* Mutant: the processed signal is not acked. *)
MarkProcessedOnly(w) ==
  /\ stage[w] = "mark"
  /\ marker' = marker \cup {cur[w]}
  /\ Goto(w, "next")
  /\ UNCHANGED <<stream, dead, from, todo, cur, held, history, crashes, misreads>>

MarkProcessed(w) ==
  /\ stage[w] = "mark"
  /\ marker' = marker \cup {cur[w]}
  /\ Goto(w, "ack")
  /\ UNCHANGED <<stream, dead, from, todo, cur, held, history, crashes, misreads>>

(* XACK: out of the PEL. *)
Ack(w) ==
  /\ stage[w] = "ack"
  /\ acked' = acked \cup {cur[w]}
  /\ owner' = [owner EXCEPT ![cur[w]] = Unowned]
  /\ Goto(w, "next")
  /\ UNCHANGED <<lastId, kind, cursor, deliveries, marker, dead, from, todo,
                 cur, held, history, crashes, misreads>>

-----------------------------------------------------------------------------
(* Faults and the rest of the wallet.                                      *)

(* The process dies, or a Redis call outside a try block raises and ends   *)
(* the loop.  The PEL, the keys and the wallet's journal survive.          *)
Crash(w) ==
  /\ stage[w] # "down"
  /\ crashes < MaxCrashes
  /\ crashes' = crashes + 1
  /\ Goto(w, "down")
  /\ todo' = [todo EXCEPT ![w] = {}]
  /\ cur' = [cur EXCEPT ![w] = 0]
  /\ UNCHANGED <<stream, marker, dead, from, held, history, misreads>>

(* (Re)start: setup, recover_pending and the loop all begin with the PEL. *)
Restart(w) ==
  /\ stage[w] = "down"
  /\ Goto(w, "pending")
  /\ UNCHANGED <<stream, marker, dead, from, todo, cur, held, history, crashes,
                 misreads>>

(* A stop, a target or a strategy exit flattens the symbol. *)
ClosePosition(w, s) ==
  /\ <<w, s>> \in held
  /\ held' = held \ {<<w, s>>}
  /\ UNCHANGED <<stream, marker, dead, loop, history, crashes, misreads>>

WorkerStep(w) ==
  \/ ReadPending(w) \/ ReadNew(w) \/ TakeNext(w) \/ EndOfBatch(w)
  \/ CheckDeliveries(w) \/ DeadLetter(w) \/ CheckDuplicate(w) \/ RiskGate(w)
  \/ Execute(w) \/ RecordOpen(w) \/ MarkProcessed(w) \/ Ack(w)

Next ==
  \/ \E k \in Kinds : Publish(k)
  \/ \E m \in Msgs : ExpireMarker(m)
  \/ \E w \in Workers : WorkerStep(w) \/ Crash(w) \/ Restart(w)
  \/ \E w \in Workers, s \in Symbols : ClosePosition(w, s)

(* A running worker keeps looping (run_forever), and a dead one is started *)
(* again (docker-compose: restart: unless-stopped).                        *)
Fairness == \A w \in Workers : WF_vars(WorkerStep(w)) /\ WF_vars(Restart(w))

Spec == Init /\ [][Next]_vars /\ Fairness

-----------------------------------------------------------------------------
(* Properties.                                                             *)

(* A message leaves the PEL only with an outcome on record: the adapter    *)
(* returned for it, the risk gate refused it, or the dead-letter stream    *)
(* has a copy.  The ack paths are five, one of them trusts a key written   *)
(* by an earlier life of the worker (DuplicateHandler).                    *)
NothingLost ==
  \A m \in acked : completed[m] > 0 \/ m \in vetoed \/ m \in dead

(* The poison-pill limit holds across crashes, restarts and re-reads: the  *)
(* adapter is called at most signal_max_deliveries times for a message,    *)
(* plus once for each XPENDING that failed and read as 1.                  *)
AttemptsBounded ==
  \A m \in Msgs : attempts[m] <= MaxDeliveries + misreads[m]

(* With consumer names of their own, workers repeat what was executed only *)
(* for one of two reasons: a crash between the adapter and the ack, or a   *)
(* fill the adapter raised on because it could not be confirmed.  Neither  *)
(* interleaving, stale batch, key expiry nor any other retry fills twice   *)
(* or completes twice.                                                     *)
RepeatNeedsFault ==
  \A m \in Msgs : /\ completed[m] <= 1 + crashes
                 /\ fills[m] <= 1 + crashes + unconfirmed[m]

(* A consumer name per worker: "worker-1", "engine-inproc". *)
OwnConsumerNames == \A v, w \in Workers : NameOf[v] = NameOf[w] => v = w

(* The bus seen as the delivery contract. *)
StatusOf(m) == IF m \in acked THEN "settled"
               ELSE IF m <= lastId THEN "queued" ELSE "unsent"

Abstract == INSTANCE SignalDelivery WITH
              status <- [m \in Msgs |-> StatusOf(m)],
              runs <- completed,
              excused <- vetoed \cup dead

(* Every step of the bus is a step of the delivery contract: an execution  *)
(* or an excuse only while queued, an ack only with a reason.              *)
DeliversAtLeastOnce == Abstract!Delivery

(* Why these hold: inductive strengthenings.                               *)
Outcome(m) == completed[m] > 0 \/ m \in vetoed \/ m \in dead

(* A key, and a worker past the adapter, vouch for a completed execution;  *)
(* a worker about to ack has an outcome to show.                           *)
OutcomeInv ==
  /\ \A m \in marker : completed[m] > 0
  /\ \A w \in Workers : stage[w] \in {"record", "mark"} => completed[cur[w]] > 0
  /\ \A w \in Workers : stage[w] = "ack" => Outcome(cur[w])
  /\ NothingLost

(* What a worker has read and not finished is in the PEL under its name.   *)
OwnershipInv ==
  /\ \A w \in Workers : \A m \in todo[w] : owner[m] = NameOf[w]
  /\ \A w \in Workers : stage[w] \in Handling =>
       owner[cur[w]] = NameOf[w] /\ cur[w] \notin todo[w]
  /\ \A w \in Workers : stage[w] \in {"down", "pending", "new"} => todo[w] = {}
  /\ \A m \in Msgs : owner[m] # Unowned => m \notin acked /\ m <= cursor
  /\ \A m \in acked : m <= cursor

(* Each attempt spends a delivery, and a worker past the poison check has  *)
(* one to spend below the limit.                                           *)
AttemptsInv ==
  /\ AttemptsBounded
  /\ \A m \in Msgs : m > cursor => attempts[m] = 0
  /\ \A m \in Msgs : attempts[m] <= deliveries[m]
  /\ \A w \in Workers : \A m \in todo[w] : attempts[m] < deliveries[m]
  /\ \A w \in Workers : stage[w] \in {"check", "dup", "gate", "exec"} =>
       attempts[cur[w]] < deliveries[cur[w]]
  /\ \A w \in Workers : stage[w] \in {"dup", "gate", "exec"} =>
       attempts[cur[w]] < MaxDeliveries + misreads[cur[w]]

(* A message still in the PEL has completed no more often than workers     *)
(* have crashed, unless its worker is between the adapter and the ack.     *)
Finishing(m) == \E w \in Workers : stage[w] \in {"record", "mark", "ack"} /\ cur[w] = m

RepeatInv ==
  /\ \A m \in Msgs : completed[m] <= 1 + crashes
  /\ \A m \in Msgs : m > cursor => completed[m] = 0
  /\ \A m \in Msgs : owner[m] # Unowned /\ ~Finishing(m) => completed[m] <= crashes

(* A fill is a completion's, or one that could not be confirmed.           *)
FillsInv == \A m \in Msgs : fills[m] <= completed[m] + unconfirmed[m]

(* Every message published is acked in the end, whatever fails on the way. *)
EverySignalSettled ==
  \A m \in Msgs : (m <= lastId) ~> (m \in acked)
=============================================================================
