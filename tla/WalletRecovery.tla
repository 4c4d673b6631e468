--------------------------- MODULE WalletRecovery ---------------------------
(***************************************************************************)
(* The wallet as an event-sourced store: every change is an event appended *)
(* to a table and then applied by a reducer; an operation ends by writing  *)
(* the reducer's state to a file, a snapshot row and the Redis cache, and  *)
(* a restart rebuilds the wallet from whichever of them it finds.          *)
(*                                                                         *)
(* One wallet and one symbol.  Events without an effect on what is kept    *)
(* here (ORDER_CREATED, LEVERAGE_ADJUSTED, ...) are of kind "noted".       *)
(***************************************************************************)
EXTENDS Integers, Sequences

CONSTANTS
  Lot,         \* quantity of an entry
  Redis,       \* REDIS_URL is set
  Taxed,       \* tds_enabled
  Account,     \* the account's balance at the venue
  FaultKinds,  \* calls that may raise: see Faults
  MaxOps, MaxCrashes,
  MaxMishaps   \* faults, events aside, rows of another namespace, and values
               \* taken from the venue without an event

\* "append" the event row, "persist" the order/fill/fee row behind it, "save"
\* the snapshot row, "cache" a Redis write, "hook" one event for the read
\* model, "align" of the read model at boot.
Faults == {"append", "persist", "save", "cache", "hook", "align"}

ASSUME RecoveryConstants ==
  /\ Lot \in Nat \ {0}
  /\ Redis \in BOOLEAN /\ Taxed \in BOOLEAN /\ Account \in Int
  /\ FaultKinds \subseteq Faults
  /\ {MaxOps, MaxCrashes, MaxMishaps} \subseteq Nat

VARIABLES
  log,       \* the event table, by id
  red,       \* _runtime_reducer_state
  run,       \* the runtime position in self.positions
  bal,       \* the runtime wallet_balance
  stage,     \* where the wallet is in an operation or in loading
  todo,      \* events the operation has yet to emit
  at,        \* row of the event appended and not yet applied
  saving,    \* the operation ends in _save_state
  copy,      \* the state its _save_state writes, NoImage: none
  aside,     \* the same for a thread that emits without the lock, 0: none
  saver,     \* where the thread that aligned is in its own _save_state
  other,     \* the state that thread writes
  file, snap, cache,   \* the images a restart may find
  proj,      \* quantity in the read model's active_positions, 0: no row
  past,      \* history: past[n] is what the first n events amount to
  slipped,   \* history: the reducer counted an event at another's place
  aligned,   \* history: trades whose quantity was set without an event
  synced,    \* history: the account's balance was saved for the reducer's
  missed,    \* history: the read model was not told of something
  source,    \* history: what the wallet was last loaded from
  ops, crashes, mishaps

op == <<stage, todo, at, saving, copy>>
aligner == <<saver, other, aligned>>
images == <<file, snap, cache>>
readModel == <<proj, missed>>
bounds == <<ops, crashes, mishaps>>
vars == <<log, red, run, bal, op, aside, aligner, images, readModel, past,
          slipped, synced, source, bounds>>

-----------------------------------------------------------------------------
(* Events and the reducer                                                  *)

Kinds == {"noted", "charged", "opened", "adopted", "reduced", "moved",
          "placed", "cancelled", "closed"}

\* num: the trade opened, the quantity sold, the new stop price or the id of
\* the protective order; amt: what it adds to the balance.
Event == [kind : Kinds, num : Nat, amt : Int]
Ev(kind, num, amt) == [kind |-> kind, num |-> num, amt |-> amt]

\* stops = Unset: the key "protective_orders" is missing in the reducer's
\* entry, as a snapshot does not carry it.
Unset == -1
State == [n : Nat, bal : Int, trade : Nat, qty : Nat, sl : Nat,
          stops : Nat \cup {Unset}]
Fresh == [n |-> 0, bal |-> 0, trade |-> 0, qty |-> 0, sl |-> 0, stops |-> 0]

Opens(e) == e.kind \in {"opened", "adopted"}

Less(a, b) == IF a > b THEN a - b ELSE 0

TradeAfter(s, e) ==
  IF Opens(e) THEN e.num ELSE IF e.kind = "closed" THEN 0 ELSE s.trade

QtyAfter(s, e) ==
  IF Opens(e) THEN Lot
  ELSE IF e.kind = "closed" THEN 0
  ELSE IF e.kind = "reduced" THEN Less(s.qty, e.num) ELSE s.qty

SlAfter(s, e) ==
  IF Opens(e) THEN 1
  ELSE IF e.kind = "closed" THEN 0
  ELSE IF e.kind = "moved" /\ s.trade # 0 THEN e.num ELSE s.sl

StopsAfter(s, e) ==
  IF Opens(e) \/ e.kind = "closed" THEN 0
  ELSE IF s.trade = 0 THEN s.stops
  ELSE IF e.kind = "placed" THEN e.num
  ELSE IF e.kind = "cancelled" THEN 0 ELSE s.stops

Applied(s, e) ==
  [n |-> s.n + 1, bal |-> s.bal + e.amt, trade |-> TradeAfter(s, e),
   qty |-> QtyAfter(s, e), sl |-> SlAfter(s, e), stops |-> StopsAfter(s, e)]

-----------------------------------------------------------------------------
(* The runtime position and the images                                     *)

Position == [trade : Nat, qty : Nat, sl : Nat, stops : Nat]
NoPosition == [trade |-> 0, qty |-> 0, sl |-> 0, stops |-> 0]
Booked(t) == [trade |-> t, qty |-> Lot, sl |-> 1, stops |-> 0]

\* Mutants: the orders of the runtime position are dropped where the reducer
\* has none; an existing position keeps its stop price.
SyncedForgetful(pos, s) ==
  IF s.trade = 0 THEN NoPosition
  ELSE [trade |-> IF pos.trade # 0 THEN pos.trade ELSE s.trade,
        qty |-> s.qty, sl |-> s.sl, stops |-> IF s.stops # Unset THEN s.stops ELSE 0]
SyncedOldStop(pos, s) ==
  IF s.trade = 0 THEN NoPosition
  ELSE [trade |-> IF pos.trade # 0 THEN pos.trade ELSE s.trade,
        qty |-> s.qty, sl |-> IF pos.trade # 0 THEN pos.sl ELSE s.sl,
        stops |-> IF s.stops # Unset THEN s.stops
                  ELSE IF pos.trade # 0 THEN pos.stops ELSE 0]

\* An existing position keeps what identifies it (trade: its side, playbook,
\* leverage and open time), and its orders where the reducer has none.
Synced(pos, s) ==
  IF s.trade = 0 THEN NoPosition
  ELSE [trade |-> IF pos.trade # 0 THEN pos.trade ELSE s.trade,
        qty |-> s.qty, sl |-> s.sl,
        stops |-> IF s.stops # Unset THEN s.stops
                  ELSE IF pos.trade # 0 THEN pos.stops ELSE 0]

Image == [red : State, pos : Position]
NoImage == [red |-> Fresh, pos |-> NoPosition]

\* Mutant: the snapshot's count of events is not read back.
DeserializedUncounted(s) ==
  [n |-> 0, bal |-> s.bal, trade |-> s.trade, qty |-> s.qty, sl |-> s.sl,
   stops |-> IF s.trade = 0 THEN 0 ELSE Unset]

Deserialized(s) ==
  [n |-> s.n, bal |-> s.bal, trade |-> s.trade, qty |-> s.qty, sl |-> s.sl,
   stops |-> IF s.trade = 0 THEN 0 ELSE Unset]

\* Only an operation saves, and it counts WALLET_INITIALIZED at least.
Found(img) == img.red.n > 0

-----------------------------------------------------------------------------
(* Operations, as the events they emit.  t is the operation's number.      *)

\* The venue or the paper simulation may leave nothing to track.
Placing(t) == {<<>>, <<Ev("placed", t, 0)>>}
\* Of a long position its sales are taxed, of a short one its opening.
Taxes == {<<>>} \cup (IF Taxed THEN {<<Ev("charged", 0, -1)>>} ELSE {})
Cancelling == <<Ev("cancelled", 0, 0)>>

Opening(t, x, p) ==
  <<Ev("charged", 0, -1), Ev("charged", 0, -1)>> \o x \o <<Ev("opened", t, 0)>> \o p

Openings(t) ==
  IF run.trade # 0 THEN {}
  ELSE {Opening(t, x, p) : x \in Taxes, p \in Placing(t)}

Adoptions(t) ==
  IF run.trade # 0 THEN {} ELSE {<<Ev("adopted", t, 0)>> \o p : p \in Placing(t)}

Closings ==
  IF run.trade = 0 THEN {}
  ELSE {Cancelling \o <<Ev("closed", 0, 5)>> \o x : x \in Taxes}

\* What is sold, and whether it is all, is decided here: an alignment later in
\* the operation does not change it.
Slice(q, x, p) ==
  Cancelling \o <<Ev("reduced", q, 3)>> \o x
    \o (IF q = run.qty THEN Cancelling \o <<Ev("closed", 0, 5)>> ELSE p)

Slices(t) ==
  IF run.trade = 0 THEN {}
  ELSE {Slice(q, x, p) : q \in 1 .. run.qty, x \in Taxes, p \in Placing(t)}

Liquidations ==
  IF run.trade = 0 THEN {} ELSE {Cancelling \o <<Ev("closed", 0, -5)>>}

StopMoves == {<<Ev("moved", 2, 0)>>}
Fundings == IF run.trade = 0 THEN {} ELSE {<<Ev("charged", 0, -1)>>}

\* The stop is cancelled and recorded so, then the exit order raises.
FailedExits == IF run.trade = 0 THEN {} ELSE {Cancelling}

Saved(t) ==
  Openings(t) \cup Adoptions(t) \cup Closings \cup Slices(t) \cup Liquidations
    \cup StopMoves \cup Fundings

-----------------------------------------------------------------------------
TypeOK ==
  /\ log \in Seq(Event) /\ past \in Seq(State)
  /\ red \in State /\ run \in Position
  /\ stage \in {"down", "replay", "ready", "append", "apply", "file", "snap",
                "cache"}
  /\ todo \in Seq(Event) /\ at \in Nat /\ aside \in Nat
  /\ saving \in BOOLEAN /\ copy \in Image /\ bal \in Int
  /\ saver \in {"idle", "file", "snap", "cache"} /\ other \in Image
  /\ aligned \subseteq Nat /\ synced \in BOOLEAN
  /\ file \in Image /\ snap \in Image /\ cache \in Image
  /\ proj \in Nat
  /\ slipped \in BOOLEAN /\ missed \in BOOLEAN
  /\ source \in {"boot", "none", "file", "db", "cache"}
  /\ ops \in Nat /\ crashes \in Nat /\ mishaps \in Nat

\* A first start: nothing found, WALLET_INITIALIZED emitted.
Init ==
  /\ log = <<Ev("noted", 0, 0)>>
  /\ red = Applied(Fresh, Ev("noted", 0, 0))
  /\ past = <<red>>
  /\ run = NoPosition /\ bal = red.bal
  /\ stage = "ready" /\ todo = <<>> /\ at = 0 /\ saving = FALSE /\ aside = 0
  /\ copy = NoImage /\ saver = "idle" /\ other = NoImage
  /\ aligned = {} /\ synced = FALSE
  /\ file = NoImage /\ snap = NoImage /\ cache = NoImage
  /\ proj = 0 /\ missed = FALSE
  /\ slipped = FALSE /\ source = "boot"
  /\ ops = 0 /\ crashes = 0 /\ mishaps = 0

Mishap ==
  mishaps < MaxMishaps /\ mishaps' = mishaps + 1 /\ UNCHANGED <<ops, crashes>>
Fault(kind) == kind \in FaultKinds /\ Mishap

Abort ==
  stage' = "ready" /\ todo' = <<>> /\ at' = 0 /\ saving' = FALSE
    /\ copy' = NoImage

Record(e) ==
  /\ log' = Append(log, e)
  /\ past' = Append(past, Applied(past[Len(past)], e))

-----------------------------------------------------------------------------
(* An operation, under the wallet's lock                                   *)

Begin ==
  /\ stage = "ready"
  /\ ops < MaxOps
  /\ ops' = ops + 1
  /\ \/ saving' = TRUE /\ todo' \in Saved(ops + 1)
     \/ saving' = FALSE /\ todo' \in FailedExits
  /\ stage' = "append"
  /\ UNCHANGED <<log, red, run, bal, at, copy, aside, aligner, images, readModel,
                 past, slipped, synced, source, crashes, mishaps>>

\* open_position and adopt_venue_position put the position into
\* self.positions before they emit the event that opens it.
Ahead(e) == IF Opens(e) THEN Booked(e.num) ELSE run

AppendEvent ==
  /\ stage = "append"
  /\ run' = Ahead(Head(todo))
  /\ \/ /\ Record(Head(todo))
        /\ at' = Len(log) + 1
        /\ todo' = Tail(todo)
        /\ stage' = "apply"
        /\ UNCHANGED <<saving, copy, bounds>>
     \/ Abort /\ Fault("append") /\ UNCHANGED <<log, past>>
  /\ UNCHANGED <<red, bal, aside, aligner, images, readModel, slipped, synced,
                 source>>

\* The rows of the read model, one event at a time; an adoption is none of
\* the events it knows.
ProjApplied(e) ==
  CASE e.kind = "opened" -> Lot
    [] e.kind = "reduced" -> Less(proj, e.num)
    [] e.kind = "closed" -> 0
    [] OTHER -> proj

Project(e) ==
  /\ proj' = ProjApplied(e)
  /\ missed' = CASE e.kind = "adopted" -> TRUE
                 [] e.kind = "closed" -> FALSE
                 [] OTHER -> missed

AfterEvent ==
  IF todo # <<>> THEN "append" ELSE IF saving THEN "file" ELSE "ready"

Reduce(e, i) ==
  /\ red' = Applied(red, e)
  /\ run' = Synced(run, red')
  /\ bal' = red'.bal
  /\ slipped' = (slipped \/ red.n + 1 # i)

\* The order, fill or fee row, the reducer, the event hook, the runtime.
ApplyEvent ==
  /\ stage = "apply"
  /\ \/ /\ Reduce(log[at], at)
        /\ \/ Project(log[at]) /\ UNCHANGED bounds
           \/ proj' = proj /\ missed' = TRUE /\ Fault("hook")
        /\ stage' = AfterEvent
        /\ at' = 0
        /\ UNCHANGED <<todo, saving, copy>>
     \/ /\ Abort /\ Fault("persist")
        /\ slipped' = TRUE
        /\ UNCHANGED <<red, run, bal, readModel>>
  /\ UNCHANGED <<log, aside, aligner, images, past, synced, source>>

\* What _save_state writes: the runtime balance goes into the image, and
\* a restart reads it back as the reducer's.
Written == [red |-> [red EXCEPT !.bal = bal], pos |-> run]
Copied == synced' = (synced \/ bal # red.bal)

SaveFile ==
  /\ stage = "file"
  /\ copy' = Written /\ file' = copy' /\ Copied
  /\ stage' = "snap"
  /\ UNCHANGED <<log, red, run, bal, todo, at, saving, aside, aligner, snap, cache,
                 readModel, past, slipped, source, bounds>>

\* The three writes take the same copy of the state.
SaveSnapshot ==
  /\ stage = "snap"
  /\ \/ /\ snap' = copy
        /\ IF Redis THEN stage' = "cache" /\ copy' = copy
                    ELSE stage' = "ready" /\ copy' = NoImage
        /\ UNCHANGED <<todo, at, saving, bounds>>
     \/ Abort /\ Fault("save") /\ snap' = snap
  /\ UNCHANGED <<log, red, run, bal, aside, aligner, file, cache, readModel, past,
                 slipped, synced, source>>

PutCache ==
  /\ stage = "cache"
  /\ \/ cache' = copy /\ UNCHANGED bounds
     \/ cache' = cache /\ Fault("cache")
  /\ stage' = "ready" /\ copy' = NoImage
  /\ UNCHANGED <<log, red, run, bal, todo, at, saving, aside, aligner, file, snap,
                 readModel, past, slipped, synced, source>>

-----------------------------------------------------------------------------
(* Other threads, which do not take the lock                               *)

Live == stage \notin {"down", "replay"}

\* An event: a leverage change, or a stop that the Reconciler puts back.
AsideAppend ==
  /\ Live /\ aside = 0
  /\ Mishap
  /\ \E e \in {Ev("noted", 0, 0)}
               \cup (IF run.stops # 0 THEN {Ev("placed", run.stops + MaxOps, 0)}
                     ELSE {}) :
       Record(e)
  /\ aside' = Len(log) + 1
  /\ UNCHANGED <<red, run, bal, op, aligner, images, readModel, slipped, synced,
                 source>>

AsideApply ==
  /\ aside # 0
  /\ Reduce(log[aside], aside)
  /\ aside' = 0
  /\ UNCHANGED <<log, op, aligner, images, readModel, past, synced, source, bounds>>

\* The account's balance is set for the runtime's, until the next event.
SyncBalance ==
  /\ Live
  /\ Mishap
  /\ bal' = Account
  /\ UNCHANGED <<log, red, run, op, aside, aligner, images, readModel, past,
                 slipped, synced, source>>

\* A position whose quantity differs from the venue's gets the venue's, and
\* so does the reducer's entry: no event says so, and the read model is not
\* told.  reconcile_symbol sets the balance first.
AlignQuantity ==
  /\ Live /\ saver = "idle" /\ run.qty # 0
  /\ Mishap
  /\ \E q \in (1 .. Lot) \ {run.qty} :
       /\ run' = [run EXCEPT !.qty = q]
       /\ red' = IF red.trade # 0 THEN [red EXCEPT !.qty = q] ELSE red
  /\ aligned' = IF red.trade # 0 THEN aligned \cup {red.trade} ELSE aligned
  /\ missed' = (missed \/ red.trade # 0)
  /\ bal' \in {bal, Account}
  /\ saver' = "file"
  /\ UNCHANGED <<log, op, aside, other, images, proj, past, slipped, synced,
                 source>>

\* Its _save_state, which may raise; both callers go on.
SaveAligned ==
  /\ \/ /\ saver = "file"
        /\ other' = Written /\ file' = other' /\ Copied
        /\ saver' = "snap"
        /\ UNCHANGED <<snap, cache>>
     \/ /\ saver = "snap"
        /\ snap' = other /\ saver' = "cache"
        /\ UNCHANGED <<other, file, cache, synced>>
     \/ /\ saver # "idle"
        /\ cache' \in {cache} \cup (IF saver = "cache" /\ Redis THEN {other} ELSE {})
        /\ saver' = "idle" /\ other' = NoImage
        /\ UNCHANGED <<file, snap, synced>>
  /\ UNCHANGED <<log, red, run, bal, op, aside, aligned, readModel, past, slipped,
                 source, bounds>>

\* wallet_events is one table for all namespaces of a Postgres database:
\* another mode's wallet, run in between, adds rows this one does not count.
ForeignAppend ==
  /\ stage = "down"
  /\ Mishap
  /\ \E e \in {Ev("charged", 0, -1), Ev("opened", MaxOps + 1, 0)} :
       log' = Append(log, e)
  /\ past' = Append(past, [past[Len(past)] EXCEPT !.n = Len(past) + 1])
  /\ slipped' = TRUE
  /\ UNCHANGED <<red, run, bal, op, aside, aligner, images, readModel, synced,
                 source>>

-----------------------------------------------------------------------------
(* Crash and restart                                                       *)

Crash ==
  /\ stage # "down"
  /\ crashes < MaxCrashes
  /\ crashes' = crashes + 1
  /\ stage' = "down" /\ todo' = <<>> /\ at' = 0 /\ saving' = FALSE /\ aside' = 0
  /\ copy' = NoImage /\ saver' = "idle" /\ other' = NoImage
  /\ red' = Fresh /\ run' = NoPosition /\ bal' = 0
  /\ UNCHANGED <<log, aligned, images, readModel, past, slipped, synced, source,
                 ops, mishaps>>

\* Read at a restart only, so its time to live can be left to end there.
CacheExpires ==
  /\ stage = "down" /\ Found(cache)
  /\ cache' = NoImage
  /\ UNCHANGED <<log, red, run, bal, op, aside, aligner, file, snap, readModel,
                 past, slipped, synced, source, bounds>>

\* Mutant: rows of positions the wallet does not have are left.
AlignMerging(pos) ==
  \/ /\ proj' = IF pos.qty # 0 THEN pos.qty ELSE proj
     /\ missed' = FALSE /\ UNCHANGED bounds
  \/ proj' = proj /\ missed' = TRUE /\ Fault("align")

\* align_with_wallet replaces the read model's rows by the wallet's.
Align(pos) ==
  \/ proj' = pos.qty /\ missed' = FALSE /\ UNCHANGED bounds
  \/ proj' = proj /\ missed' = TRUE /\ Fault("align")

Up(img, from) ==
  /\ stage = "down"
  /\ stage' = "ready"
  /\ red' = Deserialized(img.red)
  /\ run' = Synced(img.pos, red')
  /\ bal' = red'.bal
  /\ source' = from
  /\ Align(run')
  /\ UNCHANGED <<log, todo, at, saving, copy, aside, aligner, images, past, slipped,
                 synced>>

\* The cache is taken as it is, without a replay.
LoadCache == Found(cache) /\ Up(cache, "cache")

LoadSnapshot ==
  /\ stage = "down" /\ ~Found(cache) /\ Found(snap)
  /\ stage' = "replay"
  /\ red' = Deserialized(snap.red)
  /\ run' = snap.pos
  /\ UNCHANGED <<log, bal, todo, at, saving, copy, aside, aligner, images, readModel,
                 past, slipped, synced, source, bounds>>

\* Skips as many rows as the snapshot counted, and applies the rest.
ReplayEvent ==
  /\ stage = "replay" /\ red.n < Len(log)
  /\ red' = Applied(red, log[red.n + 1])
  /\ UNCHANGED <<log, run, bal, op, aside, aligner, images, readModel, past, slipped,
                 synced, source, bounds>>

EndReplay ==
  /\ stage = "replay" /\ red.n >= Len(log)
  /\ stage' = "ready"
  /\ run' = Synced(run, red)
  /\ bal' = red.bal
  /\ source' = "db"
  /\ Align(run')
  /\ UNCHANGED <<log, red, todo, at, saving, copy, aside, aligner, images, past,
                 slipped, synced>>

LoadFile == ~Found(cache) /\ ~Found(snap) /\ Found(file) /\ Up(file, "file")

\* Without an image the journal is not read either.
StartEmpty ==
  ~Found(cache) /\ ~Found(snap) /\ ~Found(file) /\ Up(NoImage, "none")

Restart ==
  LoadCache \/ LoadSnapshot \/ ReplayEvent \/ EndReplay \/ LoadFile \/ StartEmpty

-----------------------------------------------------------------------------
Next ==
  \/ Begin \/ AppendEvent \/ ApplyEvent \/ SaveFile \/ SaveSnapshot \/ PutCache
  \/ AsideAppend \/ AsideApply \/ SyncBalance \/ AlignQuantity \/ SaveAligned
  \/ ForeignAppend \/ Crash \/ CacheExpires \/ Restart

Spec == Init /\ [][Next]_vars

-----------------------------------------------------------------------------
(* Properties                                                              *)

Ready == stage = "ready" /\ aside = 0

\* Without the quantity of a trade that was aligned, and without the balance
\* once the account's was saved for it.
Same(s, t, trades, balance) ==
  /\ s.n = t.n /\ s.trade = t.trade /\ s.sl = t.sl
  /\ s.trade \notin trades => s.qty = t.qty
  /\ ~balance => s.bal = t.bal

Journal == past[Len(log)]

(* Event sourcing: whenever nothing is in progress, the wallet is what its *)
(* journal's events amount to -- after a restart from snapshot and replay  *)
(* at whatever point the process died, and from cache or file if they      *)
(* counted all events -- as long as every event was counted at its own     *)
(* place.  The reconcilers' writes past the journal (reconciliation.py:    *)
(* 113-123, reconciler.py:159-173) reach no further than the quantity of   *)
(* the trades they aligned, and the balance.                               *)
JournalIsState ==
  Ready /\ ~slipped /\ (source \in {"boot", "db"} \/ red.n = Len(log))
    => Same(red, Journal, aligned, synced)

(* The protective orders a restart remembers are those the journal says    *)
(* rest, although snapshots keep them in the runtime positions only.       *)
StopsRemembered ==
  Ready /\ ~slipped /\ red.n = Len(log) /\ run.trade = red.trade
    => run.stops = Journal.stops

(* The runtime position follows the reducer's, whatever was replayed,      *)
(* aborted, reordered or aligned; it is the same trade unless the wallet   *)
(* died or failed to save twice without a save in between.                 *)
PositionIsReducers ==
  Ready /\ red.trade # 0
    => /\ run.qty = red.qty /\ run.sl = red.sl
       /\ ~slipped /\ crashes + mishaps <= 1 => run.trade = red.trade

(* The read model, fed one event at a time and aligned at boot, shows the  *)
(* open quantity unless it was not told: of an adoption, of an event the   *)
(* hook dropped, or of an alignment, until a close or a restart.           *)
ReadModelAgrees == Ready /\ ~missed => proj = red.qty
=============================================================================
