------------------------------- MODULE Ledger -------------------------------
(***************************************************************************)
(* The double-entry ledger: callers of LedgerService and PositionEngine,   *)
(* each on a connection of its own over one Postgres, or threads over one  *)
(* SQLite connection.                                                      *)
(*                                                                         *)
(* withdraw, convert, reserve_margin and release_margin read the account   *)
(* in one transaction and post in another; what they read may be stale by  *)
(* then.  The posting transaction itself is one step: _post_entry holds    *)
(* the account's row lock (SQLite: the connection's lock) until it         *)
(* commits, and an exception in it rolls all of it back.                   *)
(*                                                                         *)
(* The rows of ledger_entries are kept as their signed sum per account.    *)
(* PositionEngine loads a row in one transaction and writes all its        *)
(* columns in another, and takes no lock in between.                       *)
(***************************************************************************)
EXTENDS Integers, FiniteSets

CONSTANTS
  Callers,
  INR, USDT,      \* the two currencies
  Rate,           \* INR that buy one USDT, the ask
  MaxAmount,      \* bound: money of one call
  MaxQuantity,    \* bound: quantity of one fill
  Symbols,
  MaxOps,         \* bound: operations begun
  MaxUids,        \* bound: positions opened
  MaxFaults       \* bound: callers that die

ASSUME LedgerConstants ==
  /\ IsFiniteSet(Callers) /\ Callers # {}
  /\ "none" \notin Callers \cup Symbols
  /\ INR # USDT
  /\ Rate \in Nat \ {0}
  /\ {MaxAmount, MaxQuantity, MaxOps, MaxUids, MaxFaults} \subseteq Nat

Amounts == 1 .. MaxAmount
Quantities == 1 .. MaxQuantity
Currencies == {INR, USDT}
Uids == 1 .. MaxUids
NoOne == "none"

(* "checked" has the CHECKs of schema.sql (Postgres), "plain" has none     *)
(* (_bootstrap_sqlite).                                                    *)
Schemas == {"checked", "plain"}

VARIABLES
  schema,    \* which of the two the tables were created with
  acct,      \* currency_accounts
  entries,   \* entries[c]: sum of c's ledger_entries, credits less debits
  rows,      \* positions_v2, by position_uid
  op,        \* op[t]: what t is half-way through
  ops, faults,  \* spent bounds
  adjusted,  \* history: what recon_adjust was asked to correct
  corrected, \* history: how much of that took money away
  charged,   \* history: losses, fees, funding and corrections debited
  filled,    \* history: quantity of the position's fills
  raced      \* history: positions written over what somebody else had written

books   == <<acct, entries>>
money   == <<adjusted, corrected, charged>>
fills   == <<filled, raced>>
vars    == <<schema, books, rows, op, ops, faults, money, fills>>

Accounts == [ledger : Int, available : Int, locked : Int]
Statuses == {"open", "reducing", "closed"}
Row   == [sym : Symbols \cup {NoOne}, status : Statuses \cup {"none"}, qty : Int, fees : Nat]
NoRow == [sym |-> NoOne, status |-> "none", qty |-> 0, fees |-> 0]

(* What a call remembers between its transactions: the money, or the row  *)
(* it loaded and the one it will write.                                    *)
Pending(kind, c, amt, u, base, row) ==
  [kind |-> kind, cur |-> c, amt |-> amt, uid |-> u, base |-> base, row |-> row]
MoneyOp(kind, c, amt) == Pending(kind, c, amt, 0, NoRow, NoRow)
Idle == MoneyOp("idle", USDT, 0)
Kinds == {"idle", "withdraw", "convert", "reserve", "release", "open", "edit"}
Ops == [kind : Kinds, cur : Currencies, amt : Int, uid : Uids \cup {0}, base : Row, row : Row]

BooksType == acct \in [Currencies -> Accounts] /\ entries \in [Currencies -> Int]
RowsType  == rows \in [Uids -> Row] /\ filled \in [Uids -> Int] /\ raced \subseteq Uids
OpsType   == op \in [Callers -> Ops] /\ ops \in 0 .. MaxOps /\ faults \in 0 .. MaxFaults
MoneyType ==
  /\ adjusted \in [Currencies -> Int] /\ corrected \in [Currencies -> Nat]
  /\ charged \in [Currencies -> Nat]
TypeOK == schema \in Schemas /\ BooksType /\ RowsType /\ OpsType /\ MoneyType

Init ==
  /\ schema \in Schemas
  /\ acct = [c \in Currencies |-> [ledger |-> 0, available |-> 0, locked |-> 0]]
  /\ entries = [c \in Currencies |-> 0]
  /\ rows = [u \in Uids |-> NoRow]
  /\ op = [t \in Callers |-> Idle]
  /\ ops = 0 /\ faults = 0
  /\ adjusted = [c \in Currencies |-> 0] /\ corrected = [c \in Currencies |-> 0]
  /\ charged = [c \in Currencies |-> 0]
  /\ filled = [u \in Uids |-> 0] /\ raced = {}

-----------------------------------------------------------------------------
(* A public method is called. *)
Called(t) == op[t] = Idle /\ ops < MaxOps /\ ops' = ops + 1

Begin(t, kind, c, amt) == op' = [op EXCEPT ![t] = MoneyOp(kind, c, amt)]
Return(t) == op' = [op EXCEPT ![t] = Idle]

(* Mutant: the balance is not looked at again under the row lock. *)
PostableUnchecked(a, delta, exempt) == TRUE

(* _post_entry: refuses a balance below zero, except for PnL, fees,        *)
(* funding and corrections that debit.                                     *)
Postable(a, delta, exempt) == exempt \/ a.ledger + delta >= 0

(* Mutant: only debits move the balance. *)
PostDebit(a, delta) == IF delta < 0 THEN [a EXCEPT !.ledger = @ + delta] ELSE a

Post(a, delta) == [a EXCEPT !.ledger = @ + delta]

(* ... and the entry itself. *)
Enter(c, delta) == entries' = [entries EXCEPT ![c] = @ + delta]

(* deposit, withdraw and convert's USDT: available is set, not moved. *)
Rebalance(a) == [a EXCEPT !.available = a.ledger]

(* convert's INR: the locked balance is taken off, although the ledger     *)
(* balance is net of it already.                                           *)
RebalanceNet(a) == [a EXCEPT !.available = a.ledger - a.locked]

(* PnL, fees, funding, corrections: available is moved. *)
MoveAvailable(a, delta) == [a EXCEPT !.available = @ + delta]

Deposit(t, c, amt) ==
  /\ Called(t)
  /\ IF Postable(acct[c], amt, FALSE)
     THEN /\ acct' = [acct EXCEPT ![c] = Rebalance(Post(@, amt))]
          /\ Enter(c, amt)
     ELSE UNCHANGED books
  /\ UNCHANGED <<schema, rows, op, faults, money, fills>>

(* withdraw, up to its check of the available balance. *)
Withdraw(t, c, amt) ==
  /\ Called(t)
  /\ IF amt <= acct[c].available THEN Begin(t, "withdraw", c, amt) ELSE UNCHANGED op
  /\ UNCHANGED <<schema, books, rows, faults, money, fills>>

PostWithdrawal(t) ==
  LET c == op[t].cur
      amt == op[t].amt
  IN  /\ op[t].kind = "withdraw"
      /\ Return(t)
      /\ IF Postable(acct[c], -amt, FALSE)
         THEN /\ acct' = [acct EXCEPT ![c] = Rebalance(Post(@, -amt))]
              /\ Enter(c, -amt)
         ELSE UNCHANGED books
      /\ UNCHANGED <<schema, rows, ops, faults, money, fills>>

(* convert, up to its check of the available INR. *)
Convert(t, amt) ==
  /\ Called(t)
  /\ IF amt <= acct[INR].available THEN Begin(t, "convert", INR, amt) ELSE UNCHANGED op
  /\ UNCHANGED <<schema, books, rows, faults, money, fills>>

(* What the INR buys, rounded down. *)
Bought(amt) == amt \div Rate

(* The transaction of convert.  It fails as a whole if the INR are gone,   *)
(* if USDT stay overdrawn, or if what the INR buy rounds to nothing and    *)
(* the schema checks amounts.                                              *)
PostConversion(t) ==
  LET amt  == op[t].amt
      usdt == Bought(amt)
  IN  /\ op[t].kind = "convert"
      /\ Return(t)
      /\ IF /\ Postable(acct[INR], -amt, FALSE)
            /\ schema = "checked" => usdt > 0
            /\ Postable(acct[USDT], usdt, FALSE)
         THEN /\ acct' = [acct EXCEPT ![INR] = RebalanceNet(Post(@, -amt)),
                                      ![USDT] = Rebalance(Post(@, usdt))]
              /\ entries' = [entries EXCEPT ![INR] = @ - amt, ![USDT] = @ + usdt]
         ELSE UNCHANGED books
      /\ UNCHANGED <<schema, rows, ops, faults, money, fills>>

(* reserve_margin, up to its check of the available balance. *)
ReserveMargin(t, c, amt) ==
  /\ Called(t)
  /\ IF amt <= acct[c].available THEN Begin(t, "reserve", c, amt) ELSE UNCHANGED op
  /\ UNCHANGED <<schema, books, rows, faults, money, fills>>

(* Mutant: a release is not capped by the locked balance. *)
ReleasableUncapped(a, amt) == amt

(* release_margin frees what is locked at most. *)
Releasable(a, amt) == IF amt <= a.locked THEN amt ELSE a.locked

(* release_margin, up to that cap. *)
ReleaseMargin(t, c, amt) ==
  LET release == Releasable(acct[c], amt)
  IN  /\ Called(t)
      /\ IF release > 0 THEN Begin(t, "release", c, release) ELSE UNCHANGED op
      /\ UNCHANGED <<schema, books, rows, faults, money, fills>>

(* Mutant: what is locked stays available. *)
HoldStaysAvailable(a, amt) == [a EXCEPT !.locked = @ + amt]

(* The balance columns of both: amt moves from available to locked. *)
Hold(a, amt) == [a EXCEPT !.locked = @ + amt, !.available = @ - amt]

PostHold(t, kind, c, amt) ==
  /\ op[t].kind = kind
  /\ Return(t)
  /\ IF Postable(acct[c], -amt, FALSE)
     THEN /\ acct' = [acct EXCEPT ![c] = Hold(Post(@, -amt), amt)]
          /\ Enter(c, -amt)
     ELSE UNCHANGED books
  /\ UNCHANGED <<schema, rows, ops, faults, money, fills>>

PostReserve(t) == PostHold(t, "reserve", op[t].cur, op[t].amt)
PostRelease(t) == PostHold(t, "release", op[t].cur, -op[t].amt)

(* book_realized_pnl, charge_fee, book_funding: one transaction.  Debits   *)
(* may overdraw; a credit is refused while the account stays overdrawn.    *)
Book(t, c, delta) ==
  /\ Called(t)
  /\ IF Postable(acct[c], delta, delta < 0)
     THEN /\ acct' = [acct EXCEPT ![c] = MoveAvailable(Post(@, delta), delta)]
          /\ Enter(c, delta)
          /\ charged' = [charged EXCEPT ![c] = IF delta < 0 THEN @ - delta ELSE @]
     ELSE UNCHANGED <<books, charged>>
  /\ UNCHANGED <<schema, rows, op, faults, adjusted, corrected, fills>>

(* recon_adjust: _post_entry moves the balance, and so does its UPDATE. *)
ReconAdjust(t, c, delta) ==
  /\ Called(t)
  /\ acct' = [acct EXCEPT ![c] = MoveAvailable(Post(Post(@, delta), delta), delta)]
  /\ Enter(c, delta)
  /\ adjusted' = [adjusted EXCEPT ![c] = @ + delta]
  /\ corrected' = [corrected EXCEPT ![c] = IF delta < 0 THEN @ - delta ELSE @]
  /\ charged' = [charged EXCEPT ![c] = IF delta < 0 THEN @ - 2 * delta ELSE @]
  /\ UNCHANGED <<schema, rows, op, faults, fills>>

(* A caller dies: what it had open is rolled back. *)
Die(t) ==
  /\ faults < MaxFaults /\ faults' = faults + 1
  /\ op[t] # Idle /\ Return(t)
  /\ UNCHANGED <<schema, books, rows, ops, money, fills>>

-----------------------------------------------------------------------------
(* get_open_position *)
OpenOn(sym) == {u \in Uids : rows[u].sym = sym /\ rows[u].status = "open"}

(* Uids nobody uses: a new position gets a fresh one. *)
FreeUids == {u \in Uids : rows[u] = NoRow /\ \A t \in Callers : op[t].uid # u}

(* open_position, up to its check that the symbol has no open position. *)
OpenPosition(t, sym, qty) ==
  /\ Called(t)
  /\ IF OpenOn(sym) = {} /\ FreeUids # {}
     THEN \E u \in FreeUids :
            /\ \A v \in FreeUids : u <= v
            /\ op' = [op EXCEPT ![t] = Pending("open", USDT, qty, u, NoRow,
                        [sym |-> sym, status |-> "open", qty |-> qty, fees |-> 0])]
     ELSE UNCHANGED op
  /\ UNCHANGED <<schema, books, rows, faults, money, fills>>

(* Mutant: a full exit leaves the row open. *)
ReducedStillOpen(row, qty) == [row EXCEPT !.qty = @ - qty, !.status = "open"]

(* reduce_position on the row it loaded. *)
Reduced(row, qty) ==
  [row EXCEPT !.qty = @ - qty, !.status = IF qty = row.qty THEN "closed" ELSE "reducing"]

(* The rows add_to_position, reduce_position (and close_position, which    *)
(* reduces by all of it) and accrue_fee would write for a row they loaded; *)
(* none where they raise.                                                  *)
Edits(row, qty) ==
  {[row EXCEPT !.fees = @ + 1]}
  \cup (IF row.status = "open" THEN {[row EXCEPT !.qty = @ + qty]} ELSE {})
  \cup (IF row.status \in {"open", "reducing"} /\ qty <= row.qty THEN {Reduced(row, qty)} ELSE {})

(* One of them, up to its load of the row. *)
LoadPosition(t, u, qty) ==
  /\ Called(t)
  /\ rows[u] # NoRow
  /\ \E row \in Edits(rows[u], qty) :
       op' = [op EXCEPT ![t] = Pending("edit", USDT, row.qty - rows[u].qty, u, rows[u], row)]
  /\ UNCHANGED <<schema, books, rows, faults, money, fills>>

(* _update_position and _insert_position write every column, whatever the  *)
(* row holds by now; a checked status refuses "reducing".                  *)
WriteRow(t) ==
  LET u == op[t].uid
  IN  /\ op[t].kind \in {"open", "edit"}
      /\ Return(t)
      /\ IF schema = "checked" /\ op[t].row.status = "reducing"
         THEN UNCHANGED <<rows, fills>>
         ELSE /\ rows' = [rows EXCEPT ![u] = op[t].row]
              /\ filled' = [filled EXCEPT ![u] = @ + op[t].amt]
              /\ raced' = IF rows[u] = op[t].base THEN raced ELSE raced \cup {u}
      /\ UNCHANGED <<schema, books, ops, faults, money>>

Money(t) ==
  \/ \E c \in Currencies, amt \in Amounts :
       \/ Deposit(t, c, amt) \/ Withdraw(t, c, amt)
       \/ ReserveMargin(t, c, amt) \/ ReleaseMargin(t, c, amt)
       \/ Book(t, c, amt) \/ Book(t, c, -amt) \/ ReconAdjust(t, c, amt) \/ ReconAdjust(t, c, -amt)
  \/ \E amt \in Amounts : Convert(t, amt)
  \/ PostWithdrawal(t) \/ PostConversion(t) \/ PostReserve(t) \/ PostRelease(t)
  \/ Die(t)

Position(t) ==
  \/ \E sym \in Symbols, qty \in Quantities : OpenPosition(t, sym, qty)
  \/ \E u \in Uids, qty \in Quantities : LoadPosition(t, u, qty)
  \/ WriteRow(t)

(* The bounds are spent. *)
Done ==
  /\ ops = MaxOps /\ \A t \in Callers : op[t] = Idle
  /\ UNCHANGED vars

Next == (\E t \in Callers : Money(t) \/ Position(t)) \/ Done

Spec == Init /\ [][Next]_vars

-----------------------------------------------------------------------------
(* Every balance is what a replay of its entries gives, plus what          *)
(* recon_adjust added a second time: nothing else moves a balance without  *)
(* its entry (service.py:4, verify_balance_integrity).                     *)
ReplayExplainsBalance == \A c \in Currencies : acct[c].ledger = entries[c] + adjusted[c]

(* Two callers may pass the check of the available balance on the same     *)
(* money; the row-locked check in _post_entry stops the second: only       *)
(* losses, fees, funding and corrections ever overdraw an account.         *)
NoOverdraft == \A c \in Currencies : acct[c].ledger >= -charged[c]

(* What callers who release at once can free beyond what is locked: every  *)
(* one but the first posts a release capped by a balance since released.   *)
ReleasedTwice == (Cardinality(Callers) - 1) * MaxAmount

(* release_margin caps by a locked balance it read in an earlier           *)
(* transaction (service.py:326), and nothing looks at it again: two        *)
(* callers free the same margin, and the locked balance goes negative.     *)
(* By no more than that, however long it goes on: a balance at or below    *)
(* zero starts no further release.                                         *)
DoubleReleaseBounded == \A c \in Currencies : acct[c].locked >= -ReleasedTwice

(* The available balance, which every check of funds relies on, never      *)
(* promises more than the ledger balance, which is net of reserved margin: *)
(* although some operations set it and others move it, although convert    *)
(* takes the locked balance off once more, and whatever checks were stale. *)
(* Beyond it go only what corrections took from the ledger balance twice,  *)
(* and, in INR, what a conversion adds for margin released twice.          *)
AvailableBacked ==
  \A c \in Currencies :
    acct[c].available <= acct[c].ledger + corrected[c] + (IF c = INR THEN ReleasedTwice ELSE 0)

(* A row tells its position's fills, and exactly the positions without     *)
(* quantity are closed, unless one caller wrote the row over what another  *)
(* had written since it was loaded (nothing stops it: no caller takes      *)
(* RedisLayer.lock, and UPDATE sets every column).                         *)
QuantityIsFills ==
  \A u \in Uids \ raced :
    rows[u] # NoRow => /\ rows[u].qty = filled[u]
                       /\ (rows[u].status = "closed") <=> (rows[u].qty = 0)
=============================================================================
