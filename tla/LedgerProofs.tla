---------------------------- MODULE LedgerProofs ----------------------------
(***************************************************************************)
(* Ledger for any number of callers, amounts, operations and faults: what  *)
(* the balances are made of, how far stale checks can take them, and what  *)
(* holds of the positions without a lock.                                  *)
(***************************************************************************)
EXTENDS Ledger, FiniteSetTheorems, TLAPS

(* The bounds, one by one. *)
LEMMA Bounds ==
  /\ Rate \in Nat \ {0} /\ MaxAmount \in Nat /\ MaxQuantity \in Nat
  /\ MaxOps \in Nat /\ MaxUids \in Nat /\ MaxFaults \in Nat
  /\ INR \in Currencies /\ USDT \in Currencies /\ INR # USDT
  /\ NoOne \notin Symbols
  BY LedgerConstants DEF Currencies, NoOne

LEMMA AmountFacts ==
  ASSUME NEW amt \in Amounts
  PROVE  amt \in Int /\ -amt \in Int /\ amt > 0 /\ amt <= MaxAmount
  BY Bounds DEF Amounts

-----------------------------------------------------------------------------
(* What the operators on an account do to its three balances. *)
LEMMA PostFacts ==
  ASSUME NEW a \in Accounts, NEW d \in Int
  PROVE  /\ Post(a, d) \in Accounts
         /\ Post(a, d).ledger = a.ledger + d
         /\ Post(a, d).available = a.available
         /\ Post(a, d).locked = a.locked
  BY DEF Post, Accounts

LEMMA RebalanceFacts ==
  ASSUME NEW a \in Accounts
  PROVE  /\ Rebalance(a) \in Accounts
         /\ Rebalance(a).ledger = a.ledger
         /\ Rebalance(a).available = a.ledger
         /\ Rebalance(a).locked = a.locked
  BY DEF Rebalance, Accounts

LEMMA HoldFacts ==
  ASSUME NEW a \in Accounts, NEW d \in Int
  PROVE  /\ Hold(a, d) \in Accounts
         /\ Hold(a, d).ledger = a.ledger
         /\ Hold(a, d).available = a.available - d
         /\ Hold(a, d).locked = a.locked + d
<1>. DEFINE b == [a EXCEPT !.locked = @ + d]
<1>1. b \in Accounts /\ b.ledger = a.ledger /\ b.available = a.available /\ b.locked = a.locked + d
  BY DEF Accounts
<1>. HIDE DEF b
<1>2. LET c == [b EXCEPT !.available = @ - d]
      IN  c \in Accounts /\ c.ledger = b.ledger /\ c.available = b.available - d /\ c.locked = b.locked
  BY <1>1 DEF Accounts
<1>3. Hold(a, d) = [b EXCEPT !.available = @ - d]
  BY DEF Hold, b, Accounts
<1>. QED
  BY <1>1, <1>2, <1>3

LEMMA AvailableFacts ==
  ASSUME NEW a \in Accounts, NEW v \in Int
  PROVE  LET b == [a EXCEPT !.available = v]
         IN  b \in Accounts /\ b.ledger = a.ledger /\ b.available = v /\ b.locked = a.locked
  BY DEF Accounts

(* Account b is account a after d was posted, m locked, and the available  *)
(* balance became v.                                                       *)
Became(b, a, d, m, v) ==
  /\ b \in Accounts
  /\ b.ledger = a.ledger + d /\ b.locked = a.locked + m /\ b.available = v

LEMMA PostRebalance ==
  ASSUME NEW a \in Accounts, NEW d \in Int
  PROVE  Became(Rebalance(Post(a, d)), a, d, 0, a.ledger + d)
<1>1. a.locked + 0 = a.locked
  BY DEF Accounts
<1>. QED
  BY <1>1, PostFacts, RebalanceFacts DEF Became

LEMMA PostMove ==
  ASSUME NEW a \in Accounts, NEW d \in Int
  PROVE  Became(MoveAvailable(Post(a, d), d), a, d, 0, a.available + d)
<1>. DEFINE b == Post(a, d)
<1>1. b \in Accounts /\ b.ledger = a.ledger + d /\ b.available = a.available /\ b.locked = a.locked
  BY PostFacts
<1>. HIDE DEF b
<1>2. Became(MoveAvailable(b, d), a, d, 0, a.available + d)
  BY <1>1 DEF Became, Accounts, MoveAvailable
<1>. QED
  BY <1>2 DEF b

LEMMA PostTwice ==
  ASSUME NEW a \in Accounts, NEW d \in Int
  PROVE  Became(MoveAvailable(Post(Post(a, d), d), d), a, d + d, 0, a.available + d)
<1>. DEFINE b == Post(Post(a, d), d)
<1>1. b \in Accounts /\ b.ledger = a.ledger + d + d /\ b.available = a.available /\ b.locked = a.locked
  BY PostFacts
<1>. HIDE DEF b
<1>2. Became(MoveAvailable(b, d), a, d + d, 0, a.available + d)
  BY <1>1 DEF Became, Accounts, MoveAvailable
<1>. QED
  BY <1>2 DEF b

LEMMA PostNet ==
  ASSUME NEW a \in Accounts, NEW d \in Int
  PROVE  LET b == Post(a, d)
         IN  Became(RebalanceNet(b), a, d, 0, a.ledger + d - a.locked)
<1>. DEFINE b == Post(a, d)
<1>1. b \in Accounts /\ b.ledger = a.ledger + d /\ b.locked = a.locked
  BY PostFacts
<1>. HIDE DEF b
<1>2. Became(RebalanceNet(b), a, d, 0, a.ledger + d - a.locked)
  BY <1>1 DEF Became, Accounts, RebalanceNet
<1>. QED
  BY <1>2 DEF b

LEMMA PostHeld ==
  ASSUME NEW a \in Accounts, NEW m \in Int
  PROVE  Became(Hold(Post(a, -m), m), a, -m, m, a.available - m)
<1>. DEFINE b == Post(a, -m)
<1>1. b \in Accounts /\ b.ledger = a.ledger + (-m) /\ b.available = a.available /\ b.locked = a.locked
  BY PostFacts, -m \in Int
<1>. HIDE DEF b
<1>2. Became(Hold(b, m), a, -m, m, a.available - m)
  BY <1>1, HoldFacts DEF Became
<1>. QED
  BY <1>2 DEF b

(* What a step may do to account c: d is entered and m moved to the locked *)
(* margin, x is added without an entry, y is charged, z was taken by a     *)
(* correction; the ledger balance falls below zero only by what is         *)
(* charged.                                                                *)
MovesBy(c, d, m, x, y, z) ==
  /\ acct'[c] \in Accounts
  /\ entries'[c] = entries[c] + d
  /\ adjusted'[c] = adjusted[c] + x
  /\ acct'[c].ledger = acct[c].ledger + d + x
  /\ acct'[c].locked = acct[c].locked + m
  /\ charged'[c] = charged[c] + y
  /\ corrected'[c] = corrected[c] + z
  /\ acct[c].ledger + d + x >= 0 \/ d + x + y >= 0
  /\ x + z >= 0
  /\ \/ acct'[c].available = acct'[c].ledger
     \/ acct'[c].available - acct[c].available = d
     \/ c = INR /\ acct'[c].available = acct'[c].ledger - acct'[c].locked

Moves(c) == \E d, m, x \in Int, y, z \in Nat : MovesBy(c, d, m, x, y, z)

LEMMA AccountFacts ==
  ASSUME BooksType, MoneyType, NEW c \in Currencies
  PROVE  /\ acct[c] \in Accounts /\ entries[c] \in Int
         /\ adjusted[c] \in Int /\ charged[c] \in Nat /\ corrected[c] \in Nat
         /\ acct[c].ledger \in Int /\ acct[c].locked \in Int /\ acct[c].available \in Int
  BY DEF BooksType, MoneyType, Accounts

(* What a step leaves of an account and its histories. *)
Stays(c) ==
  /\ acct'[c] = acct[c] /\ entries'[c] = entries[c]
  /\ adjusted'[c] = adjusted[c] /\ charged'[c] = charged[c] /\ corrected'[c] = corrected[c]

LEMMA StayMoves ==
  ASSUME BooksType, MoneyType, NEW c \in Currencies, Stays(c)
  PROVE  Moves(c)
<1>1. MovesBy(c, 0, 0, 0, 0, 0)
  BY AccountFacts DEF MovesBy, Stays
<1>. QED
  BY <1>1 DEF Moves

(* One lemma per operation that posts. *)
LEMMA DepositMoves ==
  ASSUME BooksType, MoneyType, NEW t \in Callers, NEW c \in Currencies, NEW amt \in Amounts,
         Deposit(t, c, amt), Postable(acct[c], amt, FALSE)
  PROVE  Moves(c)
<1>0. amt \in Int
  BY AmountFacts
<1>1. Became(acct'[c], acct[c], amt, 0, acct[c].ledger + amt)
  <2>1. acct'[c] = Rebalance(Post(acct[c], amt))
    BY DEF Deposit, BooksType
  <2>. QED
    BY <1>0, <2>1, PostRebalance, AccountFacts
<1>2. entries'[c] = entries[c] + amt /\ UNCHANGED money
  BY DEF Deposit, Enter, BooksType
<1>3. acct[c].ledger + amt >= 0
  BY DEF Postable
<1>4. MovesBy(c, amt, 0, 0, 0, 0)
  BY <1>0, <1>1, <1>2, <1>3, AccountFacts DEF MovesBy, Became, money
<1>. QED
  BY <1>0, <1>4 DEF Moves

LEMMA WithdrawalMoves ==
  ASSUME BooksType, MoneyType, OpsType, NEW t \in Callers, PostWithdrawal(t),
         Postable(acct[op[t].cur], -op[t].amt, FALSE)
  PROVE  Moves(op[t].cur)
<1>. DEFINE c == op[t].cur
            d == -op[t].amt
<1>0. c \in Currencies /\ op[t].amt \in Int /\ d \in Int
  BY DEF OpsType, Ops
<1>1. Became(acct'[c], acct[c], d, 0, acct[c].ledger + d)
  <2>1. acct'[c] = Rebalance(Post(acct[c], d))
    BY <1>0 DEF PostWithdrawal, BooksType
  <2>. QED
    BY <1>0, <2>1, PostRebalance, AccountFacts
<1>2. entries'[c] = entries[c] + d /\ UNCHANGED money
  BY <1>0 DEF PostWithdrawal, Enter, BooksType
<1>3. acct[c].ledger + d >= 0
  BY DEF Postable
<1>. HIDE DEF c, d
<1>4. MovesBy(c, d, 0, 0, 0, 0)
  BY <1>0, <1>1, <1>2, <1>3, AccountFacts DEF MovesBy, Became, money
<1>. QED
  BY <1>0, <1>4 DEF Moves, c

LEMMA HoldMoves ==
  ASSUME BooksType, MoneyType, NEW t \in Callers, NEW kind, NEW c \in Currencies, NEW m \in Int,
         PostHold(t, kind, c, m), Postable(acct[c], -m, FALSE)
  PROVE  Moves(c) /\ acct'[c].locked = acct[c].locked + m
<1>1. Became(acct'[c], acct[c], -m, m, acct[c].available - m)
  <2>1. acct'[c] = Hold(Post(acct[c], -m), m)
    BY DEF PostHold, BooksType
  <2>. QED
    BY <2>1, PostHeld, AccountFacts
<1>2. entries'[c] = entries[c] - m /\ UNCHANGED money
  BY AccountFacts DEF PostHold, Enter, BooksType
<1>3. acct[c].ledger - m >= 0
  BY AccountFacts DEF Postable
<1>4. MovesBy(c, -m, m, 0, 0, 0)
  BY <1>1, <1>2, <1>3, AccountFacts DEF MovesBy, Became, money
<1>5. Moves(c)
  BY <1>4, -m \in Int, 0 \in Int, 0 \in Nat DEF Moves
<1>. QED
  BY <1>1, <1>5 DEF Became

LEMMA BookMoves ==
  ASSUME BooksType, MoneyType, NEW t \in Callers, NEW c \in Currencies, NEW d \in Int,
         Book(t, c, d), Postable(acct[c], d, d < 0)
  PROVE  Moves(c) /\ acct'[c].locked = acct[c].locked
<1>. DEFINE y == IF d < 0 THEN -d ELSE 0
<1>1. Became(acct'[c], acct[c], d, 0, acct[c].available + d)
  <2>1. acct'[c] = MoveAvailable(Post(acct[c], d), d)
    BY DEF Book, BooksType
  <2>. QED
    BY <2>1, PostMove, AccountFacts
<1>2. /\ entries'[c] = entries[c] + d
      /\ charged'[c] = charged[c] + y /\ UNCHANGED <<adjusted, corrected>>
  BY AccountFacts DEF Book, Enter, BooksType, MoneyType
<1>3. y \in Nat /\ (acct[c].ledger + d >= 0 \/ d + y >= 0)
  BY AccountFacts DEF Postable
<1>. HIDE DEF y
<1>4. MovesBy(c, d, 0, 0, y, 0)
  BY <1>1, <1>2, <1>3, AccountFacts DEF MovesBy, Became
<1>. QED
  BY <1>1, <1>3, <1>4, AccountFacts DEF Moves, Became

LEMMA AdjustMoves ==
  ASSUME BooksType, MoneyType, NEW t \in Callers, NEW c \in Currencies, NEW d \in Int,
         ReconAdjust(t, c, d)
  PROVE  Moves(c) /\ acct'[c].locked = acct[c].locked
<1>. DEFINE y == IF d < 0 THEN -(2 * d) ELSE 0
            z == IF d < 0 THEN -d ELSE 0
<1>1. Became(acct'[c], acct[c], d + d, 0, acct[c].available + d)
  <2>1. acct'[c] = MoveAvailable(Post(Post(acct[c], d), d), d)
    BY DEF ReconAdjust, BooksType
  <2>. QED
    BY <2>1, PostTwice, AccountFacts
<1>2. /\ entries'[c] = entries[c] + d /\ adjusted'[c] = adjusted[c] + d
      /\ charged'[c] = charged[c] + y /\ corrected'[c] = corrected[c] + z
  BY AccountFacts DEF ReconAdjust, Enter, BooksType, MoneyType
<1>3. y \in Nat /\ z \in Nat /\ d + z >= 0 /\ (acct[c].ledger + d + d >= 0 \/ d + d + y >= 0)
  BY AccountFacts
<1>. HIDE DEF y, z
<1>4. MovesBy(c, d, 0, d, y, z)
  BY <1>1, <1>2, <1>3, AccountFacts DEF MovesBy, Became
<1>. QED
  BY <1>1, <1>3, <1>4, AccountFacts DEF Moves, Became

(* A conversion that posts, whatever the USDT bought. *)
Converts(t) ==
  /\ Postable(acct[INR], -op[t].amt, FALSE)
  /\ schema = "checked" => Bought(op[t].amt) > 0
  /\ Postable(acct[USDT], Bought(op[t].amt), FALSE)

LEMMA ConversionMoves ==
  ASSUME BooksType, MoneyType, OpsType, NEW t \in Callers, PostConversion(t), Converts(t)
  PROVE  /\ Moves(INR) /\ Moves(USDT)
         /\ \A c \in Currencies : acct'[c].locked = acct[c].locked
<1>. DEFINE d == -op[t].amt
            u == Bought(op[t].amt)
<1>0. op[t].amt \in Int /\ d \in Int /\ u \in Int
  BY Bounds DEF OpsType, Ops, Bought
<1>1. Became(acct'[INR], acct[INR], d, 0, acct[INR].ledger + d - acct[INR].locked)
  <2>1. acct'[INR] = RebalanceNet(Post(acct[INR], d))
    BY Bounds DEF PostConversion, BooksType, Converts
  <2>. QED
    BY <1>0, <2>1, PostNet, AccountFacts, Bounds
<1>2. Became(acct'[USDT], acct[USDT], u, 0, acct[USDT].ledger + u)
  <2>1. acct'[USDT] = Rebalance(Post(acct[USDT], u))
    BY Bounds DEF PostConversion, BooksType, Converts
  <2>. QED
    BY <1>0, <2>1, PostRebalance, AccountFacts, Bounds
<1>3. /\ entries'[INR] = entries[INR] + d
      /\ entries'[USDT] = entries[USDT] + u
      /\ UNCHANGED money
  BY <1>0, Bounds, AccountFacts DEF PostConversion, BooksType, Converts
<1>4. acct[INR].ledger + d >= 0 /\ acct[USDT].ledger + u >= 0
  BY DEF Postable, Converts
<1>. HIDE DEF d, u
<1>5. MovesBy(INR, d, 0, 0, 0, 0)
  BY <1>0, <1>1, <1>3, <1>4, AccountFacts, Bounds DEF MovesBy, Became, money
<1>6. MovesBy(USDT, u, 0, 0, 0, 0)
  BY <1>0, <1>2, <1>3, <1>4, AccountFacts, Bounds DEF MovesBy, Became, money
<1>7. Moves(INR)
  BY <1>0, <1>5, 0 \in Int, 0 \in Nat DEF Moves
<1>8. Moves(USDT)
  BY <1>0, <1>6, 0 \in Int, 0 \in Nat DEF Moves
<1>9. \A c \in Currencies : acct'[c].locked = acct[c].locked
  BY <1>1, <1>2, AccountFacts, Bounds DEF Became, Currencies
<1>. QED
  BY <1>7, <1>8, <1>9


-----------------------------------------------------------------------------
(* What an edit may make of a row. *)
LEMMA EditFacts ==
  ASSUME NEW r \in Row, NEW qty \in Nat \ {0}, NEW e \in Edits(r, qty)
  PROVE  /\ e \in Row
         /\ \/ e.qty = r.qty /\ e.status = r.status
            \/ r.status = "open" /\ e.status = "open" /\ e.qty = r.qty + qty
            \/ /\ r.status \in {"open", "reducing"} /\ qty <= r.qty /\ e.qty = r.qty - qty
               /\ e.status = IF qty = r.qty THEN "closed" ELSE "reducing"
<1>1. CASE e = [r EXCEPT !.fees = @ + 1]
  BY <1>1 DEF Row
<1>2. CASE r.status = "open" /\ e = [r EXCEPT !.qty = @ + qty]
  BY <1>2 DEF Row
<1>3. CASE r.status \in {"open", "reducing"} /\ qty <= r.qty /\ e = Reduced(r, qty)
  <2>. DEFINE f == [r EXCEPT !.qty = @ - qty]
  <2>1. f \in Row /\ f.qty = r.qty - qty
    BY DEF Row
  <2>2. e = [f EXCEPT !.status = IF qty = r.qty THEN "closed" ELSE "reducing"]
    BY <1>3 DEF Reduced, Row
  <2>. HIDE DEF f
  <2>3. e \in Row /\ e.qty = f.qty /\ e.status = IF qty = r.qty THEN "closed" ELSE "reducing"
    BY <2>1, <2>2 DEF Row, Statuses
  <2>. QED
    BY <1>3, <2>1, <2>3
<1>. QED
  BY <1>1, <1>2, <1>3 DEF Edits

(* What a call may have to remember: an amount; or the row of a new        *)
(* position; or a row as it was loaded and what an edit makes of it.       *)
MoneyKinds == {"withdraw", "convert", "reserve", "release"}
Opens(o) ==
  /\ o.uid \in Uids /\ o.base = NoRow
  /\ o.row.status = "open" /\ o.row.qty > 0 /\ o.amt = o.row.qty
Changes(o) ==
  /\ o.uid \in Uids /\ o.base # NoRow
  /\ o.amt = o.row.qty - o.base.qty
  /\ \E qty \in Nat \ {0} : o.row \in Edits(o.base, qty)
Sound(o) ==
  /\ o \in Ops
  /\ o.kind \in MoneyKinds => o.amt \in Amounts
  /\ o.kind = "open" => Opens(o)
  /\ o.kind = "edit" => Changes(o)

OpInv == \A t \in Callers : Sound(op[t])

LEMMA IdleFacts ==
  /\ NoRow \in Row /\ NoRow.qty = 0 /\ NoRow.status = "none"
  /\ Idle \in Ops /\ Idle.kind = "idle" /\ Sound(Idle)
  BY Bounds DEF NoRow, Row, Idle, MoneyOp, Pending, Ops, Kinds, Sound, MoneyKinds

LEMMA MoneyOpSound ==
  ASSUME NEW kind \in MoneyKinds, NEW c \in Currencies, NEW amt \in Amounts
  PROVE  LET o == MoneyOp(kind, c, amt)
         IN  Sound(o) /\ o.kind = kind /\ o.cur = c /\ o.amt = amt
<1>1. amt \in Int
  BY AmountFacts
<1>2. LET o == MoneyOp(kind, c, amt)
      IN  o \in Ops /\ o.kind = kind /\ o.cur = c /\ o.amt = amt
  BY <1>1, IdleFacts DEF MoneyOp, Pending, Ops, Kinds, MoneyKinds
<1>. QED
  BY <1>2 DEF Sound, MoneyKinds

(* How the calls move on: none does; one begins, a release by no more than *)
(* is locked then; or one ends, with its margin moved or not.              *)
LockedBy(o, c) ==
  IF o.cur # c THEN 0
  ELSE IF o.kind = "reserve" THEN o.amt ELSE IF o.kind = "release" THEN -o.amt ELSE 0

Keeps(c) == acct'[c].locked = acct[c].locked
Waits == op' = op /\ \A c \in Currencies : Keeps(c)
Begins(t, o) ==
  /\ op[t] = Idle /\ op' = [op EXCEPT ![t] = o] /\ Sound(o)
  /\ o.kind = "release" => o.amt <= acct[o.cur].locked
  /\ \A c \in Currencies : Keeps(c)
Ends(t) ==
  /\ op' = [op EXCEPT ![t] = Idle]
  /\ \A c \in Currencies : Keeps(c) \/ acct'[c].locked = acct[c].locked + LockedBy(op[t], c)

Steps ==
  \/ Waits
  \/ \E t \in Callers, o \in Ops : Begins(t, o)
  \/ \E t \in Callers : Ends(t)

(* A step moves every account, if only by nothing, and the calls on.       *)
Result == (\A c \in Currencies : Moves(c)) /\ Steps

LEMMA QuietStep ==
  ASSUME TypeOK, UNCHANGED <<books, money>>,
         \/ op' = op
         \/ \E t \in Callers : op' = [op EXCEPT ![t] = Idle]
         \/ \E t \in Callers, o \in Ops :
               /\ op[t] = Idle /\ op' = [op EXCEPT ![t] = o] /\ Sound(o)
               /\ o.kind = "release" => o.amt <= acct[o.cur].locked
  PROVE  Result
<1>1. \A c \in Currencies : Stays(c) /\ Keeps(c)
  BY DEF books, money, Stays, Keeps
<1>2. \A c \in Currencies : Moves(c)
  BY <1>1, StayMoves DEF TypeOK
<1>3. Steps
  BY <1>1 DEF Steps, Waits, Begins, Ends
<1>. QED
  BY <1>2, <1>3 DEF Result

(* A posting to one account. *)
LEMMA PostStep ==
  ASSUME TypeOK, NEW c \in Currencies, Moves(c), \A other \in Currencies \ {c} : Stays(other),
         \/ op' = op /\ Keeps(c)
         \/ \E t \in Callers : /\ op' = [op EXCEPT ![t] = Idle]
                               /\ Keeps(c) \/ acct'[c].locked = acct[c].locked + LockedBy(op[t], c)
  PROVE  Result
<1>1. \A other \in Currencies \ {c} : Moves(other) /\ Keeps(other)
  BY StayMoves DEF TypeOK, Stays, Keeps
<1>2. Steps
  BY <1>1 DEF Steps, Waits, Ends
<1>. QED
  BY <1>1, <1>2 DEF Result

LEMMA MoneySteps ==
  ASSUME TypeOK, OpInv, NEW t \in Callers, Money(t)
  PROVE  Result
<1>. USE DEF TypeOK
<1>0. op[t].amt \in Int /\ op[t].cur \in Currencies /\ -op[t].amt \in Int
  BY DEF OpsType, Ops
<1>1. ASSUME NEW c \in Currencies, NEW amt \in Amounts, Deposit(t, c, amt)
      PROVE  Result
  <2>1. CASE Postable(acct[c], amt, FALSE)
    <3>1. Moves(c)
      BY <1>1, <2>1, DepositMoves
    <3>2. \A other \in Currencies \ {c} : Stays(other)
      BY <1>1, <2>1 DEF Deposit, Enter, BooksType, money, Stays
    <3>3. op' = op /\ Keeps(c)
      <4>1. acct'[c] = Rebalance(Post(acct[c], amt))
        BY <1>1, <2>1 DEF Deposit, BooksType
      <4>. QED
        BY <1>1, <4>1, PostRebalance, AccountFacts, AmountFacts DEF Deposit, Became, Keeps
    <3>. QED
      BY <3>1, <3>2, <3>3, PostStep
  <2>2. CASE ~Postable(acct[c], amt, FALSE)
    BY <1>1, <2>2, QuietStep DEF Deposit, money
  <2>. QED
    BY <2>1, <2>2
<1>2. CASE PostWithdrawal(t)
  <2>. DEFINE c == op[t].cur
  <2>1. CASE Postable(acct[c], -op[t].amt, FALSE)
    <3>1. Moves(c)
      BY <1>2, <2>1, WithdrawalMoves
    <3>2. \A other \in Currencies \ {c} : Stays(other)
      BY <1>0, <1>2, <2>1 DEF PostWithdrawal, Enter, BooksType, money, Stays
    <3>3. op' = [op EXCEPT ![t] = Idle] /\ Keeps(c)
      <4>1. acct'[c] = Rebalance(Post(acct[c], -op[t].amt))
        BY <1>0, <1>2, <2>1 DEF PostWithdrawal, BooksType
      <4>2. acct'[c].locked = acct[c].locked + 0
        BY <1>0, <4>1, PostRebalance, AccountFacts DEF Became
      <4>3. Keeps(c)
        BY <1>0, <4>2, AccountFacts DEF Keeps
      <4>. QED
        BY <1>2, <4>3 DEF PostWithdrawal, Return
    <3>. QED
      BY <1>0, <3>1, <3>2, <3>3, PostStep
  <2>2. CASE ~Postable(acct[c], -op[t].amt, FALSE)
    BY <1>2, <2>2, QuietStep DEF PostWithdrawal, Return, money
  <2>. QED
    BY <2>1, <2>2
<1>3. ASSUME NEW kind, NEW m \in Int, PostHold(t, kind, op[t].cur, m), m = LockedBy(op[t], op[t].cur)
      PROVE  Result
  <2>. DEFINE c == op[t].cur
  <2>1. CASE Postable(acct[c], -m, FALSE)
    <3>1. Moves(c) /\ acct'[c].locked = acct[c].locked + m
      BY <1>0, <1>3, <2>1, HoldMoves
    <3>2. \A other \in Currencies \ {c} : Stays(other)
      BY <1>0, <1>3, <2>1 DEF PostHold, Enter, BooksType, money, Stays
    <3>3. op' = [op EXCEPT ![t] = Idle]
      BY <1>3 DEF PostHold, Return
    <3>. QED
      BY <1>0, <1>3, <3>1, <3>2, <3>3, PostStep
  <2>2. CASE ~Postable(acct[c], -m, FALSE)
    BY <1>3, <2>2, QuietStep DEF PostHold, Return, money
  <2>. QED
    BY <2>1, <2>2
<1>4. CASE PostReserve(t)
  <2>1. op[t].amt = LockedBy(op[t], op[t].cur)
    BY <1>4 DEF PostReserve, PostHold, LockedBy
  <2>. QED
    BY <1>0, <1>3, <1>4, <2>1 DEF PostReserve
<1>5. CASE PostRelease(t)
  <2>1. -op[t].amt = LockedBy(op[t], op[t].cur)
    BY <1>5 DEF PostRelease, PostHold, LockedBy
  <2>. QED
    BY <1>0, <1>3, <1>5, <2>1 DEF PostRelease
<1>6. ASSUME NEW c \in Currencies, NEW d \in Int, Book(t, c, d)
      PROVE  Result
  <2>1. CASE Postable(acct[c], d, d < 0)
    <3>1. Moves(c) /\ Keeps(c)
      BY <1>6, <2>1, BookMoves DEF Keeps
    <3>2. \A other \in Currencies \ {c} : Stays(other)
      BY <1>6, <2>1 DEF Book, Enter, BooksType, MoneyType, Stays
    <3>3. op' = op
      BY <1>6 DEF Book
    <3>. QED
      BY <3>1, <3>2, <3>3, PostStep
  <2>2. CASE ~Postable(acct[c], d, d < 0)
    BY <1>6, <2>2, QuietStep DEF Book, money
  <2>. QED
    BY <2>1, <2>2
<1>7. ASSUME NEW c \in Currencies, NEW d \in Int, ReconAdjust(t, c, d)
      PROVE  Result
  <2>1. Moves(c) /\ Keeps(c)
    BY <1>7, AdjustMoves DEF Keeps
  <2>2. \A other \in Currencies \ {c} : Stays(other)
    BY <1>7 DEF ReconAdjust, Enter, BooksType, MoneyType, Stays
  <2>3. op' = op
    BY <1>7 DEF ReconAdjust
  <2>. QED
    BY <2>1, <2>2, <2>3, PostStep
<1>8. CASE PostConversion(t)
  <2>1. CASE Converts(t)
    <3>1. \A c \in Currencies : Moves(c) /\ Keeps(c)
      BY <1>8, <2>1, ConversionMoves DEF Currencies, Keeps
    <3>2. Steps
      BY <1>8, <3>1 DEF PostConversion, Return, Steps, Ends
    <3>. QED
      BY <3>1, <3>2 DEF Result
  <2>2. CASE ~Converts(t)
    <3>1. UNCHANGED <<books, money>> /\ op' = [op EXCEPT ![t] = Idle]
      BY <1>8, <2>2 DEF PostConversion, Converts, Return
    <3>. QED
      BY <3>1, QuietStep
  <2>. QED
    BY <2>1, <2>2
(* A call that begins, or is refused. *)
<1>9. ASSUME NEW kind \in MoneyKinds, NEW c \in Currencies, NEW amt \in Amounts, op[t] = Idle,
             UNCHANGED <<books, money>>, Begin(t, kind, c, amt) \/ UNCHANGED op,
             kind = "release" => amt <= acct[c].locked \/ UNCHANGED op
      PROVE  Result
  <2>. DEFINE o == MoneyOp(kind, c, amt)
  <2>1. Sound(o) /\ o.kind = kind /\ o.cur = c /\ o.amt = amt
    BY MoneyOpSound
  <2>2. op' = [op EXCEPT ![t] = o] \/ op' = op
    BY <1>9 DEF Begin
  <2>. HIDE DEF o
  <2>3. o \in Ops
    BY <2>1 DEF Sound
  <2>. QED
    BY <1>9, <2>1, <2>2, <2>3, QuietStep
<1>10. ASSUME NEW c \in Currencies, NEW amt \in Amounts,
              Withdraw(t, c, amt) \/ ReserveMargin(t, c, amt)
       PROVE  Result
  BY <1>9, <1>10 DEF Withdraw, ReserveMargin, Called, MoneyKinds
<1>11. ASSUME NEW amt \in Amounts, Convert(t, amt)
       PROVE  Result
  BY <1>9, <1>11, Bounds DEF Convert, Called, MoneyKinds
<1>12. ASSUME NEW c \in Currencies, NEW amt \in Amounts, ReleaseMargin(t, c, amt)
       PROVE  Result
  <2>. DEFINE r == Releasable(acct[c], amt)
  <2>1. CASE r > 0
    <3>1. r \in Amounts /\ r <= acct[c].locked
      BY <2>1, AccountFacts, AmountFacts, Bounds DEF Releasable, Amounts
    <3>2. Begin(t, "release", c, r) /\ op[t] = Idle /\ UNCHANGED <<books, money>>
      BY <1>12, <2>1 DEF ReleaseMargin, Called
    <3>. HIDE DEF r
    <3>. QED
      BY <1>9, <3>1, <3>2 DEF MoneyKinds
  <2>2. CASE ~(r > 0)
    BY <1>12, <2>2, QuietStep DEF ReleaseMargin
  <2>. QED
    BY <2>1, <2>2
<1>13. CASE Die(t)
  BY <1>13, QuietStep DEF Die, Return
<1>14. ASSUME NEW c \in Currencies, NEW amt \in Amounts,
              Book(t, c, amt) \/ Book(t, c, -amt) \/ ReconAdjust(t, c, amt) \/ ReconAdjust(t, c, -amt)
       PROVE  Result
  <2>1. amt \in Int /\ -amt \in Int
    BY AmountFacts
  <2>. QED
    BY <1>6, <1>7, <1>14, <2>1
<1>. QED
  BY <1>1, <1>2, <1>4, <1>5, <1>8, <1>10, <1>11, <1>12, <1>13, <1>14 DEF Money

LEMMA PositionSteps ==
  ASSUME TypeOK, OpInv, NEW t \in Callers, Position(t)
  PROVE  Result
<1>. USE DEF TypeOK
<1>1. ASSUME NEW sym \in Symbols, NEW qty \in Quantities, OpenPosition(t, sym, qty)
      PROVE  Result
  <2>1. CASE op' = op
    BY <1>1, <2>1, QuietStep DEF OpenPosition
  <2>2. CASE op' # op
    <3>. DEFINE row == [sym |-> sym, status |-> "open", qty |-> qty, fees |-> 0]
    <3>0. qty \in Int /\ qty > 0
      BY Bounds DEF Quantities
    <3>1. row \in Row /\ row.status = "open" /\ row.qty = qty
      BY <3>0 DEF Row, Statuses
    <3>2. PICK u \in FreeUids : op' = [op EXCEPT ![t] = Pending("open", USDT, qty, u, NoRow, row)]
      BY <1>1, <2>2 DEF OpenPosition
    <3>. HIDE DEF row
    <3>. DEFINE o == Pending("open", USDT, qty, u, NoRow, row)
    <3>3. u \in Uids
      BY DEF FreeUids
    <3>4. /\ o \in Ops /\ o.kind = "open" /\ o.uid = u /\ o.row = row /\ o.base = NoRow /\ o.amt = qty
      BY <3>0, <3>1, <3>3, IdleFacts, Bounds DEF Ops, Kinds, Pending
    <3>5. op' = [op EXCEPT ![t] = o]
      BY <3>2
    <3>. HIDE DEF o
    <3>6. Sound(o)
      BY <3>0, <3>1, <3>3, <3>4 DEF Sound, Opens, MoneyKinds
    <3>. QED
      BY <1>1, <3>4, <3>5, <3>6, QuietStep DEF OpenPosition, Called
  <2>. QED
    BY <2>1, <2>2
<1>2. ASSUME NEW u \in Uids, NEW qty \in Quantities, LoadPosition(t, u, qty)
      PROVE  Result
  <2>1. PICK row \in Edits(rows[u], qty) :
          op' = [op EXCEPT ![t] = Pending("edit", USDT, row.qty - rows[u].qty, u, rows[u], row)]
    BY <1>2 DEF LoadPosition
  <2>. DEFINE amt == row.qty - rows[u].qty
              o == Pending("edit", USDT, amt, u, rows[u], row)
  <2>2. rows[u] \in Row /\ qty \in Nat \ {0}
    BY Bounds DEF RowsType, Quantities
  <2>3. row \in Row /\ amt \in Int
    <3>1. row \in Row
      BY <2>2, EditFacts
    <3>. QED
      BY <2>2, <3>1 DEF Row
  <2>. HIDE DEF amt
  <2>4. o \in Ops /\ o.kind = "edit" /\ o.uid = u /\ o.row = row /\ o.base = rows[u] /\ o.amt = amt
    BY <2>2, <2>3, Bounds DEF Ops, Kinds, Pending
  <2>5. op' = [op EXCEPT ![t] = o]
    BY <2>1 DEF amt
  <2>. HIDE DEF o
  <2>6. Sound(o)
    BY <1>2, <2>2, <2>4 DEF Sound, Changes, MoneyKinds, LoadPosition, amt
  <2>. QED
    BY <1>2, <2>4, <2>5, <2>6, QuietStep DEF LoadPosition, Called
<1>3. CASE WriteRow(t)
  BY <1>3, QuietStep DEF WriteRow, Return
<1>. QED
  BY <1>1, <1>2, <1>3 DEF Position

LEMMA StepFacts ==
  ASSUME TypeOK, OpInv, [Next]_vars
  PROVE  Result
<1>1. CASE Done \/ UNCHANGED vars
  BY <1>1, QuietStep DEF Done, vars
<1>. QED
  BY <1>1, MoneySteps, PositionSteps DEF Next

-----------------------------------------------------------------------------
(* Types. *)
LEMMA OpInvStep ==
  ASSUME TypeOK, OpInv, [Next]_vars
  PROVE  op' \in [Callers -> Ops] /\ OpInv'
<1>1. op \in [Callers -> Ops]
  BY DEF TypeOK, OpsType
<1>2. Steps
  BY StepFacts DEF Result
<1>3. \/ op' = op
      \/ \E t \in Callers, o \in Ops : op' = [op EXCEPT ![t] = o] /\ Sound(o)
      \/ \E t \in Callers : op' = [op EXCEPT ![t] = Idle]
  BY <1>2 DEF Steps, Waits, Begins, Ends
<1>. QED
  BY <1>1, <1>3, IdleFacts DEF OpInv

LEMMA CountsStep ==
  ASSUME TypeOK, [Next]_vars
  PROVE  ops' \in 0 .. MaxOps /\ faults' \in 0 .. MaxFaults /\ schema' = schema
<1>. DEFINE Counted == /\ ops' = ops \/ (ops < MaxOps /\ ops' = ops + 1)
                       /\ faults' = faults \/ (faults < MaxFaults /\ faults' = faults + 1)
                       /\ schema' = schema
<1>1. ASSUME NEW t \in Callers, Money(t)  PROVE Counted
  <2>1. CASE \/ \E c \in Currencies, amt \in Amounts : Deposit(t, c, amt) \/ Withdraw(t, c, amt)
             \/ \E amt \in Amounts : Convert(t, amt)
    BY <2>1 DEF Called, Deposit, Withdraw, Convert
  <2>2. CASE \E c \in Currencies, amt \in Amounts : ReserveMargin(t, c, amt) \/ ReleaseMargin(t, c, amt)
    BY <2>2 DEF Called, ReserveMargin, ReleaseMargin
  <2>3. ASSUME NEW c \in Currencies, NEW d, Book(t, c, d) \/ ReconAdjust(t, c, d)
        PROVE  Counted
    BY <2>3 DEF Called, Book, ReconAdjust
  <2>4. CASE PostWithdrawal(t) \/ PostConversion(t) \/ PostReserve(t) \/ PostRelease(t) \/ Die(t)
    BY <2>4 DEF PostWithdrawal, PostConversion, PostReserve, PostRelease, PostHold, Die
  <2>. HIDE DEF Counted
  <2>. QED
    BY <1>1, <2>1, <2>2, <2>3, <2>4 DEF Money
<1>2. ASSUME NEW t \in Callers, Position(t)  PROVE Counted
  BY <1>2 DEF Position, Called, OpenPosition, LoadPosition, WriteRow
<1>3. ASSUME Done \/ UNCHANGED vars  PROVE Counted
  BY <1>3 DEF Done, vars
<1>4. Counted
  <2>. HIDE DEF Counted
  <2>. QED
    BY <1>1, <1>2, <1>3 DEF Next
<1>5. ops \in 0 .. MaxOps /\ faults \in 0 .. MaxFaults
  BY DEF TypeOK, OpsType
<1>. QED
  BY <1>4, <1>5, Bounds

(* Books and histories stay functions of the currencies. *)
Books ==
  /\ acct = [c \in Currencies |-> acct[c]] /\ entries = [c \in Currencies |-> entries[c]]
  /\ adjusted = [c \in Currencies |-> adjusted[c]]
  /\ corrected = [c \in Currencies |-> corrected[c]] /\ charged = [c \in Currencies |-> charged[c]]

LEMMA BooksStep ==
  ASSUME TypeOK, OpInv, [Next]_vars
  PROVE  (BooksType /\ MoneyType)'
<1>. USE DEF TypeOK, BooksType, MoneyType
<1>1. Books'
  <2>1. ASSUME UNCHANGED <<books, money>>  PROVE Books'
    BY <2>1 DEF Books, books, money
  <2>2. ASSUME NEW t \in Callers, NEW c \in Currencies, NEW d \in Int,
               Deposit(t, c, d) \/ Book(t, c, d) \/ ReconAdjust(t, c, d)
        PROVE Books'
    BY <2>2 DEF Books, Deposit, Book, ReconAdjust, Enter, books, money
  <2>3. ASSUME NEW t \in Callers, \/ PostWithdrawal(t) \/ PostConversion(t)
                                  \/ PostReserve(t) \/ PostRelease(t)
        PROVE Books'
    BY <2>3 DEF Books, PostWithdrawal, PostConversion, PostReserve, PostRelease, PostHold, Enter, books, money
  <2>4. ASSUME NEW t \in Callers, Money(t)  PROVE Books'
    <3>1. CASE \/ \E c \in Currencies, amt \in Amounts :
                    Withdraw(t, c, amt) \/ ReserveMargin(t, c, amt) \/ ReleaseMargin(t, c, amt)
               \/ \E amt \in Amounts : Convert(t, amt)
               \/ Die(t)
      BY <2>1, <3>1 DEF Withdraw, ReserveMargin, ReleaseMargin, Convert, Die
    <3>2. \A amt \in Amounts : amt \in Int /\ -amt \in Int
      BY AmountFacts
    <3>. QED
      BY <2>2, <2>3, <2>4, <3>1, <3>2 DEF Money
  <2>5. ASSUME NEW t \in Callers, Position(t)  PROVE Books'
    BY <2>1, <2>5 DEF Position, OpenPosition, LoadPosition, WriteRow
  <2>6. CASE Done \/ UNCHANGED vars
    BY <2>1, <2>6 DEF Done, vars
  <2>. QED
    BY <2>4, <2>5, <2>6 DEF Next
<1>2. ASSUME NEW c \in Currencies
      PROVE  /\ acct'[c] \in Accounts /\ entries'[c] \in Int
             /\ adjusted'[c] \in Int /\ charged'[c] \in Nat /\ corrected'[c] \in Nat
  BY StepFacts, AccountFacts DEF Result, Moves, MovesBy
<1>. QED
  BY <1>1, <1>2 DEF Books

(* All that happens to rows. *)
LEMMA RowSteps ==
  ASSUME [Next]_vars
  PROVE  UNCHANGED <<rows, fills>> \/ \E t \in Callers : WriteRow(t)
<1>1. ASSUME NEW t \in Callers, Money(t)  PROVE UNCHANGED <<rows, fills>>
  BY <1>1 DEF Money, Deposit, Withdraw, PostWithdrawal, Convert, PostConversion, ReserveMargin, ReleaseMargin,
     PostReserve, PostRelease, PostHold, Book, ReconAdjust, Die
<1>2. ASSUME NEW t \in Callers, Position(t)  PROVE UNCHANGED <<rows, fills>> \/ WriteRow(t)
  BY <1>2 DEF Position, OpenPosition, LoadPosition
<1>3. CASE Done \/ UNCHANGED vars
  BY <1>3 DEF Done, vars
<1>. QED
  BY <1>1, <1>2, <1>3 DEF Next

(* A row is written as its operation has it, and its fill counted. *)
Writes(t) ==
  LET u == op[t].uid
  IN  /\ u \in Uids
      /\ rows' = [rows EXCEPT ![u] = op[t].row]
      /\ filled' = [filled EXCEPT ![u] = @ + op[t].amt]
      /\ raced' = IF rows[u] = op[t].base THEN raced ELSE raced \cup {u}

LEMMA WriteSteps ==
  ASSUME OpInv, NEW t \in Callers, WriteRow(t)
  PROVE  op[t].kind \in {"open", "edit"} /\ (UNCHANGED <<rows, fills>> \/ Writes(t))
  BY DEF WriteRow, OpInv, Sound, Opens, Changes, Writes

LEMMA RowsStep ==
  ASSUME TypeOK, OpInv, [Next]_vars
  PROVE  RowsType'
<1>. USE DEF TypeOK, RowsType
<1>1. CASE UNCHANGED <<rows, fills>>
  BY <1>1 DEF fills
<1>2. ASSUME NEW t \in Callers, Writes(t)  PROVE RowsType'
  <2>1. op[t].row \in Row /\ op[t].amt \in Int
    BY DEF OpsType, Ops
  <2>. QED
    BY <1>2, <2>1 DEF Writes
<1>. QED
  BY <1>1, <1>2, RowSteps, WriteSteps

Typed == TypeOK /\ OpInv

THEOREM TypedAlways == Spec => []Typed
<1>1. Init => Typed
  <2>. SUFFICES ASSUME Init PROVE Typed
    OBVIOUS
  <2>. USE Bounds, IdleFacts
  <2>1. BooksType /\ MoneyType
    BY DEF Init, BooksType, MoneyType, Accounts
  <2>2. RowsType
    BY DEF Init, RowsType
  <2>3. OpsType
    BY DEF Init, OpsType
  <2>4. OpInv
    BY DEF Init, OpInv
  <2>. QED
    BY <2>1, <2>2, <2>3, <2>4 DEF Init, Typed, TypeOK
<1>2. Typed /\ [Next]_vars => Typed'
  <2>. SUFFICES ASSUME Typed, [Next]_vars PROVE Typed'
    OBVIOUS
  <2>1. schema' \in Schemas
    BY CountsStep DEF Typed, TypeOK
  <2>. QED
    BY <2>1, BooksStep, OpInvStep, CountsStep, RowsStep DEF Typed, TypeOK, OpsType
<1>. QED
  BY <1>1, <1>2, PTL DEF Spec

(* Types hold in every state of every behaviour. *)
THEOREM TypeCorrect == Spec => []TypeOK
  BY TypedAlways, PTL DEF Typed

-----------------------------------------------------------------------------
(* Margin under release: the units a pending release has still to free.    *)
Share(t, o, c) == IF o.kind = "release" /\ o.cur = c THEN {t} \X (1 .. o.amt) ELSE {}
Freed(c) ==
  {p \in Callers \X Amounts :
     op[p[1]].kind = "release" /\ op[p[1]].cur = c /\ p[2] <= op[p[1]].amt}

(* What is locked, less what pending releases will free, stays above the   *)
(* bound; a release that begins finds at least its own amount locked.      *)
ReleaseInv == \A c \in Currencies : acct[c].locked - Cardinality(Freed(c)) >= -ReleasedTwice

LEMMA CallersFacts == IsFiniteSet(Callers) /\ Cardinality(Callers) \in Nat \ {0} /\ ReleasedTwice \in Nat
<1>1. IsFiniteSet(Callers) /\ Callers # {}
  BY LedgerConstants
<1>2. Cardinality(Callers) \in Nat /\ Cardinality(Callers) # 0
  BY <1>1, FS_CardinalityType, FS_EmptySet
<1>3. ReleasedTwice \in Nat
  <2>1. \A a, b \in Nat : a * b \in Nat
    OBVIOUS
  <2>2. Cardinality(Callers) - 1 \in Nat
    BY <1>2
  <2>. QED
    BY <2>1, <2>2, Bounds DEF ReleasedTwice
<1>. QED
  BY <1>1, <1>2, <1>3

LEMMA FreedFinite == \A c : IsFiniteSet(Freed(c)) /\ Cardinality(Freed(c)) \in Nat
<1>1. IsFiniteSet(Callers \X Amounts)
  <2>1. IsFiniteSet(1 .. MaxAmount)
    BY FS_Interval, Bounds, 1 \in Int, MaxAmount \in Int
  <2>. QED
    BY <2>1, CallersFacts, FS_Product DEF Amounts
<1>2. \A c : Freed(c) \in SUBSET (Callers \X Amounts)
  BY DEF Freed
<1>. QED
  BY <1>1, <1>2, FS_Subset, FS_CardinalityType

LEMMA ShareSize ==
  ASSUME NEW t \in Callers, NEW o, Sound(o), NEW c
  PROVE  /\ Share(t, o, c) \subseteq {t} \X Amounts
         /\ IsFiniteSet(Share(t, o, c))
         /\ Cardinality(Share(t, o, c)) = IF o.kind = "release" /\ o.cur = c THEN o.amt ELSE 0
<1>1. CASE o.kind = "release" /\ o.cur = c
  <2>1. o.amt \in Amounts
    BY <1>1 DEF Sound, MoneyKinds
  <2>2. o.amt \in Int /\ o.amt > 0 /\ o.amt <= MaxAmount
    BY <2>1, AmountFacts
  <2>3. IsFiniteSet(1 .. o.amt) /\ Cardinality(1 .. o.amt) = o.amt
    <3>1. IsFiniteSet(1 .. o.amt) /\ Cardinality(1 .. o.amt) = IF 1 > o.amt THEN 0 ELSE o.amt - 1 + 1
      BY <2>2, FS_Interval, 1 \in Int, Zenon
    <3>. QED
      BY <2>2, <3>1
  <2>4. IsFiniteSet({t}) /\ Cardinality({t}) = 1
    BY FS_Singleton
  <2>5. IsFiniteSet({t} \X (1 .. o.amt)) /\ Cardinality({t} \X (1 .. o.amt)) = 1 * o.amt
    BY <2>3, <2>4, FS_Product
  <2>6. 1 .. o.amt \subseteq Amounts
    BY <2>2, Bounds DEF Amounts
  <2>7. Share(t, o, c) = {t} \X (1 .. o.amt)
    BY <1>1 DEF Share
  <2>8. {t} \X (1 .. o.amt) \subseteq {t} \X Amounts
    BY <2>6
  <2>. QED
    BY <1>1, <2>2, <2>5, <2>7, <2>8
<1>2. CASE ~(o.kind = "release" /\ o.cur = c)
  BY <1>2, FS_EmptySet DEF Share
<1>. QED
  BY <1>1, <1>2

(* The units of the callers, as one of them begins or ends. *)
LEMMA FreedAfter ==
  ASSUME OpInv, op \in [Callers -> Ops], NEW t \in Callers, NEW o \in Ops, Sound(o),
         op' = [op EXCEPT ![t] = o], NEW c
  PROVE  /\ Freed(c)' = (Freed(c) \ Share(t, op[t], c)) \cup Share(t, o, c)
         /\ Share(t, op[t], c) \subseteq Freed(c)
<1>1. ASSUME NEW a, Sound(a), NEW p \in Callers \X Amounts
      PROVE  p \in Share(t, a, c) <=> p[1] = t /\ a.kind = "release" /\ a.cur = c /\ p[2] <= a.amt
  <2>1. CASE a.kind = "release" /\ a.cur = c
    <3>1. a.amt \in Int
      BY <1>1, <2>1, AmountFacts DEF Sound, MoneyKinds
    <3>2. p[2] \in Int /\ p[2] >= 1 /\ p = <<p[1], p[2]>>
      BY Bounds DEF Amounts
    <3>. QED
      BY <2>1, <3>1, <3>2 DEF Share
  <2>2. CASE ~(a.kind = "release" /\ a.cur = c)
    BY <2>2 DEF Share
  <2>. QED
    BY <2>1, <2>2
<1>2. Sound(op[t])
  BY DEF OpInv
<1>3. Share(t, op[t], c) \subseteq Callers \X Amounts /\ Share(t, o, c) \subseteq Callers \X Amounts
  BY <1>2, ShareSize
<1>4. Share(t, op[t], c) \subseteq Freed(c)
  <2>. SUFFICES ASSUME NEW p \in Share(t, op[t], c) PROVE p \in Freed(c)
    OBVIOUS
  <2>1. p \in Callers \X Amounts
    BY <1>3
  <2>2. p[1] = t /\ op[t].kind = "release" /\ op[t].cur = c /\ p[2] <= op[t].amt
    BY <1>1, <1>2, <2>1
  <2>. QED
    BY <2>1, <2>2 DEF Freed
<1>5. ASSUME NEW p \in Callers \X Amounts
      PROVE  p \in Freed(c)' <=> p \in (Freed(c) \ Share(t, op[t], c)) \cup Share(t, o, c)
  <2>1. p[1] \in Callers
    OBVIOUS
  <2>2. CASE p[1] = t
    <3>1. op'[p[1]] = o
      BY <2>2
    <3>2. p \in Freed(c)' <=> p \in Share(t, o, c)
      BY <1>1, <2>2, <3>1 DEF Freed
    <3>3. p \in Freed(c) <=> p \in Share(t, op[t], c)
      BY <1>1, <1>2, <2>2 DEF Freed
    <3>. QED
      BY <3>2, <3>3
  <2>3. CASE p[1] # t
    <3>1. op'[p[1]] = op[p[1]]
      BY <2>1, <2>3
    <3>2. p \in Freed(c)' <=> p \in Freed(c)
      BY <3>1 DEF Freed
    <3>3. p \notin Share(t, o, c) /\ p \notin Share(t, op[t], c)
      BY <1>1, <1>2, <2>3
    <3>. QED
      BY <3>2, <3>3
  <2>. QED
    BY <2>2, <2>3
<1>6. Freed(c)' \subseteq Callers \X Amounts /\ Freed(c) \subseteq Callers \X Amounts
  BY DEF Freed
<1>7. Freed(c)' = (Freed(c) \ Share(t, op[t], c)) \cup Share(t, o, c)
  BY <1>3, <1>5, <1>6
<1>. QED
  BY <1>4, <1>7

LEMMA ReleaseStep ==
  ASSUME Typed, ReleaseInv, [Next]_vars, NEW c \in Currencies
  PROVE  acct'[c].locked - Cardinality(Freed(c)') >= -ReleasedTwice
<1>1. TypeOK /\ OpInv /\ op \in [Callers -> Ops]
  BY DEF Typed, TypeOK, OpsType
<1>2. /\ acct[c].locked - Cardinality(Freed(c)) >= -ReleasedTwice
      /\ acct[c].locked \in Int /\ acct'[c].locked \in Int
      /\ Cardinality(Freed(c)) \in Nat /\ IsFiniteSet(Freed(c)) /\ ReleasedTwice \in Nat
  BY <1>1, AccountFacts, BooksStep, FreedFinite, CallersFacts DEF ReleaseInv, TypeOK, BooksType, Accounts
<1>3. CASE Waits
  <2>1. acct'[c].locked = acct[c].locked /\ Freed(c)' = Freed(c)
    BY <1>3 DEF Waits, Keeps, Freed
  <2>. QED
    BY <1>2, <2>1
<1>4. ASSUME NEW t \in Callers, NEW o \in Ops, Begins(t, o)
      PROVE  acct'[c].locked - Cardinality(Freed(c)') >= -ReleasedTwice
  <2>1. Sound(o) /\ acct'[c].locked = acct[c].locked /\ Share(t, op[t], c) = {}
    BY <1>4, IdleFacts DEF Begins, Keeps, Share
  <2>2. Freed(c)' = Freed(c) \cup Share(t, o, c)
    BY <1>1, <1>4, <2>1, FreedAfter DEF Begins
  <2>3. CASE o.kind = "release" /\ o.cur = c
    <3>1. o.amt \in Int /\ o.amt > 0 /\ o.amt <= acct[c].locked
      BY <1>4, <2>1, <2>3, AmountFacts DEF Begins, Sound, MoneyKinds
    <3>. DEFINE others == (Callers \ {t}) \X Amounts
    <3>2. Freed(c) \subseteq others
      <4>. SUFFICES ASSUME NEW p \in Freed(c) PROVE p \in others
        OBVIOUS
      <4>1. p \in Callers \X Amounts /\ op[p[1]].kind = "release"
        BY DEF Freed
      <4>2. p[1] # t
        BY <1>4, <4>1, IdleFacts DEF Begins
      <4>. QED
        BY <4>1, <4>2
    <3>3. IsFiniteSet(others) /\ Cardinality(others) = ReleasedTwice
      <4>1. IsFiniteSet(Callers \ {t}) /\ Cardinality(Callers \ {t}) = Cardinality(Callers) - 1
        BY CallersFacts, FS_RemoveElement
      <4>2. IsFiniteSet(Amounts) /\ Cardinality(Amounts) = MaxAmount
        BY FS_Interval, Bounds DEF Amounts
      <4>3. IsFiniteSet(others) /\ Cardinality(others) = Cardinality(Callers \ {t}) * Cardinality(Amounts)
        BY <4>1, <4>2, FS_Product
      <4>. QED
        BY <4>1, <4>2, <4>3 DEF ReleasedTwice
    <3>4. Cardinality(Freed(c)) <= ReleasedTwice
      BY <3>2, <3>3, FS_Subset
    <3>5. /\ IsFiniteSet(Share(t, o, c)) /\ Cardinality(Share(t, o, c)) = o.amt
          /\ Share(t, o, c) \subseteq {t} \X Amounts
      BY <2>1, <2>3, ShareSize
    <3>6. Freed(c) \cap Share(t, o, c) = {}
      BY <3>2, <3>5
    <3>7. Cardinality(Freed(c)') = Cardinality(Freed(c)) + o.amt
      <4>1. Cardinality(Freed(c) \cup Share(t, o, c)) =
              Cardinality(Freed(c)) + Cardinality(Share(t, o, c)) - Cardinality(Freed(c) \cap Share(t, o, c))
        BY <1>2, <3>5, FS_Union
      <4>2. Cardinality(Freed(c) \cap Share(t, o, c)) = 0
        BY <3>6, FS_EmptySet
      <4>. QED
        BY <1>2, <2>2, <3>1, <3>5, <4>1, <4>2
    <3>. QED
      BY <1>2, <2>1, <3>1, <3>4, <3>7
  <2>4. CASE ~(o.kind = "release" /\ o.cur = c)
    <3>1. Freed(c)' = Freed(c)
      BY <2>2, <2>4 DEF Share
    <3>. QED
      BY <1>2, <2>1, <3>1
  <2>. QED
    BY <2>3, <2>4
<1>5. ASSUME NEW t \in Callers, Ends(t)
      PROVE  acct'[c].locked - Cardinality(Freed(c)') >= -ReleasedTwice
  <2>. DEFINE r == IF op[t].kind = "release" /\ op[t].cur = c THEN op[t].amt ELSE 0
  <2>1. Idle \in Ops /\ Sound(Idle) /\ Share(t, Idle, c) = {} /\ Sound(op[t])
    BY <1>1, IdleFacts DEF Share, OpInv
  <2>2. Freed(c)' = Freed(c) \ Share(t, op[t], c) /\ Share(t, op[t], c) \subseteq Freed(c)
    <3>1. op' = [op EXCEPT ![t] = Idle]
      BY <1>5 DEF Ends
    <3>2. /\ Freed(c)' = (Freed(c) \ Share(t, op[t], c)) \cup Share(t, Idle, c)
          /\ Share(t, op[t], c) \subseteq Freed(c)
      BY <1>1, <2>1, <3>1, FreedAfter
    <3>. QED
      BY <2>1, <3>2
  <2>3. IsFiniteSet(Share(t, op[t], c)) /\ Cardinality(Share(t, op[t], c)) = r
    BY <2>1, ShareSize
  <2>4. r \in Nat
    BY <2>1, AmountFacts DEF Sound, MoneyKinds
  <2>5. Cardinality(Freed(c)') = Cardinality(Freed(c)) - r
    <3>1. Cardinality(Freed(c) \ Share(t, op[t], c)) =
            Cardinality(Freed(c)) - Cardinality(Freed(c) \cap Share(t, op[t], c))
      BY <1>2, FS_Difference
    <3>2. Freed(c) \cap Share(t, op[t], c) = Share(t, op[t], c)
      BY <2>2
    <3>. QED
      BY <2>2, <2>3, <3>1, <3>2
  <2>6. acct'[c].locked >= acct[c].locked - r
    <3>1. Keeps(c) \/ acct'[c].locked = acct[c].locked + LockedBy(op[t], c)
      BY <1>5 DEF Ends
    <3>2. LockedBy(op[t], c) \in Int /\ LockedBy(op[t], c) >= -r
      BY <2>1, AmountFacts DEF LockedBy, Sound, MoneyKinds
    <3>. HIDE DEF r
    <3>. QED
      BY <1>2, <2>4, <3>1, <3>2 DEF Keeps
  <2>. HIDE DEF r
  <2>. QED
    BY <1>2, <2>4, <2>5, <2>6
<1>. QED
  BY <1>1, <1>3, <1>4, <1>5, StepFacts DEF Result, Steps

(* However long callers race, each frees at most once more than is locked. *)
THEOREM ReleaseSafe == Spec => []DoubleReleaseBounded
<1>1. Init => ReleaseInv
  <2>. SUFFICES ASSUME Init, NEW c \in Currencies
                PROVE  acct[c].locked - Cardinality(Freed(c)) >= -ReleasedTwice
    BY DEF ReleaseInv
  <2>1. Freed(c) = {}
    BY IdleFacts DEF Init, Freed
  <2>2. acct[c].locked = 0
    BY DEF Init
  <2>. QED
    BY <2>1, <2>2, FS_EmptySet, CallersFacts
<1>2. Typed /\ ReleaseInv /\ [Next]_vars => ReleaseInv'
  BY ReleaseStep DEF ReleaseInv
<1>3. Typed /\ ReleaseInv => DoubleReleaseBounded
  BY AccountFacts, FreedFinite, CallersFacts DEF ReleaseInv, DoubleReleaseBounded, Typed, TypeOK
<1>. QED
  BY <1>1, <1>2, <1>3, TypedAlways, PTL DEF Spec

-----------------------------------------------------------------------------
(* The statements on the balances move together. *)
BooksInv == ReplayExplainsBalance /\ NoOverdraft /\ AvailableBacked

LEMMA BooksInvStep ==
  ASSUME Typed, BooksInv, DoubleReleaseBounded', [Next]_vars
  PROVE  BooksInv'
<1>. USE DEF Typed, TypeOK
<1>. DEFINE x2(c) == IF c = INR THEN ReleasedTwice ELSE 0
<1>1. ASSUME NEW c \in Currencies
      PROVE  /\ acct'[c].ledger = entries'[c] + adjusted'[c]
             /\ acct'[c].ledger >= -charged'[c]
             /\ acct'[c].available <= acct'[c].ledger + corrected'[c] + x2(c)
  <2>1. PICK d \in Int, m \in Int, x \in Int, y \in Nat, z \in Nat : MovesBy(c, d, m, x, y, z)
    BY StepFacts DEF Result, Moves
  <2>2. /\ acct[c].ledger = entries[c] + adjusted[c]
        /\ acct[c].ledger >= -charged[c]
        /\ acct[c].available <= acct[c].ledger + corrected[c] + x2(c)
    BY DEF BooksInv, ReplayExplainsBalance, NoOverdraft, AvailableBacked
  <2>3. acct'[c].ledger \in Int /\ acct'[c].locked \in Int /\ acct'[c].available \in Int
    BY <2>1 DEF MovesBy, Accounts
  <2>4. x2(c) \in Nat /\ (c = INR => acct'[c].locked >= -x2(c))
    BY CallersFacts DEF DoubleReleaseBounded
  <2>. HIDE DEF x2
  <2>. QED
    BY <2>1, <2>2, <2>3, <2>4, AccountFacts DEF MovesBy
<1>. QED
  BY <1>1 DEF BooksInv, ReplayExplainsBalance, NoOverdraft, AvailableBacked

THEOREM BooksSafe == Spec => []BooksInv
<1>1. Init => BooksInv
  BY CallersFacts DEF Init, BooksInv, ReplayExplainsBalance, NoOverdraft, AvailableBacked
<1>2. Typed /\ BooksInv /\ DoubleReleaseBounded' /\ [Next]_vars => BooksInv'
  BY BooksInvStep
<1>. QED
  BY <1>1, <1>2, TypedAlways, ReleaseSafe, PTL DEF Spec

(* Every balance is the replay of its entries and of what recon_adjust     *)
(* added to it without one.                                                *)
THEOREM BalancesReplay == Spec => []ReplayExplainsBalance
  BY BooksSafe, PTL DEF BooksInv

(* The stale check of the available balance overdraws nothing. *)
THEOREM OverdraftSafe == Spec => []NoOverdraft
  BY BooksSafe, PTL DEF BooksInv

(* No order of setting, moving and converting makes more available than    *)
(* the ledger balance, but for corrections and margin released twice.      *)
THEOREM AvailableSafe == Spec => []AvailableBacked
  BY BooksSafe, PTL DEF BooksInv

-----------------------------------------------------------------------------
(* A row that nobody wrote over tells its fills. *)
RowInv(u) ==
  u \notin raced =>
    IF rows[u] = NoRow THEN filled[u] = 0
    ELSE /\ rows[u].qty = filled[u] /\ rows[u].qty >= 0
         /\ rows[u].status = "closed" <=> rows[u].qty = 0

RowsInv == \A u \in Uids : RowInv(u)

LEMMA RowsInvStep ==
  ASSUME Typed, RowsInv, [Next]_vars
  PROVE  RowsInv'
<1>0. /\ op \in [Callers -> Ops] /\ OpInv /\ rows \in [Uids -> Row] /\ filled \in [Uids -> Int]
  BY DEF Typed, TypeOK, OpsType, RowsType
<1>1. CASE UNCHANGED <<rows, fills>>
  BY <1>1 DEF RowsInv, RowInv, fills
<1>2. ASSUME NEW t \in Callers, op[t].kind \in {"open", "edit"}, Writes(t)  PROVE RowsInv'
  <2>. DEFINE u == op[t].uid
              row == op[t].row
              base == op[t].base
  <2>1. u \in Uids /\ row \in Row /\ base \in Row /\ op[t].amt \in Int /\ Sound(op[t])
    BY <1>0, <1>2 DEF Writes, Ops, OpInv
  <2>2. ASSUME NEW v \in Uids \ {u}  PROVE RowInv(v)'
    <3>1. rows'[v] = rows[v] /\ filled'[v] = filled[v] /\ (v \in raced => v \in raced')
      BY <1>0, <1>2 DEF Writes
    <3>2. RowInv(v)
      BY DEF RowsInv
    <3>. QED
      BY <3>1, <3>2 DEF RowInv
  <2>3. CASE u \in raced'
    BY <2>2, <2>3 DEF RowsInv, RowInv
  <2>4. CASE u \notin raced'
    <3>1. rows[u] = base /\ u \notin raced /\ RowInv(u)
      BY <1>2, <2>1, <2>4 DEF Writes, RowsInv
    <3>2. rows'[u] = row /\ filled'[u] = filled[u] + op[t].amt
      BY <1>0, <1>2, <2>1 DEF Writes
    <3>3. row.qty \in Int /\ base.qty \in Int /\ filled[u] \in Int
      BY <1>0, <2>1 DEF Row
    <3>4. row.qty = filled'[u] /\ row.qty >= 0 /\ (row.status = "closed" <=> row.qty = 0)
      <4>1. CASE op[t].kind = "open"
        <5>1. base = NoRow /\ row.status = "open" /\ row.qty > 0 /\ op[t].amt = row.qty
          BY <2>1, <4>1 DEF Sound, Opens
        <5>2. filled[u] = 0
          BY <3>1, <5>1 DEF RowInv
        <5>. QED
          BY <3>2, <3>3, <5>1, <5>2
      <4>2. CASE op[t].kind = "edit"
        <5>1. base # NoRow /\ op[t].amt = row.qty - base.qty
          BY <2>1, <4>2 DEF Sound, Changes
        <5>2. PICK qty \in Nat \ {0} : row \in Edits(base, qty)
          BY <2>1, <4>2 DEF Sound, Changes
        <5>3. base.qty = filled[u] /\ base.qty >= 0 /\ (base.status = "closed" <=> base.qty = 0)
          BY <3>1, <5>1 DEF RowInv
        <5>4. \/ row.qty = base.qty /\ row.status = base.status
              \/ base.status = "open" /\ row.status = "open" /\ row.qty = base.qty + qty
              \/ /\ base.status \in {"open", "reducing"} /\ qty <= base.qty /\ row.qty = base.qty - qty
                 /\ row.status = IF qty = base.qty THEN "closed" ELSE "reducing"
          BY <2>1, <5>2, EditFacts
        <5>. HIDE DEF u, row, base
        <5>. QED
          BY <3>2, <3>3, <5>1, <5>3, <5>4
      <4>. QED
        BY <1>2, <4>1, <4>2
    <3>5. row # NoRow
      BY <3>4, IdleFacts, <2>1, <1>2, <3>3, EditFacts DEF Sound, Opens, Changes
    <3>. HIDE DEF u, row, base
    <3>. QED
      BY <2>2, <3>2, <3>4, <3>5 DEF RowsInv, RowInv
  <2>. QED
    BY <2>3, <2>4
<1>. QED
  BY <1>1, <1>2, RowSteps, WriteSteps DEF Typed

(* Without any lock, a row nobody wrote over has its fills, and is closed  *)
(* exactly when nothing is left.                                           *)
THEOREM QuantitySafe == Spec => []QuantityIsFills
<1>1. Init => RowsInv
  BY DEF Init, RowsInv, RowInv
<1>2. Typed /\ RowsInv /\ [Next]_vars => RowsInv'
  BY RowsInvStep
<1>3. RowsInv => QuantityIsFills
  BY DEF RowsInv, RowInv, QuantityIsFills
<1>. QED
  BY <1>1, <1>2, <1>3, TypedAlways, PTL DEF Spec
=============================================================================
