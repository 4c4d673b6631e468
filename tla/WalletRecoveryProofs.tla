------------------------ MODULE WalletRecoveryProofs ------------------------
(***************************************************************************)
(* Theorems about WalletRecovery for any lot, any number of operations,    *)
(* crashes and mishaps, and any set of calls that may raise.               *)
(***************************************************************************)
EXTENDS WalletRecovery, SequenceTheorems, TLAPS

-----------------------------------------------------------------------------
(* What operations emit                                                    *)

Quiet(es) == \A i \in DOMAIN es : ~Opens(es[i])
Charged(es) == \A i \in DOMAIN es : es[i].kind = "charged"
Cancelled(es) == \A i \in DOMAIN es : es[i].kind = "cancelled"
Numbered(es) == \A i \in DOMAIN es : Opens(es[i]) => es[i].num # 0

\* Only charges precede the event that opens a position.
ChargesFirst(es) ==
  \A i \in DOMAIN es :
    Opens(es[i]) => \A j \in DOMAIN es : j < i => es[j].kind = "charged"

LEMMA EventType ==
  ASSUME NEW k \in Kinds, NEW m \in Nat, NEW a \in Int
  PROVE  /\ Ev(k, m, a) \in Event
         /\ Ev(k, m, a).kind = k /\ Ev(k, m, a).num = m /\ Ev(k, m, a).amt = a
  BY DEF Ev, Event

LEMMA NoEvent ==
  /\ <<>> \in Seq(Event)
  /\ Quiet(<<>>) /\ Charged(<<>>) /\ Numbered(<<>>) /\ ChargesFirst(<<>>)
  /\ Cancelled(<<>>)
  BY DEF Quiet, Charged, Numbered, ChargesFirst, Cancelled

LEMMA OneEvent ==
  ASSUME NEW e \in Event
  PROVE  /\ <<e>> \in Seq(Event) /\ <<e>> # <<>>
         /\ ChargesFirst(<<e>>)
         /\ ~Opens(e) => Quiet(<<e>>) /\ Numbered(<<e>>)
         /\ e.kind = "charged" => Charged(<<e>>)
         /\ e.kind = "cancelled" => Cancelled(<<e>>)
         /\ e.num # 0 => Numbered(<<e>>)
<1>1. /\ <<e>> \in Seq(Event) /\ <<e>> # <<>>
      /\ DOMAIN <<e>> = {1} /\ <<e>>[1] = e
  OBVIOUS
<1> QED  BY <1>1 DEF Quiet, Charged, Numbered, ChargesFirst, Cancelled

LEMMA Joined ==
  ASSUME NEW a \in Seq(Event), NEW b \in Seq(Event)
  PROVE  /\ a \o b \in Seq(Event)
         /\ a # <<>> \/ b # <<>> => a \o b # <<>>
         /\ Quiet(a) /\ Quiet(b) => Quiet(a \o b)
         /\ Charged(a) /\ Charged(b) => Charged(a \o b)
         /\ Numbered(a) /\ Numbered(b) => Numbered(a \o b)
         /\ Charged(a) /\ ChargesFirst(b) => ChargesFirst(a \o b)
         /\ ChargesFirst(a) /\ Quiet(b) => ChargesFirst(a \o b)
<1> DEFINE ab == a \o b
<1>1. /\ ab \in Seq(Event) /\ Len(ab) = Len(a) + Len(b)
      /\ \A i \in 1 .. Len(ab) : ab[i] = IF i <= Len(a) THEN a[i] ELSE b[i - Len(a)]
  BY ConcatProperties
<1>2. /\ DOMAIN ab = 1 .. Len(ab) /\ DOMAIN a = 1 .. Len(a) /\ DOMAIN b = 1 .. Len(b)
      /\ Len(a) \in Nat /\ Len(b) \in Nat
  BY <1>1, LenProperties
<1>3. /\ a # <<>> => Len(a) # 0
      /\ b # <<>> => Len(b) # 0
      /\ ab = <<>> => Len(ab) = 0
  BY EmptySeq
<1>4. \A i \in DOMAIN ab : \/ i \in DOMAIN a /\ ab[i] = a[i]
                           \/ /\ i > Len(a) /\ i - Len(a) \in DOMAIN b
                              /\ ab[i] = b[i - Len(a)]
  BY <1>1, <1>2
<1> HIDE DEF ab
<1>5. /\ Quiet(a) /\ Quiet(b) => Quiet(ab)
      /\ Charged(a) /\ Charged(b) => Charged(ab)
      /\ Numbered(a) /\ Numbered(b) => Numbered(ab)
  BY <1>4 DEF Quiet, Charged, Numbered
<1>6. ASSUME Charged(a), ChargesFirst(b)  PROVE ChargesFirst(ab)
  <2> SUFFICES ASSUME NEW i \in DOMAIN ab, Opens(ab[i]),
                      NEW j \in DOMAIN ab, j < i
               PROVE  ab[j].kind = "charged"
    BY DEF ChargesFirst
  <2>1. CASE j \in DOMAIN a /\ ab[j] = a[j]
    BY <2>1, <1>6 DEF Charged
  <2>2. CASE j > Len(a) /\ j - Len(a) \in DOMAIN b /\ ab[j] = b[j - Len(a)]
    <3>1. i - Len(a) \in DOMAIN b /\ ab[i] = b[i - Len(a)] /\ j - Len(a) < i - Len(a)
      BY <2>2, <1>1, <1>2 DEF ab
    <3> QED  BY <3>1, <2>2, <1>6 DEF ChargesFirst
  <2> QED  BY <2>1, <2>2, <1>4
<1>7. ASSUME ChargesFirst(a), Quiet(b)  PROVE ChargesFirst(ab)
  <2> SUFFICES ASSUME NEW i \in DOMAIN ab, Opens(ab[i]),
                      NEW j \in DOMAIN ab, j < i
               PROVE  ab[j].kind = "charged"
    BY DEF ChargesFirst
  <2>1. i \in DOMAIN a /\ ab[i] = a[i]
    BY <1>4, <1>7 DEF Quiet
  <2>2. j \in DOMAIN a /\ ab[j] = a[j]
    BY <2>1, <1>1, <1>2 DEF ab
  <2> QED  BY <2>1, <2>2, <1>7 DEF ChargesFirst
<1> QED  BY <1>1, <1>2, <1>3, <1>5, <1>6, <1>7 DEF ab

LEMMA Single ==
  ASSUME NEW k \in Kinds, NEW m \in Nat, NEW a \in Int
  PROVE  /\ <<Ev(k, m, a)>> \in Seq(Event) /\ <<Ev(k, m, a)>> # <<>>
         /\ ChargesFirst(<<Ev(k, m, a)>>)
         /\ k \notin {"opened", "adopted"} =>
              Quiet(<<Ev(k, m, a)>>) /\ Numbered(<<Ev(k, m, a)>>)
         /\ k = "charged" => Charged(<<Ev(k, m, a)>>)
         /\ k = "cancelled" => Cancelled(<<Ev(k, m, a)>>)
         /\ m # 0 => Numbered(<<Ev(k, m, a)>>)
<1> DEFINE e == Ev(k, m, a)
<1>1. e \in Event /\ e.kind = k /\ e.num = m
  BY EventType
<1> HIDE DEF e
<1>2. /\ <<e>> \in Seq(Event) /\ <<e>> # <<>> /\ ChargesFirst(<<e>>)
      /\ k \notin {"opened", "adopted"} => Quiet(<<e>>) /\ Numbered(<<e>>)
      /\ k = "charged" => Charged(<<e>>)
      /\ k = "cancelled" => Cancelled(<<e>>)
      /\ m # 0 => Numbered(<<e>>)
  BY <1>1, OneEvent DEF Opens
<1> QED  BY <1>2 DEF e

\* What Joined asks of a part of an opening, and of a part of the rest.
Prefix(es) == es \in Seq(Event) /\ Charged(es) /\ Numbered(es) /\ Quiet(es)
Plain(es) == es \in Seq(Event) /\ Numbered(es) /\ Quiet(es)
Emitted(es) ==
  /\ es \in Seq(Event) /\ es # <<>>
  /\ Numbered(es) /\ ChargesFirst(es)

LEMMA Parts ==
  ASSUME NEW t \in Nat
  PROVE  /\ \A x \in Taxes : Prefix(x) /\ Plain(x)
         /\ \A p \in Placing(t) : Plain(p)
         /\ Plain(Cancelling) /\ Cancelling # <<>> /\ Cancelled(Cancelling)
<1>1. \A x \in Taxes : x = <<>> \/ x = <<Ev("charged", 0, -1)>>
  BY DEF Taxes
<1>2. \A p \in Placing(t) : p = <<>> \/ p = <<Ev("placed", t, 0)>>
  BY DEF Placing
<1>3. Prefix(<<Ev("charged", 0, -1)>>) /\ Plain(<<Ev("charged", 0, -1)>>)
  BY Single DEF Prefix, Plain, Kinds
<1>4. Plain(<<Ev("placed", t, 0)>>)
  BY Single DEF Plain, Kinds
<1>5. Plain(Cancelling) /\ Cancelling # <<>> /\ Cancelled(Cancelling)
  BY Single DEF Plain, Kinds, Cancelling
<1>6. Prefix(<<>>) /\ Plain(<<>>)
  BY NoEvent DEF Prefix, Plain
<1> QED  BY <1>1, <1>2, <1>3, <1>4, <1>5, <1>6

LEMMA JoinedPlain ==
  ASSUME NEW a, NEW b, Plain(a), Plain(b)
  PROVE  Plain(a \o b) /\ (a # <<>> => a \o b # <<>>)
  BY Joined DEF Plain

LEMMA PlainEmitted ==
  ASSUME NEW a, Plain(a), a # <<>>
  PROVE  Emitted(a)
  BY DEF Plain, Emitted, Quiet, ChargesFirst

LEMMA OpeningEmitted ==
  ASSUME NEW t \in Nat, t # 0, NEW x \in Taxes, NEW p \in Placing(t)
  PROVE  Emitted(Opening(t, x, p))
<1> DEFINE c == <<Ev("charged", 0, -1), Ev("charged", 0, -1)>>
           o == <<Ev("opened", t, 0)>>
<1>1. Prefix(c)
  <2>1. Ev("charged", 0, -1) \in Event /\ Ev("charged", 0, -1).kind = "charged"
    BY EventType DEF Kinds
  <2>2. c \in Seq(Event) /\ DOMAIN c = {1, 2}
        /\ \A i \in DOMAIN c : c[i] = Ev("charged", 0, -1)
    BY <2>1
  <2> QED  BY <2>1, <2>2 DEF Prefix, Charged, Numbered, Quiet, Opens
<1>2. o \in Seq(Event) /\ o # <<>> /\ ChargesFirst(o) /\ Numbered(o)
  BY Single DEF Kinds
<1>3. Prefix(x) /\ Plain(p)
  BY Parts
<1> HIDE DEF c, o
<1>4. Prefix(c \o x)
  BY <1>1, <1>3, Joined DEF Prefix
<1>5. Emitted((c \o x) \o o)
  BY <1>4, <1>2, Joined DEF Prefix, Emitted
<1>6. Emitted(((c \o x) \o o) \o p)
  BY <1>5, <1>3, Joined DEF Plain, Emitted
<1> QED  BY <1>6 DEF c, o, Opening

\* An operation opens a position only where there is none.
LEMMA SavedEvents ==
  ASSUME run \in Position, NEW t \in Nat, t # 0, NEW es \in Saved(t)
  PROVE  Emitted(es) /\ (run.trade # 0 => Quiet(es))
<1> USE DEF Position
<1>1. ASSUME es \in Openings(t)  PROVE Emitted(es) /\ run.trade = 0
  <2>1. run.trade = 0
    BY <1>1 DEF Openings
  <2>2. PICK x \in Taxes, p \in Placing(t) :
          es = Opening(t, x, p)
    BY <1>1, <2>1 DEF Openings
  <2> QED  BY <2>1, <2>2, OpeningEmitted
<1>2. ASSUME es \in Adoptions(t)  PROVE Emitted(es) /\ run.trade = 0
  <2>1. run.trade = 0
    BY <1>2 DEF Adoptions
  <2>2. PICK p \in Placing(t) : es = <<Ev("adopted", t, 0)>> \o p
    BY <1>2, <2>1, Zenon DEF Adoptions
  <2>3. /\ <<Ev("adopted", t, 0)>> \in Seq(Event) /\ <<Ev("adopted", t, 0)>> # <<>>
        /\ ChargesFirst(<<Ev("adopted", t, 0)>>) /\ Numbered(<<Ev("adopted", t, 0)>>)
    BY Single DEF Kinds
  <2> QED  BY <2>1, <2>2, <2>3, Parts, Joined DEF Emitted, Plain
<1>3. ASSUME es \in Closings \cup Liquidations  PROVE Plain(es) /\ es # <<>>
  <2>1. Plain(<<Ev("closed", 0, 5)>>) /\ Plain(<<Ev("closed", 0, -5)>>)
    BY Single DEF Plain, Kinds
  <2>2. Plain(Cancelling \o <<Ev("closed", 0, 5)>>)
        /\ Cancelling \o <<Ev("closed", 0, 5)>> # <<>>
        /\ Plain(Cancelling \o <<Ev("closed", 0, -5)>>)
        /\ Cancelling \o <<Ev("closed", 0, -5)>> # <<>>
    BY <2>1, JoinedPlain, Parts
  <2>3. \/ es = Cancelling \o <<Ev("closed", 0, -5)>>
        \/ \E x \in Taxes : es = Cancelling \o <<Ev("closed", 0, 5)>> \o x
    BY <1>3, Zenon DEF Closings, Liquidations
  <2> QED  BY <2>2, <2>3, JoinedPlain, Parts
<1>4. ASSUME es \in Slices(t)  PROVE Plain(es) /\ es # <<>>
  <2>1. PICK q \in 1 .. run.qty, x \in Taxes, p \in Placing(t) :
          es = Slice(q, x, p)
    BY <1>4 DEF Slices
  <2>2. Plain(<<Ev("reduced", q, 3)>>) /\ Plain(<<Ev("closed", 0, 5)>>)
    BY Single DEF Plain, Kinds
  <2>3. Plain(Cancelling \o <<Ev("closed", 0, 5)>>) /\ Plain(x) /\ Plain(p)
    BY <2>2, JoinedPlain, Parts
  <2>4. Plain(Cancelling \o <<Ev("reduced", q, 3)>>)
        /\ Cancelling \o <<Ev("reduced", q, 3)>> # <<>>
    BY <2>2, JoinedPlain, Parts
  <2>5. Plain(Cancelling \o <<Ev("reduced", q, 3)>> \o x)
        /\ Cancelling \o <<Ev("reduced", q, 3)>> \o x # <<>>
    BY <2>3, <2>4, JoinedPlain
  <2> DEFINE rest == IF q = run.qty THEN Cancelling \o <<Ev("closed", 0, 5)>> ELSE p
             head == Cancelling \o <<Ev("reduced", q, 3)>> \o x
  <2>6. Plain(rest)
    BY <2>3
  <2>7. es = head \o rest
    BY <2>1 DEF Slice
  <2>8. Plain(head) /\ head # <<>>
    BY <2>5
  <2> HIDE DEF rest, head
  <2> QED  BY <2>6, <2>7, <2>8, JoinedPlain
<1>5. ASSUME es \in StopMoves \cup Fundings  PROVE Plain(es) /\ es # <<>>
  <2>1. es = <<Ev("moved", 2, 0)>> \/ es = <<Ev("charged", 0, -1)>>
    BY <1>5 DEF StopMoves, Fundings
  <2>2. Plain(<<Ev("moved", 2, 0)>>) /\ <<Ev("moved", 2, 0)>> # <<>>
    BY Single DEF Plain, Kinds
  <2>3. Plain(<<Ev("charged", 0, -1)>>) /\ <<Ev("charged", 0, -1)>> # <<>>
    BY Single DEF Plain, Kinds
  <2> QED  BY <2>1, <2>2, <2>3
<1>6. Plain(es) => Quiet(es)
  BY DEF Plain
<1> QED
  BY <1>1, <1>2, <1>3, <1>4, <1>5, <1>6, PlainEmitted DEF Saved

LEMMA FailedEvents ==
  ASSUME NEW es \in FailedExits
  PROVE  Emitted(es) /\ Quiet(es) /\ Cancelled(es)
<1>1. es = Cancelling
  BY DEF FailedExits
<1> QED  BY <1>1, Parts, PlainEmitted DEF Plain

-----------------------------------------------------------------------------
(* The reducer                                                             *)

LEMMA AppliedState ==
  ASSUME NEW s \in State, NEW e \in Event
  PROVE  /\ Applied(s, e) \in State
         /\ Applied(s, e).n = s.n + 1 /\ Applied(s, e).bal = s.bal + e.amt
         /\ Applied(s, e).trade = TradeAfter(s, e)
         /\ Applied(s, e).qty = QtyAfter(s, e) /\ Applied(s, e).sl = SlAfter(s, e)
         /\ Applied(s, e).stops = StopsAfter(s, e)
<1> USE DEF State, Event
<1>1. TradeAfter(s, e) \in Nat
  BY DEF TradeAfter, Opens
<1>2. QtyAfter(s, e) \in Nat
  BY RecoveryConstants DEF QtyAfter, Opens, Less
<1>3. SlAfter(s, e) \in Nat
  BY DEF SlAfter, Opens
<1>4. StopsAfter(s, e) \in Nat \cup {Unset}
  BY DEF StopsAfter, Opens
<1> QED  BY <1>1, <1>2, <1>3, <1>4 DEF Applied

LEMMA SyncedPosition ==
  ASSUME NEW pos \in Position, NEW s \in State
  PROVE  Synced(pos, s) \in Position
  BY DEF Synced, Position, State, NoPosition, Unset

LEMMA DeserializedState ==
  ASSUME NEW s \in State
  PROVE  Deserialized(s) \in State
  BY DEF Deserialized, State, Unset

LEMMA TailEvents ==
  ASSUME NEW es \in Seq(Event), es # <<>>
  PROVE  /\ Head(es) \in Event /\ Tail(es) \in Seq(Event)
         /\ 1 \in DOMAIN es /\ Head(es) = es[1]
         /\ \A i \in DOMAIN Tail(es) : i + 1 \in DOMAIN es /\ Tail(es)[i] = es[i + 1]
         /\ DOMAIN Tail(es) \subseteq Nat
<1>1. Len(es) \in Nat \ {0} /\ DOMAIN es = 1 .. Len(es)
  BY EmptySeq, LenProperties
<1>2. /\ Tail(es) \in Seq(Event) /\ Len(Tail(es)) = Len(es) - 1
      /\ \A i \in 1 .. Len(Tail(es)) : Tail(es)[i] = es[i + 1]
      /\ Head(es) = es[1]
  BY HeadTailProperties
<1>3. DOMAIN Tail(es) = 1 .. Len(es) - 1
  BY <1>1, <1>2, LenProperties
<1>4. es[1] \in Event
  BY <1>1, ElementOfSeq
<1> QED  BY <1>1, <1>2, <1>3, <1>4

-----------------------------------------------------------------------------
(* Types                                                                   *)

\* What the stages say of the variables that serve an operation.
Shape ==
  /\ Len(past) = Len(log) /\ Len(log) # 0
  /\ stage = "apply" <=> at # 0
  /\ at \in 0 .. Len(log) /\ aside \in 0 .. Len(log)
  /\ stage = "append" => todo # <<>>
  /\ stage \notin {"append", "apply"} => todo = <<>>
  /\ ~Live => aside = 0 /\ saver = "idle"
  /\ aside # 0 => log[aside].kind \in {"noted", "placed"}
  /\ Numbered(log) /\ Numbered(todo)

LEMMA InitShape == Init => TypeOK /\ Shape
<1> SUFFICES ASSUME Init  PROVE TypeOK /\ Shape
  OBVIOUS
<1> DEFINE e == Ev("noted", 0, 0)
<1>1. e \in Event /\ e.kind = "noted" /\ Fresh \in State
  BY EventType DEF Kinds, Fresh, State
<1>2. Applied(Fresh, e) \in State
  BY <1>1, AppliedState
<1> HIDE DEF e
<1>3. log \in Seq(Event) /\ past \in Seq(State) /\ red \in State
      /\ Len(log) = 1 /\ Len(past) = 1 /\ log[1] = e /\ DOMAIN log = {1}
  BY <1>1, <1>2 DEF Init, e
<1>4. NoPosition \in Position /\ NoImage \in Image
  BY <1>1 DEF NoPosition, Position, NoImage, Image
<1>5. TypeOK
  BY <1>3, <1>4, NoEvent DEF Init, TypeOK, readModel, State
<1>6. Numbered(log) /\ Numbered(todo)
  BY <1>1, <1>3, NoEvent DEF Init, Numbered, Opens
<1> QED  BY <1>3, <1>5, <1>6 DEF Init, Shape, Live

LEMMA Recorded ==
  ASSUME TypeOK, Shape, NEW e \in Event, Record(e)
  PROVE  /\ log' \in Seq(Event) /\ past' \in Seq(State)
         /\ Len(log') = Len(log) + 1 /\ Len(past') = Len(log')
         /\ \A i \in 1 .. Len(log) : log'[i] = log[i] /\ past'[i] = past[i]
         /\ log'[Len(log) + 1] = e
         /\ past[Len(log)] \in State
         /\ past'[Len(log) + 1] = Applied(past[Len(log)], e)
         /\ e.num # 0 \/ ~Opens(e) => Numbered(log')
<1>1. log \in Seq(Event) /\ past \in Seq(State) /\ Len(past) = Len(log) /\ Len(log) \in Nat \ {0}
  BY LenProperties DEF TypeOK, Shape
<1>2. past[Len(log)] \in State
  BY <1>1, ElementOfSeq
<1> DEFINE s == Applied(past[Len(log)], e)
<1>3. s \in State
  BY <1>2, AppliedState
<1>4. log' = Append(log, e) /\ past' = Append(past, s)
  BY <1>1 DEF Record
<1> HIDE DEF s
<1>5. /\ log' \in Seq(Event) /\ past' \in Seq(State)
      /\ Len(log') = Len(log) + 1 /\ Len(past') = Len(log')
      /\ \A i \in 1 .. Len(log) : log'[i] = log[i] /\ past'[i] = past[i]
      /\ log'[Len(log) + 1] = e /\ past'[Len(log) + 1] = s
  BY <1>1, <1>3, <1>4, AppendProperties
<1>6. DOMAIN log' = 1 .. Len(log) + 1 /\ DOMAIN log = 1 .. Len(log)
  BY <1>1, <1>5, LenProperties
<1>7. e.num # 0 \/ ~Opens(e) => Numbered(log')
  <2>1. Numbered(log)
    BY DEF Shape
  <2> QED  BY <1>1, <1>5, <1>6, <2>1 DEF Numbered
<1> QED  BY <1>2, <1>5, <1>7 DEF s

LEMMA NoImageType == NoImage \in Image
  BY DEF Fresh, State, NoPosition, Position, NoImage, Image

LEMMA WrittenType ==
  ASSUME TypeOK
  PROVE  /\ Written \in Image /\ Written.pos = run
         /\ Written.red = [red EXCEPT !.bal = bal]
         /\ Written.red.n = red.n /\ Written.red.trade = red.trade
         /\ Written.red.qty = red.qty /\ Written.red.sl = red.sl
         /\ Written.red.bal = bal
<1>1. red \in State /\ bal \in Int /\ run \in Position
  BY DEF TypeOK
<1>2. [red EXCEPT !.bal = bal] \in State
  BY <1>1 DEF State
<1> QED  BY <1>1, <1>2 DEF Written, Image, State

LEMMA CopiedType ==
  ASSUME Copied
  PROVE  synced' \in BOOLEAN
  BY DEF Copied

LEMMA FaultTypes ==
  ASSUME TypeOK, NEW kind, Fault(kind) \/ UNCHANGED bounds
  PROVE  mishaps' \in Nat /\ ops' = ops /\ crashes' = crashes
  BY DEF TypeOK, Fault, Mishap, bounds

LEMMA AlignTypes ==
  ASSUME TypeOK, NEW pos \in Position, Align(pos)
  PROVE  /\ proj' \in Nat /\ missed' \in BOOLEAN
         /\ mishaps' \in Nat /\ ops' = ops /\ crashes' = crashes
<1>1. Fault("align") \/ UNCHANGED bounds
  BY DEF Align
<1>2. proj' \in Nat /\ (missed' = TRUE \/ missed' = FALSE)
  BY DEF Align, TypeOK, Position
<1> QED  BY <1>1, <1>2, FaultTypes

\* An operation that raises.
LEMMA AbortShape ==
  ASSUME TypeOK, Shape, Abort, Live, run' \in Position, slipped' \in BOOLEAN,
         NEW kind, Fault(kind),
         UNCHANGED <<log, past, red, bal, aside, aligner, images, readModel, synced, source>>
  PROVE  TypeOK' /\ Shape'
<1>1. mishaps' \in Nat /\ ops' = ops /\ crashes' = crashes
  BY FaultTypes
<1>2. stage' = "ready" /\ todo' = <<>> /\ at' = 0 /\ saving' = FALSE /\ copy' = NoImage
  BY DEF Abort
<1>3. TypeOK'
  BY <1>1, <1>2, NoEvent, NoImageType DEF TypeOK, images, readModel, aligner
<1>4. Numbered(log)' /\ Numbered(todo)'
  BY <1>2, NoEvent DEF Shape, Numbered
<1> QED  BY <1>2, <1>3, <1>4, LenProperties DEF Shape, Live, TypeOK, aligner

\* The state after an event is applied, for whichever event is pending.
LEMMA ReducedTypes ==
  ASSUME TypeOK, NEW i \in 1 .. Len(log), Reduce(log[i], i)
  PROVE  red' \in State /\ run' \in Position /\ slipped' \in BOOLEAN
         /\ bal' \in Int /\ log[i] \in Event
<1>1. log[i] \in Event
  BY ElementOfSeq DEF TypeOK
<1> HIDE DEF Reduce
<1>2. red' = Applied(red, log[i]) /\ run' = Synced(run, red')
      /\ bal' = red'.bal /\ slipped' = (slipped \/ red.n + 1 # i)
  BY DEF Reduce
<1>3. red' \in State
  BY <1>1, <1>2, AppliedState DEF TypeOK
<1>4. bal' \in Int
  BY <1>2, <1>3 DEF State
<1> QED  BY <1>1, <1>2, <1>3, <1>4, SyncedPosition DEF TypeOK

LEMMA UpTypes ==
  ASSUME TypeOK, Shape, NEW img \in Image, NEW from \in {"none", "file", "cache"},
         Up(img, from)
  PROVE  TypeOK' /\ Shape'
<1>1. img.red \in State /\ img.pos \in Position
  BY DEF Image
<1>2. red' \in State /\ run' \in Position /\ bal' \in Int
  <2>1. red' \in State /\ bal' = red'.bal
    BY <1>1, DeserializedState DEF Up
  <2> QED  BY <1>1, <2>1, SyncedPosition DEF Up, State
<1>3. proj' \in Nat /\ missed' \in BOOLEAN /\ mishaps' \in Nat
      /\ UNCHANGED <<ops, crashes>>
  BY <1>2, AlignTypes DEF Up
<1>4. TypeOK'
  BY <1>2, <1>3 DEF Up, TypeOK, images, aligner
<1>5. Shape'
  BY DEF Up, Shape, Live, Numbered, TypeOK, aligner
<1> QED  BY <1>4, <1>5

\* What an alignment changes.
LEMMA AlignedTypes ==
  ASSUME TypeOK, AlignQuantity
  PROVE  /\ run' \in Position /\ red' \in State /\ aligned' \subseteq Nat
         /\ missed' \in BOOLEAN /\ bal' \in Int
         /\ \E q \in Nat :
              /\ run' = [run EXCEPT !.qty = q]
              /\ red.trade # 0 => red' = [red EXCEPT !.qty = q]
              /\ red.trade = 0 => red' = red
         /\ red'.n = red.n /\ red'.bal = red.bal /\ red'.trade = red.trade
         /\ red'.sl = red.sl /\ red'.stops = red.stops
         /\ run'.trade = run.trade /\ run'.sl = run.sl /\ run'.stops = run.stops
<1>1. red \in State /\ run \in Position /\ aligned \subseteq Nat /\ bal \in Int /\ Account \in Int
      /\ Lot \in Nat
  BY RecoveryConstants DEF TypeOK
<1>2. PICK q \in (1 .. Lot) \ {run.qty} :
        /\ run' = [run EXCEPT !.qty = q]
        /\ red' = IF red.trade # 0 THEN [red EXCEPT !.qty = q] ELSE red
  BY DEF AlignQuantity
<1>3. q \in Nat
  BY <1>1, <1>2
<1>4. run' \in Position /\ red' \in State
  BY <1>1, <1>2, <1>3 DEF Position, State
<1>5. /\ red'.n = red.n /\ red'.bal = red.bal /\ red'.trade = red.trade
      /\ red'.sl = red.sl /\ red'.stops = red.stops
      /\ run'.trade = run.trade /\ run'.sl = run.sl /\ run'.stops = run.stops
  BY <1>1, <1>2 DEF Position, State
<1>6. aligned' \subseteq Nat
  BY <1>1 DEF AlignQuantity, State
<1>7. missed' \in BOOLEAN /\ bal' \in Int
  BY <1>1 DEF AlignQuantity
<1> QED  BY <1>2, <1>3, <1>4, <1>5, <1>6, <1>7

\* What the aligning thread's writes leave.
LEMMA SavedTypes ==
  ASSUME TypeOK, SaveAligned
  PROVE  /\ other' \in Image /\ file' \in Image /\ snap' \in Image /\ cache' \in Image
         /\ synced' \in BOOLEAN /\ saver' \in {"idle", "snap", "cache"} /\ saver # "idle"
<1>1. Written \in Image /\ NoImage \in Image
  BY WrittenType, NoImageType
<1>2. Copied => synced' \in BOOLEAN
  BY CopiedType
<1>3. cache' = cache \/ cache' = other
  BY DEF SaveAligned
<1>4. snap' = snap \/ snap' = other
  BY DEF SaveAligned
<1>5. other' \in {Written, other, NoImage} /\ file' \in {Written, file}
      /\ saver' \in {"idle", "snap", "cache"} /\ saver # "idle"
  BY DEF SaveAligned
<1>6. Copied \/ synced' = synced
  BY DEF SaveAligned
<1> QED  BY <1>1, <1>2, <1>3, <1>4, <1>5, <1>6 DEF TypeOK

\* The events a thread without the lock, or another wallet, may record.
AsideEvents == {Ev("noted", 0, 0), Ev("placed", run.stops + MaxOps, 0)}
ForeignEvents == {Ev("charged", 0, -1), Ev("opened", MaxOps + 1, 0)}

LEMMA AsideEvent ==
  ASSUME TypeOK, NEW e \in AsideEvents
  PROVE  e \in Event /\ e.kind \in {"noted", "placed"}
<1>1. run.stops + MaxOps \in Nat
  BY RecoveryConstants DEF TypeOK, Position
<1> QED  BY <1>1, EventType DEF Kinds, AsideEvents

LEMMA ForeignEvent ==
  ASSUME NEW e \in ForeignEvents
  PROVE  e \in Event /\ (e.num # 0 \/ ~Opens(e))
<1>1. MaxOps + 1 \in Nat \ {0}
  BY RecoveryConstants
<1>2. /\ Ev("charged", 0, -1) \in Event /\ ~Opens(Ev("charged", 0, -1))
      /\ Ev("opened", MaxOps + 1, 0) \in Event
      /\ Ev("opened", MaxOps + 1, 0).num = MaxOps + 1
  BY <1>1, EventType DEF Kinds, Opens
<1> QED  BY <1>1, <1>2 DEF ForeignEvents

LEMMA StepShape == TypeOK /\ Shape /\ [Next]_vars => TypeOK' /\ Shape'
<1> SUFFICES ASSUME TypeOK, Shape, [Next]_vars  PROVE TypeOK' /\ Shape'
  OBVIOUS
<1>0. Len(log) \in Nat \ {0} /\ DOMAIN log = 1 .. Len(log)
  BY LenProperties DEF TypeOK, Shape
<1>1. ASSUME Begin  PROVE TypeOK' /\ Shape'
  <2>1. Emitted(todo')
    BY <1>1, SavedEvents, FailedEvents DEF Begin, TypeOK
  <2>2. todo' \in Seq(Event) /\ todo' # <<>> /\ Numbered(todo')
    BY <2>1 DEF Emitted
  <2>3. saving' \in BOOLEAN /\ stage' = "append" /\ ops' \in Nat
        /\ UNCHANGED <<log, red, run, bal, at, copy, aside, aligner, images, readModel, past,
                       slipped, synced, source, crashes, mishaps>>
    <3>1. saving' = TRUE \/ saving' = FALSE
      BY <1>1 DEF Begin
    <3>2. saving' \in BOOLEAN
      BY <3>1
    <3>3. ops' \in Nat
      BY <1>1 DEF Begin, TypeOK
    <3>4. stage' = "append"
          /\ UNCHANGED <<log, red, run, bal, at, copy, aside, aligner, images, readModel,
                         past, slipped, synced, source, crashes, mishaps>>
      BY <1>1 DEF Begin
    <3> QED  BY <3>2, <3>3, <3>4
  <2>4. TypeOK'
    BY <2>2, <2>3 DEF TypeOK, images, readModel, aligner
  <2> QED  BY <1>1, <2>2, <2>3, <2>4 DEF Begin, Shape, Live, Numbered, aligner
<1>2. ASSUME AppendEvent  PROVE TypeOK' /\ Shape'
  <2> DEFINE e == Head(todo)
  <2>1. /\ e \in Event /\ Tail(todo) \in Seq(Event) /\ Numbered(Tail(todo))
        /\ e.num # 0 \/ ~Opens(e)
    BY <1>2, TailEvents DEF AppendEvent, TypeOK, Shape, Numbered
  <2>2. run' \in Position
    BY <1>2, <2>1, RecoveryConstants DEF AppendEvent, Ahead, Booked, Position, Event, TypeOK
  <2> HIDE DEF e
  <2>3. CASE Record(e) /\ at' = Len(log) + 1 /\ todo' = Tail(todo) /\ stage' = "apply"
             /\ UNCHANGED <<saving, copy, bounds>>
    <3>1. /\ log' \in Seq(Event) /\ past' \in Seq(State)
          /\ Len(log') = Len(log) + 1 /\ Len(past') = Len(log')
          /\ \A i \in 1 .. Len(log) : log'[i] = log[i]
          /\ Numbered(log')
      BY <2>1, <2>3, Recorded
    <3>2. TypeOK'
      BY <1>2, <2>1, <2>2, <2>3, <3>1, <1>0 DEF AppendEvent, TypeOK, images, readModel, bounds, aligner
    <3> QED
      BY <1>2, <2>1, <2>3, <3>1, <3>2, <1>0 DEF AppendEvent, Shape, Live, Numbered, aligner
  <2>4. CASE Abort /\ Fault("append") /\ UNCHANGED <<log, past>>
    BY <1>2, <2>2, <2>4, AbortShape DEF AppendEvent, TypeOK, Live
  <2> QED  BY <1>2, <2>3, <2>4 DEF AppendEvent, e
<1>3. ASSUME ApplyEvent  PROVE TypeOK' /\ Shape'
  <2>1. at \in 1 .. Len(log)
    BY <1>3, <1>0 DEF ApplyEvent, Shape
  <2>2. log[at] \in Event
    BY <2>1, ElementOfSeq DEF TypeOK
  <2>3. CASE /\ Reduce(log[at], at)
             /\ \/ Project(log[at]) /\ UNCHANGED bounds
                \/ proj' = proj /\ missed' = TRUE /\ Fault("hook")
             /\ stage' = AfterEvent /\ at' = 0 /\ UNCHANGED <<todo, saving, copy>>
    <3>1. red' \in State /\ run' \in Position /\ slipped' \in BOOLEAN /\ bal' \in Int
      BY <2>1, <2>3, ReducedTypes
    <3>2. proj' \in Nat /\ missed' \in BOOLEAN /\ {ops, crashes, mishaps}' \subseteq Nat
      <4>1. Fault("hook") \/ UNCHANGED bounds
        BY <2>3
      <4>2. ProjApplied(log[at]) \in Nat
        <5>1. log[at].num \in Nat /\ proj \in Nat /\ Lot \in Nat
          BY <2>2, RecoveryConstants DEF Event, TypeOK
        <5>2. Less(proj, log[at].num) \in Nat
          BY <5>1 DEF Less
        <5> QED  BY <5>1, <5>2 DEF ProjApplied
      <4>3. missed' = missed \/ missed' = TRUE \/ missed' = FALSE
        BY <2>3 DEF Project
      <4>4. proj' \in Nat
        BY <2>3, <4>2 DEF Project, TypeOK
      <4> QED  BY <4>1, <4>3, <4>4, FaultTypes DEF TypeOK
    <3> QED
      BY <1>3, <2>3, <3>1, <3>2
         DEF ApplyEvent, AfterEvent, TypeOK, Shape, Live, images, Numbered, aligner
  <2>4. CASE /\ Abort /\ Fault("persist") /\ slipped' = TRUE
             /\ UNCHANGED <<red, run, bal, readModel>>
    BY <1>3, <2>4, AbortShape DEF ApplyEvent, TypeOK, Live
  <2> QED  BY <1>3, <2>3, <2>4 DEF ApplyEvent
<1>4. ASSUME SaveFile  PROVE TypeOK' /\ Shape'
  <2>1. copy' \in Image /\ file' = copy' /\ synced' \in BOOLEAN
    BY <1>4, WrittenType, CopiedType DEF SaveFile
  <2> QED
    BY <1>4, <2>1 DEF SaveFile, TypeOK, Shape, Live, readModel, bounds, Numbered, aligner
<1>5. ASSUME SaveSnapshot  PROVE TypeOK' /\ Shape'
  <2>1. CASE snap' = copy /\ stage' \in {"cache", "ready"} /\ copy' \in {copy, NoImage}
             /\ UNCHANGED <<todo, at, saving, bounds>>
    BY <1>5, <2>1, NoImageType
       DEF SaveSnapshot, TypeOK, Shape, Live, readModel, bounds, Numbered, aligner
  <2>2. CASE Abort /\ Fault("save") /\ snap' = snap
    BY <1>5, <2>2, AbortShape DEF SaveSnapshot, TypeOK, Live, images
  <2> QED  BY <1>5, <2>1, <2>2 DEF SaveSnapshot
<1>6. ASSUME PutCache  PROVE TypeOK' /\ Shape'
  BY <1>6, NoImageType
     DEF PutCache, Fault, Mishap, TypeOK, Shape, Live, readModel, bounds, Numbered, aligner
<1>7. ASSUME AsideAppend  PROVE TypeOK' /\ Shape'
  <2>1. PICK e \in AsideEvents : Record(e)
    BY <1>7 DEF AsideAppend, AsideEvents
  <2>2. e \in Event /\ e.kind \in {"noted", "placed"}
    BY AsideEvent
  <2>3. /\ log' \in Seq(Event) /\ past' \in Seq(State)
        /\ Len(log') = Len(log) + 1 /\ Len(past') = Len(log')
        /\ \A i \in 1 .. Len(log) : log'[i] = log[i]
        /\ log'[Len(log) + 1] = e
        /\ Numbered(log')
    BY <2>1, <2>2, Recorded DEF Opens
  <2>4. TypeOK'
    BY <1>7, <2>3, <1>0 DEF AsideAppend, Mishap, TypeOK, op, images, readModel, aligner
  <2> QED
    BY <1>7, <1>0, <2>2, <2>3, <2>4 DEF AsideAppend, Shape, Live, op, Numbered, aligner
<1>8. ASSUME AsideApply  PROVE TypeOK' /\ Shape'
  <2>1. aside \in 1 .. Len(log)
    BY <1>8, <1>0 DEF AsideApply, Shape
  <2>2. red' \in State /\ run' \in Position /\ slipped' \in BOOLEAN /\ bal' \in Int
    BY <1>8, <2>1, ReducedTypes DEF AsideApply
  <2> QED
    BY <1>8, <2>2
       DEF AsideApply, TypeOK, Shape, Live, op, images, readModel, bounds, Numbered, aligner
<1>9. ASSUME ForeignAppend  PROVE TypeOK' /\ Shape'
  <2> DEFINE last == past[Len(past)]
  <2>1. PICK e \in ForeignEvents : log' = Append(log, e)
    BY <1>9 DEF ForeignAppend, ForeignEvents
  <2>2. e \in Event /\ (e.num # 0 \/ ~Opens(e))
    BY ForeignEvent
  <2>3. last \in State /\ Len(past) = Len(log)
    BY <1>0, ElementOfSeq DEF TypeOK, Shape
  <2>4. [last EXCEPT !.n = Len(past) + 1] \in State
    BY <2>3, <1>0 DEF State
  <2>5. past' = Append(past, [last EXCEPT !.n = Len(past) + 1])
    BY <1>9 DEF ForeignAppend
  <2> HIDE DEF last
  <2>6. /\ log' \in Seq(Event) /\ past' \in Seq(State)
        /\ Len(log') = Len(log) + 1 /\ Len(past') = Len(log')
        /\ \A i \in 1 .. Len(log) : log'[i] = log[i]
        /\ log'[Len(log) + 1] = e
    BY <2>1, <2>2, <2>3, <2>4, <2>5, AppendProperties DEF TypeOK
  <2>7. DOMAIN log' = 1 .. Len(log) + 1
    BY <2>6, LenProperties
  <2>8. Numbered(log')
    BY <2>2, <2>6, <2>7, <1>0 DEF Shape, Numbered
  <2>9. TypeOK'
    BY <1>9, <2>6, <1>0 DEF ForeignAppend, Mishap, TypeOK, op, images, readModel, aligner
  <2> QED
    BY <1>9, <1>0, <2>6, <2>8, <2>9 DEF ForeignAppend, Shape, Live, op, Numbered, aligner
<1>10. ASSUME Crash  PROVE TypeOK' /\ Shape'
  <2>1. Fresh \in State /\ NoPosition \in Position
    BY DEF Fresh, State, NoPosition, Position
  <2> QED
    <3>1. TypeOK'
      <4>1. crashes' \in Nat /\ mishaps' \in Nat /\ ops' \in Nat
        BY <1>10 DEF Crash, TypeOK
      <4>2. saving' = FALSE
        BY <1>10 DEF Crash
      <4>3. bal' \in Int /\ copy' \in Image /\ other' \in Image /\ saver' = "idle"
        BY <1>10, NoImageType DEF Crash
      <4> QED
        BY <1>10, <2>1, <4>1, <4>2, <4>3, NoEvent DEF Crash, TypeOK, images, readModel
    <3>2. Numbered(log)' /\ Numbered(todo)'
      BY <1>10, NoEvent DEF Crash, Shape, Numbered
    <3> QED  BY <1>10, <1>0, <3>1, <3>2 DEF Crash, Shape, Live
<1>11. ASSUME CacheExpires  PROVE TypeOK' /\ Shape'
  <2>1. NoImage \in Image
    BY DEF Fresh, State, NoPosition, Position, NoImage, Image
  <2> QED
    BY <1>11, <2>1
       DEF CacheExpires, TypeOK, Shape, Live, op, readModel, bounds, Numbered, aligner
<1>12. ASSUME LoadCache \/ LoadFile \/ StartEmpty  PROVE TypeOK' /\ Shape'
  <2>1. file \in Image /\ cache \in Image /\ NoImage \in Image
    BY DEF TypeOK, Fresh, State, NoPosition, Position, NoImage, Image
  <2> QED  BY <1>12, <2>1, UpTypes DEF LoadCache, LoadFile, StartEmpty
<1>13. ASSUME LoadSnapshot  PROVE TypeOK' /\ Shape'
  <2>1. snap.red \in State /\ snap.pos \in Position
    BY DEF TypeOK, Image
  <2>2. red' \in State /\ run' \in Position
    BY <1>13, <2>1, DeserializedState DEF LoadSnapshot
  <2> QED
    BY <1>13, <2>2
       DEF LoadSnapshot, TypeOK, Shape, Live, images, readModel, bounds, Numbered, aligner
<1>14. ASSUME ReplayEvent  PROVE TypeOK' /\ Shape'
  <2>1. red.n + 1 \in 1 .. Len(log) /\ log[red.n + 1] \in Event
    BY <1>14, <1>0, ElementOfSeq DEF ReplayEvent, TypeOK, State
  <2>2. red' \in State
    BY <1>14, <2>1, AppliedState DEF ReplayEvent, TypeOK
  <2> QED
    BY <1>14, <2>2
       DEF ReplayEvent, TypeOK, Shape, Live, op, images, readModel, bounds, Numbered, aligner
<1>15. ASSUME EndReplay  PROVE TypeOK' /\ Shape'
  <2>1. run' \in Position /\ bal' \in Int
    BY <1>15, SyncedPosition DEF EndReplay, TypeOK, State
  <2>2. proj' \in Nat /\ missed' \in BOOLEAN /\ {ops, crashes, mishaps}' \subseteq Nat
    BY <1>15, <2>1, AlignTypes DEF EndReplay, TypeOK
  <2> QED
    BY <1>15, <2>1, <2>2 DEF EndReplay, TypeOK, Shape, Live, images, Numbered, aligner
<1>16. ASSUME UNCHANGED vars  PROVE TypeOK' /\ Shape'
  BY <1>16
     DEF vars, op, images, readModel, bounds, TypeOK, Shape, Live, Numbered, aligner
<1>17. ASSUME SyncBalance  PROVE TypeOK' /\ Shape'
  BY <1>17, RecoveryConstants
     DEF SyncBalance, Mishap, TypeOK, Shape, Live, op, images, readModel, Numbered, aligner
<1>18. ASSUME AlignQuantity  PROVE TypeOK' /\ Shape'
  <2>1. run' \in Position /\ red' \in State /\ aligned' \subseteq Nat /\ missed' \in BOOLEAN
        /\ bal' \in Int
    BY <1>18, AlignedTypes
  <2>2. TypeOK'
    BY <1>18, <2>1 DEF AlignQuantity, Mishap, TypeOK, op, images
  <2> QED  BY <1>18, <2>2 DEF AlignQuantity, Shape, Live, op, Numbered
<1>19. ASSUME SaveAligned  PROVE TypeOK' /\ Shape'
  <2>1. /\ other' \in Image /\ file' \in Image /\ snap' \in Image /\ cache' \in Image
        /\ synced' \in BOOLEAN /\ saver' \in {"idle", "snap", "cache"} /\ saver # "idle"
    BY <1>19, SavedTypes
  <2>2. Live
    BY <2>1 DEF Shape
  <2>3. TypeOK'
    BY <1>19, <2>1 DEF SaveAligned, TypeOK, op, readModel, bounds
  <2> QED  BY <1>19, <2>2, <2>3 DEF SaveAligned, Shape, Live, op, Numbered
<1> QED
  BY <1>1, <1>2, <1>3, <1>4, <1>5, <1>6, <1>7, <1>8, <1>9, <1>10, <1>11, <1>12,
     <1>13, <1>14, <1>15, <1>16, <1>17, <1>18, <1>19 DEF Next, Restart

\* The type invariant: every variable keeps its type, whatever raises and
\* wherever the process dies.
THEOREM TypeCorrect == Spec => []TypeOK
<1>1. Spec => [](TypeOK /\ Shape)
  BY InitShape, StepShape, PTL DEF Spec
<1> QED  BY <1>1, PTL

-----------------------------------------------------------------------------
(* The journal                                                             *)

\* past is what the journal's events amount to, one by one, as long as no
\* event was counted at another's place.
History ==
  /\ \A i \in 1 .. Len(log) :
       /\ past[i].n = i /\ past[i].stops # Unset
       /\ past[i].trade = 0 => past[i].stops = 0
  /\ ~slipped => \A i \in 1 .. Len(log) - 1 : past[i + 1] = Applied(past[i], log[i + 1])

\* A state is what some first part of the journal amounts to.
Traced(s) == s.n = 0 \/ (s.n <= Len(log) /\ Same(s, past[s.n], aligned, synced))

Prefixes ==
  /\ at # 1 /\ aside # 1
  /\ stage = "replay" => red.n # 0
  /\ ~slipped => /\ Traced(file.red) /\ Traced(snap.red) /\ Traced(cache.red)
                 /\ Traced(copy.red) /\ Traced(other.red)
                 /\ stage # "down" => Traced(red)

\* No event is missing but those appended and not yet applied.
Pending(i) == IF i = 0 THEN 0 ELSE 1
Complete ==
  ~slipped /\ Live /\ source \in {"boot", "db"} =>
    red.n + Pending(at) + Pending(aside) = Len(log)

\* The journal only grows, and a slip is not undone.
Grown ==
  /\ Len(log) \in Nat \ {0} /\ Len(log') \in Nat /\ Len(log) <= Len(log')
  /\ \A i \in 1 .. Len(log) : past'[i] = past[i] /\ log'[i] = log[i]
  /\ slipped => slipped'
  /\ aligned \subseteq aligned' /\ (synced => synced')

LEMMA Lengths ==
  ASSUME TypeOK, Shape
  PROVE  /\ Len(log) \in Nat \ {0} /\ Len(past) = Len(log)
         /\ \A i \in 1 .. Len(log) : log[i] \in Event /\ past[i] \in State
  BY LenProperties, ElementOfSeq DEF TypeOK, Shape

\* What another wallet's row does to the history.
LEMMA ForeignRow ==
  ASSUME TypeOK, Shape, ForeignAppend
  PROVE  /\ Len(log') = Len(log) + 1
         /\ \A i \in 1 .. Len(log) : log'[i] = log[i] /\ past'[i] = past[i]
         /\ past'[Len(log) + 1] = [past[Len(log)] EXCEPT !.n = Len(log) + 1]
         /\ slipped' = TRUE /\ stage = "down"
         /\ UNCHANGED <<red, run, bal, op, aside, aligner, images, readModel, synced, source>>
<1> DEFINE row == [past[Len(log)] EXCEPT !.n = Len(log) + 1]
<1>1. PICK e \in ForeignEvents : log' = Append(log, e)
  BY DEF ForeignAppend, ForeignEvents
<1>2. e \in Event
  BY ForeignEvent
<1>3. row \in State /\ Len(past) = Len(log)
  <2>1. past[Len(log)] \in State /\ Len(log) + 1 \in Nat /\ Len(past) = Len(log)
    BY Lengths
  <2> QED  BY <2>1 DEF State
<1>4. past' = Append(past, row)
  BY <1>3 DEF ForeignAppend
<1> HIDE DEF row
<1>5. /\ Len(log') = Len(log) + 1
      /\ \A i \in 1 .. Len(log) : log'[i] = log[i] /\ past'[i] = past[i]
      /\ past'[Len(log) + 1] = row
  BY <1>1, <1>2, <1>3, <1>4, AppendProperties DEF TypeOK
<1> QED  BY <1>5 DEF row, ForeignAppend

\* Every other step leaves the journal or records one event of its own.
LEMMA JournalStep ==
  ASSUME TypeOK, Shape, [Next]_vars
  PROVE  \/ ForeignAppend
         \/ UNCHANGED <<log, past>>
         \/ \E e \in Event : Record(e) /\ slipped' = slipped
<1>1. ASSUME AppendEvent  PROVE UNCHANGED <<log, past>> \/ \E e \in Event : Record(e) /\ slipped' = slipped
  BY <1>1, TailEvents DEF AppendEvent, TypeOK, Shape
<1>2. ASSUME AsideAppend  PROVE \E e \in Event : Record(e) /\ slipped' = slipped
  <2>1. PICK e \in AsideEvents : Record(e)
    BY <1>2 DEF AsideAppend, AsideEvents
  <2>2. e \in Event
    BY AsideEvent
  <2> QED  BY <1>2, <2>1, <2>2 DEF AsideAppend
<1> QED
  BY <1>1, <1>2
     DEF Next, Restart, vars, Begin, ApplyEvent, SaveFile, SaveSnapshot, PutCache,
         AsideApply, SyncBalance, AlignQuantity, SaveAligned, Crash, CacheExpires, LoadCache, LoadSnapshot, ReplayEvent,
         EndReplay, LoadFile, StartEmpty, Up

LEMMA Grows ==
  ASSUME TypeOK, Shape, [Next]_vars
  PROVE  Grown
<1>1. Len(log) \in Nat \ {0}
  BY Lengths
<1>2. slipped => slipped'
  BY DEF Next, Restart, vars, Begin, AppendEvent, ApplyEvent, Reduce, SaveFile,
         SaveSnapshot, PutCache, AsideAppend, AsideApply, SyncBalance, AlignQuantity,
         SaveAligned, ForeignAppend, Crash, CacheExpires, LoadCache, LoadSnapshot,
         ReplayEvent, EndReplay, LoadFile, StartEmpty, Up, TypeOK
<1>6. aligned \subseteq aligned'
  BY DEF Next, Restart, vars, Begin, AppendEvent, ApplyEvent, SaveFile,
         SaveSnapshot, PutCache, AsideAppend, AsideApply, SyncBalance, AlignQuantity,
         SaveAligned, ForeignAppend, Crash, CacheExpires, LoadCache, LoadSnapshot,
         ReplayEvent, EndReplay, LoadFile, StartEmpty, Up, aligner
<1>7. synced => synced'
  BY DEF Next, Restart, vars, Begin, AppendEvent, ApplyEvent, SaveFile, Copied,
         SaveSnapshot, PutCache, AsideAppend, AsideApply, SyncBalance, AlignQuantity,
         SaveAligned, ForeignAppend, Crash, CacheExpires, LoadCache, LoadSnapshot,
         ReplayEvent, EndReplay, LoadFile, StartEmpty, Up, TypeOK
<1>3. CASE ForeignAppend
  BY <1>1, <1>2, <1>3, <1>6, <1>7, ForeignRow DEF Grown
<1>4. CASE UNCHANGED <<log, past>>
  BY <1>1, <1>2, <1>4, <1>6, <1>7 DEF Grown
<1>5. CASE \E e \in Event : Record(e)
  BY <1>1, <1>2, <1>5, <1>6, <1>7, Recorded DEF Grown
<1> QED  BY <1>3, <1>4, <1>5, JournalStep

LEMMA SameApplied ==
  ASSUME NEW s \in State, NEW t \in State, NEW e \in Event, NEW al, NEW ba \in BOOLEAN,
         Same(s, t, al, ba)
  PROVE  Same(Applied(s, e), Applied(t, e), al, ba)
<1>1. s.n = t.n /\ s.trade = t.trade /\ s.sl = t.sl
      /\ (s.trade \notin al => s.qty = t.qty) /\ (~ba => s.bal = t.bal)
  BY DEF Same
<1>2. TradeAfter(s, e) = TradeAfter(t, e) /\ SlAfter(s, e) = SlAfter(t, e)
  BY <1>1 DEF TradeAfter, SlAfter
<1>3. TradeAfter(s, e) \notin al => QtyAfter(s, e) = QtyAfter(t, e)
  BY <1>1 DEF TradeAfter, QtyAfter
<1> QED  BY <1>1, <1>2, <1>3, AppliedState DEF Same

LEMMA SameDeserialized ==
  ASSUME NEW s, NEW al, NEW ba
  PROVE  Same(Deserialized(s), s, al, ba) /\ Deserialized(s).n = s.n
  BY DEF Deserialized, Same

LEMMA StepHistory ==
  ASSUME TypeOK, Shape, History, [Next]_vars
  PROVE  History'
<1> DEFINE L == Len(log)
<1>1. L \in Nat \ {0} /\ \A i \in 1 .. L : log[i] \in Event /\ past[i] \in State
  BY Lengths
<1>2. CASE ForeignAppend
  <2>1. /\ Len(log') = L + 1 /\ slipped' = TRUE
        /\ \A i \in 1 .. L : past'[i] = past[i]
        /\ past'[L + 1] = [past[L] EXCEPT !.n = L + 1]
    BY <1>2, ForeignRow
  <2>2. /\ past'[L + 1].n = L + 1 /\ past'[L + 1].stops = past[L].stops
        /\ past'[L + 1].trade = past[L].trade
    BY <1>1, <2>1 DEF State
  <2> HIDE DEF L
  <2>3. past[L].stops # Unset /\ (past[L].trade = 0 => past[L].stops = 0)
    BY <1>1 DEF History, L
  <2>4. \A i \in 1 .. L + 1 :
          /\ past'[i].n = i /\ past'[i].stops # Unset
          /\ past'[i].trade = 0 => past'[i].stops = 0
    <3>1. \A i \in 1 .. L : past'[i] = past[i]
      BY <2>1
    <3>2. \A i \in 1 .. L :
            /\ past[i].n = i /\ past[i].stops # Unset
            /\ past[i].trade = 0 => past[i].stops = 0
      BY DEF History, L
    <3>3. \A i \in 1 .. L + 1 : i \in 1 .. L \/ i = L + 1
      BY <1>1
    <3> QED  BY <2>2, <2>3, <3>1, <3>2, <3>3
  <2> QED  BY <2>1, <2>4 DEF History
<1>3. CASE UNCHANGED <<log, past>>
  <2>1. slipped => slipped'
    BY Grows DEF Grown
  <2> QED  BY <1>3, <2>1 DEF History
<1>4. ASSUME NEW e \in Event, Record(e), slipped' = slipped
      PROVE  History'
  <2>1. /\ Len(log') = L + 1
        /\ \A i \in 1 .. L : log'[i] = log[i] /\ past'[i] = past[i]
        /\ log'[L + 1] = e /\ past[L] \in State
        /\ past'[L + 1] = Applied(past[L], e)
    BY <1>4, Recorded
  <2>2. past[L].n = L /\ past[L].stops # Unset /\ (past[L].trade = 0 => past[L].stops = 0)
    BY <1>1 DEF History
  <2>3. /\ past'[L + 1].n = past[L].n + 1
        /\ past'[L + 1].stops = StopsAfter(past[L], e)
        /\ past'[L + 1].trade = TradeAfter(past[L], e)
    BY <2>1, AppliedState
  <2>4. StopsAfter(past[L], e) # Unset
    BY <2>2 DEF StopsAfter, Event, Unset
  <2>5. TradeAfter(past[L], e) = 0 => StopsAfter(past[L], e) = 0
    BY <2>2 DEF StopsAfter, TradeAfter
  <2> HIDE DEF L
  <2>6. \A i \in 1 .. L + 1 :
          /\ past'[i].n = i /\ past'[i].stops # Unset
          /\ past'[i].trade = 0 => past'[i].stops = 0
    BY <1>1, <2>1, <2>2, <2>3, <2>4, <2>5 DEF History, L
  <2>7. ~slipped => \A i \in 1 .. L : past'[i + 1] = Applied(past'[i], log'[i + 1])
    BY <1>1, <2>1 DEF History, L
  <2> QED  BY <1>1, <1>4, <2>1, <2>6, <2>7 DEF History, L
<1> QED  BY <1>2, <1>3, <1>4, JournalStep

LEMMA TracedStays ==
  ASSUME Grown, NEW s \in State, Traced(s)
  PROVE  s.n = 0 \/ (s.n <= Len(log') /\ Same(s, past'[s.n], aligned', synced'))
<1>1. CASE s.n = 0
  BY <1>1
<1>2. CASE s.n # 0
  <2>1. s.n \in 1 .. Len(log) /\ Same(s, past[s.n], aligned, synced) /\ s.n <= Len(log')
    BY <1>2 DEF Grown, Traced, State
  <2>2. past'[s.n] = past[s.n] /\ aligned \subseteq aligned' /\ (synced => synced')
    BY <2>1 DEF Grown
  <2> QED  BY <2>1, <2>2 DEF Same
<1> QED  BY <1>1, <1>2

\* The reducer takes the journal's next event.
LEMMA TracedApplied ==
  ASSUME TypeOK, Shape, History, ~slipped, NEW s \in State, s.n # 0, Traced(s),
         s.n + 1 <= Len(log)
  PROVE  Traced(Applied(s, log[s.n + 1]))
<1> DEFINE n == s.n
<1>0. synced \in BOOLEAN
  BY DEF TypeOK
<1>1. n \in 1 .. Len(log) - 1 /\ Len(log) \in Nat /\ Same(s, past[n], aligned, synced)
  BY Lengths DEF State, Traced
<1>2. log[n + 1] \in Event /\ past[n] \in State /\ past[n + 1] = Applied(past[n], log[n + 1])
  BY <1>1, Lengths DEF History
<1>3. Same(Applied(s, log[n + 1]), past[n + 1], aligned, synced)
  BY <1>0, <1>1, <1>2, SameApplied
<1>4. Applied(s, log[n + 1]).n = n + 1
  BY <1>2, AppliedState
<1> QED  BY <1>1, <1>3, <1>4 DEF Traced

\* An event applied at its own place keeps the reducer on the journal.
LEMMA TracedReduced ==
  ASSUME TypeOK, Shape, History, Traced(red), NEW i \in 1 .. Len(log), i # 1,
         Reduce(log[i], i), ~slipped'
  PROVE  /\ ~slipped /\ red'.n = i /\ red.n + 1 = i
         /\ red'.n = 0 \/ (red'.n <= Len(log) /\ Same(red', past[red'.n], aligned, synced))
<1>1. red' = Applied(red, log[i]) /\ ~slipped /\ red.n + 1 = i
  BY DEF Reduce
<1>2. red \in State /\ red.n \in Nat /\ i \in Nat
  BY Lengths DEF TypeOK, State
<1>3. red.n # 0 /\ red.n + 1 <= Len(log) /\ log[i] \in Event
  BY <1>1, <1>2, Lengths
<1>4. Traced(Applied(red, log[red.n + 1]))
  BY <1>1, <1>2, <1>3, TracedApplied
<1>5. red'.n = red.n + 1
  BY <1>1, <1>2, <1>3, AppliedState
<1> QED  BY <1>1, <1>4, <1>5 DEF Traced

\* An image that is loaded, and the recovery from nothing.
LEMMA TracedUp ==
  ASSUME NEW img \in Image, NEW from, Up(img, from), Traced(img.red)
  PROVE  red'.n = 0 \/ (red'.n <= Len(log) /\ Same(red', past[red'.n], aligned, synced))
<1>1. red' = Deserialized(img.red)
  BY DEF Up
<1>2. Same(red', img.red, aligned, synced) /\ red'.n = img.red.n
  BY <1>1, SameDeserialized
<1> QED  BY <1>2 DEF Traced, Same

LEMMA StepPrefixes ==
  ASSUME TypeOK, Shape, History, Prefixes, [Next]_vars
  PROVE  Prefixes'
<1>0. Grown /\ Len(log) \in Nat \ {0}
  BY Grows, Lengths
<1>1. /\ red \in State /\ file.red \in State /\ snap.red \in State /\ cache.red \in State
      /\ copy.red \in State /\ other.red \in State
  BY DEF TypeOK, Image
\* What is left as it was stays part of the journal.
<1> DEFINE Kept(s) == s.n = 0 \/ (s.n <= Len(log') /\ Same(s, past'[s.n], aligned', synced'))
           KeptAll == /\ Kept(file'.red) /\ Kept(snap'.red) /\ Kept(cache'.red)
                      /\ Kept(copy'.red) /\ Kept(other'.red)
<1>2. ~slipped => /\ Kept(file.red) /\ Kept(snap.red) /\ Kept(cache.red)
                  /\ Kept(copy.red) /\ Kept(other.red)
                  /\ stage # "down" => Kept(red)
  BY <1>0, <1>1, TracedStays DEF Prefixes
<1>3. Kept(NoImage.red)
  BY DEF NoImage, Fresh
<1>4. slipped => slipped'
  BY <1>0 DEF Grown
\* What is to be shown of the next state.
<1>20. ASSUME at' # 1, aside' # 1, stage' = "replay" => red'.n # 0,
              ~slipped' => KeptAll, ~slipped' /\ stage' # "down" => Kept(red')
       PROVE  Prefixes'
  BY <1>20 DEF Prefixes, Traced
<1> HIDE DEF Kept
<1>21. ASSUME file' \in {file, NoImage}, snap' \in {snap, copy, other},
              cache' \in {cache, copy, other, NoImage}, copy' \in {copy, NoImage},
              other' \in {other, NoImage}, ~slipped'
       PROVE  KeptAll
  BY <1>2, <1>3, <1>4, <1>21
<1> HIDE DEF KeptAll
<1>5. ASSUME Begin \/ CacheExpires \/ Crash \/ SyncBalance \/ UNCHANGED vars  PROVE Prefixes'
  <2>1. /\ at' \in {at, 0} /\ aside' \in {aside, 0}
        /\ file' = file /\ snap' = snap /\ cache' \in {cache, NoImage}
        /\ copy' \in {copy, NoImage} /\ other' \in {other, NoImage}
        /\ stage' = "down" \/ (red' = red /\ (stage = "down" => stage' = "down"))
        /\ stage' = "replay" => stage = "replay" /\ red' = red
    BY <1>5 DEF Begin, CacheExpires, Crash, SyncBalance, vars, op, images, aligner
  <2>2. at' # 1 /\ aside' # 1 /\ (stage' = "replay" => red'.n # 0)
    BY <2>1 DEF Prefixes
  <2>3. ~slipped' => KeptAll
    BY <1>21, <2>1
  <2>4. ~slipped' /\ stage' # "down" => Kept(red')
    BY <1>2, <1>4, <2>1
  <2> QED  BY <1>20, <2>2, <2>3, <2>4
<1>6. ASSUME AppendEvent \/ AsideAppend  PROVE Prefixes'
  <2>1. /\ at' \in {at, 0, Len(log) + 1} /\ aside' \in {aside, Len(log) + 1}
        /\ UNCHANGED <<file, snap, cache, red, other>> /\ stage # "down"
        /\ copy' \in {copy, NoImage} /\ stage' # "replay"
    BY <1>6 DEF AppendEvent, AsideAppend, Abort, op, images, Live, aligner
  <2>2. at' # 1 /\ aside' # 1
    BY <1>0, <2>1 DEF Prefixes
  <2>3. ~slipped' => KeptAll
    BY <1>21, <2>1
  <2>4. ~slipped' => Kept(red')
    BY <1>2, <1>4, <2>1
  <2> QED  BY <1>20, <2>1, <2>2, <2>3, <2>4
<1>7. ASSUME ApplyEvent  PROVE Prefixes'
  <2>1. /\ at' = 0 /\ aside' = aside /\ UNCHANGED <<file, snap, cache, other, aligned, synced>>
        /\ copy' \in {copy, NoImage}
        /\ stage' # "replay" /\ stage = "apply" /\ UNCHANGED <<log, past>>
    BY <1>7 DEF ApplyEvent, Abort, AfterEvent, images, aligner
  <2>2. aside' # 1
    BY <2>1 DEF Prefixes
  <2>3. ~slipped' => KeptAll
    BY <1>21, <2>1
  <2>4. CASE Reduce(log[at], at)
    <3>1. at \in 1 .. Len(log) /\ at # 1
      BY <1>0, <2>1 DEF Shape, Prefixes
    <3>2. ~slipped' => Traced(red)
      BY <1>4, <2>1 DEF Prefixes
    <3>3. ~slipped' => Kept(red')
      BY <2>1, <2>4, <3>1, <3>2, TracedReduced DEF Kept
    <3> QED  BY <1>20, <2>1, <2>2, <2>3, <3>3
  <2>5. CASE slipped'
    BY <1>20, <2>1, <2>2, <2>3, <2>5
  <2> QED  BY <1>7, <2>4, <2>5 DEF ApplyEvent
<1>8. ASSUME AsideApply  PROVE Prefixes'
  <2>1. /\ aside' = 0 /\ UNCHANGED <<at, stage, file, snap, cache, copy, other, aligned, synced>>
        /\ UNCHANGED <<log, past>>
        /\ aside \in 1 .. Len(log) /\ aside # 1 /\ stage \notin {"down", "replay"}
    BY <1>0, <1>8 DEF AsideApply, op, images, aligner, Shape, Live, Prefixes
  <2>2. ~slipped' => Traced(red)
    BY <1>4, <2>1 DEF Prefixes
  <2>3. ~slipped' => Kept(red')
    BY <1>8, <2>1, <2>2, TracedReduced DEF AsideApply, Kept
  <2>4. ~slipped' => KeptAll
    BY <1>21, <2>1
  <2>5. at' # 1
    BY <2>1 DEF Prefixes
  <2> QED  BY <1>20, <2>1, <2>3, <2>4, <2>5
<1>22. ASSUME Copied  PROVE ~slipped' /\ stage # "down" /\ red' = red => Kept(Written.red)
  <2>1. /\ Written.red.n = red.n /\ Written.red.trade = red.trade
        /\ Written.red.qty = red.qty /\ Written.red.sl = red.sl
        /\ Written.red.bal = bal
    BY WrittenType
  <2>2. ~synced' => bal = red.bal
    BY <1>22 DEF Copied
  <2>3. Kept(red) => Kept(Written.red)
    BY <2>1, <2>2 DEF Kept, Same
  <2> QED  BY <1>2, <1>4, <2>3
<1>9. ASSUME SaveFile \/ SaveSnapshot \/ PutCache \/ SaveAligned  PROVE Prefixes'
  <2>1. /\ at' \in {at, 0} /\ aside' = aside /\ stage' # "replay" /\ stage # "down"
        /\ red' = red
    <3>1. SaveAligned => stage # "down" /\ stage # "replay"
      BY DEF SaveAligned, Shape, Live
    <3> QED  BY <1>9, <3>1 DEF SaveFile, SaveSnapshot, PutCache, SaveAligned, Abort, op
  <2>2. at' # 1 /\ aside' # 1
    BY <2>1 DEF Prefixes
  <2>3. ~slipped' => Kept(red')
    BY <1>2, <1>4, <2>1
  <2>4. CASE Copied /\ file' = Written /\ snap' = snap /\ cache' = cache
             /\ copy' \in {copy, Written} /\ other' \in {other, Written}
    <3>1. ~slipped' => Kept(Written.red)
      BY <1>22, <2>1, <2>4
    <3>2. ~slipped' => KeptAll
      BY <1>2, <1>4, <2>4, <3>1 DEF KeptAll
    <3> QED  BY <1>20, <2>1, <2>2, <2>3, <3>2
  <2>5. CASE file' = file /\ snap' \in {snap, copy, other} /\ cache' \in {cache, copy, other}
             /\ copy' \in {copy, NoImage} /\ other' \in {other, NoImage}
    <3>1. ~slipped' => KeptAll
      BY <1>21, <2>5
    <3> QED  BY <1>20, <2>1, <2>2, <2>3, <3>1
  <2>6. CASE SaveFile
    BY <2>4, <2>6 DEF SaveFile, aligner
  <2>7. CASE SaveSnapshot \/ PutCache
    BY <2>5, <2>7 DEF SaveSnapshot, PutCache, Abort, aligner
  <2>8. CASE SaveAligned
    BY <2>4, <2>5, <2>8 DEF SaveAligned, op
  <2> QED  BY <1>9, <2>6, <2>7, <2>8
<1>10. CASE ForeignAppend
  <2>1. slipped' /\ at' = at /\ aside' = aside /\ stage' = "down"
    BY <1>10, ForeignRow DEF op
  <2> QED  BY <2>1 DEF Prefixes
<1>11. ASSUME LoadCache \/ LoadFile \/ StartEmpty  PROVE Prefixes'
  <2>1. PICK img \in {cache, file, NoImage}, from \in {"cache", "file", "none"} : Up(img, from)
    BY <1>11 DEF LoadCache, LoadFile, StartEmpty
  <2>2. NoImage \in Image /\ NoImage.red.n = 0
    BY DEF NoImage, Image, Fresh, State, NoPosition, Position
  <2>3. img \in Image /\ (~slipped => Traced(img.red))
    BY <2>1, <2>2 DEF TypeOK, Prefixes, Traced
  <2>5. /\ UNCHANGED <<log, past, slipped, synced, at, aside, file, snap, cache, copy, other, aligned>>
        /\ stage' = "ready"
    BY <2>1 DEF Up, images, aligner
  <2>4. ~slipped' => Kept(red')
    BY <2>1, <2>3, <2>5, TracedUp DEF Kept
  <2>6. ~slipped' => KeptAll
    BY <1>21, <2>5
  <2>7. at' # 1 /\ aside' # 1
    BY <2>5 DEF Prefixes
  <2> QED  BY <1>20, <2>4, <2>5, <2>6, <2>7
<1>12. ASSUME LoadSnapshot  PROVE Prefixes'
  <2>1. /\ UNCHANGED <<log, past, slipped, synced, at, aside, file, snap, cache, copy, other, aligned>>
        /\ red' = Deserialized(snap.red) /\ snap.red.n > 0
    BY <1>12 DEF LoadSnapshot, images, Found, aligner
  <2>2. Same(red', snap.red, aligned, synced) /\ red'.n = snap.red.n
    BY <2>1, SameDeserialized
  <2>3. red'.n # 0
    BY <1>1, <2>1, <2>2 DEF State
  <2>4. ~slipped' => Kept(red')
    BY <2>1, <2>2 DEF Prefixes, Traced, Same, Kept
  <2>5. ~slipped' => KeptAll
    BY <1>21, <2>1
  <2>6. at' # 1 /\ aside' # 1
    BY <2>1 DEF Prefixes
  <2> QED  BY <1>20, <2>3, <2>4, <2>5, <2>6
<1>13. ASSUME ReplayEvent  PROVE Prefixes'
  <2>1. /\ UNCHANGED <<log, past, slipped, synced, at, aside, file, snap, cache, copy, other, aligned, stage>>
        /\ stage = "replay" /\ red.n < Len(log) /\ red' = Applied(red, log[red.n + 1])
    BY <1>13 DEF ReplayEvent, op, images, aligner
  <2>2. red.n \in Nat \ {0} /\ red.n + 1 \in 1 .. Len(log)
    <3>1. red.n \in Nat /\ red.n # 0
      BY <1>1, <2>1 DEF State, Prefixes
    <3> QED  BY <1>0, <2>1, <3>1
  <2>3. red'.n = red.n + 1
    BY <1>1, <2>1, <2>2, Lengths, AppliedState
  <2>4. ~slipped => Traced(Applied(red, log[red.n + 1]))
    BY <1>1, <2>1, <2>2, TracedApplied DEF Prefixes
  <2>5. ~slipped' => Kept(red')
    BY <2>1, <2>4 DEF Traced, Kept
  <2>6. ~slipped' => KeptAll
    BY <1>21, <2>1
  <2>7. at' # 1 /\ aside' # 1 /\ red'.n # 0
    BY <2>1, <2>2, <2>3 DEF Prefixes
  <2> QED  BY <1>20, <2>5, <2>6, <2>7
<1>14. ASSUME EndReplay  PROVE Prefixes'
  <2>1. /\ UNCHANGED <<log, past, slipped, synced, at, aside, file, snap, cache, copy, other, aligned, red>>
        /\ stage = "replay" /\ stage' = "ready"
    BY <1>14 DEF EndReplay, images, aligner
  <2>2. ~slipped' => KeptAll
    BY <1>21, <2>1
  <2>3. ~slipped' => Kept(red')
    BY <1>2, <1>4, <2>1
  <2>4. at' # 1 /\ aside' # 1
    BY <2>1 DEF Prefixes
  <2> QED  BY <1>20, <2>1, <2>2, <2>3, <2>4
<1>15. ASSUME AlignQuantity  PROVE Prefixes'
  <2>1. /\ UNCHANGED <<at, aside, stage, file, snap, cache, copy, other, synced>>
        /\ stage \notin {"down", "replay"}
    BY <1>15 DEF AlignQuantity, op, images, Live
  <2>2. /\ red'.n = red.n /\ red'.bal = red.bal /\ red'.trade = red.trade
        /\ red'.sl = red.sl /\ (red'.trade \notin aligned' => red' = red)
    <3>1. red.trade # 0 => red.trade \in aligned'
      BY <1>15 DEF AlignQuantity
    <3> QED  BY <1>15, <3>1, AlignedTypes
  <2>3. Kept(red) => Kept(red')
    BY <2>2 DEF Kept, Same
  <2>4. ~slipped' => Kept(red')
    BY <1>2, <1>4, <2>1, <2>3
  <2>5. ~slipped' => KeptAll
    BY <1>21, <2>1
  <2>6. at' # 1 /\ aside' # 1
    BY <2>1 DEF Prefixes
  <2> QED  BY <1>20, <2>1, <2>4, <2>5, <2>6
<1> QED
  BY <1>5, <1>6, <1>7, <1>8, <1>9, <1>10, <1>11, <1>12, <1>13, <1>14, <1>15 DEF Next, Restart

LEMMA StepComplete ==
  ASSUME TypeOK, Shape, History, Prefixes, Complete, [Next]_vars
  PROVE  Complete'
<1>0. Grown /\ Len(log) \in Nat \ {0} /\ at \in Nat /\ aside \in Nat
  BY Grows, Lengths DEF TypeOK
<1>1. red \in State /\ red.n \in Nat
  BY DEF TypeOK, State
<1>2. slipped => slipped'
  BY <1>0 DEF Grown
<1>3. ASSUME Begin \/ SaveFile \/ SaveSnapshot \/ PutCache \/ SyncBalance \/ SaveAligned
             \/ UNCHANGED vars
      PROVE  Complete'
  <2>1. /\ UNCHANGED <<log, red, source, aside, slipped>> /\ at' \in {at, 0}
        /\ at' # at => stage \notin {"down", "replay"}
        /\ stage' \notin {"down", "replay"} => stage \notin {"down", "replay"}
        /\ at' # at => stage # "apply"
    BY <1>3 DEF Begin, SaveFile, SaveSnapshot, PutCache, SyncBalance, SaveAligned, Abort, vars, op
  <2>2. at' = at
    BY <2>1 DEF Shape
  <2> QED  BY <2>1, <2>2 DEF Complete, Live
<1>4. ASSUME AppendEvent  PROVE Complete'
  <2>1. UNCHANGED <<red, aside, slipped, source>> /\ at = 0 /\ Live
    BY <1>4 DEF AppendEvent, Shape, Live
  <2>2. CASE Record(Head(todo)) /\ at' = Len(log) + 1
    <3>1. Len(log') = Len(log) + 1
      BY <1>4, <2>2, Recorded, TailEvents DEF AppendEvent, TypeOK, Shape
    <3> QED  BY <1>0, <1>1, <2>1, <2>2, <3>1 DEF Complete, Pending
  <2>3. CASE at' = 0 /\ log' = log
    BY <2>1, <2>3 DEF Complete, Pending
  <2> QED  BY <1>4, <2>2, <2>3 DEF AppendEvent, Abort
<1>5. ASSUME ApplyEvent  PROVE Complete'
  <2>1. UNCHANGED <<log, past, aside, source>> /\ at' = 0 /\ Live /\ at \in 1 .. Len(log) /\ at # 1
    BY <1>0, <1>5 DEF ApplyEvent, Abort, Live, Shape, Prefixes
  <2>2. CASE Reduce(log[at], at)
    <3>1. ~slipped' => ~slipped /\ red'.n = red.n + 1
      <4>1. ~slipped' => ~slipped /\ Traced(red)
        BY <1>2, <2>1 DEF Prefixes, Live
      <4> QED  BY <2>1, <2>2, <4>1, TracedReduced
    <3> QED  BY <1>0, <1>1, <2>1, <3>1 DEF Complete, Pending, Live
  <2>3. CASE slipped'
    BY <2>3 DEF Complete
  <2> QED  BY <1>5, <2>2, <2>3 DEF ApplyEvent
<1>6. ASSUME AsideAppend  PROVE Complete'
  <2>1. UNCHANGED <<red, at, stage, slipped, source>> /\ aside = 0 /\ aside' = Len(log) + 1
    BY <1>6 DEF AsideAppend, op
  <2>2. Len(log') = Len(log) + 1
    BY <1>6, AsideEvent, Recorded DEF AsideAppend, AsideEvents
  <2> QED  BY <1>0, <1>1, <2>1, <2>2 DEF Complete, Pending, Live
<1>7. ASSUME AsideApply  PROVE Complete'
  <2>1. UNCHANGED <<log, past, at, stage, source>> /\ aside' = 0 /\ Live
        /\ aside \in 1 .. Len(log) /\ aside # 1
    BY <1>0, <1>7 DEF AsideApply, op, Shape, Live, Prefixes
  <2>2. ~slipped' => ~slipped /\ red'.n = red.n + 1
    <3>1. ~slipped' => ~slipped /\ Traced(red)
      BY <1>2, <2>1 DEF Prefixes, Live
    <3> QED  BY <1>7, <2>1, <3>1, TracedReduced DEF AsideApply
  <2> QED  BY <1>0, <1>1, <2>1, <2>2 DEF Complete, Pending, Live
<1>8. ASSUME ForeignAppend  PROVE Complete'
  <2>1. slipped'
    BY <1>8, ForeignRow
  <2> QED  BY <2>1 DEF Complete
<1>9. ASSUME Crash \/ CacheExpires \/ LoadSnapshot \/ ReplayEvent  PROVE Complete'
  <2>1. stage' \in {"down", "replay"}
    BY <1>9 DEF Crash, CacheExpires, LoadSnapshot, ReplayEvent, op
  <2> QED  BY <2>1 DEF Complete, Live
<1>10. ASSUME LoadCache \/ LoadFile \/ StartEmpty  PROVE Complete'
  <2>1. source' \in {"cache", "file", "none"}
    BY <1>10 DEF LoadCache, LoadFile, StartEmpty, Up
  <2> QED  BY <2>1 DEF Complete
<1>12. ASSUME AlignQuantity  PROVE Complete'
  <2>1. UNCHANGED <<log, at, aside, slipped, source, stage>> /\ red'.n = red.n
    BY <1>12, AlignedTypes DEF AlignQuantity, op
  <2> QED  BY <2>1 DEF Complete, Live
<1>11. ASSUME EndReplay  PROVE Complete'
  <2>1. /\ UNCHANGED <<log, red, at, aside, slipped>> /\ stage = "replay"
        /\ red.n >= Len(log) /\ at = 0 /\ aside = 0
    BY <1>11 DEF EndReplay, Shape, Live
  <2>2. ~slipped => red.n <= Len(log)
    BY <2>1 DEF Prefixes, Traced
  <2> QED  BY <1>0, <1>1, <2>1, <2>2 DEF Complete, Pending
<1> QED
  BY <1>3, <1>4, <1>5, <1>6, <1>7, <1>8, <1>9, <1>10, <1>11, <1>12 DEF Next, Restart

Recovery == TypeOK /\ Shape /\ History /\ Prefixes /\ Complete

LEMMA InitRecovery == Init => Recovery
<1> SUFFICES ASSUME Init  PROVE Recovery
  OBVIOUS
<1> DEFINE e == Ev("noted", 0, 0)
<1>1. e \in Event /\ Fresh \in State
  BY EventType DEF Kinds, Fresh, State
<1>2. Applied(Fresh, e).n = 1 /\ Applied(Fresh, e).trade = 0 /\ Applied(Fresh, e).stops = 0
  <2>1. e.kind = "noted"
    BY EventType DEF Kinds
  <2>2. /\ Applied(Fresh, e).n = Fresh.n + 1
        /\ Applied(Fresh, e).trade = TradeAfter(Fresh, e)
        /\ Applied(Fresh, e).stops = StopsAfter(Fresh, e)
    BY <1>1, AppliedState
  <2>3. TradeAfter(Fresh, e) = 0 /\ StopsAfter(Fresh, e) = 0 /\ Fresh.n + 1 = 1
    BY <2>1 DEF Fresh, TradeAfter, StopsAfter, Opens
  <2> QED  BY <2>2, <2>3
<1> HIDE DEF e
<1>3. /\ Len(log) = 1 /\ past[1] = red /\ red = Applied(Fresh, e) /\ Len(past) = 1
      /\ at = 0 /\ aside = 0 /\ stage = "ready"
      /\ file = NoImage /\ snap = NoImage /\ cache = NoImage
      /\ copy = NoImage /\ other = NoImage
  BY DEF Init, e
<1>4. NoImage.red.n = 0
  BY DEF NoImage, Fresh
<1>5. History
  BY <1>2, <1>3 DEF History, Unset
<1>6. Prefixes
  BY <1>2, <1>3, <1>4 DEF Prefixes, Traced, Same
<1>7. Complete
  BY <1>2, <1>3 DEF Complete, Pending
<1> QED  BY <1>5, <1>6, <1>7, InitShape DEF Recovery

LEMMA StepRecovery == Recovery /\ [Next]_vars => Recovery'
  BY StepShape, StepHistory, StepPrefixes, StepComplete DEF Recovery

\* Event sourcing: whenever nothing is in progress and every event was counted
\* at its own place, the wallet is what its journal amounts to, after any
\* crashes anywhere in an operation, a save or a recovery -- but for the
\* quantities the reconcilers aligned without an event (reconciliation.py:
\* 113-123, reconciler.py:159-173) and a balance saved from the account's.
THEOREM RecoversJournal == Spec => []JournalIsState
<1>1. Recovery => JournalIsState
  <2> SUFFICES ASSUME Recovery, Ready, ~slipped,
                      source \in {"boot", "db"} \/ red.n = Len(log)
               PROVE  Same(red, Journal, aligned, synced)
    BY DEF JournalIsState
  <2>1. Len(log) \in Nat \ {0} /\ red.n \in Nat /\ stage = "ready" /\ aside = 0
    BY Lengths DEF Recovery, Ready, TypeOK, State
  <2>2. at = 0
    BY <2>1 DEF Recovery, Shape
  <2>3. red.n = Len(log)
    BY <2>1, <2>2 DEF Recovery, Complete, Pending, Live
  <2> QED  BY <2>1, <2>3 DEF Recovery, Prefixes, Traced, Journal
<1> QED  BY <1>1, InitRecovery, StepRecovery, PTL DEF Spec

-----------------------------------------------------------------------------
(* The runtime position and the read model                                 *)

LEMMA SyncedFields ==
  ASSUME NEW pos \in Position, NEW s \in State
  PROVE  /\ s.trade = 0 => Synced(pos, s) = NoPosition
         /\ s.trade # 0 =>
              /\ Synced(pos, s).trade # 0
              /\ Synced(pos, s).trade = IF pos.trade # 0 THEN pos.trade ELSE s.trade
              /\ Synced(pos, s).qty = s.qty /\ Synced(pos, s).sl = s.sl
              /\ s.stops # Unset => Synced(pos, s).stops = s.stops
              /\ s.stops = Unset /\ pos.trade # 0 => Synced(pos, s).stops = pos.stops
  BY DEF Synced, State, Position

LEMMA NothingHeld ==
  /\ NoPosition \in Position /\ NoPosition.trade = 0 /\ NoPosition.qty = 0
  /\ NoPosition.stops = 0
  /\ NoImage \in Image /\ NoImage.red = Fresh /\ NoImage.pos = NoPosition
  /\ Fresh \in State /\ Fresh.n = 0 /\ Fresh.trade = 0 /\ Fresh.qty = 0 /\ Fresh.stops = 0
  BY DEF NoPosition, Position, NoImage, Image, Fresh, State

\* The steps that take an event, and the one a quiet one takes.
LEMMA ReducedFields ==
  ASSUME TypeOK, NEW i \in 1 .. Len(log), Reduce(log[i], i)
  PROVE  /\ log[i] \in Event /\ red' \in State /\ run' \in Position
         /\ run' = Synced(run, red')
         /\ red'.trade = TradeAfter(red, log[i])
         /\ red'.qty = QtyAfter(red, log[i]) /\ red'.stops = StopsAfter(red, log[i])
<1>1. log[i] \in Event /\ red' \in State /\ run' \in Position
  BY ReducedTypes
<1>2. red' = Applied(red, log[i]) /\ run' = Synced(run, red')
  BY DEF Reduce
<1>3. red \in State
  BY DEF TypeOK
<1> QED  BY <1>1, <1>2, <1>3, AppliedState

LEMMA QuietEvent ==
  ASSUME NEW s \in State, NEW e \in Event, ~Opens(e), e.kind # "closed"
  PROVE  TradeAfter(s, e) = s.trade /\ (e.kind # "reduced" => QtyAfter(s, e) = s.qty)
  BY DEF TradeAfter, QtyAfter

Flat(s) == s.trade = 0 => s.qty = 0

Shown ==
  /\ Flat(red) /\ Flat(file.red) /\ Flat(snap.red) /\ Flat(cache.red)
  /\ Flat(copy.red) /\ Flat(other.red)
  /\ Live /\ ~missed => proj = red.qty

LEMMA FlatApplied ==
  ASSUME NEW s \in State, NEW e \in Event, Flat(s), Opens(e) => e.num # 0
  PROVE  Flat(Applied(s, e))
<1>1. Applied(s, e).trade = TradeAfter(s, e) /\ Applied(s, e).qty = QtyAfter(s, e)
  BY AppliedState
<1>2. s.qty \in Nat /\ e.num \in Nat
  BY DEF State, Event
<1>3. TradeAfter(s, e) = 0 => QtyAfter(s, e) = 0
  BY <1>2 DEF TradeAfter, QtyAfter, Flat, Less
<1> QED  BY <1>1, <1>3 DEF Flat

LEMMA FlatSynced ==
  ASSUME NEW pos \in Position, NEW s \in State, Flat(s)
  PROVE  Synced(pos, s).qty = s.qty
  BY SyncedFields, NothingHeld DEF Flat

LEMMA FlatUp ==
  ASSUME NEW img \in Image, NEW from, Up(img, from), Flat(img.red)
  PROVE  Flat(red') /\ (~missed' => proj' = red'.qty)
<1>1. red' = Deserialized(img.red) /\ run' = Synced(img.pos, red') /\ Align(run')
  BY DEF Up
<1>2. Flat(red') /\ red' \in State /\ img.pos \in Position
  BY <1>1, DeserializedState DEF Deserialized, Flat, Image
<1>3. run'.qty = red'.qty
  BY <1>1, <1>2, FlatSynced
<1> QED  BY <1>1, <1>2, <1>3 DEF Align

LEMMA StepShown ==
  ASSUME TypeOK, Shape, Shown, [Next]_vars
  PROVE  Shown'
<1>0. red \in State /\ file.red \in State /\ snap.red \in State /\ cache.red \in State
      /\ run \in Position /\ snap.pos \in Position /\ Flat(Fresh)
  BY NothingHeld DEF TypeOK, Image, Flat
<1>1. \A i \in 1 .. Len(log) : log[i] \in Event /\ (Opens(log[i]) => log[i].num # 0)
  BY Lengths, LenProperties DEF Shape, Numbered, TypeOK
<1>2. ASSUME Begin \/ AppendEvent \/ SaveFile \/ SaveSnapshot \/ PutCache \/ AsideAppend
             \/ ForeignAppend \/ CacheExpires \/ SyncBalance \/ SaveAligned \/ UNCHANGED vars
      PROVE  Shown'
  <2>1. /\ UNCHANGED <<red, proj, missed>>
        /\ stage' \in {"down", "replay"} \/ stage \notin {"down", "replay"}
        /\ file' \in {file, Written} /\ copy' \in {copy, Written, NoImage}
        /\ other' \in {other, Written, NoImage}
        /\ snap' \in {snap, copy, other} /\ cache' \in {cache, copy, other, NoImage}
    <3>1. CASE SaveAligned
      BY <3>1 DEF SaveAligned, op, readModel
    <3>2. CASE ~SaveAligned
      BY <1>2, <3>2
         DEF Begin, AppendEvent, SaveFile, SaveSnapshot, PutCache, AsideAppend, ForeignAppend,
             CacheExpires, SyncBalance, vars, op, images, readModel, aligner, Abort
    <3> QED  BY <3>1, <3>2
  <2>2. Flat(Written.red) /\ Flat(NoImage.red)
    BY WrittenType, NothingHeld DEF Shown, Flat
  <2> QED  BY <2>1, <2>2 DEF Shown, Live
<1>3. ASSUME ApplyEvent  PROVE Shown'
  <2>1. UNCHANGED <<file, snap, cache, other>> /\ Live /\ at \in 1 .. Len(log)
        /\ Flat(copy'.red)
    <3>1. copy' \in {copy, NoImage}
      BY <1>3 DEF ApplyEvent, Abort
    <3>2. Flat(copy'.red)
      BY <3>1, NothingHeld DEF Shown, Flat
    <3> QED  BY <1>3, <3>2, Lengths DEF ApplyEvent, images, aligner, Live, Shape
  <2>2. CASE /\ Reduce(log[at], at)
             /\ \/ Project(log[at])
                \/ proj' = proj /\ missed' = TRUE
    <3>1. Flat(red')
      BY <1>0, <1>1, <2>1, <2>2, FlatApplied DEF Reduce, Shown
    <3>2. red'.qty = QtyAfter(red, log[at]) /\ log[at] \in Event
      BY <2>1, <2>2, ReducedFields
    <3>3. ASSUME Project(log[at]), ~missed'  PROVE proj' = red'.qty
      <4>1. proj' = ProjApplied(log[at]) /\ log[at].kind # "adopted"
            /\ (log[at].kind = "closed" \/ ~missed)
        BY <3>3 DEF Project
      <4>2. log[at].kind # "closed" => proj = red.qty
        BY <2>1, <4>1 DEF Shown
      <4> QED  BY <3>2, <4>1, <4>2 DEF ProjApplied, QtyAfter, Opens
    <3> QED  BY <2>1, <2>2, <3>1, <3>3 DEF Shown
  <2>3. CASE UNCHANGED <<red, readModel>>
    BY <2>1, <2>3 DEF Shown, readModel
  <2> QED  BY <1>3, <2>2, <2>3 DEF ApplyEvent
<1>4. ASSUME AsideApply  PROVE Shown'
  <2>1. UNCHANGED <<file, snap, cache, copy, other, stage, proj, missed>>
        /\ aside \in 1 .. Len(log)
        /\ log[aside].kind \in {"noted", "placed"} /\ Reduce(log[aside], aside)
    BY <1>4, Lengths DEF AsideApply, op, images, readModel, aligner, Shape
  <2>2. red'.qty = red.qty
    BY <1>0, <2>1, ReducedFields, QuietEvent DEF Opens
  <2>3. Flat(red')
    BY <1>0, <1>1, <2>1, FlatApplied DEF Reduce, Shown
  <2> QED  BY <2>1, <2>2, <2>3 DEF Shown, Live
<1>5. ASSUME Crash  PROVE Shown'
  BY <1>0, <1>5, NothingHeld DEF Crash, Shown, Live, images
<1>6. ASSUME LoadCache \/ LoadFile \/ StartEmpty  PROVE Shown'
  <2>1. PICK img \in {cache, file, NoImage}, from \in {"cache", "file", "none"} : Up(img, from)
    BY <1>6 DEF LoadCache, LoadFile, StartEmpty
  <2>2. img \in Image /\ Flat(img.red)
    BY <1>0, <2>1, NothingHeld DEF TypeOK, Shown
  <2>3. UNCHANGED <<file, snap, cache, copy, other>>
    BY <2>1 DEF Up, images, aligner
  <2> QED  BY <2>1, <2>2, <2>3, FlatUp DEF Shown
<1>7. ASSUME LoadSnapshot  PROVE Shown'
  BY <1>7 DEF LoadSnapshot, Deserialized, Shown, Flat, Live, images, aligner
<1>8. ASSUME ReplayEvent  PROVE Shown'
  <2>1. red.n + 1 \in 1 .. Len(log) /\ red' = Applied(red, log[red.n + 1])
        /\ UNCHANGED <<file, snap, cache, copy, other, stage>> /\ stage = "replay"
    <3>1. red.n \in Nat /\ red.n < Len(log) /\ Len(log) \in Nat
      BY <1>0, <1>8, Lengths DEF ReplayEvent, State
    <3> QED  BY <1>8, <3>1 DEF ReplayEvent, op, images, aligner
  <2>2. Flat(red')
    BY <1>0, <1>1, <2>1, FlatApplied DEF Shown
  <2> QED  BY <2>1, <2>2 DEF Shown, Live
<1>9. ASSUME EndReplay  PROVE Shown'
  <2>1. run' = Synced(run, red) /\ Align(run')
        /\ UNCHANGED <<red, file, snap, cache, copy, other>>
    BY <1>9 DEF EndReplay, images, aligner
  <2>2. run'.qty = red.qty
    BY <1>0, <2>1, FlatSynced DEF Shown
  <2> QED  BY <2>1, <2>2 DEF Shown, Align
<1>10. ASSUME AlignQuantity  PROVE Shown'
  <2>1. UNCHANGED <<file, snap, cache, copy, other, stage, proj>>
        /\ missed' = (missed \/ red.trade # 0)
    BY <1>10 DEF AlignQuantity, op, images
  <2>2. red'.trade = red.trade /\ (red.trade = 0 => red' = red)
    BY <1>10, AlignedTypes
  <2>3. Flat(red')
    BY <2>2 DEF Shown, Flat
  <2> QED  BY <2>1, <2>2, <2>3 DEF Shown, Live
<1> QED
  BY <1>2, <1>3, <1>4, <1>5, <1>6, <1>7, <1>8, <1>9, <1>10 DEF Next, Restart

\* Unless it was not told of an event, the read model shows the quantity the
\* wallet holds, through crashes, adoptions and clamped partial closes.
THEOREM ReadModelSafe == Spec => []ReadModelAgrees
<1>1. Init => Shown
  <2>1. Ev("noted", 0, 0) \in Event /\ ~Opens(Ev("noted", 0, 0))
    BY EventType DEF Kinds, Opens
  <2>2. ASSUME Init  PROVE Shown
    <3>1. Flat(red) /\ red.qty = 0
      <4>1. red = Applied(Fresh, Ev("noted", 0, 0))
        BY <2>2 DEF Init
      <4>2. red.trade = TradeAfter(Fresh, Ev("noted", 0, 0)) /\ red.qty = QtyAfter(Fresh, Ev("noted", 0, 0))
        BY <2>1, <4>1, NothingHeld, AppliedState
      <4>3. Ev("noted", 0, 0).kind = "noted"
        BY EventType DEF Kinds
      <4> QED  BY <2>1, <4>2, <4>3, NothingHeld, QuietEvent DEF Flat
    <3> QED  BY <2>2, <3>1, NothingHeld DEF Init, Shown, Flat
  <2> QED  BY <2>2
<1>2. TypeOK /\ Shape /\ Shown /\ [Next]_vars => Shown'
  BY StepShown
<1>3. Shown => ReadModelAgrees
  BY DEF Shown, ReadModelAgrees, Ready, Live
<1> QED  BY <1>1, <1>2, <1>3, InitShape, StepShape, PTL DEF Spec

\* An event that opens finds no position with the reducer, and what stands
\* in the runtime by then is its own.
Opened ==
  /\ ChargesFirst(todo)
  /\ \A i \in DOMAIN todo : Opens(todo[i]) =>
       red.trade = 0 /\ (at # 0 => log[at].kind = "charged")
  /\ at # 0 /\ Opens(log[at]) => red.trade = 0 /\ run.trade \in {0, log[at].num}

Follows ==
  /\ Live /\ red.trade # 0 => run.trade # 0 /\ run.qty = red.qty /\ run.sl = red.sl
  /\ stage = "file" /\ red.trade = 0 => run = NoPosition

LEMMA ReducedFollows ==
  ASSUME NEW s \in State, NEW pos \in Position
  PROVE  /\ s.trade # 0 => /\ Synced(pos, s).trade # 0
                           /\ Synced(pos, s).qty = s.qty /\ Synced(pos, s).sl = s.sl
         /\ s.trade = 0 => Synced(pos, s) = NoPosition
  BY SyncedFields

LEMMA TodoStays ==
  ASSUME TypeOK, Shape, Opened, todo # <<>>, NEW i \in DOMAIN Tail(todo), Opens(Tail(todo)[i])
  PROVE  Head(todo).kind = "charged" /\ red.trade = 0
<1>1. /\ i + 1 \in DOMAIN todo /\ Tail(todo)[i] = todo[i + 1] /\ 1 \in DOMAIN todo
      /\ Head(todo) = todo[1] /\ i \in Nat /\ Tail(todo) \in Seq(Event)
  BY TailEvents DEF TypeOK
<1>2. i # 0
  BY <1>1, LenProperties
<1> QED  BY <1>1, <1>2 DEF Opened, ChargesFirst

LEMMA TailChargesFirst ==
  ASSUME NEW es \in Seq(Event), es # <<>>, ChargesFirst(es)
  PROVE  ChargesFirst(Tail(es))
<1> DEFINE ts == Tail(es)
<1>1. /\ \A i \in DOMAIN ts : i + 1 \in DOMAIN es /\ ts[i] = es[i + 1]
      /\ DOMAIN ts \subseteq Nat
  BY TailEvents
<1> HIDE DEF ts
<1>2. \A i, j \in DOMAIN ts : j < i => j + 1 < i + 1
  BY <1>1
<1>3. ChargesFirst(ts)
  BY <1>1, <1>2 DEF ChargesFirst
<1> QED  BY <1>3 DEF ts

LEMMA StepOpened ==
  ASSUME TypeOK, Shape, Opened, Follows, [Next]_vars
  PROVE  Opened'
<1>0. red \in State /\ run \in Position /\ Len(log) \in Nat \ {0}
  BY Lengths DEF TypeOK
<1>1. ASSUME Begin  PROVE Opened'
  <2>1. UNCHANGED <<red, run, at, log>> /\ at = 0 /\ Live
    BY <1>1 DEF Begin, Shape, Live
  <2>2. Emitted(todo') /\ (run.trade # 0 => Quiet(todo'))
    BY <1>0, <1>1, SavedEvents, FailedEvents DEF Begin, TypeOK
  <2>3. red.trade # 0 => run.trade # 0
    BY <2>1 DEF Follows
  <2> QED  BY <2>1, <2>2, <2>3 DEF Opened, Emitted, Quiet
<1>2. ASSUME AppendEvent  PROVE Opened'
  <2>1. red' = red /\ run' = Ahead(Head(todo)) /\ todo # <<>> /\ Head(todo) \in Event
        /\ 1 \in DOMAIN todo /\ Head(todo) = todo[1]
    BY <1>2, TailEvents DEF AppendEvent, TypeOK, Shape
  <2>2. CASE Record(Head(todo)) /\ at' = Len(log) + 1 /\ todo' = Tail(todo)
    <3>1. log'[at'] = Head(todo)
      BY <2>1, <2>2, Recorded
    <3>2. ChargesFirst(todo')
      BY <2>1, <2>2, TailChargesFirst DEF TypeOK, Opened
    <3>3. \A i \in DOMAIN todo' : Opens(todo'[i]) =>
            red'.trade = 0 /\ log'[at'].kind = "charged"
      BY <2>1, <2>2, <3>1, TodoStays
    <3>4. Opens(Head(todo)) => red'.trade = 0 /\ run'.trade = Head(todo).num
      BY <2>1 DEF Opened, Ahead, Booked
    <3> QED  BY <3>1, <3>2, <3>3, <3>4 DEF Opened
  <2>3. CASE at' = 0 /\ todo' = <<>>
    BY <2>3, NoEvent DEF Opened
  <2> QED  BY <1>2, <2>2, <2>3 DEF AppendEvent, Abort
<1>3. ASSUME ApplyEvent  PROVE Opened'
  <2>1. at' = 0 /\ at \in 1 .. Len(log) /\ at # 0
    BY <1>0, <1>3 DEF ApplyEvent, Abort, Shape
  <2>2. CASE Reduce(log[at], at) /\ todo' = todo
    <3>1. red'.trade = TradeAfter(red, log[at]) /\ log[at] \in Event
      BY <2>1, <2>2, ReducedFields
    <3>2. log[at].kind = "charged" => red'.trade = red.trade
      BY <1>0, <3>1, QuietEvent DEF Opens
    <3> QED  BY <2>1, <2>2, <3>2 DEF Opened
  <2>3. CASE todo' = <<>>
    BY <2>1, <2>3, NoEvent DEF Opened
  <2> QED  BY <1>3, <2>2, <2>3 DEF ApplyEvent, Abort
<1>4. ASSUME SaveFile \/ SaveSnapshot \/ PutCache \/ CacheExpires \/ SyncBalance \/ AlignQuantity
             \/ SaveAligned \/ UNCHANGED vars
      PROVE  Opened'
  <2>1. UNCHANGED log /\ (UNCHANGED <<todo, at>> \/ (todo' = <<>> /\ at' = 0))
    BY <1>4 DEF SaveFile, SaveSnapshot, PutCache, CacheExpires, SyncBalance, AlignQuantity,
                SaveAligned, vars, op, Abort
  <2>2. red'.trade = red.trade /\ run'.trade = run.trade
    <3>1. CASE AlignQuantity
      BY <3>1, AlignedTypes
    <3>2. CASE ~AlignQuantity
      BY <1>4, <3>2 DEF SaveFile, SaveSnapshot, PutCache, CacheExpires, SyncBalance, SaveAligned, vars
    <3> QED  BY <3>1, <3>2
  <2> QED  BY <2>1, <2>2, NoEvent DEF Opened
<1>5. ASSUME AsideAppend \/ ForeignAppend  PROVE Opened'
  <2>1. UNCHANGED <<red, run, todo, at>>
    BY <1>5 DEF AsideAppend, ForeignAppend, op
  <2>2. at # 0 => log'[at] = log[at]
    <3>1. \A i \in 1 .. Len(log) : log'[i] = log[i]
      BY <1>5, Grows DEF Grown, Next
    <3> QED  BY <1>0, <3>1 DEF Shape
  <2> QED  BY <2>1, <2>2 DEF Opened
<1>6. ASSUME AsideApply  PROVE Opened'
  <2>1. UNCHANGED <<todo, at, log>> /\ aside \in 1 .. Len(log)
        /\ log[aside].kind \in {"noted", "placed"} /\ Reduce(log[aside], aside)
    BY <1>0, <1>6 DEF AsideApply, op, Shape
  <2>2. red'.trade = red.trade
    BY <1>0, <2>1, ReducedFields, QuietEvent DEF Opens
  <2>3. red'.trade = 0 => run' = NoPosition
    BY <1>0, <2>1, ReducedFields, ReducedFollows
  <2> QED  BY <2>1, <2>2, <2>3, NothingHeld DEF Opened
<1>7. ASSUME Crash \/ LoadCache \/ LoadSnapshot \/ ReplayEvent \/ EndReplay \/ LoadFile \/ StartEmpty
      PROVE  Opened'
  <2>1. at' = 0 /\ todo' = <<>>
    BY <1>7 DEF Crash, LoadCache, LoadSnapshot, ReplayEvent, EndReplay, LoadFile,
                StartEmpty, Up, op, Shape
  <2> QED  BY <2>1, NoEvent DEF Opened
<1> QED
  BY <1>1, <1>2, <1>3, <1>4, <1>5, <1>6, <1>7 DEF Next, Restart

LEMMA StepFollows ==
  ASSUME TypeOK, Shape, Opened, Follows, [Next]_vars
  PROVE  Follows'
<1>0. red \in State /\ run \in Position /\ Len(log) \in Nat \ {0}
  BY Lengths DEF TypeOK
<1>1. ASSUME Begin \/ SaveFile \/ SaveSnapshot \/ PutCache \/ CacheExpires \/ AsideAppend
             \/ ForeignAppend \/ SyncBalance \/ SaveAligned \/ UNCHANGED vars
      PROVE  Follows'
  <2>1. UNCHANGED <<red, run>> /\ (stage' = "file" => stage = "file")
        /\ (stage' \notin {"down", "replay"} => stage \notin {"down", "replay"})
    BY <1>1 DEF Begin, SaveFile, SaveSnapshot, PutCache, CacheExpires, AsideAppend,
                ForeignAppend, SyncBalance, SaveAligned, vars, op, Abort
  <2> QED  BY <2>1 DEF Follows, Live
<1>2. ASSUME AppendEvent  PROVE Follows'
  <2>1. red' = red /\ run' = Ahead(Head(todo)) /\ 1 \in DOMAIN todo /\ Head(todo) = todo[1]
        /\ Live /\ stage' # "file"
    BY <1>2, TailEvents DEF AppendEvent, TypeOK, Shape, Live, Abort
  <2>2. Opens(Head(todo)) => red.trade = 0
    BY <2>1 DEF Opened
  <2> QED  BY <2>1, <2>2 DEF Follows, Ahead
<1>3. ASSUME ApplyEvent  PROVE Follows'
  <2>1. at \in 1 .. Len(log) /\ Live
    BY <1>0, <1>3 DEF ApplyEvent, Shape, Live
  <2>2. CASE Reduce(log[at], at)
    BY <1>0, <2>1, <2>2, ReducedFields, ReducedFollows DEF Follows
  <2>3. CASE UNCHANGED <<red, run>> /\ stage' = "ready"
    BY <2>1, <2>3 DEF Follows
  <2> QED  BY <1>3, <2>2, <2>3 DEF ApplyEvent, Abort
<1>4. ASSUME AsideApply  PROVE Follows'
  <2>1. aside \in 1 .. Len(log) /\ Reduce(log[aside], aside)
    BY <1>0, <1>4 DEF AsideApply, Shape
  <2> QED  BY <1>0, <2>1, ReducedFields, ReducedFollows DEF Follows
<1>5. ASSUME Crash \/ LoadSnapshot \/ ReplayEvent  PROVE Follows'
  BY <1>5 DEF Crash, LoadSnapshot, ReplayEvent, op, Follows, Live
<1>6. ASSUME LoadCache \/ LoadFile \/ StartEmpty  PROVE Follows'
  <2>1. PICK img \in {cache, file, NoImage}, from \in {"cache", "file", "none"} : Up(img, from)
    BY <1>6 DEF LoadCache, LoadFile, StartEmpty
  <2>2. img.red \in State /\ img.pos \in Position
    BY <2>1, NothingHeld DEF TypeOK, Image
  <2>3. red' \in State /\ run' = Synced(img.pos, red') /\ stage' = "ready"
    BY <2>1, <2>2, DeserializedState DEF Up
  <2> QED  BY <2>2, <2>3, ReducedFollows DEF Follows
<1>7. ASSUME EndReplay  PROVE Follows'
  <2>1. red' = red /\ run' = Synced(run, red) /\ stage' = "ready"
    BY <1>7 DEF EndReplay
  <2> QED  BY <1>0, <2>1, ReducedFollows DEF Follows
<1>8. ASSUME AlignQuantity  PROVE Follows'
  <2>1. UNCHANGED stage /\ run.qty # 0
    BY <1>8 DEF AlignQuantity, op
  <2>2. /\ red'.trade = red.trade /\ red'.sl = red.sl /\ run'.sl = run.sl /\ run'.trade = run.trade
        /\ red.trade # 0 => run'.qty = red'.qty
    <3>1. PICK q \in Nat : /\ run' = [run EXCEPT !.qty = q]
                           /\ red.trade # 0 => red' = [red EXCEPT !.qty = q]
      BY <1>8, AlignedTypes
    <3>2. red.trade # 0 => run'.qty = red'.qty
      BY <1>0, <3>1 DEF State, Position
    <3> QED  BY <1>8, <3>2, AlignedTypes
  <2>3. run # NoPosition
    BY <2>1, NothingHeld
  <2> QED  BY <2>1, <2>2, <2>3 DEF Follows, Live
<1> QED
  BY <1>1, <1>2, <1>3, <1>4, <1>5, <1>6, <1>7, <1>8 DEF Next, Restart

-----------------------------------------------------------------------------
(* Protective orders                                                       *)

\* An image's runtime position stands where its reducer has one, and its
\* orders are the journal's if it is the same trade.
Carried(img) ==
  /\ img.red.trade # 0 => img.pos.trade # 0
  /\ ~slipped /\ img.red.n # 0 /\ img.pos.trade = img.red.trade =>
       img.pos.stops = past[img.red.n].stops

\* The reducer's orders are the journal's, or unset and then the runtime
\* position's are, if it is the same trade.
Known(s, pos) ==
  IF s.stops # Unset THEN s.stops = past[s.n].stops
  ELSE pos.trade = s.trade => pos.stops = past[s.n].stops

Remembers ==
  /\ Carried(file) /\ Carried(snap) /\ Carried(cache) /\ Carried(copy) /\ Carried(other)
  /\ red.stops = Unset => red.trade # 0 /\ run.trade # 0
  /\ red.trade = 0 => red.stops = 0
  /\ Live /\ run.trade = red.trade /\ red.stops # Unset => run.stops = red.stops
  /\ ~slipped /\ red.n # 0 /\ stage # "down" => Known(red, run)

\* What an event does to the orders of two states that agree otherwise.
LEMMA StopsApplied ==
  ASSUME NEW s \in State, NEW t \in State, NEW e \in Event, s.trade = t.trade,
         s.trade = 0 => s.stops = t.stops
  PROVE  \/ /\ StopsAfter(s, e) = StopsAfter(t, e) /\ StopsAfter(s, e) # Unset
            /\ TradeAfter(s, e) = 0 => StopsAfter(s, e) = 0
         \/ /\ StopsAfter(s, e) = s.stops /\ StopsAfter(t, e) = t.stops
            /\ TradeAfter(s, e) = s.trade
<1>1. e.num # Unset
  BY DEF Event, Unset
<1>2. CASE Opens(e) \/ e.kind = "closed"
  BY <1>2 DEF StopsAfter, TradeAfter, Unset
<1>3. CASE ~(Opens(e) \/ e.kind = "closed") /\ s.trade = 0
  BY <1>3 DEF StopsAfter, TradeAfter
<1>4. CASE ~(Opens(e) \/ e.kind = "closed") /\ s.trade # 0
  <2>1. TradeAfter(s, e) = s.trade
    BY <1>4 DEF TradeAfter
  <2>2. CASE e.kind = "placed"
    BY <1>1, <1>4, <2>1, <2>2 DEF StopsAfter
  <2>3. CASE e.kind = "cancelled"
    BY <1>4, <2>1, <2>3 DEF StopsAfter, Unset
  <2>4. CASE e.kind \notin {"placed", "cancelled"}
    BY <1>4, <2>1, <2>4 DEF StopsAfter
  <2> QED  BY <2>2, <2>3, <2>4
<1> QED  BY <1>2, <1>3, <1>4

\* The reducer's next event, with the runtime position as it was.
LEMMA KnownApplied ==
  ASSUME TypeOK, Shape, History, Prefixes, Remembers, stage # "down",
         NEW e \in Event, NEW r \in State, r = Applied(red, e)
  PROVE  /\ r.stops = Unset => r.trade = red.trade /\ red.stops = Unset
         /\ r.trade = 0 => r.stops = 0
         /\ ~slipped /\ red.n # 0 /\ red.n + 1 <= Len(log) /\ e = log[red.n + 1] =>
              Known(r, run)
<1>1. red \in State /\ red.n \in Nat
  BY DEF TypeOK, State
<1>2. /\ r.n = red.n + 1 /\ r.trade = TradeAfter(red, e) /\ r.stops = StopsAfter(red, e)
  BY <1>1, AppliedState
<1>3. /\ r.stops = Unset => r.trade = red.trade /\ red.stops = Unset
      /\ r.trade = 0 => r.stops = 0
  BY <1>1, <1>2, StopsApplied DEF Remembers
<1>4. ASSUME ~slipped, red.n # 0, red.n + 1 <= Len(log), e = log[red.n + 1]
      PROVE  Known(r, run)
  <2> DEFINE t == past[red.n]
  <2>1. t \in State /\ past[red.n + 1] = Applied(t, e)
    BY <1>1, <1>4, Lengths DEF History
  <2>2. past[red.n + 1].stops = StopsAfter(t, e)
    BY <2>1, AppliedState
  <2>3. Traced(red) /\ Known(red, run)
    BY <1>4 DEF Prefixes, Remembers
  <2>4. red.trade = t.trade /\ (t.trade = 0 => t.stops = 0)
    BY <1>1, <1>4, <2>3, Lengths DEF Traced, Same, History
  <2>5. red.trade = 0 => red.stops = t.stops
    BY <2>4 DEF Remembers
  <2>6. red.stops # Unset => red.stops = t.stops
    BY <2>3 DEF Known
  <2>7. red.stops = Unset /\ run.trade = red.trade => run.stops = t.stops
    BY <2>3 DEF Known
  <2> HIDE DEF t
  <2> QED  BY <1>1, <1>2, <2>1, <2>2, <2>4, <2>5, <2>6, <2>7, StopsApplied DEF Known
<1> QED  BY <1>3, <1>4

\* Taking the reducer's word for the runtime position keeps what is known.
LEMMA KnownSynced ==
  ASSUME NEW s \in State, NEW pos \in Position, s.stops = Unset => pos.trade # 0,
         s.trade = 0 => s.stops = 0
  PROVE  /\ s.stops = Unset => Synced(pos, s).trade # 0 /\ s.trade # 0
         /\ s.stops # Unset => Synced(pos, s).stops = s.stops
         /\ Known(s, pos) => Known(s, Synced(pos, s))
<1>1. s.trade = 0 => Synced(pos, s) = NoPosition /\ s.stops = 0 /\ s.stops # Unset
  BY SyncedFields DEF Unset
<1>2. CASE s.trade = 0
  BY <1>1, <1>2, NothingHeld DEF Known
<1>3. CASE s.trade # 0
  <2>1. s.stops = Unset => Synced(pos, s).trade = pos.trade /\ Synced(pos, s).stops = pos.stops
    BY <1>3, SyncedFields
  <2>2. s.stops # Unset => Synced(pos, s).stops = s.stops
    BY <1>3, SyncedFields
  <2> QED  BY <1>3, <2>1, <2>2, SyncedFields DEF Known
<1> QED  BY <1>2, <1>3

\* A state read from an image.
LEMMA KnownDeserialized ==
  ASSUME TypeOK, Shape, History, NEW img \in Image, Carried(img),
         ~slipped => Traced(img.red), NEW r, r = Deserialized(img.red)
  PROVE  /\ r \in State /\ r.n = img.red.n
         /\ r.stops = Unset => img.pos.trade # 0 /\ r.trade # 0
         /\ r.trade = 0 => r.stops = 0
         /\ ~slipped /\ r.n # 0 => Known(r, img.pos)
<1>1. img.red \in State /\ img.red.n \in Nat
  BY DEF Image, State
<1>2. /\ r \in State /\ r.n = img.red.n /\ r.trade = img.red.trade
      /\ r.stops = IF r.trade = 0 THEN 0 ELSE Unset
  BY <1>1, DeserializedState DEF Deserialized
<1>3. ASSUME ~slipped, r.n # 0  PROVE Known(r, img.pos)
  <2>1. r.trade = 0 => past[r.n].stops = 0
    BY <1>1, <1>2, <1>3, Lengths DEF Traced, Same, History
  <2>2. img.pos.trade = r.trade => img.pos.stops = past[r.n].stops
    BY <1>2, <1>3 DEF Carried
  <2> QED  BY <1>2, <2>1, <2>2 DEF Known, Unset
<1> QED  BY <1>2, <1>3 DEF Carried, Unset

LEMMA CarriedStays ==
  ASSUME Grown, NEW img \in Image, Carried(img), ~slipped => Traced(img.red)
  PROVE  /\ img.red.trade # 0 => img.pos.trade # 0
         /\ ~slipped' /\ img.red.n # 0 /\ img.pos.trade = img.red.trade =>
              img.pos.stops = past'[img.red.n].stops
<1>1. img.red.n \in Nat /\ (~slipped' => ~slipped)
  BY DEF Image, State, Grown
<1>2. ~slipped /\ img.red.n # 0 => past'[img.red.n] = past[img.red.n]
  BY <1>1 DEF Grown, Traced
<1> QED  BY <1>1, <1>2 DEF Carried

LEMMA StepRemembers ==
  ASSUME TypeOK, Shape, History, Prefixes, Opened, Follows, Remembers, [Next]_vars
  PROVE  Remembers'
<1>0. Grown /\ Len(log) \in Nat \ {0} /\ red \in State /\ red.n \in Nat /\ run \in Position
      /\ file \in Image /\ snap \in Image /\ cache \in Image /\ copy \in Image
      /\ other \in Image /\ (~slipped' => ~slipped)
  BY Grows, Lengths DEF TypeOK, State, Grown
<1> DEFINE Stays(img) ==
             /\ img.red.trade # 0 => img.pos.trade # 0
             /\ ~slipped' /\ img.red.n # 0 /\ img.pos.trade = img.red.trade =>
                  img.pos.stops = past'[img.red.n].stops
           Kept(s, pos) ==
             IF s.stops # Unset THEN s.stops = past'[s.n].stops
             ELSE pos.trade = s.trade => pos.stops = past'[s.n].stops
           StaysAll == Stays(file') /\ Stays(snap') /\ Stays(cache') /\ Stays(copy') /\ Stays(other')
           CarriedAll == /\ Carried(file) /\ Carried(snap) /\ Carried(cache)
                         /\ Carried(copy) /\ Carried(other)
<1>1. Stays(file) /\ Stays(snap) /\ Stays(cache) /\ Stays(copy) /\ Stays(other) /\ Stays(NoImage)
  <2>1. Stays(file) /\ Stays(snap) /\ Stays(cache) /\ Stays(copy) /\ Stays(other)
    BY <1>0, CarriedStays DEF Prefixes, Remembers
  <2> QED  BY <2>1, NothingHeld
<1>2. ~slipped' /\ red.n # 0 /\ stage # "down" => Kept(red, run)
  <2>1. ~slipped /\ red.n # 0 /\ stage # "down" => past'[red.n] = past[red.n]
    BY <1>0 DEF Grown, Prefixes, Traced
  <2> QED  BY <1>0, <2>1 DEF Remembers, Known
\* What the images become.
<1>16. ASSUME StaysAll  PROVE CarriedAll'
  BY <1>16 DEF Carried
<1>17. ASSUME {file', snap', cache', copy', other'} \subseteq {file, snap, cache, copy, other, NoImage}
       PROVE  StaysAll
  <2>1. \A img \in {file, snap, cache, copy, other, NoImage} : Stays(img)
    BY <1>1
  <2> HIDE DEF Stays
  <2> QED  BY <1>17, <2>1
\* The three shapes a step may have.
<1>3. ASSUME UNCHANGED <<red, run>>,
             stage' = "down" \/ stage # "down",
             stage' \in {"down", "replay"} \/ stage \notin {"down", "replay"},
             StaysAll
      PROVE  Remembers'
  <2>2. CarriedAll'
    BY <1>3, <1>16
  <2>3. ~slipped' /\ red'.n # 0 /\ stage' # "down" => Known(red, run)'
    BY <1>2, <1>3 DEF Known
  <2> QED  BY <1>3, <2>2, <2>3 DEF Remembers, Live
<1>4. ASSUME UNCHANGED <<log, past, file, snap, cache, other>>, copy' \in {copy, NoImage}, NEW i \in 1 .. Len(log), i # 1,
             Reduce(log[i], i), Live
      PROVE  Remembers'
  <2>1. log[i] \in Event /\ red' \in State /\ run' = Synced(run, red') /\ red' = Applied(red, log[i])
        /\ stage # "down"
    BY <1>4, ReducedFields DEF Reduce, Live
  <2>2. /\ red'.stops = Unset => red'.trade = red.trade /\ red.stops = Unset
        /\ red'.trade = 0 => red'.stops = 0
        /\ ~slipped /\ red.n # 0 /\ red.n + 1 <= Len(log) /\ log[i] = log[red.n + 1] => Known(red', run)
    BY <2>1, KnownApplied
  <2>3. ~slipped' => red.n + 1 = i
    BY <1>4 DEF Reduce
  <2>4. ~slipped' => Known(red', run)
    BY <1>0, <1>4, <2>2, <2>3
  <2>5. red'.stops = Unset => run.trade # 0
    BY <2>2 DEF Remembers
  <2>6. /\ red'.stops = Unset => run'.trade # 0 /\ red'.trade # 0
        /\ red'.stops # Unset => run'.stops = red'.stops
        /\ Known(red', run) => Known(red', run')
    BY <1>0, <2>1, <2>2, <2>5, KnownSynced
  <2>7. StaysAll
    BY <1>4, <1>17
  <2>8. CarriedAll'
    BY <2>7, <1>16
  <2>9. ~slipped' => Known(red, run)'
    BY <1>4, <2>4, <2>6 DEF Known
  <2> QED  BY <2>2, <2>6, <2>8, <2>9 DEF Remembers
<1>5. ASSUME NEW img \in Image, Carried(img), ~slipped => Traced(img.red),
             red' = Deserialized(img.red), run' = img.pos \/ run' = Synced(img.pos, red'),
             run' = img.pos => stage' = "replay",
             UNCHANGED <<log, past, slipped, file, snap, cache, copy, other>>
      PROVE  Remembers'
  <2>1. /\ red' \in State /\ red'.n = img.red.n
        /\ red'.stops = Unset => img.pos.trade # 0 /\ red'.trade # 0
        /\ red'.trade = 0 => red'.stops = 0
        /\ ~slipped /\ red'.n # 0 => Known(red', img.pos)
    BY <1>5, KnownDeserialized
  <2>2. img.pos \in Position
    BY DEF Image
  <2>3. /\ red'.stops = Unset => Synced(img.pos, red').trade # 0
        /\ red'.stops # Unset => Synced(img.pos, red').stops = red'.stops
        /\ Known(red', img.pos) => Known(red', Synced(img.pos, red'))
    BY <2>1, <2>2, KnownSynced
  <2>4. CarriedAll'
    BY <1>5, <1>16, <1>17
  <2>5. ~slipped' /\ red'.n # 0 => Known(red, run)'
    BY <1>5, <2>1, <2>3 DEF Known
  <2> QED  BY <1>5, <2>1, <2>3, <2>4, <2>5 DEF Remembers, Live
<1>6. ASSUME Begin \/ SaveSnapshot \/ PutCache \/ CacheExpires \/ AsideAppend \/ ForeignAppend
             \/ SyncBalance \/ UNCHANGED vars
      PROVE  Remembers'
  <2>1. /\ UNCHANGED <<red, run>>
        /\ stage' = "down" \/ stage # "down"
        /\ stage' \in {"down", "replay"} \/ stage \notin {"down", "replay"}
        /\ file' = file /\ snap' \in {snap, copy} /\ cache' \in {cache, copy, NoImage}
        /\ copy' \in {copy, NoImage} /\ other' = other
    BY <1>6 DEF Begin, SaveSnapshot, PutCache, CacheExpires, AsideAppend, ForeignAppend,
                SyncBalance, vars, op, images, Abort, aligner
  <2>2. StaysAll
    BY <1>17, <2>1
  <2> QED  BY <1>3, <2>1, <2>2
<1>7. ASSUME AppendEvent  PROVE Remembers'
  <2>1. /\ red' = red /\ run' = Ahead(Head(todo)) /\ UNCHANGED <<file, snap, cache, other>> /\ Live
        /\ 1 \in DOMAIN todo /\ Head(todo) = todo[1] /\ copy' \in {copy, NoImage}
        /\ stage' \in {"apply", "ready"}
    BY <1>7, TailEvents DEF AppendEvent, Abort, Live, TypeOK, Shape, images, op, aligner
  <2>4. StaysAll
    BY <1>17, <2>1
  <2>2. CASE ~Opens(Head(todo))
    BY <1>3, <2>1, <2>2, <2>4 DEF Ahead, Live
  <2>3. CASE Opens(Head(todo))
    <3>1. red.trade = 0 /\ run'.trade # 0
      BY <2>1, <2>3 DEF Opened, Ahead, Booked, Shape, Numbered
    <3>2. red.stops = 0 /\ red.stops # Unset
      BY <3>1 DEF Remembers, Unset
    <3>3. ~slipped' /\ red.n # 0 => red.stops = past'[red.n].stops
      BY <1>2, <2>1, <3>2 DEF Live
    <3>4. CarriedAll'
      BY <1>16, <2>4
    <3> QED  BY <2>1, <3>1, <3>2, <3>3, <3>4 DEF Remembers, Known
  <2> QED  BY <2>2, <2>3
<1>8. ASSUME ApplyEvent  PROVE Remembers'
  <2>1. at \in 1 .. Len(log) /\ at # 1 /\ Live /\ UNCHANGED <<log, past, file, snap, cache, other>>
        /\ copy' \in {copy, NoImage}
    BY <1>0, <1>8 DEF ApplyEvent, Abort, Shape, Live, Prefixes, images, aligner
  <2>2. CASE Reduce(log[at], at)
    BY <1>4, <2>1, <2>2
  <2>3. CASE UNCHANGED <<red, run>>
    BY <1>3, <1>17, <2>1, <2>3 DEF Live
  <2> QED  BY <1>8, <2>2, <2>3 DEF ApplyEvent
<1>9. ASSUME AsideApply  PROVE Remembers'
  <2>1. aside \in 1 .. Len(log) /\ aside # 1 /\ Live
        /\ UNCHANGED <<log, past, file, snap, cache, copy, other>>
    BY <1>0, <1>9 DEF AsideApply, Shape, Live, Prefixes, images, op, aligner
  <2> QED  BY <1>4, <1>9, <2>1 DEF AsideApply
\* What a save writes, at any time.
<1>18. ASSUME Live, UNCHANGED <<past, slipped>>  PROVE Stays(Written)
  <2>1. Written.pos = run /\ Written.red.n = red.n /\ Written.red.trade = red.trade
    BY WrittenType
  <2>3. red.trade # 0 => run.trade # 0
    BY <1>18 DEF Follows
  <2>4. ~slipped /\ red.n # 0 /\ run.trade = red.trade => run.stops = past[red.n].stops
    BY <1>18 DEF Remembers, Known, Live
  <2> QED  BY <1>18, <2>1, <2>3, <2>4
<1>10. ASSUME SaveFile \/ SaveAligned  PROVE Remembers'
  <2>1. UNCHANGED <<red, run, past, slipped>> /\ Live /\ Live'
    BY <1>10 DEF SaveFile, SaveAligned, Shape, Live, op
  <2>2. Stays(Written)
    BY <1>18, <2>1
  <2>3. /\ file' \in {file, Written} /\ copy' \in {copy, Written}
        /\ other' \in {other, Written, NoImage}
        /\ snap' \in {snap, other} /\ cache' \in {cache, other}
    BY <1>10 DEF SaveFile, SaveAligned, op, aligner
  <2>4. StaysAll
    BY <1>1, <2>2, <2>3
  <2> QED  BY <1>3, <2>1, <2>4 DEF Live
<1>19. ASSUME AlignQuantity  PROVE Remembers'
  <2>1. UNCHANGED <<stage, past, slipped, file, snap, cache, copy, other>> /\ Live
    BY <1>19 DEF AlignQuantity, op, images
  <2>2. /\ red'.n = red.n /\ red'.trade = red.trade /\ red'.stops = red.stops
        /\ run'.trade = run.trade /\ run'.stops = run.stops
    BY <1>19, AlignedTypes
  <2>3. CarriedAll'
    BY <1>16, <1>17, <2>1
  <2>4. ~slipped' /\ red'.n # 0 /\ stage' # "down" => Known(red, run)'
    BY <2>1, <2>2 DEF Remembers, Known
  <2> QED  BY <2>1, <2>2, <2>3, <2>4 DEF Remembers, Live
<1>11. ASSUME Crash  PROVE Remembers'
  <2>1. red' = Fresh /\ run' = NoPosition /\ stage' = "down" /\ UNCHANGED <<file, snap, cache, past, slipped>>
        /\ copy' = NoImage /\ other' = NoImage
    BY <1>11 DEF Crash, images
  <2>2. CarriedAll'
    BY <1>16, <1>17, <2>1
  <2> QED  BY <2>1, <2>2, NothingHeld DEF Remembers, Unset, Live
<1>12. ASSUME LoadCache \/ LoadFile \/ StartEmpty  PROVE Remembers'
  <2>1. PICK img \in {cache, file, NoImage}, from \in {"cache", "file", "none"} : Up(img, from)
    BY <1>12 DEF LoadCache, LoadFile, StartEmpty
  <2>2. img \in Image /\ Carried(img) /\ (~slipped => Traced(img.red))
    BY <1>0, <2>1, NothingHeld DEF Prefixes, Remembers, Carried, Traced
  <2>3. /\ red' = Deserialized(img.red) /\ run' = Synced(img.pos, red') /\ stage' = "ready"
        /\ UNCHANGED <<log, past, slipped, file, snap, cache, copy, other>>
    BY <2>1 DEF Up, images, aligner
  <2>4. /\ red' \in State
        /\ red'.stops = Unset => img.pos.trade # 0 /\ red'.trade # 0
        /\ red'.trade = 0 => red'.stops = 0
        /\ ~slipped /\ red'.n # 0 => Known(red', img.pos)
    BY <2>2, <2>3, KnownDeserialized
  <2>5. /\ red'.stops = Unset => run'.trade # 0
        /\ red'.stops # Unset => run'.stops = red'.stops
        /\ Known(red', img.pos) => Known(red', run')
    BY <2>2, <2>3, <2>4, KnownSynced DEF Image
  <2>6. CarriedAll'
    BY <1>16, <1>17, <2>3
  <2>7. ~slipped' /\ red'.n # 0 => Known(red, run)'
    BY <2>3, <2>4, <2>5 DEF Known
  <2> QED  BY <2>4, <2>5, <2>6, <2>7 DEF Remembers
<1>13. ASSUME LoadSnapshot  PROVE Remembers'
  <2>1. red' = Deserialized(snap.red) /\ run' = snap.pos /\ stage' = "replay"
        /\ UNCHANGED <<log, past, slipped, file, snap, cache, copy, other>>
    BY <1>13 DEF LoadSnapshot, images, aligner
  <2>2. Carried(snap) /\ (~slipped => Traced(snap.red))
    BY DEF Prefixes, Remembers
  <2> QED  BY <1>0, <1>5, <2>1, <2>2
<1>14. ASSUME ReplayEvent  PROVE Remembers'
  <2> DEFINE e == log[red.n + 1]
  <2>1. red' = Applied(red, e) /\ stage = "replay" /\ red.n < Len(log) /\ red.n # 0
        /\ UNCHANGED <<log, past, slipped, run, stage, file, snap, cache, copy, other>>
    BY <1>14 DEF ReplayEvent, op, images, Prefixes, aligner
  <2>2. red.n + 1 \in 1 .. Len(log) /\ red.n + 1 <= Len(log)
    BY <1>0, <2>1
  <2>3. e \in Event /\ red' \in State
    BY <1>0, <2>1, <2>2, Lengths, AppliedState
  <2>4. /\ red'.stops = Unset => red'.trade = red.trade /\ red.stops = Unset
        /\ red'.trade = 0 => red'.stops = 0
        /\ ~slipped => Known(red', run)
    BY <2>1, <2>2, <2>3, KnownApplied
  <2>5. CarriedAll'
    BY <1>16, <1>17, <2>1
  <2>6. ~slipped' => Known(red, run)'
    BY <2>1, <2>4 DEF Known
  <2> QED  BY <2>1, <2>4, <2>5, <2>6 DEF Remembers, Live
<1>15. ASSUME EndReplay  PROVE Remembers'
  <2>1. red' = red /\ run' = Synced(run, red) /\ stage = "replay" /\ stage' = "ready"
        /\ UNCHANGED <<log, past, slipped, file, snap, cache, copy, other>>
    BY <1>15 DEF EndReplay, images, aligner
  <2>2. /\ red.stops = Unset => run'.trade # 0
        /\ red.stops # Unset => run'.stops = red.stops
        /\ Known(red, run) => Known(red, run')
    BY <1>0, <2>1, KnownSynced DEF Remembers
  <2>3. CarriedAll'
    BY <1>16, <1>17, <2>1
  <2>4. ~slipped' /\ red'.n # 0 => Known(red, run)'
    BY <2>1, <2>2 DEF Remembers, Known
  <2> QED  BY <2>1, <2>2, <2>3, <2>4 DEF Remembers
<1> QED
  BY <1>6, <1>7, <1>8, <1>9, <1>10, <1>11, <1>12, <1>13, <1>14, <1>15, <1>19 DEF Next, Restart

Wallet == Recovery /\ Opened /\ Follows /\ Remembers

LEMMA InitWallet == Init => Wallet
<1> SUFFICES ASSUME Init  PROVE Wallet
  OBVIOUS
<1> DEFINE e == Ev("noted", 0, 0)
<1>1. e \in Event /\ e.kind = "noted" /\ ~Opens(e)
  BY EventType DEF Kinds, Opens
<1>2. Applied(Fresh, e).trade = TradeAfter(Fresh, e) /\ Applied(Fresh, e).stops = StopsAfter(Fresh, e)
  BY <1>1, NothingHeld, AppliedState
<1>3. TradeAfter(Fresh, e) = 0 /\ StopsAfter(Fresh, e) = 0
  BY <1>1, NothingHeld DEF TradeAfter, StopsAfter
<1> HIDE DEF e
<1>4. /\ red = Applied(Fresh, e) /\ past = <<red>> /\ red.trade = 0 /\ red.stops = 0
      /\ run = NoPosition /\ todo = <<>> /\ at = 0 /\ stage = "ready"
      /\ file = NoImage /\ snap = NoImage /\ cache = NoImage
      /\ copy = NoImage /\ other = NoImage
  BY <1>2, <1>3 DEF Init, e
<1>5. Recovery
  BY InitRecovery
<1>6. Opened
  BY <1>4, NoEvent DEF Opened
<1>7. Follows
  BY <1>4 DEF Follows
<1>8. red.n # 0 => red.stops = past[red.n].stops
  <2>1. Applied(Fresh, e).n = Fresh.n + 1
    BY <1>1, NothingHeld, AppliedState DEF e
  <2> QED  BY <1>4, <2>1, NothingHeld
<1>9. Remembers
  BY <1>4, <1>8, NothingHeld DEF Remembers, Carried, Known, Unset
<1> QED  BY <1>5, <1>6, <1>7, <1>9 DEF Wallet

LEMMA StepWallet == Wallet /\ [Next]_vars => Wallet'
  BY StepRecovery, StepOpened, StepFollows, StepRemembers DEF Wallet, Recovery

\* The protective orders a restart remembers are those the journal says rest,
\* although an image keeps them in its runtime positions only.
THEOREM StopsSafe == Spec => []StopsRemembered
<1>1. Wallet => StopsRemembered
  <2> SUFFICES ASSUME Wallet, Ready, ~slipped, red.n = Len(log), run.trade = red.trade
               PROVE  run.stops = Journal.stops
    BY DEF StopsRemembered
  <2>1. Len(log) # 0 /\ Live /\ stage # "down"
    BY DEF Wallet, Recovery, Shape, Ready, Live
  <2>2. Known(red, run) /\ (red.stops # Unset => run.stops = red.stops)
    BY <2>1 DEF Wallet, Remembers
  <2> QED  BY <2>2 DEF Known, Journal
<1> QED  BY <1>1, InitWallet, StepWallet, PTL DEF Spec

-----------------------------------------------------------------------------
(* The trade                                                               *)

Clean == crashes = 0 /\ mishaps = 0
Once == ~slipped /\ crashes + mishaps <= 1

SameTrade(img) == img.pos.trade = img.red.trade

\* Between a snapshot and the end of the journal the position was opened or
\* closed, never both.
OneChange ==
  Journal.trade # 0 /\ snap.red.n # 0 => snap.red.trade \in {0, Journal.trade}

\* What the counters of failures say of the stages.
Steady ==
  /\ crashes = 0 => Live /\ source = "boot"
  /\ mishaps = 0 => aside = 0 /\ at \in {0, Len(log)} /\ saver = "idle"
  /\ Clean => ~slipped
  /\ stage = "replay" => snap.red.n # 0
  /\ ~saving => stage \notin {"file", "snap", "cache"}

\* As long as at most one thing went wrong.  An alignment may save between
\* the two assignments of an opening, but then nothing is loaded.
OnceTrades ==
  /\ mishaps = 0 => /\ SameTrade(file) /\ SameTrade(snap) /\ SameTrade(cache)
                    /\ SameTrade(copy)
  /\ Live /\ red.trade # 0 => run.trade = red.trade
  /\ stage = "replay" => run.trade \in {0, snap.red.trade}
  /\ ~Live \/ Clean => OneChange

\* As long as nothing did.
CleanTrades ==
  /\ stage \in {"ready", "cache"} \/ ~saving => snap.red.trade = red.trade
  /\ ~saving => Cancelled(todo) /\ (at # 0 => log[at].kind = "cancelled")
  /\ stage = "snap" => copy.red.trade = red.trade
  /\ \A i \in DOMAIN todo : Opens(todo[i]) => snap.red.trade = 0

Trades == Steady /\ (Once => OnceTrades) /\ (Clean => CleanTrades)

\* The steps a wallet that never failed takes without failing.
SmoothAppend ==
  /\ stage = "append" /\ Record(Head(todo)) /\ run' = Ahead(Head(todo))
  /\ at' = Len(log) + 1 /\ todo' = Tail(todo) /\ stage' = "apply"
  /\ UNCHANGED <<saving, red, snap>>

SmoothApply ==
  /\ stage = "apply" /\ Reduce(log[at], at)
  /\ stage' = AfterEvent /\ at' = 0
  /\ UNCHANGED <<todo, saving, log, past, snap>>

SmoothSave ==
  \/ /\ stage = "snap" /\ snap' = copy /\ stage' \in {"cache", "ready"}
     /\ UNCHANGED <<todo, at, saving, log, past, red>>
  \/ /\ stage = "cache" /\ stage' = "ready"
     /\ UNCHANGED <<todo, at, saving, log, past, red, snap>>

LEMMA Counters ==
  ASSUME TypeOK, [Next]_vars
  PROVE  /\ {crashes, mishaps, crashes', mishaps'} \subseteq Nat
         /\ crashes <= crashes' /\ mishaps <= mishaps'
         /\ Clean' => Clean
         /\ Crash => crashes' = crashes + 1
<1>1. crashes \in Nat /\ mishaps \in Nat
  BY DEF TypeOK
<1>2. /\ crashes' = crashes \/ (Crash /\ crashes' = crashes + 1)
      /\ mishaps' = mishaps \/ mishaps' = mishaps + 1
  BY DEF Next, Restart, vars, Begin, AppendEvent, ApplyEvent, SaveFile, SaveSnapshot, PutCache,
         AsideAppend, AsideApply, SyncBalance, AlignQuantity, SaveAligned, ForeignAppend, Crash,
         CacheExpires, LoadCache, LoadSnapshot, ReplayEvent, EndReplay, LoadFile, StartEmpty, Up,
         Align, Fault, Mishap, bounds
<1>3. Crash => crashes' = crashes + 1
  BY DEF Crash
<1> QED  BY <1>1, <1>2, <1>3 DEF Clean

LEMMA NoMishap ==
  ASSUME TypeOK, NEW kind
  PROVE  (Fault(kind) \/ Mishap) => mishaps' = mishaps + 1 /\ mishaps' # 0
  BY DEF Fault, Mishap, TypeOK

LEMMA CleanStep ==
  ASSUME Wallet, Trades, [Next]_vars, Clean'
  PROVE  \/ Begin \/ SmoothAppend \/ SmoothApply \/ SaveFile \/ SmoothSave
         \/ UNCHANGED vars
<1>1. /\ TypeOK /\ Clean /\ crashes' = 0 /\ mishaps' = 0 /\ Live /\ aside = 0
      /\ saver = "idle"
  BY Counters DEF Wallet, Recovery, Trades, Steady, Clean
<1>2. \A kind \in Faults : ~Fault(kind)
  BY <1>1, NoMishap
<1>3. ~Fault("append") /\ ~Fault("persist") /\ ~Fault("hook") /\ ~Fault("save")
      /\ ~Fault("cache") /\ ~Mishap
  BY <1>1, <1>2, NoMishap DEF Faults
<1>4. ~Crash /\ ~AsideAppend /\ ~AsideApply /\ ~ForeignAppend /\ ~CacheExpires /\ ~Restart
      /\ ~SyncBalance /\ ~AlignQuantity /\ ~SaveAligned
  <2>1. ~Crash
    BY <1>1 DEF Crash, TypeOK
  <2>2. ~AsideAppend /\ ~ForeignAppend /\ ~SyncBalance /\ ~AlignQuantity
    BY <1>3 DEF AsideAppend, ForeignAppend, SyncBalance, AlignQuantity
  <2>3. ~SaveAligned
    BY <1>1 DEF SaveAligned
  <2> QED
    BY <1>1, <2>1, <2>2, <2>3
       DEF AsideApply, CacheExpires, Restart, LoadCache, LoadSnapshot, ReplayEvent, EndReplay,
           LoadFile, StartEmpty, Up, Live
<1>5. AppendEvent => SmoothAppend
  BY <1>3 DEF AppendEvent, SmoothAppend, images
<1>6. ApplyEvent => SmoothApply
  BY <1>3 DEF ApplyEvent, SmoothApply, images
<1>7. SaveSnapshot \/ PutCache => SmoothSave
  BY <1>3 DEF SaveSnapshot, PutCache, SmoothSave
<1> QED  BY <1>4, <1>5, <1>6, <1>7 DEF Next

\* A wallet that never failed has applied its whole journal.
LEMMA CleanJournal ==
  ASSUME Wallet, Trades, Clean, at = 0
  PROVE  Journal.trade = red.trade /\ red.n = Len(log) /\ Len(log) \in Nat \ {0}
<1>1. ~slipped /\ Live /\ source = "boot" /\ aside = 0
  BY DEF Trades, Steady, Clean
<1>2. red.n = Len(log) /\ Len(log) \in Nat \ {0}
  <2>1. red.n \in Nat /\ Len(log) \in Nat \ {0}
    BY Lengths DEF Wallet, Recovery, TypeOK, State
  <2> QED  BY <1>1, <2>1 DEF Wallet, Recovery, Complete, Pending
<1>3. Traced(red)
  BY <1>1 DEF Wallet, Recovery, Prefixes, Live
<1> QED  BY <1>2, <1>3 DEF Traced, Same, Journal

LEMMA StepCleanTrades ==
  ASSUME Wallet, Trades, [Next]_vars, Clean'
  PROVE  CleanTrades' /\ OneChange'
<1>0. /\ TypeOK /\ Shape /\ Opened /\ Follows /\ Clean /\ ~slipped /\ Live /\ CleanTrades /\ OneChange
      /\ red \in State /\ Len(log) \in Nat \ {0}
  <2>1. TypeOK /\ Shape /\ Opened /\ Follows /\ red \in State
    BY DEF Wallet, Recovery, TypeOK
  <2>2. Clean
    BY <2>1, Counters
  <2>3. ~slipped /\ Live /\ Once
    BY <2>2 DEF Trades, Steady, Clean, Once
  <2> QED  BY <2>1, <2>2, <2>3, Lengths DEF Trades, OnceTrades
<1>1. CASE Begin
  <2>1. UNCHANGED <<red, run, snap, log, past, at>> /\ stage = "ready" /\ stage' = "append" /\ at = 0
    BY <1>0, <1>1 DEF Begin, images, Shape
  <2>2. Emitted(todo') /\ (run.trade # 0 => Quiet(todo'))
    BY <1>0, <1>1, SavedEvents, FailedEvents DEF Begin, TypeOK
  <2>3. snap.red.trade = red.trade /\ (red.trade # 0 => run.trade # 0)
    BY <1>0, <2>1 DEF CleanTrades, Follows
  <2>4. ~saving' => Cancelled(todo')
    BY <1>1, FailedEvents DEF Begin
  <2>5. \A i \in DOMAIN todo' : Opens(todo'[i]) => snap'.red.trade = 0
    BY <2>1, <2>2, <2>3 DEF Quiet
  <2> QED  BY <1>0, <2>1, <2>3, <2>4, <2>5 DEF CleanTrades, OneChange, Journal
<1>2. CASE SmoothAppend
  <2> DEFINE e == Head(todo)
  <2>1. /\ todo # <<>> /\ e \in Event /\ 1 \in DOMAIN todo /\ e = todo[1]
        /\ \A i \in DOMAIN Tail(todo) : i + 1 \in DOMAIN todo /\ Tail(todo)[i] = todo[i + 1]
    BY <1>0, <1>2, TailEvents DEF SmoothAppend, TypeOK, Shape
  <2>2. /\ log'[at'] = e /\ Len(past') = Len(log') /\ Len(log') = Len(log) + 1
        /\ past[Len(log)] \in State /\ past'[Len(log) + 1] = Applied(past[Len(log)], e)
    BY <1>0, <1>2, <2>1, Recorded DEF SmoothAppend
  <2>3. Journal'.trade = TradeAfter(Journal, e)
    BY <2>1, <2>2, AppliedState DEF Journal
  <2>4. OneChange'
    <3>1. Opens(e) => snap.red.trade = 0
      BY <1>0, <2>1 DEF CleanTrades
    <3>2. CASE Opens(e)
      BY <1>2, <3>1, <3>2 DEF OneChange, SmoothAppend
    <3>3. CASE ~Opens(e)
      BY <1>0, <1>2, <2>3, <3>3 DEF OneChange, SmoothAppend, TradeAfter
    <3> QED  BY <3>2, <3>3
  <2>5. ~saving' => Cancelled(todo') /\ log'[at'].kind = "cancelled"
    BY <1>0, <1>2, <2>1, <2>2 DEF CleanTrades, Cancelled, SmoothAppend
  <2>6. \A i \in DOMAIN todo' : Opens(todo'[i]) => snap'.red.trade = 0
    BY <1>0, <1>2, <2>1 DEF CleanTrades, SmoothAppend
  <2> QED  BY <1>0, <1>2, <2>4, <2>5, <2>6 DEF CleanTrades, SmoothAppend
<1>3. CASE SmoothApply
  <2>1. at \in 1 .. Len(log) /\ at # 0
    BY <1>0, <1>3 DEF SmoothApply, Shape
  <2>2. red'.trade = TradeAfter(red, log[at]) /\ log[at] \in Event
    BY <1>0, <1>3, <2>1, ReducedFields DEF SmoothApply
  <2>3. ~saving => red'.trade = red.trade
    BY <1>0, <2>1, <2>2, QuietEvent DEF CleanTrades, Opens
  <2>4. saving => stage' \in {"append", "file"}
    BY <1>3 DEF SmoothApply, AfterEvent
  <2> QED
    BY <1>0, <1>3, <2>3, <2>4 DEF CleanTrades, OneChange, Journal, SmoothApply, AfterEvent
<1>4. CASE SaveFile
  <2>1. copy'.red.trade = red.trade
    BY <1>0, <1>4, WrittenType DEF SaveFile
  <2> QED
    BY <1>0, <1>4, <2>1 DEF SaveFile, CleanTrades, OneChange, Journal, Trades, Steady
<1>5. CASE SmoothSave
  <2>1. todo = <<>> /\ at = 0 /\ saving
    BY <1>0, <1>5 DEF SmoothSave, Shape, Trades, Steady
  <2>2. Journal.trade = red.trade
    BY <1>0, <2>1, CleanJournal
  <2>3. UNCHANGED <<todo, at, saving, log, past, red>> /\ stage' \in {"cache", "ready"}
    BY <1>5 DEF SmoothSave
  <2>4. snap'.red.trade = red.trade
    <3>1. CASE stage = "snap" /\ snap' = copy
      BY <1>0, <3>1 DEF CleanTrades
    <3>2. CASE stage = "cache" /\ snap' = snap
      BY <1>0, <3>2 DEF CleanTrades
    <3> QED  BY <1>5, <3>1, <3>2 DEF SmoothSave
  <2>5. OneChange'
    BY <2>2, <2>3, <2>4 DEF OneChange, Journal
  <2>6. DOMAIN todo' = {}
    BY <2>1, <2>3
  <2>7. stage' # "snap" /\ saving'
    BY <2>1, <2>3
  <2> QED  BY <2>3, <2>4, <2>5, <2>6, <2>7 DEF CleanTrades
<1>6. CASE UNCHANGED vars
  BY <1>0, <1>6 DEF vars, op, images, CleanTrades, OneChange, Journal
<1> QED  BY <1>1, <1>2, <1>3, <1>4, <1>5, <1>6, CleanStep

LEMMA StepSteady ==
  ASSUME Wallet, Trades, [Next]_vars
  PROVE  Steady'
<1>0. /\ TypeOK /\ Shape /\ Steady /\ red \in State /\ red.n \in Nat
      /\ Len(log) \in Nat \ {0} /\ snap.red.n \in Nat
  BY Lengths DEF Wallet, Recovery, Trades, TypeOK, State, Image
<1>1. crashes' = 0 => Live' /\ source' = "boot"
  <2> SUFFICES ASSUME crashes' = 0  PROVE Live' /\ source' = "boot"
    OBVIOUS
  <2>1. crashes = 0 /\ Live /\ source = "boot" /\ ~Crash
    <3>1. /\ {crashes, crashes'} \subseteq Nat /\ crashes <= crashes'
          /\ Crash => crashes' = crashes + 1
      BY <1>0, Counters
    <3>2. crashes = 0 /\ ~Crash
      BY <3>1
    <3> QED  BY <1>0, <3>2 DEF Steady
  <2>2. ~LoadCache /\ ~LoadSnapshot /\ ~ReplayEvent /\ ~EndReplay /\ ~LoadFile /\ ~StartEmpty
        /\ ~CacheExpires /\ ~ForeignAppend
    BY <2>1 DEF Live, LoadCache, LoadSnapshot, ReplayEvent, EndReplay, LoadFile, StartEmpty, Up,
                CacheExpires, ForeignAppend
  <2> QED
    BY <2>1, <2>2 DEF Next, Restart, Live, Begin, AppendEvent, ApplyEvent, SaveFile, SaveSnapshot,
                      PutCache, AsideAppend, AsideApply, SyncBalance, AlignQuantity, SaveAligned,
                      vars, op, Abort, AfterEvent
<1>2. mishaps' = 0 => aside' = 0 /\ at' \in {0, Len(log')} /\ saver' = "idle"
  <2> SUFFICES ASSUME mishaps' = 0  PROVE aside' = 0 /\ at' \in {0, Len(log')} /\ saver' = "idle"
    OBVIOUS
  <2>1. /\ mishaps = 0 /\ aside = 0 /\ at \in {0, Len(log)} /\ saver = "idle"
        /\ ~AsideAppend /\ ~ForeignAppend /\ ~SyncBalance /\ ~AlignQuantity /\ ~SaveAligned
    <3>1. mishaps = 0 /\ ~Mishap
      BY <1>0, Counters, NoMishap
    <3> QED
      BY <1>0, <3>1 DEF Steady, AsideAppend, ForeignAppend, SyncBalance, AlignQuantity, SaveAligned
  <2>2. CASE AppendEvent
    <3>1. CASE Record(Head(todo)) /\ at' = Len(log) + 1 /\ aside' = aside /\ saver' = saver
      <4>1. todo # <<>> /\ Head(todo) \in Event
        BY <1>0, <2>2, TailEvents DEF AppendEvent, Shape, TypeOK
      <4>2. Len(log') = Len(log) + 1
        BY <1>0, <3>1, <4>1, Recorded
      <4> QED  BY <2>1, <3>1, <4>2
    <3>2. CASE at' = 0 /\ aside' = aside /\ saver' = saver
      BY <2>1, <3>2
    <3> QED  BY <2>2, <3>1, <3>2 DEF AppendEvent, Abort, aligner
  <2>3. CASE ~AppendEvent
    BY <2>1, <2>3 DEF Next, Restart, Begin, ApplyEvent, SaveFile, SaveSnapshot, PutCache, AsideApply,
                      Crash, CacheExpires, LoadCache, LoadSnapshot, ReplayEvent, EndReplay,
                      LoadFile, StartEmpty, Up, vars, op, aligner, Abort
  <2> QED  BY <2>2, <2>3
<1>3. Clean' => ~slipped'
  <2> SUFFICES ASSUME Clean'  PROVE ~slipped'
    OBVIOUS
  <2>1. Clean /\ ~slipped /\ Live /\ source = "boot" /\ aside = 0 /\ at \in {0, Len(log)}
    <3>1. Clean
      BY <1>0, Counters
    <3> QED  BY <1>0, <3>1 DEF Steady, Clean
  <2>2. CASE SmoothApply
    <3>1. at # 0 /\ at = Len(log)
      BY <1>0, <2>1, <2>2 DEF SmoothApply, Shape
    <3>2. red.n + 1 = at
      BY <1>0, <2>1, <3>1 DEF Wallet, Recovery, Complete, Pending
    <3> QED  BY <2>1, <2>2, <3>2 DEF SmoothApply, Reduce
  <2>3. CASE Begin \/ SaveFile \/ UNCHANGED vars
    BY <2>1, <2>3 DEF Begin, SaveFile, vars
  <2>4. ASSUME AppendEvent \/ SaveSnapshot \/ PutCache  PROVE ~slipped'
    BY <2>1, <2>4 DEF AppendEvent, SaveSnapshot, PutCache
  <2>5. SmoothAppend => stage = "append"
    BY DEF SmoothAppend
  <2>6. SmoothSave => stage \in {"snap", "cache"}
    BY DEF SmoothSave
  <2>7. stage = "append" \/ stage \in {"snap", "cache"} =>
          ~slipped' \/ AsideAppend \/ AsideApply \/ SyncBalance \/ AlignQuantity \/ SaveAligned
            \/ Crash
    BY <2>1, <2>3, <2>4 DEF Next, Restart, Begin, ApplyEvent, SaveFile, ForeignAppend, CacheExpires,
        LoadCache, LoadSnapshot, ReplayEvent, EndReplay, LoadFile, StartEmpty, Up
  <2>8. /\ AsideAppend \/ SyncBalance \/ AlignQuantity \/ SaveAligned \/ Crash =>
             slipped' = slipped
        /\ ~AsideApply
    BY <2>1 DEF AsideAppend, AsideApply, SyncBalance, AlignQuantity, SaveAligned, Crash
  <2>9. ASSUME SmoothAppend \/ SmoothSave  PROVE ~slipped'
    BY <2>1, <2>5, <2>6, <2>7, <2>8, <2>9
  <2> QED  BY <2>2, <2>3, <2>9, CleanStep
<1>4. stage' = "replay" => snap'.red.n # 0
  <2>1. CASE LoadSnapshot
    BY <1>0, <2>1 DEF LoadSnapshot, Found, images
  <2>2. CASE ReplayEvent \/ UNCHANGED vars \/ AsideApply \/ CacheExpires \/ AsideAppend
             \/ ForeignAppend \/ SyncBalance \/ AlignQuantity
    BY <1>0, <2>2 DEF ReplayEvent, vars, op, images, AsideApply, CacheExpires, AsideAppend,
                      ForeignAppend, SyncBalance, AlignQuantity, Steady
  <2>5. CASE SaveAligned
    BY <1>0, <2>5 DEF SaveAligned, op, Shape, Live
  <2>3. CASE Begin \/ AppendEvent \/ ApplyEvent \/ SaveFile \/ SaveSnapshot \/ PutCache \/ Crash
    BY <2>3 DEF Begin, AppendEvent, ApplyEvent, SaveFile, SaveSnapshot, PutCache, Crash, Abort,
                AfterEvent
  <2>4. CASE LoadCache \/ EndReplay \/ LoadFile \/ StartEmpty
    BY <2>4 DEF LoadCache, EndReplay, LoadFile, StartEmpty, Up
  <2> QED  BY <2>1, <2>2, <2>3, <2>4, <2>5 DEF Next, Restart
<1>5. ~saving' => stage' \notin {"file", "snap", "cache"}
  <2>1. CASE ApplyEvent
    BY <2>1 DEF ApplyEvent, AfterEvent, Abort
  <2>2. CASE SaveFile \/ SaveSnapshot \/ PutCache
    BY <1>0, <2>2 DEF SaveFile, SaveSnapshot, PutCache, Abort, Steady
  <2>3. CASE AsideAppend \/ AsideApply \/ ForeignAppend \/ CacheExpires \/ UNCHANGED vars
             \/ SyncBalance \/ AlignQuantity \/ SaveAligned
    BY <1>0, <2>3 DEF AsideAppend, AsideApply, ForeignAppend, CacheExpires, vars, op, SyncBalance,
                      AlignQuantity, SaveAligned, Steady
  <2>4. CASE Begin \/ AppendEvent \/ Crash
    BY <2>4 DEF Begin, AppendEvent, Crash, Abort
  <2>5. CASE Restart
    BY <2>5 DEF Restart, LoadCache, LoadSnapshot, ReplayEvent, EndReplay, LoadFile, StartEmpty, Up,
                op
  <2> QED  BY <2>1, <2>2, <2>3, <2>4, <2>5 DEF Next
<1> QED  BY <1>1, <1>2, <1>3, <1>4, <1>5 DEF Steady

LEMMA OnceBefore ==
  ASSUME Wallet, Trades, [Next]_vars, Once'
  PROVE  /\ Once /\ OnceTrades /\ ~ForeignAppend /\ (Crash => Clean)
         /\ ~Live => mishaps = 0
         /\ mishaps' = 0 => /\ mishaps = 0
                            /\ ~SyncBalance /\ ~AlignQuantity /\ ~SaveAligned
<1>1. slipped => slipped'
  BY Grows DEF Wallet, Recovery, Grown
<1>2. /\ {crashes, mishaps, crashes', mishaps'} \subseteq Nat
      /\ crashes <= crashes' /\ mishaps <= mishaps' /\ (Crash => crashes' = crashes + 1)
  BY Counters DEF Wallet, Recovery
<1>3. ~slipped' /\ crashes' + mishaps' <= 1
  BY DEF Once
<1>4. crashes + mishaps <= 1 /\ (Crash => crashes = 0 /\ mishaps = 0)
  BY <1>2, <1>3
<1>5. Once /\ OnceTrades /\ ~ForeignAppend /\ (Crash => Clean)
  BY <1>1, <1>3, <1>4 DEF Once, Clean, Trades, ForeignAppend
<1>6. ~Live => mishaps = 0
  <2>1. ~Live => crashes # 0
    BY DEF Trades, Steady
  <2> QED  BY <1>2, <1>4, <2>1
<1>7. ASSUME mishaps' = 0
      PROVE  mishaps = 0 /\ ~SyncBalance /\ ~AlignQuantity /\ ~SaveAligned
  <2>1. TypeOK /\ mishaps = 0 /\ saver = "idle"
    BY <1>2, <1>7 DEF Wallet, Recovery, Trades, Steady
  <2>2. ~Mishap
    BY <1>7, <2>1, NoMishap
  <2> QED  BY <2>1, <2>2 DEF SyncBalance, AlignQuantity, SaveAligned
<1> QED  BY <1>5, <1>6, <1>7

LEMMA StepOnceTrades ==
  ASSUME Wallet, Trades, [Next]_vars, Once'
  PROVE  OnceTrades'
<1>0. /\ TypeOK /\ Shape /\ Steady /\ Opened /\ Follows /\ Prefixes
      /\ red \in State /\ run \in Position /\ Len(log) \in Nat \ {0}
      /\ Once /\ OnceTrades /\ ~ForeignAppend /\ (Crash => Clean)
      /\ ~Live => mishaps = 0
  BY OnceBefore, Lengths DEF Wallet, Recovery, Trades, TypeOK
<1>1. mishaps' = 0 =>
        SameTrade(file') /\ SameTrade(snap') /\ SameTrade(cache') /\ SameTrade(copy')
  <2> SUFFICES ASSUME mishaps' = 0
               PROVE  SameTrade(file') /\ SameTrade(snap') /\ SameTrade(cache') /\ SameTrade(copy')
    OBVIOUS
  <2>0. mishaps = 0 /\ ~SyncBalance /\ ~AlignQuantity /\ ~SaveAligned
    BY OnceBefore
  <2>1. SameTrade(file) /\ SameTrade(snap) /\ SameTrade(cache) /\ SameTrade(copy)
        /\ SameTrade(NoImage)
    BY <1>0, <2>0, NothingHeld DEF OnceTrades, SameTrade
  <2>2. CASE SaveFile
    <3>1. run.trade = red.trade
      BY <1>0, <2>2, NothingHeld DEF SaveFile, OnceTrades, Follows, Live
    <3>2. SameTrade(Written)
      BY <1>0, <3>1, WrittenType DEF SameTrade
    <3> QED  BY <2>1, <2>2, <3>2 DEF SaveFile
  <2>3. CASE ~SaveFile
    <3>1. /\ file' = file /\ snap' \in {snap, copy} /\ cache' \in {cache, copy, NoImage}
          /\ copy' \in {copy, NoImage}
      BY <2>0, <2>3 DEF Next, Restart, vars, images, Begin, AppendEvent, ApplyEvent, SaveSnapshot, PutCache,
                  AsideAppend, AsideApply, ForeignAppend, Crash, CacheExpires, LoadCache,
                  LoadSnapshot, ReplayEvent, EndReplay, LoadFile, StartEmpty, Up, op, Abort
    <3> QED  BY <2>1, <3>1
  <2> QED  BY <2>2, <2>3
<1>2. Live' /\ red'.trade # 0 => run'.trade = red'.trade
  <2>1. CASE Begin \/ SaveFile \/ SaveSnapshot \/ PutCache \/ CacheExpires \/ AsideAppend
             \/ SyncBalance \/ SaveAligned \/ UNCHANGED vars
    <3>1. UNCHANGED <<red, run>> /\ (Live' => Live)
      BY <2>1 DEF Begin, SaveFile, SaveSnapshot, PutCache, CacheExpires, AsideAppend, SyncBalance,
                  SaveAligned, vars, op, Abort, Live
    <3> QED  BY <1>0, <3>1 DEF OnceTrades
  <2>2. CASE AppendEvent
    <3>1. red' = red /\ run' = Ahead(Head(todo)) /\ 1 \in DOMAIN todo /\ Head(todo) = todo[1] /\ Live
      BY <1>0, <2>2, TailEvents DEF AppendEvent, TypeOK, Shape, Live
    <3>2. Opens(Head(todo)) => red.trade = 0
      BY <1>0, <3>1 DEF Opened
    <3> QED  BY <1>0, <3>1, <3>2 DEF OnceTrades, Ahead
  <2>3. ASSUME NEW i \in 1 .. Len(log), Reduce(log[i], i), Live,
               Opens(log[i]) => run.trade \in {0, log[i].num}
        PROVE  red'.trade # 0 => run'.trade = red'.trade
    <3>1. /\ log[i] \in Event /\ red' \in State /\ run' = Synced(run, red')
          /\ red'.trade = TradeAfter(red, log[i])
      BY <1>0, <2>3, ReducedFields
    <3>2. red'.trade # 0 => run.trade \in {0, red'.trade}
      BY <1>0, <2>3, <3>1 DEF OnceTrades, TradeAfter
    <3> QED  BY <1>0, <3>1, <3>2, SyncedFields
  <2>4. CASE ApplyEvent
    <3>1. at \in 1 .. Len(log) /\ at # 0 /\ Live
      BY <1>0, <2>4 DEF ApplyEvent, Shape, Live
    <3>2. CASE Reduce(log[at], at)
      BY <1>0, <2>3, <3>1, <3>2 DEF Opened
    <3>3. CASE UNCHANGED <<red, run>>
      BY <1>0, <3>1, <3>3 DEF OnceTrades
    <3> QED  BY <2>4, <3>2, <3>3 DEF ApplyEvent
  <2>5. CASE AsideApply
    <3>1. aside \in 1 .. Len(log) /\ Live /\ ~Opens(log[aside]) /\ Reduce(log[aside], aside)
      BY <1>0, <2>5 DEF AsideApply, Shape, Opens
    <3> QED  BY <2>3, <3>1
  <2>6. CASE Crash \/ LoadSnapshot \/ ReplayEvent
    BY <2>6 DEF Crash, LoadSnapshot, ReplayEvent, op, Live
  <2>9. CASE AlignQuantity
    <3>1. Live /\ run'.trade = run.trade /\ red'.trade = red.trade
      BY <1>0, <2>9, AlignedTypes DEF AlignQuantity
    <3> QED  BY <1>0, <3>1 DEF OnceTrades
  <2>7. CASE LoadCache \/ LoadFile \/ StartEmpty
    <3>1. PICK img \in {cache, file, NoImage}, from \in {"cache", "file", "none"} : Up(img, from)
      BY <2>7 DEF LoadCache, LoadFile, StartEmpty
    <3>4. mishaps = 0
      BY <1>0, <3>1 DEF Up, Live
    <3>2. img.red \in State /\ img.pos \in Position /\ img.pos.trade = img.red.trade
      BY <1>0, <3>1, <3>4, NothingHeld DEF TypeOK, Image, OnceTrades, SameTrade
    <3>3. red' = Deserialized(img.red) /\ run' = Synced(img.pos, red')
      BY <3>1 DEF Up
    <3>5. red' \in State /\ red'.trade = img.red.trade
      BY <3>2, <3>3, DeserializedState DEF Deserialized
    <3> QED  BY <3>2, <3>3, <3>5, SyncedFields
  <2>8. CASE EndReplay
    <3>1. /\ red' = red /\ run' = Synced(run, red) /\ stage = "replay" /\ red.n >= Len(log)
          /\ red.n \in Nat /\ red.n # 0 /\ ~Live
      BY <1>0, <2>8 DEF EndReplay, Live, State, Prefixes
    <3>2. Traced(red)
      BY <1>0, <3>1 DEF Prefixes, Once
    <3>3. red.n = Len(log)
      BY <1>0, <3>1, <3>2 DEF Traced
    <3>4. red.trade = Journal.trade
      BY <3>1, <3>2, <3>3 DEF Traced, Same, Journal
    <3>5. run.trade \in {0, snap.red.trade} /\ snap.red.n # 0 /\ OneChange
      BY <1>0, <3>1 DEF OnceTrades, Steady
    <3>6. red.trade # 0 => run.trade \in {0, red.trade}
      BY <3>4, <3>5 DEF OneChange
    <3> QED  BY <1>0, <3>1, <3>6, SyncedFields
  <2> QED  BY <1>0, <2>1, <2>2, <2>4, <2>5, <2>6, <2>7, <2>8, <2>9 DEF Next, Restart
<1>3. stage' = "replay" => run'.trade \in {0, snap'.red.trade}
  <2>1. CASE LoadSnapshot
    <3>1. mishaps = 0
      BY <1>0, <2>1 DEF LoadSnapshot, Live
    <3> QED  BY <1>0, <2>1, <3>1 DEF LoadSnapshot, images, OnceTrades, SameTrade
  <2>2. CASE ReplayEvent \/ UNCHANGED vars \/ CacheExpires \/ AsideAppend \/ SyncBalance
    BY <1>0, <2>2 DEF ReplayEvent, vars, op, images, CacheExpires, AsideAppend, SyncBalance,
                      OnceTrades
  <2>5. CASE AlignQuantity \/ SaveAligned
    BY <1>0, <2>5 DEF AlignQuantity, SaveAligned, op, Shape, Live
  <2>3. CASE Begin \/ AppendEvent \/ ApplyEvent \/ SaveFile \/ SaveSnapshot \/ PutCache \/ Crash
             \/ AsideApply
    <3>1. aside # 0 => stage # "replay"
      BY <1>0 DEF Shape, Live
    <3> QED
      BY <2>3, <3>1 DEF Begin, AppendEvent, ApplyEvent, SaveFile, SaveSnapshot, PutCache, Crash, Abort,
                  AfterEvent, AsideApply, op
  <2>4. CASE LoadCache \/ EndReplay \/ LoadFile \/ StartEmpty
    BY <2>4 DEF LoadCache, EndReplay, LoadFile, StartEmpty, Up
  <2> QED  BY <1>0, <2>1, <2>2, <2>3, <2>4, <2>5 DEF Next, Restart
<1>4. ~Live' \/ Clean' => OneChange'
  <2>1. Clean' => OneChange'
    BY StepCleanTrades
  <2>2. ASSUME ~Live'  PROVE OneChange'
    <3>1. UNCHANGED <<log, past, snap>>
      <4>1. CASE AsideApply
        BY <4>1 DEF AsideApply, images
      <4>2. ~Begin /\ ~AppendEvent /\ ~ApplyEvent /\ ~SaveFile /\ ~SaveSnapshot /\ ~PutCache
            /\ ~AsideAppend /\ ~LoadCache /\ ~EndReplay /\ ~LoadFile /\ ~StartEmpty
            /\ ~SyncBalance /\ ~AlignQuantity
        BY <2>2 DEF Live, SyncBalance, AlignQuantity, Begin, AppendEvent, ApplyEvent, SaveFile, SaveSnapshot, PutCache, AsideAppend,
                    Abort, AfterEvent, op, LoadCache, EndReplay, LoadFile, StartEmpty, Up
      <4>3. ~SaveAligned
        BY <1>0, <2>2 DEF SaveAligned, op, Shape, Live
      <4> QED
        BY <1>0, <4>1, <4>2, <4>3
           DEF Next, Restart, Crash, CacheExpires, LoadSnapshot, ReplayEvent, vars, op, images
    <3>2. ~Live \/ Clean
      <4>1. CASE Crash
        BY <1>0, <4>1
      <4>2. CASE ~Crash
        <5>1. stage' \in {"down", "replay"}
          BY <2>2 DEF Live
        <5> QED
          BY <1>0, <4>2, <5>1
             DEF Next, Restart, Live, Begin, AppendEvent, ApplyEvent, SaveFile, SaveSnapshot, PutCache,
                 AsideAppend, AsideApply, SyncBalance, AlignQuantity, SaveAligned, CacheExpires, LoadCache, LoadSnapshot, ReplayEvent,
                 EndReplay, LoadFile, StartEmpty, Up, vars, op, Abort, AfterEvent
      <4> QED  BY <4>1, <4>2
    <3> QED  BY <1>0, <3>1, <3>2 DEF OnceTrades, OneChange, Journal
  <2> QED  BY <2>1, <2>2
<1> QED  BY <1>1, <1>2, <1>3, <1>4 DEF OnceTrades, SameTrade

LEMMA StepTrades == Wallet /\ Trades /\ [Next]_vars => Trades'
<1> SUFFICES ASSUME Wallet, Trades, [Next]_vars  PROVE Trades'
  OBVIOUS
<1>1. Steady'
  BY StepSteady
<1>2. Once' => OnceTrades'
  BY StepOnceTrades
<1>3. Clean' => CleanTrades'
  BY StepCleanTrades
<1> QED  BY <1>1, <1>2, <1>3 DEF Trades

LEMMA InitTrades == Init => Trades
<1> SUFFICES ASSUME Init  PROVE Trades
  OBVIOUS
<1>1. /\ red = Applied(Fresh, Ev("noted", 0, 0)) /\ run = NoPosition /\ todo = <<>> /\ at = 0
      /\ stage = "ready" /\ file = NoImage /\ snap = NoImage /\ cache = NoImage
      /\ copy = NoImage
  BY DEF Init
<1>2. red.trade = 0
  BY <1>1, NothingHeld, AppliedState DEF Applied, TradeAfter, Ev, Opens
<1>3. Steady
  BY DEF Init, Steady, Live
<1>4. OnceTrades
  BY <1>1, <1>2, NothingHeld DEF OnceTrades, SameTrade, OneChange
<1>5. CleanTrades
  BY <1>1, <1>2, NothingHeld, NoEvent DEF CleanTrades, Cancelled
<1> QED  BY <1>3, <1>4, <1>5 DEF Trades

\* The runtime position has the quantity and stop price of the reducer's,
\* whatever was replayed, aborted or reordered, and is the same trade while
\* at most one thing went wrong (_wallet.py:
\* _sync_runtime_positions_from_reducer keeps what the runtime has).
THEOREM PositionSafe == Spec => []PositionIsReducers
<1>1. Init => Wallet /\ Trades
  BY InitWallet, InitTrades
<1>2. (Wallet /\ Trades) /\ [Next]_vars => (Wallet /\ Trades)'
  BY StepWallet, StepTrades
<1>3. Wallet /\ Trades => PositionIsReducers
  BY DEF Wallet, Follows, Trades, OnceTrades, Once, Live, Ready, PositionIsReducers
<1> QED  BY <1>1, <1>2, <1>3, PTL DEF Spec

=============================================================================
