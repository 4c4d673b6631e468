--------------------------- MODULE PositionContract ---------------------------
(***************************************************************************)
(* What the wallet promises of one symbol's position to everyone who names *)
(* a position by its symbol: one at a time, each under a number of its own *)
(* and on one side until it is closed; each is booked closed once, and     *)
(* nothing is booked closed that is not open.                              *)
(***************************************************************************)
EXTENDS Naturals

VARIABLES
  current,  \* number of the open position, 0: none
  side,     \* its side, "none": none
  opened,   \* positions booked open so far
  closed    \* positions booked closed so far

cvars == <<current, side, opened, closed>>

CInit == current = 0 /\ side = "none" /\ opened = 0 /\ closed = 0

Open(s) ==
  /\ current = 0
  /\ opened' = opened + 1
  /\ current' = opened + 1 /\ side' = s
  /\ UNCHANGED closed

Close ==
  /\ current # 0
  /\ current' = 0 /\ side' = "none"
  /\ closed' = closed + 1
  /\ UNCHANGED opened

(* An entry that cannot be protected is taken back before anyone sees it.  *)
TakeBack ==
  /\ current = 0
  /\ opened' = opened + 1 /\ closed' = closed + 1
  /\ UNCHANGED <<current, side>>

CNext == (\E s \in {"LONG", "SHORT"} : Open(s)) \/ Close \/ TakeBack

Contract == CInit /\ [][CNext]_cvars
=============================================================================
