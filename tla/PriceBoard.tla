----------------------------- MODULE PriceBoard -----------------------------
(***************************************************************************)
(* What settlement relies on the oracle for, and nothing else: each        *)
(* underlying and expiry has at most one price, published no earlier than  *)
(* the expiry and never changed.  The oracle program implements it; the    *)
(* controller reads it.                                                    *)
(***************************************************************************)
EXTENDS Integers

CONSTANTS
  Fixing,   \* pairs <<underlying, expiry>>
  Prices,   \* prices that may be published
  Unset,    \* no price yet
  MaxTime   \* bound on the clock

VARIABLES board, now

Expiry(f) == f[2]

Init ==
  /\ board = [f \in Fixing |-> Unset]
  /\ now = 0

Publish(f, price) ==
  /\ now >= Expiry(f)
  /\ board[f] = Unset
  /\ board' = [board EXCEPT ![f] = price]
  /\ UNCHANGED now

Advance ==
  /\ now < MaxTime
  /\ now' = now + 1
  /\ UNCHANGED board

Next == Advance \/ \E f \in Fixing, price \in Prices : Publish(f, price)

Spec == Init /\ [][Next]_<<board, now>>
=============================================================================
