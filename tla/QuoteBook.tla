----------------------------- MODULE QuoteBook ------------------------------
(***************************************************************************)
(* A book of offers: an offer sells at most its limit in total, in as many *)
(* pieces as takers like, and an offer that was retired never sells again. *)
(* The batch settler implements it with fill accounts, cancellations and   *)
(* maker nonces, for the limits of the quotes displayed to it.             *)
(***************************************************************************)
EXTENDS Integers

CONSTANTS
  Offer,
  Limit     \* [Offer -> Nat]

VARIABLES
  sold,     \* [Offer -> amount sold so far]
  retired   \* offers that were withdrawn

Init ==
  /\ sold = [o \in Offer |-> 0]
  /\ retired = {}

Sell(o) ==
  /\ o \notin retired
  /\ \E total \in (sold[o] + 1)..Limit[o] : sold' = [sold EXCEPT ![o] = total]
  /\ UNCHANGED retired

Retire ==
  /\ retired' \in SUBSET Offer
  /\ retired \subseteq retired'
  /\ UNCHANGED sold

Next == Retire \/ \E o \in Offer : Sell(o)

Spec == Init /\ [][Next]_<<sold, retired>>
=============================================================================
