------------------------------ MODULE MCOracle ------------------------------
(* A small instance of the oracle for TLC. *)
EXTENDS Oracle, TLC

CONSTANTS a, b, sol

\* One decimal in base 2.  The three updates normalize to 2 (dividing), 6
\* (multiplying) and 5 (unchanged), the last with a wide confidence interval.
SolMarket ==
  sol :> (0 :> [price |-> 4, conf |-> 1, exponent |-> -2] @@
          1 :> [price |-> 3, conf |-> 0, exponent |-> 0] @@
          2 :> [price |-> 5, conf |-> 3, exponent |-> -1])

KeySymmetry == Permutations(Key)
=============================================================================
