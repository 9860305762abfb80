----------------------------- MODULE OracleMath -----------------------------
(***************************************************************************)
(* The validation arithmetic of the oracle program.  Each operator that    *)
(* the code computes with checked operations comes with the condition      *)
(* under which it returns a value at all.                                  *)
(***************************************************************************)
EXTENDS Integers

CONSTANTS
  Radix,          \* 10 in the code
  PriceDecimals,  \* 8 in the code
  Bps,            \* BPS_DENOMINATOR, 10_000 in the code
  MaxU64

Distance(x, y) == IF x > y THEN x - y ELSE y - x

\* Mutant of Fresh: a price from the future is accepted.
FreshUnsigned(now, publish_time, max_staleness) ==
  max_staleness = 0 \/ now - publish_time <= max_staleness

\* validate_staleness: 0 turns the check off; a price from the future is
\* refused as well as one that is too old.
Fresh(now, publish_time, max_staleness) ==
  \/ max_staleness = 0
  \/ now - publish_time \in 0..max_staleness

\* validate_confidence: 0 turns the check off.
Confident(price, conf, max_confidence) ==
  \/ max_confidence = 0
  \/ /\ price > 0
     /\ conf * Bps <= MaxU64
     /\ (conf * Bps) \div price <= max_confidence

\* normalize_to_8_decimals: a Pyth price in units of Radix^exponent, brought
\* to the fixed exponent -PriceDecimals.  Both branches can fail: on overflow
\* when multiplying, on a result of zero when dividing.
Normalized(price, exponent) ==
  LET diff == exponent + PriceDecimals
  IN IF diff >= 0 THEN price * Radix ^ diff ELSE price \div Radix ^ (-diff)

Normalizable(price, exponent) ==
  LET diff == exponent + PriceDecimals
  IN /\ price > 0
     /\ diff > 0 => Radix ^ diff <= MaxU64
     /\ diff < 0 => Radix ^ (-diff) <= MaxU64
     /\ Normalized(price, exponent) \in 1..MaxU64

\* validate_price_deviation
WithinDeviation(submitted, reference, threshold) ==
  /\ reference > 0
  /\ \/ threshold = 0
     \/ /\ Distance(submitted, reference) * Bps <= MaxU64
        /\ (Distance(submitted, reference) * Bps) \div reference <= threshold
=============================================================================
