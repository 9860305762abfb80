----------------------------- MODULE OptionMath -----------------------------
(***************************************************************************)
(* The collateral and payout arithmetic of the controller program.         *)
(*                                                                         *)
(* In the code the radix is 10, oTokens and prices have 8 decimals and     *)
(* every stored quantity is a u64.  They are parameters here, so that TLC  *)
(* reaches rounding and overflow with small numbers.  Division is floor    *)
(* division of naturals, as in Rust.                                       *)
(***************************************************************************)
EXTENDS Integers

CONSTANTS
  Radix,          \* 10 in the code
  OTokenDecimals, \* decimals of oTokens and of prices: 8 in the code
  MaxDecimals,    \* the most decimals a mint can have: 255, a u8
  MaxU64          \* the largest value a u64 holds

ASSUME MathAssumption ==
  /\ Radix \in Nat /\ Radix > 1
  /\ OTokenDecimals \in Nat
  /\ MaxDecimals \in Nat /\ MaxDecimals >= 2 * OTokenDecimals + 2
  /\ MaxU64 \in Nat

\* Powers of the radix are positive naturals.  The provers know nothing of
\* exponentiation; TLC evaluates this on every run.
ASSUME PowerAssumption ==
  \A n \in 0..MaxDecimals : Radix ^ n \in Nat /\ Radix ^ n > 0

\* Decimals a collateral mint may have.
CollateralDecimals == 0..MaxDecimals

\* What create_otoken_info accepts of them: up to 18, two more than the
\* exponent of the put formula can take.
DecimalsSupported(terms) == terms.collateral_decimals <= 2 * OTokenDecimals + 2

(***************************************************************************)
(* get_required_collateral.  For a put, amount * strike is scaled down to  *)
(* the collateral's decimals; for a call the amount itself is rescaled.    *)
(* Both round towards zero.                                                *)
(***************************************************************************)
PutCollateral(strike, decimals, amount) ==
  (amount * strike) \div Radix ^ (2 * OTokenDecimals - decimals)

CallCollateral(decimals, amount) ==
  IF decimals >= OTokenDecimals
  THEN amount * Radix ^ (decimals - OTokenDecimals)
  ELSE amount \div Radix ^ (OTokenDecimals - decimals)

RequiredCollateral(terms, amount) ==
  IF terms.is_put
  THEN PutCollateral(terms.strike_price, terms.collateral_decimals, amount)
  ELSE CallCollateral(terms.collateral_decimals, amount)

\* The cases in which get_required_collateral returns a value: the exponent
\* 8 + 8 - decimals must not underflow (that panics) and the result must fit.
CollateralComputable(terms, amount) ==
  /\ terms.is_put => terms.collateral_decimals <= 2 * OTokenDecimals
  /\ RequiredCollateral(terms, amount) <= MaxU64

\* get_payout: an in-the-money series forfeits the whole required collateral,
\* an out-of-the-money one nothing.
InTheMoney(terms, price) ==
  IF terms.is_put THEN price < terms.strike_price ELSE price > terms.strike_price

Payout(terms, price, amount) ==
  IF InTheMoney(terms, price) THEN RequiredCollateral(terms, amount) ELSE 0

PayoutComputable(terms, price, amount) ==
  InTheMoney(terms, price) => CollateralComputable(terms, amount)
=============================================================================
