---------------------------- MODULE MCController ----------------------------
(* Small instances of the controller for TLC. *)
EXTENDS Controller, TLC

CONSTANTS a, b, usdc, sol, put, call, main, side

\* Prices and strikes have one decimal and collateral one decimal in base 2:
\* the put needs floor(3n / 2) units for n oTokens, the call n units.
PutTerms ==
  [underlying |-> "sol", strike_asset |-> usdc, collateral_mint |-> usdc, strike_price |-> 3,
   expiry |-> 1, is_put |-> TRUE, collateral_decimals |-> 1]

CallTerms ==
  [underlying |-> "sol", strike_asset |-> usdc, collateral_mint |-> usdc, strike_price |-> 3,
   expiry |-> 1, is_put |-> FALSE, collateral_decimals |-> 1]

OneSeries  == put :> PutTerms
TwoSeries  == put :> PutTerms @@ call :> CallTerms
OnePool    == main :> usdc
TwoPools   == main :> usdc @@ side :> usdc
Purse3and1 == usdc :> (a :> 3 @@ b :> 1)
Purse2     == usdc :> [k \in Key |-> 2]

=============================================================================
