------------------------------ MODULE MCListing ------------------------------
(* A small instance of the listing of a series for TLC. *)
EXTENDS Listing, TLC

CONSTANTS a, usdc, dai, put, dud, main, pda, wallet, fadmin, wadmin, bot, bot2, fkey

\* One unit of collateral for each oToken, nothing to round.
PutTerms ==
  [underlying |-> "sol", strike_asset |-> usdc, collateral_mint |-> usdc,
   strike_price |-> 2, expiry |-> 2, is_put |-> TRUE, collateral_decimals |-> 1]

\* A collateral with more decimals than create_otoken_info accepts.
DudTerms == [PutTerms EXCEPT !.collateral_mint = dai, !.collateral_decimals = 5]

TwoSeries == put :> PutTerms @@ dud :> DudTerms
OnePool    == main :> usdc
Purse      == usdc :> [k \in Key |-> 2] @@ dai :> [k \in Key |-> 0]
=============================================================================
