------------------------- MODULE MCPhysicalDelivery --------------------------
(* Small instances of physical delivery for TLC. *)
EXTENDS PhysicalDelivery, TLC

CONSTANTS op, usr, dealer, pda, venue, usdc, sol, put, call, main, vaults,
          jupiter, router

\* One decimal in base 2.  A put of strike 2 takes one unit of usdc for each
\* oToken and delivers one of sol; a call of strike 3 takes one unit of sol
\* and delivers floor(3n / 2) of usdc for n oTokens.
PutTerms ==
  [underlying |-> sol, strike_asset |-> usdc, collateral_mint |-> usdc,
   strike_price |-> 2,
   expiry |-> 1, is_put |-> TRUE, collateral_decimals |-> 1]

CallTerms ==
  [PutTerms EXCEPT !.collateral_mint = sol, !.strike_price = 3, !.is_put = FALSE]

BothSeries == put :> PutTerms @@ call :> CallTerms
Pools      == main :> usdc @@ vaults :> sol
Decimals   == usdc :> 1 @@ sol :> 1

Purse ==
  usdc :> (usr :> 2 @@ dealer :> 1 @@ op :> 0 @@ pda :> 1 @@ venue :> 2) @@
  sol  :> (usr :> 1 @@ dealer :> 0 @@ op :> 0 @@ pda :> 0 @@ venue :> 2)

Quote(s, max) ==
  [maker |-> dealer, nonce |-> 0, quote_id |-> 1, otoken_mint |-> s,
   premium_mint |-> usdc, bid_price |-> 1, max_amount |-> max, deadline |-> 0]

TwoQuotes == {Quote(put, 2), Quote(call, 2)}

Base ==
  [owner |-> op, operator |-> op, treasury |-> op, protocol_fee_bps |-> 1,
   paused |-> FALSE, escape_delay |-> 1, jupiter_program |-> jupiter]

Running == {Base}

\* The state the deployment flow of the README ends in.
Deployed ==
  /\ config = [admin |-> op, partial_pauser |-> Default,
               partially_paused |-> FALSE, fully_paused |-> FALSE]
  /\ next_id = [k \in Key |-> IF k = Settler THEN 0 ELSE NoAccount]
  /\ vault = [v \in VaultKey |-> NoAccount]
  /\ expiry_price = [s \in Series |-> 0]
  /\ balance = [t \in Mint \cup Series |->
                 [acct \in Account |->
                   IF t \in Mint /\ acct \in Key THEN Endowment[t][acct] ELSE 0]]
  /\ oracle_price = [f \in Fixing |-> NoAccount]
  /\ whitelisted = Series
  /\ fee_bearing = {}
  /\ now = 0
  /\ redeemed = [s \in Series |-> 0]
  /\ paid = [s \in Series |-> 0]
  /\ closed_by = [v \in VaultKey |-> "none"]
  /\ settler_config = Base
  /\ maker_state = [m \in Wallet |->
       IF m = dealer THEN [nonce |-> 0, whitelisted |-> TRUE] ELSE NoAccount]
  /\ quote_fill = [f \in FillKey |-> NoAccount]
  /\ mm_balance = [m \in Wallet |-> [s \in Series |-> NoAccount]]
  /\ vault_mm = [v \in VaultKey |-> NoAccount]
  /\ rent_reserve = RentReserve
  /\ sold = [q \in Quotes |-> 0]
  /\ premium_paid = [q \in Quotes |-> 0]
  /\ burned = [s \in Series |-> 0]
  /\ delivered = [v \in VaultKey |-> 0]

DeployedSpec == Deployed /\ [][DeliveryNext]_delivery_vars
=============================================================================
