--------------------------- MODULE MCBatchSettler ---------------------------
(* Small instances of the batch settler over the controller for TLC. *)
EXTENDS BatchSettler, TLC

CONSTANTS op, usr, dealer, pda, usdc, put, main, jupiter, router

\* One decimal in base 2, like the controller's instances: a put of strike 2
\* needs one unit of collateral for each oToken.
PutTerms(strike) ==
  [underlying |-> "sol", strike_asset |-> usdc, collateral_mint |-> usdc,
   strike_price |-> strike,
   expiry |-> 1, is_put |-> TRUE, collateral_decimals |-> 1]

EvenSeries    == put :> PutTerms(2)
RoundedSeries == put :> PutTerms(3)
OnePool       == main :> usdc

Purse == usdc :> (usr :> 3 @@ dealer :> 2 @@ op :> 0 @@ pda :> 1)

Quote(maker, nonce, id, bid, max, deadline) ==
  [maker |-> maker, nonce |-> nonce, quote_id |-> id, otoken_mint |-> put,
   premium_mint |-> usdc, bid_price |-> bid, max_amount |-> max,
   deadline |-> deadline]

\* A cheap quote for two oTokens, a dear one for one oToken under the same
\* nonce and id that lasts longer, and one under the next nonce.
Requoted ==
  {Quote(dealer, 0, 1, 1, 2, 0), Quote(dealer, 0, 1, 4, 1, 1), Quote(dealer, 1, 1, 4, 2, 0)}

\* Two makers buying the same series.
TwoMakers == {Quote(dealer, 0, 1, 1, 2, 0), Quote(op, 0, 1, 1, 1, 0)}

OneQuote == {Quote(dealer, 0, 1, 1, 2, 0)}

Base ==
  [owner |-> op, operator |-> op, treasury |-> op, protocol_fee_bps |-> 1,
   paused |-> FALSE, escape_delay |-> 1, jupiter_program |-> jupiter]

PauseSettings == {Base, [Base EXCEPT !.paused = TRUE]}
Running       == {Base}

\* Another fee, a fee above the cap and an escape delay below the minimum.
AllSettings ==
  {Base, [Base EXCEPT !.protocol_fee_bps = 0], [Base EXCEPT !.protocol_fee_bps = 2],
   [Base EXCEPT !.escape_delay = 0]}

\* The state the deployment flow of the README ends in: programs configured,
\* the settler's vault counter created, the makers and the series listed.
ControllerDeployed ==
  /\ config = [admin |-> op, partial_pauser |-> Default,
               partially_paused |-> FALSE, fully_paused |-> FALSE]
  /\ vault = [v \in VaultKey |-> NoAccount]
  /\ expiry_price = [s \in Series |-> 0]
  /\ balance = [t \in Mint \cup Series |->
                 [a \in Account |->
                   IF t \in Mint /\ a \in Key THEN Endowment[t][a] ELSE 0]]
  /\ oracle_price = [f \in Fixing |-> NoAccount]
  /\ whitelisted = Series
  /\ fee_bearing = {}
  /\ now = 0
  /\ redeemed = [s \in Series |-> 0]
  /\ paid = [s \in Series |-> 0]
  /\ closed_by = [v \in VaultKey |-> "none"]

Deployed ==
  /\ ControllerDeployed
  /\ next_id = [k \in Key |-> IF k = Settler THEN 0 ELSE NoAccount]
  /\ settler_config = Base
  /\ maker_state = [m \in Wallet |->
       IF \E q \in Quotes : q.maker = m THEN [nonce |-> 0, whitelisted |-> TRUE]
       ELSE NoAccount]
  /\ quote_fill = [f \in FillKey |-> NoAccount]
  /\ mm_balance = [m \in Wallet |-> [s \in Series |-> NoAccount]]
  /\ vault_mm = [v \in VaultKey |-> NoAccount]
  /\ rent_reserve = RentReserve
  /\ sold = [q \in Quotes |-> 0]
  /\ premium_paid = [q \in Quotes |-> 0]
  /\ burned = [s \in Series |-> 0]

\* One step earlier: the controller is there, the settler is not.
Undeployed ==
  /\ ControllerDeployed
  /\ next_id = [k \in Key |-> NoAccount]
  /\ SettlerInit

UndeployedSpec == Undeployed /\ [][BatchNext]_all_vars

DeployedSpec == Deployed /\ [][BatchNext]_all_vars

DeployedFairSpec == DeployedSpec /\ EscapeFairness
=============================================================================
