---------------------------- MODULE BatchSettler ----------------------------
(***************************************************************************)
(* The batch settler program (programs/batch_settler/src/lib.rs) together  *)
(* with the controller it drives by CPI.  Users accept quotes of makers,   *)
(* which an Ed25519 instruction earlier in the transaction carries; an     *)
(* order opens, funds and writes a controller vault whose owner is the     *)
(* settler's PDA, keeps the oTokens in the settler's custody for the       *)
(* maker, and moves the premium from maker to user.                        *)
(*                                                                         *)
(* A quote is what such an instruction displays: the maker's key and the   *)
(* quote's fields at the offsets its header gives.  The program compares   *)
(* those bytes and nothing else of the header, so nothing here says that   *)
(* they are the bytes whose signature was verified, and every property is  *)
(* about displayed quotes.                                                 *)
(*                                                                         *)
(* The settler's PDA is the key Settler: it signs nothing but the CPIs of  *)
(* this program.  Every instruction is atomic together with its CPIs.      *)
(* Token accounts a wallet delegated to the settler are taken to have      *)
(* enough allowance; a missing one fails the instruction as a whole.       *)
(***************************************************************************)
EXTENDS Controller

CONSTANTS
  Settler,           \* the settler_config PDA
  Programs,          \* the PDAs among the keys, which sign only in CPIs
  DirectUsers,       \* wallets that also call the controller themselves
  Makers,            \* wallets the owner lists as makers
  Quotes,            \* the quotes that instructions display, at any time
  Routers,           \* swap programs the owner may configure
  Settings,          \* the configurations the owner moves between
  MaxNonce,          \* bound on a maker's nonce
  MinExecuteAmount,  \* 1_000_000 in the code
  PriceScale,        \* 10^8 in the code
  BpsDenominator,    \* 10_000 in the code
  MaxFeeBps,         \* 2_000 in the code
  MinEscapeDelay,    \* three days in the code
  RentReserve,       \* accounts the rent reserve can pay for at first
  RentWithdrawals    \* amounts the owner withdraws from it

Wallet  == Key \ Programs
Nonce   == 0..MaxNonce
QuoteId == {q.quote_id : q \in Quotes}

\* The seeds of a QuoteFill account: quotes of a maker with one nonce and id
\* share one account, whatever else they say.
FillKey   == Wallet \X Nonce \X QuoteId
FillOf(q) == <<q.maker, q.nonce, q.quote_id>>

SettlerConfig ==
  [owner : Wallet, operator : Wallet \cup {Default}, treasury : Wallet \cup {Default},
   protocol_fee_bps : 0..BpsDenominator, paused : BOOLEAN, escape_delay : Nat,
   jupiter_program : Routers \cup {Default}]

MakerState == [nonce : Nonce, whitelisted : BOOLEAN]

QuoteFill == [filled_amount : 0..MaxU64, cancelled : BOOLEAN]

VaultMM ==
  [maker : Wallet, otoken_mint : Series, remaining_amount : 0..MaxU64]

ASSUME SettlerAssumption ==
  /\ Settler \in Programs /\ Programs \subseteq Key
  /\ DirectUsers \subseteq Wallet /\ Makers \subseteq Wallet
  /\ MaxNonce \in Nat /\ MaxU64 >= MinExecuteAmount
  /\ MinExecuteAmount \in Nat \ {0} /\ PriceScale \in Nat \ {0}
  /\ BpsDenominator \in Nat \ {0}
  /\ MaxFeeBps \in 0..BpsDenominator
  /\ MinEscapeDelay \in Nat \ {0}
  /\ RentReserve \in Nat /\ RentWithdrawals \subseteq Nat \ {0}
  /\ Settings \subseteq SettlerConfig
  /\ IsFiniteSet(Quotes)
  /\ Quotes \subseteq
       [maker : Wallet, nonce : Nonce, quote_id : QuoteId, otoken_mint : Series,
        premium_mint : Mint, bid_price : 0..MaxU64, max_amount : 0..MaxU64,
        deadline : Time]

ASSUME SettlerAccountAssumption ==
  NoAccount \notin SettlerConfig \cup MakerState \cup QuoteFill \cup VaultMM

VARIABLES
  settler_config, \* SettlerConfig, or NoAccount
  maker_state,    \* [Wallet -> MakerState, or NoAccount]
  quote_fill,     \* [FillKey -> QuoteFill, or NoAccount]
  mm_balance,     \* [Wallet -> [Series -> MakerOTokenBalance.balance, or NoAccount]]
  vault_mm,       \* [VaultKey -> VaultMM, or NoAccount]
  rent_reserve,   \* rents left in the rent reserve PDA
  \* history, read by no action
  sold,           \* [Quotes -> oTokens written against the quote]
  premium_paid,   \* [Quotes -> premium its maker paid]
  burned          \* [Series -> custody burned by emergency_withdraw]

custody      == <<mm_balance, vault_mm>>
trading      == <<maker_state, quote_fill, rent_reserve, sold, premium_paid>>
settler_vars == <<settler_config, trading, custody, burned>>
all_vars     == <<vars, settler_vars>>

SettlerInit ==
  /\ settler_config = NoAccount
  /\ maker_state = [m \in Wallet |-> NoAccount]
  /\ quote_fill = [f \in FillKey |-> NoAccount]
  /\ mm_balance = [m \in Wallet |-> [s \in Series |-> NoAccount]]
  /\ vault_mm = [v \in VaultKey |-> NoAccount]
  /\ rent_reserve = RentReserve
  /\ sold = [q \in Quotes |-> 0]
  /\ premium_paid = [q \in Quotes |-> 0]
  /\ burned = [s \in Series |-> 0]

BatchInit == Init /\ SettlerInit

-----------------------------------------------------------------------------
(* Configuration.                                                          *)

SettlerReady == settler_config # NoAccount

IsOwner(signer) == SettlerReady /\ signer = settler_config.owner

IsOperator(signer) == SettlerReady /\ signer = settler_config.operator

ValidConfig(c) ==
  /\ c.operator # Default /\ c.treasury # Default
  /\ c.protocol_fee_bps <= MaxFeeBps
  /\ c.escape_delay >= MinEscapeDelay

InitializeSettler(payer, c) ==
  /\ ~SettlerReady
  /\ ValidConfig(c)
  /\ c.owner = payer
  /\ ~c.paused
  /\ settler_config' = c
  /\ UNCHANGED <<vars, trading, custody, burned>>

InitVaultCounter(owner) ==
  /\ IsOwner(owner)
  /\ InitializeCounter(Settler)
  /\ UNCHANGED settler_vars

\* The setters of the owner, bounded by Settings.
SetConfig(owner, c) ==
  /\ IsOwner(owner)
  /\ settler_config' = c
  /\ UNCHANGED <<vars, trading, custody, burned>>

SetTreasury(owner, c) ==
  /\ SetConfig(owner, c)
  /\ c.treasury # Default
  /\ c = [settler_config EXCEPT !.treasury = c.treasury]

\* Mutant of SetProtocolFee: the cap is not checked.
SetProtocolFeeUncapped(owner, c) ==
  /\ SetConfig(owner, c)
  /\ c = [settler_config EXCEPT !.protocol_fee_bps = c.protocol_fee_bps]

SetProtocolFee(owner, c) ==
  /\ SetConfig(owner, c)
  /\ c.protocol_fee_bps <= MaxFeeBps
  /\ c = [settler_config EXCEPT !.protocol_fee_bps = c.protocol_fee_bps]

SetOperator(owner, c) ==
  /\ SetConfig(owner, c)
  /\ c.operator # Default
  /\ c = [settler_config EXCEPT !.operator = c.operator]

Pause(owner, c) ==
  /\ SetConfig(owner, c)
  /\ c = [settler_config EXCEPT !.paused = c.paused]

SetEscapeDelay(owner, c) ==
  /\ SetConfig(owner, c)
  /\ c.escape_delay >= MinEscapeDelay
  /\ c = [settler_config EXCEPT !.escape_delay = c.escape_delay]

SetJupiterProgram(owner, c) ==
  /\ SetConfig(owner, c)
  /\ c.jupiter_program # Default
  /\ c = [settler_config EXCEPT !.jupiter_program = c.jupiter_program]

WithdrawRentReserve(owner, rents) ==
  /\ IsOwner(owner)
  /\ rent_reserve >= rents
  /\ rent_reserve' = rent_reserve - rents
  /\ UNCHANGED <<vars, settler_config, maker_state, quote_fill, sold,
                 premium_paid, custody, burned>>

-----------------------------------------------------------------------------
(* Makers and their quotes.                                                *)

\* A maker that was registered before keeps its nonce.
WhitelistMaker(owner, m, whitelisted_flag) ==
  /\ IsOwner(owner)
  /\ maker_state' = [maker_state EXCEPT ![m] =
       IF @ = NoAccount THEN [nonce |-> 0, whitelisted |-> whitelisted_flag]
       ELSE [@ EXCEPT !.whitelisted = whitelisted_flag]]
  /\ UNCHANGED <<vars, settler_config, quote_fill, rent_reserve, sold,
                 premium_paid, custody, burned>>

IncrementMakerNonce(m) ==
  /\ maker_state[m] # NoAccount
  /\ maker_state[m].nonce + 1 <= MaxNonce
  /\ maker_state' = [maker_state EXCEPT ![m].nonce = @ + 1]
  /\ UNCHANGED <<vars, settler_config, quote_fill, rent_reserve, sold,
                 premium_paid, custody, burned>>

FilledSoFar(f) == IF quote_fill[f] = NoAccount THEN 0 ELSE quote_fill[f].filled_amount

Cancelled(f) == quote_fill[f] # NoAccount /\ quote_fill[f].cancelled

\* The fill account is addressed with the maker's current nonce, and created
\* if no order has done so.
CancelQuote(m, id) ==
  /\ maker_state[m] # NoAccount
  /\ LET f == <<m, maker_state[m].nonce, id>>
     IN /\ ~Cancelled(f)
        /\ quote_fill' = [quote_fill EXCEPT ![f] =
                           [filled_amount |-> FilledSoFar(f), cancelled |-> TRUE]]
  /\ UNCHANGED <<vars, settler_config, maker_state, rent_reserve, sold,
                 premium_paid, custody, burned>>

\* validate_maker and the deadline.  verify_ed25519_signature asks for an
\* instruction that displays the quote, which every member of Quotes has.
Accepts(q) ==
  /\ maker_state[q.maker] # NoAccount
  /\ maker_state[q.maker].whitelisted
  /\ maker_state[q.maker].nonce = q.nonce
  /\ now <= q.deadline
  /\ q.bid_price > 0

\* Mutant of CanFill: a cancelled quote still fills.
CanFillCancelled(q, amount) == FilledSoFar(FillOf(q)) + amount <= q.max_amount

\* update_fill
CanFill(q, amount) ==
  /\ ~Cancelled(FillOf(q))
  /\ FilledSoFar(FillOf(q)) + amount <= q.max_amount

Filled(q, amount) ==
  [filled_amount |-> FilledSoFar(FillOf(q)) + amount, cancelled |-> FALSE]

\* Mutant of Premium: it is rounded up.
PremiumRoundedUp(q, amount) ==
  (amount * q.bid_price + PriceScale - 1) \div PriceScale

\* compute_premium_split
Premium(q, amount) == (amount * q.bid_price) \div PriceScale

ProtocolFee(premium) ==
  (premium * settler_config.protocol_fee_bps) \div BpsDenominator

PremiumComputable(premium) ==
  /\ premium <= MaxU64
  /\ premium * settler_config.protocol_fee_bps <= MaxU64

\* The accounts an order makes the rent reserve pay for: the vault and its
\* VaultMM always, the fill and the maker's balance when they are new.
RentsOf(q) ==
  2 + (IF quote_fill[FillOf(q)] = NoAccount THEN 1 ELSE 0)
    + (IF mm_balance[q.maker][q.otoken_mint] = NoAccount THEN 1 ELSE 0)

\* Ledgers, a transfer at a time; a transfer of nothing is not made.
CanMove(ledgers, t, from, amount) ==
  amount > 0 => CanTransfer(ledgers[t], from, amount)

Move(ledgers, t, from, to, amount) ==
  IF amount = 0 THEN ledgers
  ELSE [ledgers EXCEPT ![t] = TransferredLess(@, from, to, amount, Fee(t))]

Custodied(m, s) == IF mm_balance[m][s] = NoAccount THEN 0 ELSE mm_balance[m][s]

\* execute_order: one transaction that spends the quote, opens, funds and
\* writes a vault for the user by three CPIs, books the custody and pays.
ExecuteOrder(user, q, pool, amount, collateral) ==
  LET s       == q.otoken_mint
      m       == Terms[s].collateral_mint
      v       == <<Settler, next_id[Settler]>>
      opened  == OpenedVault(m, user)
      funded  == WithCollateral(opened, collateral)
      premium == Premium(q, amount)
      fee     == ProtocolFee(premium)
      after_deposit == Move(balance, m, user, pool, collateral)
      after_mint    == [after_deposit EXCEPT ![s] = Minted(@, Settler, amount)]
      after_net     == Move(after_mint, q.premium_mint, q.maker, user, premium - fee)
      after_fee     == Move(after_net, q.premium_mint, q.maker,
                            settler_config.treasury, fee)
  IN /\ SettlerReady
     /\ ~settler_config.paused
     /\ amount >= MinExecuteAmount
     /\ Accepts(q)
     /\ CanFill(q, amount)
     /\ PremiumComputable(premium)
     /\ rent_reserve >= RentsOf(q)
     /\ CanOpen(Settler, user)
     /\ ~Exists(v)
     /\ vault_mm[v] = NoAccount
     /\ CanDeposit(opened, pool, collateral)
     /\ CanTransfer(balance[m], user, collateral)
     /\ CanMint(funded, s, amount)
     /\ SupplyFits(s, amount)
     /\ Custodied(q.maker, s) + amount <= MaxU64
     /\ CanMove(after_mint, q.premium_mint, q.maker, premium - fee)
     /\ CanMove(after_net, q.premium_mint, q.maker, fee)
     /\ quote_fill' = [quote_fill EXCEPT ![FillOf(q)] = Filled(q, amount)]
     /\ rent_reserve' = rent_reserve - RentsOf(q)
     /\ next_id' = [next_id EXCEPT ![Settler] = @ + 1]
     /\ vault' = [vault EXCEPT ![v] = WithShort(funded, s, amount)]
     /\ balance' = after_fee
     /\ mm_balance' = [mm_balance EXCEPT ![q.maker][s] =
                        Custodied(q.maker, s) + amount]
     /\ vault_mm' = [vault_mm EXCEPT ![v] =
          [maker |-> q.maker, otoken_mint |-> s, remaining_amount |-> amount]]
     /\ sold' = [sold EXCEPT ![q] = @ + amount]
     /\ premium_paid' = [premium_paid EXCEPT ![q] = @ + premium]
     /\ UNCHANGED <<config, expiry_price, outside, history, settler_config,
                    maker_state, burned>>

-----------------------------------------------------------------------------
(* Settlement, redemption of the custody, and the emergency exit.          *)

\* settle_vault: the operator signs next to the controller's admin.
SettleVaultForMaker(operator, admin, v, pool) ==
  /\ IsOperator(operator)
  /\ SettleVault(admin, v, pool)
  /\ UNCHANGED settler_vars

\* What redeem_for_mm and mm_self_redeem share: take the amount off the
\* maker's balance, redeem custodied oTokens, and forward to the maker
\* exactly what the settler's collateral account gained.
CanRedeemCustody(m, s, pool, amount) ==
  /\ SettlerReady
  /\ mm_balance[m][s] # NoAccount
  /\ mm_balance[m][s] >= amount
  /\ CanRedeem(Settler, s, pool, amount)

\* Mutant of Gained: the settler's whole balance is forwarded.
WholeBalance(ledgers, c) == ledgers[c][Settler]

\* The balance is read before and after the redemption.
Gained(ledgers, c) == ledgers[c][Settler] - balance[c][Settler]

RedeemCustody(m, s, pool, amount) ==
  LET c        == Terms[s].collateral_mint
      payout   == PayoutOf(s, amount)
      burnt    == [balance EXCEPT ![s] = Burned(@, Settler, amount)]
      received == Move(burnt, c, pool, Settler, payout)
  IN /\ CanRedeemCustody(m, s, pool, amount)
     /\ mm_balance' = [mm_balance EXCEPT ![m][s] = @ - amount]
     /\ balance' = Move(received, c, Settler, m, Gained(received, c))
     /\ redeemed' = [redeemed EXCEPT ![s] = @ + amount]
     /\ paid' = [paid EXCEPT ![s] = @ + payout]
     /\ UNCHANGED <<accounts, outside, closed_by, settler_config, trading,
                    vault_mm, burned>>

RedeemForMM(operator, m, s, pool, amount) ==
  /\ IsOperator(operator)
  /\ ~settler_config.paused
  /\ RedeemCustody(m, s, pool, amount)

\* Mutant of EscapeReady: pausing the settler closes the escape.
EscapeReadyUnpaused(m, s) ==
  /\ SettlerReady
  /\ ~settler_config.paused
  /\ now >= Terms[s].expiry + settler_config.escape_delay
  /\ maker_state[m] # NoAccount
  /\ maker_state[m].whitelisted

EscapeReady(m, s) ==
  /\ SettlerReady
  /\ settler_config.escape_delay > 0
  /\ now >= Terms[s].expiry + settler_config.escape_delay
  /\ maker_state[m] # NoAccount
  /\ maker_state[m].whitelisted

MMSelfRedeem(m, s, pool, amount) ==
  /\ EscapeReady(m, s)
  /\ RedeemCustody(m, s, pool, amount)

\* Mutants of EmergencyBurn: nothing is burned or cleared; the vault's amount
\* is taken for what the maker still has.
NoEmergencyBurn(v) == 0

UnclampedBurn(v) == vault_mm[v].remaining_amount

\* emergency_withdraw: burn what custody the maker still has, up to the
\* vault's remaining amount, and take the controller's emergency exit.
EmergencyBurn(v) ==
  LET mm   == vault_mm[v]
      left == mm_balance[mm.maker][mm.otoken_mint]
  IN IF mm.remaining_amount < left THEN mm.remaining_amount ELSE left

EmergencyWithdraw(beneficiary, v, pool) ==
  LET m    == vault_mm[v].maker
      s    == vault_mm[v].otoken_mint
      c    == vault[v].collateral_mint
      burn == EmergencyBurn(v)
      burnt == [balance EXCEPT ![s] = Burned(@, Settler, burn)]
  IN /\ SettlerReady
     /\ Exists(v)
     /\ v[1] = Settler
     /\ vault[v].beneficiary = beneficiary
     /\ vault_mm[v] # NoAccount
     /\ CanBurn(balance[s], Settler, burn)
     /\ CanEmergencyWithdraw(v, pool)
     /\ mm_balance' = [mm_balance EXCEPT ![m][s] = @ - burn]
     /\ vault_mm' = [vault_mm EXCEPT ![v].remaining_amount = 0]
     /\ vault' = [vault EXCEPT ![v].settled = TRUE]
     /\ balance' = Move(burnt, c, pool, beneficiary, vault[v].collateral_amount)
     /\ closed_by' = [closed_by EXCEPT ![v] = "emergency_withdraw_vault"]
     /\ burned' = [burned EXCEPT ![s] = @ + burn]
     /\ UNCHANGED <<config, next_id, expiry_price, outside, redeemed, paid,
                    settler_config, trading>>

-----------------------------------------------------------------------------
OwnerSettings(k) ==
  \/ \E c \in Settings :
       \/ InitializeSettler(k, c)
       \/ SetTreasury(k, c) \/ SetProtocolFee(k, c) \/ SetOperator(k, c)
       \/ Pause(k, c) \/ SetEscapeDelay(k, c) \/ SetJupiterProgram(k, c)
  \/ InitVaultCounter(k)
  \/ \E rents \in RentWithdrawals : WithdrawRentReserve(k, rents)
  \/ \E m \in Makers, flag \in BOOLEAN : WhitelistMaker(k, m, flag)

MakerNext(m) ==
  \/ IncrementMakerNonce(m)
  \/ \E id \in QuoteId : CancelQuote(m, id)
  \/ \E s \in {r \in Series : EscapeReady(m, r)}, p \in PoolAccount, n \in 1..MaxU64 :
       MMSelfRedeem(m, s, p, n)

UserNext(u) ==
  \/ \E q \in {o \in Quotes : Accepts(o)}, p \in PoolAccount, n, c \in 1..MaxU64 :
       ExecuteOrder(u, q, p, n, c)
  \/ \E v \in {w \in VaultKey : Exists(w)}, p \in PoolAccount :
       EmergencyWithdraw(u, v, p)

OperatorNext(k) ==
  /\ IsOperator(k)
  /\ \/ \E admin \in Wallet, v \in {w \in VaultKey : Exists(w)}, p \in PoolAccount :
          SettleVaultForMaker(k, admin, v, p)
     \/ \E m \in Wallet, s \in Series, p \in PoolAccount, n \in 1..MaxU64 :
          RedeemForMM(k, m, s, p, n)

SettlerNext ==
  \E k \in Wallet : OwnerSettings(k) \/ MakerNext(k) \/ UserNext(k) \/ OperatorNext(k)

\* The controller and the chain go on around the settler.
ControllerNext ==
  \/ \E k \in Wallet : Initialize(k)
  \/ AdminNext(Wallet)
  \/ OwnerNext(DirectUsers)
  \/ MintNext(DirectUsers)
  \/ HolderNext(DirectUsers)
  \/ SeriesNext
  \/ ChainNext

BatchNext == SettlerNext \/ (ControllerNext /\ UNCHANGED settler_vars)

BatchSpec == BatchInit /\ [][BatchNext]_all_vars

\* The operator may be offline for good: prices are still finalized and
\* copied after expiry, and makers use their escape.
EscapeFairness ==
  /\ WF_all_vars(Tick /\ UNCHANGED settler_vars)
  /\ \A f \in Fixing :
       WF_all_vars(/\ \E price \in Prices : FinalizeOraclePrice(f, price)
                   /\ UNCHANGED settler_vars)
  /\ \A s \in Series :
       WF_all_vars((\E k \in Wallet : SetExpiryPrice(k, s)) /\ UNCHANGED settler_vars)
  /\ \A m \in Wallet :
       WF_all_vars(\E s \in Series, p \in PoolAccount, n \in 1..MaxU64 :
                     MMSelfRedeem(m, s, p, n))

\* The settlement jobs sign as the controller's admin.
SettlementJobs ==
  \A id \in VaultId :
    WF_all_vars(/\ \E k \in Wallet, p \in PoolAccount : SettleVault(k, <<Settler, id>>, p)
                /\ UNCHANGED settler_vars)

-----------------------------------------------------------------------------
(* Invariants.                                                             *)

\* Every account of the settler keeps its type and width: custody, vault
\* remainders and the rent reserve never go below zero, and no sequence of
\* setters takes more than the fee cap out of a premium or shortens the
\* escape below its minimum.
SettlerTypeOK ==
  /\ settler_config \in {c \in SettlerConfig : ValidConfig(c)} \cup {NoAccount}
  /\ maker_state \in [Wallet -> MakerState \cup {NoAccount}]
  /\ quote_fill \in [FillKey -> QuoteFill \cup {NoAccount}]
  /\ mm_balance \in [Wallet -> [Series -> (0..MaxU64) \cup {NoAccount}]]
  /\ vault_mm \in [VaultKey -> VaultMM \cup {NoAccount}]
  /\ rent_reserve \in Nat
  /\ sold \in [Quotes -> Nat]
  /\ premium_paid \in [Quotes -> Nat]
  /\ burned \in [Series -> Nat]

CustodyOf(s) == Total([m \in Wallet |-> Custodied(m, s)], Wallet)

\* The settler's oToken account holds what the ledger owes the makers: a
\* maker can always redeem its whole balance, whatever other makers of the
\* same series redeemed and whatever emergency exits burned.
CustodyCovers == \A s \in Series : balance[s][Settler] >= CustodyOf(s)

VaultsFor(m, s) ==
  {v \in VaultKey : /\ vault_mm[v] # NoAccount
                    /\ vault_mm[v].maker = m
                    /\ vault_mm[v].otoken_mint = s}

\* A maker's balance never exceeds what its vaults still remember.
\* Redemptions take from the balance only, so the vaults drift ahead of it,
\* but never the other way: the emergency exits of all vaults of a maker can
\* clear its whole balance.
BalanceWithinVaults ==
  \A m \in Wallet, s \in Series :
    Custodied(m, s) <=
      Total([v \in VaultKey |-> vault_mm[v].remaining_amount], VaultsFor(m, s))

\* Of the quotes displayed with a maker's key, whoever signed them: partial
\* fills never cost the maker more than the quote's bid for what they wrote
\* together, never exceed any quote they were made under, and quotes sharing
\* a nonce and id share one fill.
QuotesHonoured ==
  /\ \A q \in Quotes :
       /\ sold[q] <= q.max_amount
       /\ premium_paid[q] * PriceScale <= sold[q] * q.bid_price
  /\ \A f \in FillKey :
       FilledSoFar(f) = Total(sold, {q \in Quotes : FillOf(q) = f})

\* oTokens in circulation, redeemed or burned by exits are what the vaults
\* wrote.
SupplyAccountedWithBurns ==
  \A s \in Series :
    Supply(s) + redeemed[s] + burned[s] =
      Total([v \in VaultKey |-> vault[v].short_amount],
            {v \in VaultKey : Wrote(v, s)})

\* While nobody redeemed a series, emergency exits of orders leave exactly the
\* oTokens of the vaults that stay, each backed by its own vault.
ExitBurnsShort ==
  \A s \in Series : redeemed[s] = 0 =>
    Supply(s) =
      Total([v \in VaultKey |-> vault[v].short_amount],
            {v \in VaultKey :
               /\ Wrote(v, s)
               /\ v[1] = Settler => closed_by[v] # "emergency_withdraw_vault"})

\* "Maker self-redemption is available after expiry plus escape delay": once
\* the series is priced, whatever the operator did or left undone, paused or
\* not, and whatever was settled or redeemed before, the pool can pay a maker
\* for every part of its custody, if no vault took the emergency exit and
\* amounts collateralize without rounding.
EscapeAvailable ==
  \A m \in Wallet, s \in Series :
    EscapeReady(m, s) /\ Priced(s) /\ FullyUnpaused /\ NoEmergencyExit =>
      \A n \in 1..Custodied(m, s) :
        \E p \in PoolAccount : CanRedeemCustody(m, s, p, n)

\* "Emergency withdrawal must not block the beneficiary in that state", when
\* the vault's custody drifted downward from redemptions.
EmergencyNotBlocked ==
  \A v \in VaultKey :
    /\ Initialized /\ config.fully_paused
    /\ Open(v) /\ vault_mm[v] # NoAccount
    => \E p \in PoolAccount : CanEmergencyWithdraw(v, p)

-----------------------------------------------------------------------------
(* Action properties and refinement.                                       *)

\* A maker gives up custody only to be paid its payout, or to an emergency
\* exit under a full pause; the pool pays that payout and nothing more.
MakersPaid ==
  [][\A m \in Wallet, s \in Series :
       Custodied(m, s)' < Custodied(m, s) /\ ~config.fully_paused =>
         LET c      == Terms[s].collateral_mint
             payout == PayoutOf(s, Custodied(m, s) - Custodied(m, s)')
         IN /\ PoolTotal(c) - PoolTotal(c)' = payout
            /\ balance'[c][m] - balance[c][m] \in (payout - 2 * Fee(c))..payout]_all_vars

\* Collateral and premium pass through the settler's instructions without
\* leaving anything in its own account or taking from what lies there: only
\* payments that others make to the PDA, in instructions that are not the
\* settler's, change what the account holds, and they add to it.
SettlerKeepsNothing ==
  [][\A m \in Mint :
       \/ balance'[m][Settler] = balance[m][Settler]
       \/ /\ balance'[m][Settler] > balance[m][Settler]
          /\ UNCHANGED settler_vars]_all_vars

\* "Available if the operator is offline": a maker with custody gets rid of
\* all of it, though the operator never redeems and the settler is paused,
\* provided that full pauses and delistings of the maker end for good, the
\* clock reaches the escape time within its bound, no vault took the
\* emergency exit, and amounts collateralize without rounding.
EscapeWorks ==
  \A m \in Wallet, s \in Series :
    /\ <>[]FullyUnpaused
    /\ <>[](maker_state[m] # NoAccount /\ maker_state[m].whitelisted)
    /\ <>[](Terms[s].expiry + settler_config.escape_delay <= MaxTime)
    /\ []NoEmergencyExit
    => (Custodied(m, s) > 0 ~> Custodied(m, s) = 0)

\* A user who wrote options through the settler is eventually settled, however
\* the pool was drawn on by the operator's and the makers' redemptions in the
\* meantime, though the settler may be paused and its operator absent, whatever
\* partial pauses come and go and however often the controller was fully paused
\* before, if the settlement jobs run, full pauses end for good and no vault
\* took the emergency exit.  It needs amounts that collateralize without
\* rounding.
UsersSettled ==
  /\ SettlementJobs
  /\ <>[](Initialized => ~config.fully_paused)
  /\ []NoEmergencyExit
  => \A id \in VaultId :
       Short(<<Settler, id>>) ~> (Exists(<<Settler, id>>) /\ vault[<<Settler, id>>].settled)

\* The most that a displayed quote with this nonce and id offers.
LimitOf(f) ==
  LET offered == {q.max_amount : q \in {p \in Quotes : FillOf(p) = f}}
  IN CHOOSE n \in offered \cup {0} : \A o \in offered : o <= n

Retired(f) ==
  \/ Cancelled(f)
  \/ maker_state[f[1]] # NoAccount /\ maker_state[f[1]].nonce > f[2]

\* The settler implements the book of offers: cancelling a quote or bumping
\* the nonce stops every later fill under that nonce and id, whatever quotes
\* are displayed, in any interleaving with orders.
Book == INSTANCE QuoteBook WITH
  Offer <- FillKey,
  Limit <- [f \in FillKey |-> LimitOf(f)],
  sold <- [f \in FillKey |-> FilledSoFar(f)],
  retired <- {f \in FillKey : Retired(f)}
ImplementsQuoteBook == Book!Spec
=============================================================================
