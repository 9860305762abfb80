----------------------------- MODULE Controller -----------------------------
(***************************************************************************)
(* The controller program (programs/controller/src/lib.rs): collateral     *)
(* vaults, oToken minting, settlement at expiry, redemption, pausing and   *)
(* the emergency exit.                                                     *)
(*                                                                         *)
(* One action is one successful instruction: a Solana transaction runs     *)
(* alone and a failed require!, account constraint, checked operation or   *)
(* CPI aborts it without effect, so an instruction is atomic and its       *)
(* failures are states in which its action is disabled.  Interleaving is   *)
(* the arbitrary order in which keys submit instructions.                  *)
(*                                                                         *)
(* A program-derived account that was not created yet is NoAccount; the    *)
(* `init` constraint is the guard that it still is.                        *)
(***************************************************************************)
EXTENDS OptionMath, TokenLedger, Totals

CONSTANTS
  Key,          \* wallets: vault owners, beneficiaries, redeemers, the admin
  Default,      \* Pubkey::default(), no wallet
  NoAccount,    \* an account address holding no account
  Mint,         \* collateral mints
  Series,       \* oToken mints
  Terms,        \* [Series -> terms], fixed by the factory for each mint
  PoolAccount,  \* token accounts whose owner is a pool_vault_auth PDA
  PoolMint,     \* [PoolAccount -> Mint]
  FeeCapable,   \* mints whose authority may turn a transfer fee on
  Endowment,    \* [Mint -> [Key -> Nat]], collateral in the wallets at first
  Transferable, \* tokens whose holders move them with the token program
  Pausers,      \* keys the admin appoints as partial pauser
  Prices,       \* the prices the oracle may finalize
  MaxVaultId,   \* bound on next_id (2^64 - 1 in the code)
  MaxTime       \* bound on the clock

Time     == 0..MaxTime
VaultId  == 0..(MaxVaultId - 1)
VaultKey == Key \X VaultId
Account  == Key \cup PoolAccount

ASSUME ControllerAssumption ==
  /\ IsFiniteSet(Key) /\ IsFiniteSet(PoolAccount) /\ IsFiniteSet(Series)
  /\ Key \cap PoolAccount = {} /\ Mint \cap Series = {}
  /\ Default \notin Key /\ Default \notin Series
  /\ NoAccount \notin Nat
  /\ MaxVaultId \in Nat /\ MaxTime \in Nat
  /\ PoolMint \in [PoolAccount -> Mint]
  /\ FeeCapable \subseteq Mint /\ Transferable \subseteq Mint \cup Series
  /\ Endowment \in [Mint -> [Key -> Nat]]
  /\ Prices \subseteq 1..MaxU64 /\ Pausers \subseteq Key

ASSUME TermsAssumption ==
  Terms \in [Series -> [underlying : {Terms[s].underlying : s \in Series},
                        strike_asset : {Terms[s].strike_asset : s \in Series},
                        collateral_mint : Mint, strike_price : 0..MaxU64,
                        expiry : Time, is_put : BOOLEAN,
                        collateral_decimals : CollateralDecimals]]

\* The seeds of the oracle's ExpiryPrice account: series of one underlying
\* and expiry share one finalized price.
FixingOf(s) == <<Terms[s].underlying, Terms[s].expiry>>
Fixing      == {FixingOf(s) : s \in Series}

VARIABLES
  config,        \* ControllerConfig, or NoAccount before initialize
  next_id,       \* [Key -> next_id of the VaultCounter, or NoAccount]
  vault,         \* [VaultKey -> Vault, or NoAccount]
  expiry_price,  \* [Series -> expiry_price of the OTokenInfo, or NoAccount]
  balance,       \* [Mint or Series -> its ledger], the SPL token accounts
  oracle_price,  \* [Fixing -> price of the oracle's ExpiryPrice, or NoAccount]
  whitelisted,   \* series with an active WhitelistedOToken entry
  fee_bearing,   \* mints that charge a transfer fee
  now,           \* Clock::unix_timestamp
  \* history, read by no action
  redeemed,      \* [Series -> oTokens burned by redeem]
  paid,          \* [Series -> collateral paid out by redeem]
  closed_by      \* [VaultKey -> the instruction that set settled, or "none"]

accounts == <<config, next_id, vault, expiry_price>>
outside  == <<oracle_price, whitelisted, fee_bearing, now>>
history  == <<redeemed, paid, closed_by>>
vars     == <<accounts, balance, outside, history>>

Config ==
  [admin : Key, partial_pauser : Key \cup {Default},
   partially_paused : BOOLEAN, fully_paused : BOOLEAN]

Vault ==
  [collateral_mint : Mint, collateral_amount : 0..MaxU64,
   otoken_mint : Series \cup {Default}, short_amount : 0..MaxU64,
   settled : BOOLEAN, beneficiary : Key]

ASSUME AccountAssumption ==
  /\ NoAccount \notin Vault
  /\ NoAccount \notin Config

Init ==
  /\ config = NoAccount
  /\ next_id = [k \in Key |-> NoAccount]
  /\ vault = [v \in VaultKey |-> NoAccount]
  /\ expiry_price = [s \in Series |-> NoAccount]
  /\ balance = [t \in Mint \cup Series |->
                 [a \in Account |->
                   IF t \in Mint /\ a \in Key THEN Endowment[t][a] ELSE 0]]
  /\ oracle_price = [f \in Fixing |-> NoAccount]
  /\ whitelisted = {}
  /\ fee_bearing = {}
  /\ now = 0
  /\ redeemed = [s \in Series |-> 0]
  /\ paid = [s \in Series |-> 0]
  /\ closed_by = [v \in VaultKey |-> "none"]

-----------------------------------------------------------------------------
(* Configuration, pausing and counters.                                    *)

Initialized == config # NoAccount

FullyUnpaused == Initialized /\ ~config.fully_paused

Unpaused == FullyUnpaused /\ ~config.partially_paused

IsAdmin(signer) == Initialized /\ signer = config.admin

MayPartiallyPause(caller) ==
  Initialized /\ caller \in {config.admin, config.partial_pauser}

Initialize(admin) ==
  /\ config = NoAccount
  /\ admin # Default
  /\ config' = [admin |-> admin, partial_pauser |-> Default,
                partially_paused |-> FALSE, fully_paused |-> FALSE]
  /\ UNCHANGED <<next_id, vault, expiry_price, balance, outside, history>>

SetPartialPauser(admin, pauser) ==
  /\ IsAdmin(admin)
  /\ pauser # Default
  /\ config' = [config EXCEPT !.partial_pauser = pauser]
  /\ UNCHANGED <<next_id, vault, expiry_price, balance, outside, history>>

SetPartiallyPaused(caller, paused) ==
  /\ MayPartiallyPause(caller)
  /\ config' = [config EXCEPT !.partially_paused = paused]
  /\ UNCHANGED <<next_id, vault, expiry_price, balance, outside, history>>

SetFullyPaused(admin, paused) ==
  /\ IsAdmin(admin)
  /\ config' = [config EXCEPT !.fully_paused = paused]
  /\ UNCHANGED <<next_id, vault, expiry_price, balance, outside, history>>

InitializeCounter(owner) ==
  /\ next_id[owner] = NoAccount
  /\ next_id' = [next_id EXCEPT ![owner] = 0]
  /\ UNCHANGED <<config, vault, expiry_price, balance, outside, history>>

-----------------------------------------------------------------------------
(* Vault records: what each instruction requires of the vault it is given  *)
(* and what it makes of it.  The batch settler reaches these by CPI.       *)

\* Mutant of OpenedVault: the beneficiary is not assigned.
OpenedVaultUnassigned(collateral_mint, beneficiary) ==
  [collateral_mint |-> collateral_mint, collateral_amount |-> 0,
   otoken_mint |-> Default, short_amount |-> 0,
   settled |-> FALSE, beneficiary |-> Default]

OpenedVault(collateral_mint, beneficiary) ==
  [collateral_mint |-> collateral_mint, collateral_amount |-> 0,
   otoken_mint |-> Default, short_amount |-> 0,
   settled |-> FALSE, beneficiary |-> beneficiary]

CanOpen(owner, beneficiary) ==
  /\ Unpaused
  /\ beneficiary # Default
  /\ next_id[owner] # NoAccount
  /\ next_id[owner] + 1 <= MaxVaultId

\* A transfer fee comes off what the receiver is credited with.
Fee(m) == IF m \in fee_bearing THEN 1 ELSE 0

DepositFits(v, pool, amount) ==
  /\ Unpaused
  /\ amount > 0
  /\ PoolMint[pool] = v.collateral_mint
  /\ v.collateral_amount + amount <= MaxU64

\* Mutants of CanDeposit: a closed vault is refilled; the amount is credited
\* to the vault whatever the pool received.
CanDepositIntoClosed(v, pool, amount) ==
  DepositFits(v, pool, amount) /\ Fee(v.collateral_mint) = 0

CanDepositNominal(v, pool, amount) == DepositFits(v, pool, amount) /\ ~v.settled

\* The pool's balance is read before and after the transfer: a mint whose fee
\* makes it grow by less than the amount is refused.
CanDeposit(v, pool, amount) ==
  /\ DepositFits(v, pool, amount)
  /\ ~v.settled
  /\ Fee(v.collateral_mint) = 0

WithCollateral(v, amount) == [v EXCEPT !.collateral_amount = @ + amount]

MintFits(v, s, amount) ==
  /\ Unpaused
  /\ amount > 0
  /\ expiry_price[s] # NoAccount
  /\ Terms[s].collateral_mint = v.collateral_mint
  /\ ~v.settled
  /\ v.otoken_mint \in {Default, s}
  /\ v.short_amount + amount <= MaxU64

\* The collateral must cover the whole short, not only what is added to it.
Covers(v, s, short) ==
  /\ CollateralComputable(Terms[s], short)
  /\ v.collateral_amount >= RequiredCollateral(Terms[s], short)

\* Mutants of CanMint: only the new amount is covered; a series is written
\* after its expiry.
CanMintIncrement(v, s, amount) ==
  MintFits(v, s, amount) /\ now < Terms[s].expiry /\ Covers(v, s, amount)

CanMintLate(v, s, amount) ==
  MintFits(v, s, amount) /\ Covers(v, s, v.short_amount + amount)

CanMint(v, s, amount) ==
  /\ MintFits(v, s, amount)
  /\ now < Terms[s].expiry
  /\ Covers(v, s, v.short_amount + amount)

\* Mutants of WithShort: a second mint replaces the short of the first; the
\* short is not recorded.
WithShortReplaced(v, s, amount) ==
  [v EXCEPT !.otoken_mint = s, !.short_amount = amount]

WithShortUnrecorded(v, s, amount) == [v EXCEPT !.otoken_mint = s]

WithShort(v, s, amount) ==
  [v EXCEPT !.otoken_mint = s, !.short_amount = @ + amount]

\* The token program refuses to mint past a u64 supply.
Supply(s) == Total(balance[s], Account)

SupplyFits(s, amount) == Supply(s) + amount <= MaxU64

Exists(v) == vault[v] # NoAccount

OpenVault(owner, collateral_mint, beneficiary) ==
  /\ CanOpen(owner, beneficiary)
  /\ ~Exists(<<owner, next_id[owner]>>)
  /\ vault' = [vault EXCEPT ![<<owner, next_id[owner]>>] =
                 OpenedVault(collateral_mint, beneficiary)]
  /\ next_id' = [next_id EXCEPT ![owner] = @ + 1]
  /\ UNCHANGED <<config, expiry_price, balance, outside, history>>

DepositCollateral(owner, id, pool, amount) ==
  LET v == <<owner, id>> 
      m == vault[v].collateral_mint
  IN /\ Exists(v)
     /\ CanDeposit(vault[v], pool, amount)
     /\ CanTransfer(balance[m], owner, amount)
     /\ balance' = [balance EXCEPT ![m] =
                      TransferredLess(@, owner, pool, amount, Fee(m))]
     /\ vault' = [vault EXCEPT ![v] = WithCollateral(@, amount)]
     /\ UNCHANGED <<config, next_id, expiry_price, outside, history>>

MintOtoken(owner, id, s, destination, amount) ==
  LET v == <<owner, id>> 
  IN /\ Exists(v)
     /\ CanMint(vault[v], s, amount)
     /\ SupplyFits(s, amount)
     /\ balance' = [balance EXCEPT ![s] = Minted(@, destination, amount)]
     /\ vault' = [vault EXCEPT ![v] = WithShort(@, s, amount)]
     /\ UNCHANGED <<config, next_id, expiry_price, outside, history>>

-----------------------------------------------------------------------------
(* Series metadata, settlement and redemption.                             *)

\* An OTokenInfo is written once, from the factory's OToken account, for a
\* mint with an active whitelist entry.
CreateOTokenInfo(s) ==
  /\ Initialized
  /\ s \in whitelisted
  /\ expiry_price[s] = NoAccount
  /\ Terms[s].strike_price > 0
  /\ DecimalsSupported(Terms[s])
  /\ expiry_price' = [expiry_price EXCEPT ![s] = 0]
  /\ UNCHANGED <<config, next_id, vault, balance, outside, history>>

\* Mutant of SetExpiryPrice: the price is the caller's, not the oracle's.
SetExpiryPriceSubmitted(admin, s) ==
  /\ IsAdmin(admin)
  /\ expiry_price[s] = 0
  /\ now >= Terms[s].expiry
  /\ oracle_price[FixingOf(s)] # NoAccount
  /\ \E price \in Prices : expiry_price' = [expiry_price EXCEPT ![s] = price]
  /\ UNCHANGED <<config, next_id, vault, balance, outside, history>>

SetExpiryPrice(admin, s) ==
  /\ IsAdmin(admin)
  /\ expiry_price[s] = 0
  /\ now >= Terms[s].expiry
  /\ oracle_price[FixingOf(s)] # NoAccount
  /\ oracle_price[FixingOf(s)] > 0
  /\ expiry_price' = [expiry_price EXCEPT ![s] = oracle_price[FixingOf(s)]]
  /\ UNCHANGED <<config, next_id, vault, balance, outside, history>>

\* settle_vault and redeem both refuse a series that is not expired or has
\* no expiry price.
Priced(s) ==
  /\ expiry_price[s] # NoAccount
  /\ expiry_price[s] > 0

\* Mutants of CanSettleSeries: the price may still be missing (it reads 0); a
\* full pause does not stop it; a partial pause does.
CanSettleSeriesUnpriced(s) ==
  FullyUnpaused /\ now >= Terms[s].expiry /\ expiry_price[s] # NoAccount

CanSettleSeriesAlways(s) == now >= Terms[s].expiry /\ Priced(s)

CanSettleSeriesUnpaused(s) == Unpaused /\ now >= Terms[s].expiry /\ Priced(s)

CanSettleSeries(s) == FullyUnpaused /\ now >= Terms[s].expiry /\ Priced(s)

PayoutOf(s, amount) == Payout(Terms[s], expiry_price[s], amount)

\* Collateral that leaves the pool; nothing is transferred for amount 0.
PaidOut(m, pool, to, amount) ==
  IF amount = 0 THEN balance[m]
  ELSE TransferredLess(balance[m], pool, to, amount, Fee(m))

CanPayOut(m, pool, amount) ==
  /\ PoolMint[pool] = m
  /\ CanTransfer(balance[m], pool, amount)

SettleVault(admin, v, pool) ==
  LET s        == vault[v].otoken_mint
      m        == vault[v].collateral_mint
      payout   == PayoutOf(s, vault[v].short_amount)
      returned == vault[v].collateral_amount - payout
  IN /\ IsAdmin(admin)
     /\ Exists(v)
     /\ ~vault[v].settled
     /\ vault[v].short_amount > 0
     /\ s # Default
     /\ CanSettleSeries(s)
     /\ PayoutComputable(Terms[s], expiry_price[s], vault[v].short_amount)
     /\ returned >= 0
     /\ CanPayOut(m, pool, returned)
     /\ balance' = [balance EXCEPT ![m] =
                      PaidOut(m, pool, vault[v].beneficiary, returned)]
     /\ vault' = [vault EXCEPT ![v].settled = TRUE]
     /\ closed_by' = [closed_by EXCEPT ![v] = "settle_vault"]
     /\ UNCHANGED <<config, next_id, expiry_price, outside, redeemed, paid>>

\* Any holder redeems, whether or not the vaults behind the series settled.
CanRedeem(redeemer, s, pool, amount) ==
  /\ CanSettleSeries(s)
  /\ amount > 0
  /\ PayoutComputable(Terms[s], expiry_price[s], amount)
  /\ CanBurn(balance[s], redeemer, amount)
  /\ CanPayOut(Terms[s].collateral_mint, pool, PayoutOf(s, amount))

Redeem(redeemer, s, pool, amount) ==
  LET m      == Terms[s].collateral_mint
      payout == PayoutOf(s, amount)
  IN /\ CanRedeem(redeemer, s, pool, amount)
     /\ balance' = [balance EXCEPT ![s] = Burned(@, redeemer, amount),
                                   ![m] = PaidOut(m, pool, redeemer, payout)]
     /\ redeemed' = [redeemed EXCEPT ![s] = @ + amount]
     /\ paid' = [paid EXCEPT ![s] = @ + payout]
     /\ UNCHANGED <<accounts, outside, closed_by>>

\* Mutant of CanEmergencyWithdraw: a closed vault is paid again.
CanEmergencyWithdrawTwice(v, pool) ==
  /\ Initialized
  /\ config.fully_paused
  /\ Exists(v)
  /\ CanPayOut(vault[v].collateral_mint, pool, vault[v].collateral_amount)

\* The owner's exit under a full pause.  It returns the whole collateral
\* and burns no oToken.
CanEmergencyWithdraw(v, pool) ==
  /\ Initialized
  /\ config.fully_paused
  /\ Exists(v)
  /\ ~vault[v].settled
  /\ CanPayOut(vault[v].collateral_mint, pool, vault[v].collateral_amount)

EmergencyWithdrawVault(owner, id, pool) ==
  LET v == <<owner, id>>
      m == vault[v].collateral_mint
  IN /\ CanEmergencyWithdraw(v, pool)
     /\ vault' = [vault EXCEPT ![v].settled = TRUE]
     /\ balance' = [balance EXCEPT ![m] =
                      PaidOut(m, pool, vault[v].beneficiary,
                              vault[v].collateral_amount)]
     /\ closed_by' = [closed_by EXCEPT ![v] = "emergency_withdraw_vault"]
     /\ UNCHANGED <<config, next_id, expiry_price, outside, redeemed, paid>>

-----------------------------------------------------------------------------
(* The rest of the chain, as the controller sees it.                       *)

\* Mutant of FinalizeOraclePrice: the account may exist already.
FinalizeOraclePriceTwice(f, price) ==
  /\ now >= f[2]
  /\ oracle_price' = [oracle_price EXCEPT ![f] = price]
  /\ UNCHANGED <<accounts, balance, whitelisted, fee_bearing, now, history>>

\* oracle::set_expiry_price creates an ExpiryPrice once, after the expiry.
FinalizeOraclePrice(f, price) ==
  /\ now >= f[2]
  /\ oracle_price[f] = NoAccount
  /\ oracle_price' = [oracle_price EXCEPT ![f] = price]
  /\ UNCHANGED <<accounts, balance, whitelisted, fee_bearing, now, history>>

\* whitelist::whitelist_otoken creates an active entry; none is removed.
WhitelistOtoken(s) ==
  /\ s \notin whitelisted
  /\ whitelisted' = whitelisted \cup {s}
  /\ UNCHANGED <<accounts, balance, oracle_price, fee_bearing, now, history>>

\* A holder moves oTokens or collateral with the token program, to another
\* wallet or straight into a pool account.
TransferTokens(t, from, to, amount) ==
  /\ from # to
  /\ to \in PoolAccount => t = PoolMint[to]
  /\ CanTransfer(balance[t], from, amount)
  /\ balance' = [balance EXCEPT ![t] =
                   TransferredLess(@, from, to, amount, Fee(t))]
  /\ UNCHANGED <<accounts, outside, history>>

\* The authority of a Token-2022 mint turns a transfer fee on.
TurnFeeOn(m) ==
  /\ m \notin fee_bearing
  /\ fee_bearing' = fee_bearing \cup {m}
  /\ UNCHANGED <<accounts, balance, oracle_price, whitelisted, now, history>>

Tick ==
  /\ now < MaxTime
  /\ now' = now + 1
  /\ UNCHANGED <<accounts, balance, oracle_price, whitelisted, fee_bearing, history>>

(* The instructions, by who signs them: S is the set of keys that can.     *)

AdminNext(S) ==
  \/ \E k \in S, p \in Pausers : SetPartialPauser(k, p)
  \/ \E k \in S, paused \in BOOLEAN :
       SetPartiallyPaused(k, paused) \/ SetFullyPaused(k, paused)
  \/ \E k \in S, s \in Series : SetExpiryPrice(k, s)
  \/ \E k \in S, v \in VaultKey, p \in PoolAccount : SettleVault(k, v, p)

OwnerNext(S) ==
  \/ \E k \in S : InitializeCounter(k)
  \/ \E k \in S, b \in Key, m \in Mint : OpenVault(k, m, b)
  \/ \E k \in S, id \in VaultId, p \in PoolAccount, n \in 1..MaxU64 :
       DepositCollateral(k, id, p, n)
  \/ \E k \in S, id \in VaultId, p \in PoolAccount : EmergencyWithdrawVault(k, id, p)

MintNext(S) ==
  \E k \in S, id \in VaultId, s \in Series, d \in Key, n \in 1..MaxU64 :
    MintOtoken(k, id, s, d, n)

\* Listing a series; Listing.tla says who may.
SeriesNext == \E s \in Series : WhitelistOtoken(s) \/ CreateOTokenInfo(s)

HolderNext(S) ==
  \/ \E k \in S, s \in Series, p \in PoolAccount, n \in 1..MaxU64 :
       Redeem(k, s, p, n)
  \/ \E t \in Transferable, from \in S, to \in Account, n \in 1..MaxU64 :
       TransferTokens(t, from, to, n)

ChainNext ==
  \/ \E f \in Fixing, price \in Prices : FinalizeOraclePrice(f, price)
  \/ \E m \in FeeCapable : TurnFeeOn(m)
  \/ Tick

Next ==
  \/ \E k \in Key : Initialize(k)
  \/ AdminNext(Key)
  \/ OwnerNext(Key)
  \/ MintNext(Key)
  \/ HolderNext(Key)
  \/ SeriesNext
  \/ ChainNext

Spec == Init /\ [][Next]_vars

-----------------------------------------------------------------------------
(* Invariants.                                                             *)

\* Every account of the controller, every token account and the history keep
\* their type and width; in particular no subtraction of an instruction takes
\* a balance below zero and a vault always names a beneficiary that exists.
TypeOK ==
  /\ config \in Config \cup {NoAccount}
  /\ next_id \in [Key -> (0..MaxVaultId) \cup {NoAccount}]
  /\ vault \in [VaultKey -> Vault \cup {NoAccount}]
  /\ expiry_price \in [Series -> (0..MaxU64) \cup {NoAccount}]
  /\ balance \in [Mint \cup Series -> [Account -> Nat]]
  /\ oracle_price \in [Fixing -> Prices \cup {NoAccount}]
  /\ whitelisted \subseteq Series
  /\ fee_bearing \subseteq Mint
  /\ now \in Time
  /\ redeemed \in [Series -> Nat]
  /\ paid \in [Series -> Nat]
  /\ closed_by \in [VaultKey ->
       {"none", "settle_vault", "emergency_withdraw_vault"}]

Open(v)     == Exists(v) /\ ~vault[v].settled
Short(v)    == Exists(v) /\ vault[v].short_amount > 0
Holds(v, m) == Exists(v) /\ vault[v].collateral_mint = m
Wrote(v, s) == Exists(v) /\ vault[v].otoken_mint = s

\* What the vault's own oTokens are worth once its series is priced.
VaultPayout(v) ==
  IF Short(v) /\ Priced(vault[v].otoken_mint)
  THEN PayoutOf(vault[v].otoken_mint, vault[v].short_amount)
  ELSE 0

\* Bound to a registered series of the vault's collateral, with the
\* collateral of the whole short recorded.
Backed(v) ==
  LET s == vault[v].otoken_mint
      n == vault[v].short_amount
  IN /\ s \in Series
     /\ expiry_price[s] # NoAccount
     /\ Terms[s].collateral_mint = vault[v].collateral_mint
     /\ CollateralComputable(Terms[s], n)
     /\ vault[v].collateral_amount >= RequiredCollateral(Terms[s], n)

\* A vault that is short is backed: whatever price is finalized, the
\* subtraction in settle_vault (collateral_amount - payout) cannot underflow
\* and its payout can be computed, so settlement is never refused by the
\* arithmetic.
Collateralised == \A v \in VaultKey : Short(v) => Backed(v)

\* The price a series settles at is the oracle's price for its underlying
\* and expiry, so two series of one fixing never settle at different prices,
\* and no series is priced before it expires.
PricesAgree ==
  \A s \in Series : Priced(s) =>
    /\ now >= Terms[s].expiry
    /\ expiry_price[s] = oracle_price[FixingOf(s)]

PoolAccountsOf(m) == {p \in PoolAccount : PoolMint[p] = m}
PoolTotal(m)      == Total(balance[m], PoolAccountsOf(m))
SeriesOf(m)       == {s \in Series : Terms[s].collateral_mint = m}
VaultsOf(m)       == {v \in VaultKey : Holds(v, m)}

OpenCollateral(m) ==
  Total([v \in VaultKey |-> vault[v].collateral_amount],
        {v \in VaultsOf(m) : Open(v)})

Reserved(m) ==
  Total([v \in VaultKey |-> VaultPayout(v)],
        {v \in VaultsOf(m) : closed_by[v] = "settle_vault"})

\* The pool of a mint, with what redemptions already took from it, holds all
\* the collateral of the open vaults and every payout reserved by
\* settle_vault: no instruction pays the same collateral twice, and the
\* emergency exit of one vault takes no more than that vault's own deposit.
PoolBacksVaults ==
  \A m \in Mint :
    PoolTotal(m) + Total(paid, SeriesOf(m)) >= OpenCollateral(m) + Reserved(m)

\* Every oToken in circulation, or redeemed, was written by a vault: the
\* supply of a series never exceeds the shorts recorded against it.
SupplyAccounted ==
  \A s \in Series :
    Supply(s) + redeemed[s] =
      Total([v \in VaultKey |-> vault[v].short_amount],
            {v \in VaultKey : Wrote(v, s)})

\* What all holders of a priced series could still claim.
Claims(s) == IF Priced(s) /\ Supply(s) > 0 THEN PayoutOf(s, Supply(s)) ELSE 0

\* Rounding each vault down separately loses less than one unit per vault
\* beyond the first.
Dust(s) ==
  LET writers == {v \in VaultKey : Wrote(v, s)}
  IN IF Priced(s) /\ writers # {} THEN Cardinality(writers) - 1 ELSE 0

\* What the open vaults get back when they settle.
Returnable(m) ==
  Total([v \in VaultKey |-> vault[v].collateral_amount - VaultPayout(v)],
        {v \in VaultsOf(m) : Open(v)})

\* Payouts no longer backed because the vault took the emergency exit.
Uncovered(m) ==
  Total([v \in VaultKey |-> VaultPayout(v)],
        {v \in VaultsOf(m) : closed_by[v] = "emergency_withdraw_vault"})

\* In whatever order vaults settle and holders redeem, the pool can pay every
\* remaining holder and every remaining vault, except for what emergency
\* exits left uncovered and for the rounding dust.
SolventUpToDust ==
  \A m \in Mint :
    PoolTotal(m) + Uncovered(m)
      + Total([s \in Series |-> Dust(s)], SeriesOf(m)) >=
    Returnable(m) + Total([s \in Series |-> Claims(s)], SeriesOf(m))

-----------------------------------------------------------------------------
(* Action properties.                                                      *)

\* settled is final: a vault that was closed is never written again, so it
\* is not paid, refilled or minted against a second time.
ClosedVaultsFrozen ==
  [][\A v \in VaultKey :
       Exists(v) /\ vault[v].settled => vault'[v] = vault[v]]_vars

\* A price, once set, stays: neither the oracle's account nor the copies the
\* controller made of it are written twice, so every vault and holder of a
\* series settles at one price.
PricesWrittenOnce ==
  [][/\ \A s \in Series : Priced(s) => expiry_price'[s] = expiry_price[s]
     /\ \A f \in Fixing :
          oracle_price[f] # NoAccount => oracle_price'[f] = oracle_price[f]]_vars

\* oTokens are created only before the expiry of their series and destroyed
\* only after it has a price.
SupplyFollowsExpiry ==
  [][\A s \in Series :
       /\ Supply(s)' > Supply(s) => now < Terms[s].expiry
       /\ Supply(s)' < Supply(s) => now >= Terms[s].expiry /\ Priced(s)]_vars

\* Under a full pause oTokens are neither minted nor burned, vaults change
\* only by closing, and the pool gives up exactly the deposits of the vaults
\* that close, to their beneficiaries.
FullPauseHolds ==
  [][Initialized /\ config.fully_paused =>
       /\ \A s \in Series : Supply(s)' = Supply(s)
       /\ \A v \in VaultKey :
            vault'[v] # vault[v] => vault'[v] = [vault[v] EXCEPT !.settled = TRUE]
       /\ \A m \in Mint : PoolTotal(m)' < PoolTotal(m) =>
            \E v \in VaultsOf(m) :
              /\ Open(v)
              /\ vault'[v].settled
              /\ PoolTotal(m) - PoolTotal(m)' = vault[v].collateral_amount
              /\ balance'[m][vault[v].beneficiary] + Fee(m) =
                   balance[m][vault[v].beneficiary] + vault[v].collateral_amount]_vars

-----------------------------------------------------------------------------
(* What holds without emergency exits.                                     *)

NoEmergencyExit ==
  \A v \in VaultKey : closed_by[v] # "emergency_withdraw_vault"

\* "Users sell fully collateralized options": while no vault took the
\* emergency exit, the pool pays every holder and every vault in full.
FullyCollateralized ==
  NoEmergencyExit =>
    \A m \in Mint :
      PoolTotal(m) >=
        Returnable(m) + Total([s \in Series |-> Claims(s)], SeriesOf(m))
=============================================================================
