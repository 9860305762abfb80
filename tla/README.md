# A TLA+ development of the b1nary options programs

The repository holds the Solana (Anchor) programs of an options protocol. Users
deposit collateral and sell puts and calls; an option is a token (an *oToken*);
market makers buy options by quoting for them; at expiry an oracle price decides
whether the collateral goes back to the user or to the holder of the oTokens.
This directory models those programs in TLA+, checks the models with TLC and
proves the most important properties with TLAPS.

1. [The system](#1-the-system)
2. [Modules, and how they correspond to the code](#2-modules-and-how-they-correspond-to-the-code)
3. [What each run checks](#3-what-each-run-checks)
4. [What is proved](#4-what-is-proved)
5. [What is only model-checked, and what is not modelled](#5-what-is-only-model-checked-and-what-is-not-modelled)
6. [Findings](#6-findings)
7. [Plan](#7-plan)

## 1. The system

### 1.1 Components

| Component | State it keeps | Operations | Correct when |
| --- | --- | --- | --- |
| `controller` | one `ControllerConfig` (admin, partial pauser, two pause flags); a `VaultCounter` per owner; a `Vault` per (owner, id); an `OTokenInfo` per series with the expiry price; token accounts owned by a `pool_vault_auth` PDA | initialize, counters, open, deposit, mint, create info, set expiry price, settle, redeem, pausing, emergency exit | each short is covered; the pool pays every vault and holder in any order; a series settles at one price; a closed vault stays closed |
| `oracle` | one `OracleConfig` (admin, nominee, operator, three limits); a `PriceFeed` per underlying; an `ExpiryPrice` per (underlying, expiry) | register and toggle feeds, `get_price`, `set_expiry_price`, limits, two-step ownership | a price is written once, not before the expiry, and was near a fresh, confident market update |
| `batch_settler` | one `SettlerConfig`; a `MakerState` (nonce, listed) per maker; a `QuoteFill` per (maker, nonce, id); a `MakerOTokenBalance` per (maker, series); a `VaultMM` per vault; custody token accounts; a rent reserve | execute order, settle, redeem for a maker, self-redeem, physical redeem, emergency withdraw, cancel, bump nonce, configuration | a displayed quote is never overfilled, overcharged or filled after it was retired; custody covers what is owed; makers can escape an absent operator |
| `otoken_factory` | `FactoryConfig`, operator config, an `OToken` per series, the oToken mint | create series with fixed terms | the terms of a mint never change |
| `whitelist` | `WhitelistConfig`, an entry per series | list a series | only listed series get an `OTokenInfo` |
| `margin_pool` | config; a token account and `total_deposited` per mint | deposit, withdraw, configuration | the account backs the counter |
| `mock_jupiter` | none but its reserves | `swap`, `swap_split`, the swap program of the tests | - |
| `scripts/` | none | deployment and configuration transactions | - |

### 1.2 How the components interact

* `batch_settler` calls the controller by CPI (`open_vault`,
  `deposit_collateral`, `mint_otoken`, `settle_vault`, `redeem`,
  `emergency_withdraw_vault`), signing with its config PDA. The vaults of all
  orders are owned by that one PDA; the user is the vault's *beneficiary*.
* The controller reads the oracle's `ExpiryPrice` account and copies it, once,
  into each series' `OTokenInfo`. It reads the factory's `OToken` and the
  whitelist's entry when an `OTokenInfo` is created; the whitelist reads the
  `OToken`; the mint authority of an oToken is an address the factory was told.
* `physical_redeem` redeems by CPI and then calls a swap program with a route the
  operator supplies; it trusts nothing but differences of balances around it.
* `margin_pool` is called by no other program.
* All programs share the SPL token accounts: the pool, the settler's custody
  and the wallets. `redeem` pays out of the same pool accounts as
  `settle_vault` and the emergency exit, without any record of whose
  collateral it is; that shared pool is where most of the difficulty lies.

### 1.3 What is hard here

A Solana transaction is atomic together with its CPIs, and runs alone on the
accounts it writes. There are thus no data races and no half-done
instructions; a failed `require!`, account constraint or checked operation
leaves nothing behind. Nothing crashes and restarts, and no messages are lost.
What remains hard is:

* **interleaving** of instructions by different signers, in orders no test
  enumerates: settlement against redemption, quotes against cancellations,
  operator against self redemption against emergency exits;
* **one pool for many vaults**: an accounting error in one instruction
  surfaces only when a later caller finds the pool short;
* **two pause flags**, read in different combinations by each instruction;
* **rounding**: collateral is floored per vault, payouts per redemption,
  premiums and fees per fill;
* **time**: minting stops where settlement starts; the escape opens after a
  delay; price updates can be old or ahead of the chain's clock;
* **state kept twice**: a maker's balance against the remaining amounts of its
  vaults, the custody account against the ledger, the vault's recorded
  collateral against the pool, the copied price against the oracle's;
* **bounded integers**: u64 amounts, u128 intermediate products, exponents
  that can underflow, vault counters, a finite rent reserve.

`PROJECT.json` lists each hazard at its line with the properties that would
notice it going wrong.

## 2. Modules, and how they correspond to the code

| Module | Models | Extends |
| --- | --- | --- |
| `Totals` | sums over finite sets, as cardinalities of sets of units | - |
| `OptionMath` | `get_required_collateral`, `get_payout` | - |
| `TokenLedger` | what the programs need of SPL tokens (external) | - |
| `Controller` | the controller, with the tokens, clock, oracle price and whitelist it sees | the three above |
| `OracleMath` | staleness, confidence, normalization and deviation checks | - |
| `Oracle` | the oracle | `OracleMath` |
| `PriceBoard` | abstract: one write-once price per underlying and expiry | - |
| `Listing` | `otoken_factory` and `whitelist`, composed with the controller | `Controller` |
| `BatchSettler` | the settler composed with the controller | `Controller` |
| `QuoteBook` | abstract: bounded offers that can be retired for good | - |
| `PhysicalDelivery` | `physical_redeem` and `mock_jupiter`, on top of the settler | `BatchSettler` |
| `MarginPool` | the margin pool | `TokenLedger` |
| `MCController`, `MCOracle`, `MCListing`, `MCBatchSettler`, `MCPhysicalDelivery`, `MCMarginPool` | small instances for TLC | the module named |
| `ControllerProofs`, `OracleProofs`, `ListingProofs`, `MarginPoolProofs` | theorems about one module | the module named, `TLAPS` |
| `TotalsProofs` | laws of the sums of `Totals` | `Totals`, `TLAPS` |
| `BooksProofs` | theorems about the controller's books: supply, pool, solvency, full pause | `ControllerProofs`, `TotalsProofs` |
| `SettlerProofs` | theorems about the settler | `BatchSettler`, `BooksProofs` |
| `DeliveryProofs` | theorems about physical delivery | `PhysicalDelivery`, `SettlerProofs` |

The composed modules form two chains over `Controller`. A theorem or a check
about the controller's `Spec` carries over to `Listing` by the refinement
`ImplementsController`; `BatchSettler` is not a refinement of it (the exits burn
oTokens, which the controller alone never does), so what must survive there is
proved again, from lemmas shared with the controller's proofs.

### 2.1 Conventions

* **One action is one successful instruction.** Its guard is the conjunction of
  the handler's checks, of the constraints of its `Accounts` context and of the
  conditions under which its checked arithmetic and CPIs succeed. A failing
  instruction is a state in which the action is disabled.
* A PDA that was not created yet is `NoAccount`; an `init` constraint is the
  guard that it still is, any other use the guard that it is not.
* `Can...` operators are what an instruction requires, `With...`/`...Vault`
  operators what it makes of an account. `BatchSettler` uses the same operators
  for its CPIs, so that a change to a check in the controller changes orders too.
* An operator that begins with *Mutant of* in its comment is a deliberately
  wrong variant of the operator next to it. No specification uses it; it serves
  to confirm that the properties notice the bug.
* `redeemed`, `paid`, `closed_by`, `sold`, `premium_paid`, `burned`, `delivered`,
  the margin pool's `fees_lost`, an `OToken`'s `created_at` and `created_for` and the
  oracle's `evidence` are history: no guard reads them.

### 2.2 Controller

`balance` holds every token account of the collateral and oToken mints, by
mint and account. `PoolAccount` is the set of token accounts whose owner is a
`pool_vault_auth` PDA; the code accepts any of them in any instruction, so
each action takes the account as a parameter. Wallets have one account for
each mint.

The environment of the controller is part of the module: `FinalizeOraclePrice`
and `WhitelistOtoken` stand for the only effects of the other programs that
the controller reads, `TransferTokens` and `TurnFeeOn` for the token program
(holders moving tokens or donating to a pool account; a Token-2022 mint whose
authority enables a transfer fee), `Tick` for the clock. `Oracle` models how a
price comes about, and is shown to implement `PriceBoard`, whose only way to
set a price is the guard of `FinalizeOraclePrice`.

`Terms` are constants: the factory derives the mint's address from the terms
and never writes an `OToken` again. `CreateOTokenInfo` and `WhitelistOtoken` may
be taken at any time here; `Listing` gives them the authorities of the code.

The terms of a series may name a collateral of any number of decimals up to
`MaxDecimals` (255, a u8): the factory does not look at it. `create_otoken_info`
does, and refuses more than 18 (`DecimalsSupported`), for ever; a collateral that
is no mint at all is refused as well, and stands no differently.

The arithmetic is exact, with parameters for what the code fixes: `Radix` (10),
`OTokenDecimals` (8), `MaxDecimals` and `MaxU64`. Where the code computes in u128 and
converts, the models compare with `MaxU64`; a u128 overflow is impossible for
u64 operands of one product.

### 2.3 Oracle

`Market` says what Pyth published at each time. Anybody may post any signed
update later, so `SetExpiryPrice` takes the time of the update it uses as a
parameter. The bytes of an update are abstracted to price, confidence,
exponent and publication time; the checks of owner, discriminator and feed id
leave exactly the updates of the underlying's own feed. The verification level
is read only to find where the message starts: the code accepts an update of any
level, and so does the model.
`get_price` and `get_expiry_price` change nothing and are not actions; what
they validate is `ValidUpdate`, shared with `SetExpiryPrice`.

`evidence` records when a price was finalized and under which limits.

### 2.4 Batch settler

`ExecuteOrder` is the whole of `execute_order`: quote and deadline check,
fill update, rent, the three CPIs, custody bookkeeping and the premium
transfers, in the code's order where the order matters (the ledgers after each
transfer are named in its `LET`). `RedeemCustody` is the common body of
`redeem_for_mm` and `mm_self_redeem`. `EmergencyWithdraw` burns the smaller of
the maker's balance and the vault's remainder and then takes the controller's
exit.

`Quotes` are the quotes that Ed25519 instructions *display*: a maker's key and the
quote's message, at the offsets the instruction's header gives. That is what
`ed25519_instruction_matches` compares. It does not read the header's
instruction-index fields, which say in which instruction of the transaction the
verified key, message and signature lie, so that what was verified is not tied to
what is compared, and nothing in the model or in its properties says that a
maker signed a member of `Quotes`. `Quotes` is any finite set, several of one maker,
nonce and id included, which share one fill account; the theorems hold for
every one.

The settler's PDA is a key that signs only through this program; wallets in
`DirectUsers` also call the controller directly.

Abstractions: token delegations are taken to be large enough (a missing one
fails the whole instruction); the settler has one token account for each mint,
where the code lets the caller choose among its accounts; rent is counted in
accounts, and the case of an address funded in advance, which needs less rent,
is left out; the mint destination of `mint_otoken` is a wallet;
`create_otoken_info` and `whitelist_otoken` may be signed by anyone the code
admits, which the properties here do not distinguish.

### 2.5 Listing

A series comes to exist in three transactions to three programs: `CreateOtoken`
(the factory makes the mint and writes the terms), `WhitelistCreated`
(the whitelist checks the factory's account) and `RegisterListed` (the controller
checks both). Each program has an admin of its own; the factory's operator, who
may be appointed late and replaced, is accepted by all three.

An OToken keeps the mint authority the factory's config named when it was
created. No program compares that address with the controller's PDA; only the
token program does, when `mint_to` is signed. `Authorities` therefore contains
wallets as well. A mint made for the PDA is used by `MintListed` alone (`MintSigned`).
A mint made for a wallet's key is the wallet's: `MintOutside` and `HandOver` are the
token program's `mint_to` and `set_authority`, which need none of the three programs
(a wallet may even hand the mint to the PDA later). The oTokens made so circulate,
and `redeem` pays them once the series is registered and priced. A composition with
such a mint is therefore no controller whose books balance: `ImplementsController`
has `[]ControllerNamed`, the factory was told nothing but the PDA, as its premise.

The factory creates series whose collateral the controller does not support; they
are whitelisted and then stay unregistered. Everything else of the controller goes
on unchanged (`RestOfController`).

### 2.6 Physical delivery

`PhysicalRedeem` follows `physical_redeem`: redeem by CPI, snapshot, swap, compare,
pass on, in that order, with the ledgers after each transfer named in its `LET`.
`ContraAmount` is `compute_contra_amount`, with both rescalings between decimals
and the supported range of decimals as a guard.

The code lets the owner configure any swap program. The model uses the program
the repository tests with: `swap` and `swap_split` of `mock_jupiter`, which give any
amount for any amount out of the venue's reserve and do not look at the other
accounts they are given. A route is thus any choice of amounts, of the account
that receives the input (a wallet's, the pool's) and of the two that receive the output
(`RouteAccounts`, every account of the code). Its source is the settler's
collateral: the settler's PDA is the only signer a route has, and `Accepted` asks
that this account be drawn on. What bounds a route is `Accepted`, never the
swap's price. `max_collateral_spent` is an argument of the same operator who
supplies the route and only narrows the operator's own choice; it is left out.

The mock calls the classic token program, the settler's own transfers either
token program. The model puts no such limit on the swap: a contra mint may bear a
fee, which a call's user is then short of, since the settler passes on the owed
amount without comparing what arrives. This only adds routes to those of the mock.
`DeliveryAssumption` takes the contra mint of a series to be another than its
collateral, as in every series the repository creates; the factory does not check
it.

### 2.7 Margin pool

`TransferToPool` adds the nominal amount to `total_deposited` whatever arrived;
`TransferToUser` is limited by the counter and pays any account of the mint,
the pool's own included. Donations, further accounts of the pool's authority and
a mint that turns a fee on are the environment.

## 3. What each run checks

Distinct states are for the given constants; each run takes between seconds
and about three minutes with two workers.

| Run | Instance | States | Properties |
| --- | --- | ---: | --- |
| `ControllerRounding` | two owners, one vault each, one put whose collateral is floor(3n/2), oTokens change hands, u64 up to 4 | 337,280 | `TypeOK`, `Collateralised`, `PoolBacksVaults`, `SupplyAccounted`, `SolventUpToDust`, `ClosedVaultsFrozen`, `PricesWrittenOnce`, `SupplyFollowsExpiry`, `FullPauseHolds` |
| `ControllerPools` | one owner, two vaults, a put and a call of one fixing, two pool accounts, a mint that turns a fee on | 373,344 | `PricesAgree`, `PoolBacksVaults`, `SolventUpToDust` |
| `ControllerDust` | as `ControllerRounding`, oTokens stay where they are | - | `FullyCollateralized`, violated |
| `Listing` | two series from undeployed programs on, one whose collateral is not supported; an admin for each program, two operators, a mint authority that may be a wallet; one vault | 290,736 | `Vouched`, `ListingCompletes` |
| `Oracle` | two keys, three updates (one wide, one that rounds, one that scales up), limits on and off | 38,631 | `TypeOK`, `FinalizedNearMarket`, `ImplementsBoard` |
| `SettlerQuotes` | an undeployed settler; three displayed quotes, two sharing a nonce and id, one under the next nonce; every setter, withdrawals of the rent reserve | 378,072 | `SettlerTypeOK`, `QuotesHonoured`, `BalanceWithinVaults`, `ImplementsQuoteBook` |
| `SettlerCustody` | two makers of one series, one of them also the operator; a donation in the settler's account; a mint that turns a fee on | 341,936 | `CustodyCovers`, `SupplyAccountedWithBurns`, `ExitBurnsShort`, `EscapeAvailable`, `SettlerKeepsNothing`, `MakersPaid` |
| `SettlerDirect` | a user who trades through the settler and calls the controller, rounding collateral | 284,616 | `PoolBacksVaults`, `SolventUpToDust` |
| `SettlerEscape` | absent operator, settler paused or not, fair clock and maker | 83,936 | `EscapeWorks`, `UsersSettled` |
| `SettlerExit` | one maker with two vaults of one series | - | `EmergencyNotBlocked`, violated |
| `Delivery` | a put and a call in two collateral mints, a call that rounds and whose contra turns a fee on, every route over five accounts, one of them the pool's | 144,016 | `SettlerKeepsNothing`, `DeliveredWithinShort`, `CustodyCovers`, `BalanceWithinVaults`, `DeliveredInFull` |
| `MarginPool` | two mints, three accounts of the pool, one mint that turns a fee on, offices given to a key or to none | 18,029 | `TypeOK`, `CounterBacked`, `SurplusStays` |

### 3.1 The properties in words

* `Collateralised`: a vault that is short names a registered series of its own
  collateral and records the collateral of its *whole* short, so
  `settle_vault` cannot underflow at any price.
* `PoolBacksVaults`: pool plus what redemptions already took holds all open
  collateral and all payouts reserved by settlement. No collateral is paid out
  twice, and an emergency exit takes no more than its own deposit.
* `SolventUpToDust`: in every reachable state the pool can pay *everyone who
  is left*, holders and vaults, except for payouts whose vault took the
  emergency exit and less than one unit of rounding per vault beyond the first.
* `SupplyAccounted`, `SupplyAccountedWithBurns`: oTokens in circulation, redeemed
  or burned are exactly those the vaults wrote.
* `PricesAgree`, `PricesWrittenOnce`: one price per underlying and expiry, for
  every series, for ever.
* `ClosedVaultsFrozen`, `SupplyFollowsExpiry`, `FullPauseHolds`: what a step may
  never do, to a closed vault, on the wrong side of the expiry, and under a
  full pause.
* `Vouched`: the chain across three programs, each of which reads only the account
  before it: a series that a vault wrote was registered, whitelisted and created in
  that order, with a strike, in time, and under a mint the controller signs for;
  and its oTokens, circulating or redeemed, are those its vaults wrote, unless its mint
  was made for another key than the controller's.
* `ListingCompletes`: a created series whose collateral the controller supports never
  gets stuck between the three programs: the operator alone completes it, without any
  of the three admins, appointed before or after and replaced at any time.
* `UsersSettled`: whoever wrote options through the settler is settled in the end, in
  whatever order the operator and the makers redeemed, with the settler paused or
  its operator gone, where the settlement jobs run.
* `FinalizedNearMarket`: after the expiry, a finalized price was within the
  deviation limit of one update that was both recent and confident, under the
  limits then in force. A limit of 0 is off.
* `QuotesHonoured`, `ImplementsQuoteBook`: no displayed quote is filled beyond its
  maximum, charged above its bid or filled after cancellation or nonce bump. They
  say nothing about who signed it.
* `CustodyCovers`, `BalanceWithinVaults`, `ExitBurnsShort`: ledger, custody
  account and vault remainders stay consistent through redemptions, deliveries
  and exits.
* `MakersPaid`: custody leaves a maker only against the payout, which the pool
  pays in full, less the token program's fees, or under a full pause.
* `SettlerKeepsNothing`: no instruction of the settler changes what lies in its
  own account of a collateral mint; payments of others only add to it.
* `EscapeAvailable`, `EscapeWorks`: the maker's way out does not depend on the
  operator or on the settler's pause.
* `SettlerTypeOK`: beside the types, the fee stays under its cap, the escape delay
  above its minimum and the rent reserve natural, under any order of setters.
* `DeliveredWithinShort`: a beneficiary is paid for at most what its vault
  wrote, in any number of parts, and for nothing once the vault took the exit.
* `DeliveredInFull`: wherever a route sends what it spends and pays out, the
  beneficiary gains the contra it is owed, less the contra token's own fee where the
  settler passes it on (a call); the maker gives the delivered custody and nothing else;
  the pools pay at most the payout (a route may return input to them); and
  nobody but the swap's venue has less of any mint than before. How much surplus
  reaches the maker is the route's choice: a put's route may spend all that was
  redeemed, and a third wallet may gain.
* `CounterBacked`, `SurplusStays`: the margin pool's counter never promises more
  than its account holds, up to the fees deposits were charged, and donations
  cannot be withdrawn.

### 3.2 Bounds, and why they are enough

| Bound | Value | Why |
| --- | --- | --- |
| `MaxTime` | 1 or 2 | before and from the expiry at 1; 2 adds the escape delay, or the lifetime of a new series |
| `MaxVaultId` | 1 or 2 | two vaults in the pool, of one owner or of two, show sharing, dust and the second exit; the counter's own limit is reached |
| `Radix`, `OTokenDecimals` | 2, 1 | three halves of a unit per oToken: the smallest ratio that rounds |
| `MaxU64` | 2, 3, 4 or 6; 60 for prices | at least every purse; 2 in `Listing`; 3 and 4 are reached by collateral, short and supply, so that overflow guards refuse; 6 in `SettlerCustody` is all the collateral there is, as a mint's supply is a u64 |
| `Prices` | up to two of 1, 3 and 4 | one on each side of the strikes of 2 or 3 (a put at 3 with price 3 is the boundary) |
| purses | 1 to 3 units | enough to fund two vaults unequally |
| `MaxNonce`, quotes | 0 or 1, up to three | a replaced quote and the quote of the next nonce |
| `MinExecuteAmount` | 1 | the code's minimum only keeps fills from being tiny; fills of one unit round the most |
| `RentReserve` | 7 or 8 accounts | two orders and little to spare; `SettlerQuotes` also withdraws from it, so that the second order can run out |
| `MaxFeeBps`, `BpsDenominator` | 1 of 2 | a fee that rounds; `AllSettings`, in `SettlerQuotes`, also offers a fee above the cap and a delay of zero |
| `MinLifetime` | 1 | a series created at 0 is in time, one created at 1 is at the boundary that is refused |
| `MaxDecimals` | 4 or 5 | the most decimals supported (four at `OTokenDecimals` 1), and in `Listing` one more |
| `MaxIssued` | 1 | a wallet mints a series once; what it mints again changes the same sums |
| routes, `RouteAccounts` | 0 to `MaxU64` each, five accounts | every split of input and of output, to the venue, the beneficiary, the settler, a third wallet and a pool account |

`KeySymmetry` is used for the oracle only, whose keys are interchangeable and
which has no liveness property. Deadlock is not checked: once the clock is at its
bound and everything is settled the system may stop.

### 3.3 Initial states

The controller, the oracle, the margin pool and `Listing` start undeployed.
`SettlerQuotes` starts with the controller deployed and the settler not, and
reaches trading through the settler's own configuration. The other settler
runs start in `Deployed`, the state in which the deployment flow of
`src/README.md` ends: configured programs, the settler's counter created, series
listed, makers registered. The theorems start from undeployed programs, of which
`Deployed` is a reachable state.

### 3.4 Fairness

* `ListingFairness` (`Listing`): weak fairness of the operator's whitelisting and
  registering of each created series, and of nothing else. These are the "operational
  bots" of the architecture table in `src/README.md`. The admins, the wallets and the clock
  act when they please.
* `EscapeFairness` (`SettlerEscape`): the operator takes no fair step at all; the
  clock, the price finalization and its copy, and the makers' own
  `mm_self_redeem` are weakly fair.
* `SettlementJobs`, a premise of `UsersSettled`, is weak fairness of settling each vault
  of the settler, signed by the controller's admin: the "settlement jobs" of the same
  table. It is a premise and not part of the specification because `EscapeWorks` must
  not depend on it.
* `UsersSettled` and `EscapeWorks` name in their premises what the code does
  not guarantee: full pauses end, no emergency exit, makers are not delisted for
  good, collateral that does not round. Each is needed: a full pause stops
  settlement, an exit drains the pool (see section 6), and dust can leave the
  last claimant a unit short.

## 4. What is proved

TLAPS proves, for every set of keys, mints, series, terms, pool accounts,
prices, makers, finite set of quotes and all bounds:

| Theorem | Statement | Argument |
| --- | --- | --- |
| `Typing` | `Spec => []TypeOK` | inductive by itself; one lemma for each instruction that computes an amount |
| `CollateralTheorem` | `Spec => []Collateralised` | inductive with `TypeOK` |
| `PriceTheorem` | `Spec => []PricesAgree` | inductive with `TypeOK`; the oracle's account and the copy are both frozen once set, and time only advances |
| `WriteOnceTheorem` | `Spec => PricesWrittenOnce` | from `TypeOK` at every step |
| `ClosedTheorem` | `Spec => ClosedVaultsFrozen` | from `TypeOK` at every step |
| `SupplyTheorem` | `Spec => []SupplyAccounted` | inductive with `TypeOK` and `Collateralised`; each instruction changes both sums by the same amount |
| `SupplyTimeTheorem` | `Spec => SupplyFollowsExpiry` | from `TypeOK` at every step |
| `PoolTheorem` | `Spec => []PoolBacksVaults` | inductive with `TypeOK` and `ClosedRecorded` |
| `SolvencyTheorem` | `Spec => []SolventUpToDust` | `Solvent`, a tighter form, inductive with `Booked`, `ClosedRecorded`, `Marked` and `PricesAgree` |
| `ExactTheorem` | `NothingRounded => (Spec => []FullyCollateralized)` | from `Solvent`: the dust of an exact series is zero |
| `PauseTheorem` | `Spec => FullPauseHolds` | from `TypeOK` at every step |
| `OracleTyping` | `Spec => []TypeOK` of the oracle | inductive by itself |
| `BoardTheorem` | `Spec => ImplementsBoard` | refinement: initial states and every step map to a board step or a stutter |
| `NearMarketTheorem` | `Spec => []FinalizedNearMarket` | inductive with `TypeOK` |
| `ListingRefines` | `ListingSpec => ImplementsController` | conditional refinement: while the factory names only the controller's PDA no wallet ever holds a mint (`OnlyController`), and every step is a controller step or leaves the controller alone |
| `ListingTyping` | `ListingSpec => [](TypeOK /\ ListingTypeOK)` | the controller's inductive step, and the mints of wallets |
| `VouchedTheorem` | `ListingSpec => []Vouched` | inductive with the types and `Collateralised`, one link of the chain at a time; supply by `SupplyDrift` |
| `PoolTyping` | `Spec => []TypeOK` of the margin pool | inductive by itself |
| `CounterTheorem` | `Spec => []CounterBacked` | inductive with `TypeOK` |
| `SurplusTheorem` | `Spec => SurplusStays` | from `TypeOK` at every step |
| `SettlerTyping` | `BatchSpec => [](TypeOK /\ SettlerTypeOK)` | inductive with `CustodyOpened` |
| `CustodyTheorem` | `BatchSpec => []CustodyCovers` | inductive with the settler's types |
| `BalanceTheorem` | `BatchSpec => []BalanceWithinVaults` | inductive with the settler's types, for one maker and series at a time |
| `QuotesTheorem` | `BatchSpec => []QuotesHonoured` | `FillsKept`, inductive with the settler's types |
| `BookTheorem` | `BatchSpec => ImplementsQuoteBook` | refinement: an order is a sale, a cancellation or nonce bump a retirement, all else a stutter |
| `BurnsTheorem` | `BatchSpec => []SupplyAccountedWithBurns` | inductive with the settler's types and `Collateralised` |
| `BatchPoolTheorem` | `BatchSpec => []PoolBacksVaults` | inductive with the same and the marks of closed vaults |
| `BatchSolvencyTheorem` | `BatchSpec => []SolventUpToDust` | `Solvent` again, over the steps of the settler |
| `ExitTheorem` | `BatchSpec => []ExitBurnsShort` | `Remembered` and `Unredeemed`, inductive with the books |
| `MakersTheorem` | `BatchSpec => MakersPaid` | from the settler's types at every step |
| `PassThroughTheorem` | `BatchSpec => SettlerKeepsNothing` | from the settler's types at every step |
| `EscapeTheorem` | `EndowmentFits /\ SinglePool /\ NothingRounded => (BatchSpec => []EscapeAvailable)` | from `Solvent`, `CustodyCovers` and `CollateralFits` |
| `DeliveryKeepsCustody` | `DeliverySpec => [](SettlerTypeOK /\ CustodyCovers /\ BalanceWithinVaults)` | the three inductive steps of the settler, and `PhysicalRedeem` |
| `DeliveryTheorem` | `DeliverySpec => []DeliveredWithinShort` | inductive with the above |
| `DeliveredInFullTheorem` | `DeliverySpec => DeliveredInFull` | from the above at every step |
| `DeliveryPassThrough` | `DeliverySpec => SettlerKeepsNothing` | from the above at every step |
| `DeliverySolvencyTheorem` | `DeliverySpec => [](SupplyAccountedWithBurns /\ PoolBacksVaults /\ SolventUpToDust)` | the settler's inductive steps, and `PhysicalRedeem` |
| `DeliveryEscape` | `EndowmentFits /\ SinglePool /\ NothingRounded => (DeliverySpec => []EscapeAvailable)` | as `EscapeTheorem` |

Every safety invariant and action property that a passing run checks is the
subject of a theorem.

`TypeOK` is what makes the others inductive: it gives that an existing vault or
config is a record (and not `NoAccount`), that a balance is a natural number and
that an expiry price is a price.

*Why `Collateralised` is inductive.* Only `MintOtoken` raises a short, and its
guard covers the short as it will be, including what earlier mints wrote
(`MintOtokenBacked`). A deposit only adds collateral (`DepositCollateralBacked`),
a closing only sets `settled` (`CloseVaultBacked`), and a series stays
registered because its `OTokenInfo` is never removed (`RegistrationStays`). The
conjunct about computability matters: without it, the payout in `settle_vault`
could fail for a series with too many decimals.

*Sums.* `Totals` writes the sum of `f` over `S` as the cardinality of the set of
units of `f` in `S`, so that the library's theorems on finite sets apply where a
recursive sum would need induction. `TotalsProofs` derives from them that a sum
is a natural number, how it changes when one summand changes or one index is
added, that a part is at most the whole, and that pointwise equal functions have
equal sums. Two laws that go over all terms of a sum at once (the sum of two
functions is summed termwise; floors of the terms add up to less than one below
the floor of the sum per term) need induction over a finite set. The induction
theorems of the library take an operator, which the provers cannot instantiate;
`SubsetInduction` takes the hypothesis as the *set* of the subsets for which it
holds instead.

*Why `PoolBacksVaults` needs `ClosedRecorded`.* Settling moves a vault's collateral
from one summand of the bound (open collateral) to another (payouts reserved),
so the step must know that a vault that `settle_vault` closed was short of a
priced series, and that no vault is marked closed while it is open.

*Why the pool is solvent.* `Solvent` restates `SolventUpToDust` with a term for every
vault, what it is due while open (`DueOf`) and the payout its exit left uncovered
(`LostOf`), and allows dust only to series that round (`DustOf`). Its steps are of
three kinds. A deposit, a settlement or an exit changes the pool and one vault's
terms by the same amount. A redemption lowers the pool by a floored payout and
the claims of its series by at least as much. The step that prices a series is
the hard one: no collateral moves, every vault forfeits its payout, the claims
of the holders come to exist, and the law of floors bounds the difference by the
dust, which comes to exist in the same step. `Booked` (types, `Collateralised`, no
more oTokens than written) makes every term a natural number, `ClosedRecorded`
and `Marked` say how a vault was closed, and `PricesAgree` that a copied price
agrees with the others.

*The controller's books under the settler.* An instruction of the settler is up
to three CPIs in one step, so the controller's lemmas about a step do not apply
to it. Each is reduced to one of three effects on the books: `Ordered` (one
vault opened with collateral and short, and as many oTokens minted), a redemption by
its amount, or `Exited` (a vault closed by the exit, at most its short burned).
`PhysicalRedeem` has at least the effect of a redemption: its route may return
collateral to the pool, so that `Withdrawn` bounds what the pool keeps from below.

*Why `Vouched` holds with foreign mints.* `SupplyDrift` says that every step of the
controller changes a series' circulating and redeemed oTokens by what it changes the
shorts of its vaults, whether the two were equal before or not. Steps of a wallet change only
the first, and only for a series whose mint it holds; a mint made for the controller's PDA
is never handed over (`MadeForController`), because the PDA signs nothing but `mint_to`.

*Why exits burn the short.* `ExitBurnsShort` speaks of all exits of a series at once
but holds by what each vault remembers: as long as nobody redeemed a series, the
remainder of an open vault is its whole short (`Remembered`) and each maker's
balance is all its remainders (`Unredeemed`). The minimum that an exit burns is
then the remainder, never the balance.

*Why payments arrive.* `MakersPaid`, `SettlerKeepsNothing` and `DeliveredInFull` follow
the transfers of one step in order, ledger by ledger, with accounts that may
coincide: the operator may be the maker, the beneficiary the fee recipient, a
route's account any of them. A route moves the settler's collateral and the venue's
contra only (`SwapMoves`), so everybody else has no less after it, and what the settler
passes on is what it gained (`PassedOn`). One fact from earlier steps is needed:
that a vault's beneficiary is a wallet.

*Why the escape is available.* A maker's call needs custody in the settler's account
(`CustodyCovers`), the payout in one pool account, and a payout that fits in a u64.
If nothing rounds, `Solvent` says that the pool pays everyone who is left, hence
this maker (`CustodyCirculates`, `PartIsPaid`). That the amount fits follows from
the collateral in existence, which no step raises (`NoMore`, `CollateralFits`). The
three hypotheses are about the deployment: `EndowmentFits` says that the supply of a
collateral mint is a u64, as the token programs have it. `SinglePool` says that
a mint has one pool account; the code accepts several, and with collateral
spread over them the sum may suffice where no single account does, a hazard
`PROJECT.json` lists. `NothingRounded` excludes the dust of finding `ControllerDust`.
The instance of `SettlerCustody`, which checks `EscapeAvailable`, satisfies all three.

*Why the settler's types need `CustodyOpened`.* An exit writes the balance
account of a vault's maker; that it exists follows from the order that opened
the vault, an earlier step, and is thus part of the invariant. The orders of
`BalanceWithinVaults` add the same amount to a balance and to a remainder; the
exits clear a remainder and burn the smaller of the two.

*Why `QuotesHonoured` survives rounding.* Each fill is floored, so the premium of a
sum of fills is at most the bid for the sum; `PaidWithin` states it without
division. That a fill account holds exactly the fills of *its* quotes is a sum
over the quotes sharing a nonce and id.

*Why deliveries do not add up past the short.* `DeliveryTyped` says of each vault
that a vault nobody bought from delivered nothing, and that what was delivered
and what remains fit in what the vault wrote. A delivery moves an amount from
one to the other, every exit sets the remainder to zero, and no step lowers what
a vault wrote.

*Why `FinalizedNearMarket` holds for real limits.* The checks floor a quotient;
the property states the bound without division. `FloorBound` turns a floored
quotient at most `limit` into a product below `limit + 1`. Since limits change
later, the invariant is about the limits recorded with the price.

Assumptions, all evaluated by TLC on the runs: `MathAssumption`,
`PowerAssumption` (powers of the radix are positive naturals; the provers do not
know exponentiation), `ControllerAssumption`, `TermsAssumption`,
`ListingAssumption`, `MarginPoolAssumption`, `SettlerAssumption`,
`DeliveryAssumption` (typed, disjoint, finite constants; the settler's quotes
are finitely many, which is what its sums and fill limits need),
`AccountAssumption`, `OracleAssumption`, `OracleAccountAssumption`,
`ListingAccountAssumption`, `SettlerAccountAssumption`, `PoolVaultAssumption`
(an absent account is distinct from every account).

## 5. What is only model-checked, and what is not modelled

Only model-checked:

* liveness (`ListingCompletes`, `EscapeWorks`, `UsersSettled`): liveness under
  fairness and `ENABLED` are out of the prover's reach. `EscapeTheorem` proves the safety
  half of `EscapeWorks`, that the pool can always pay;
* that the two statements of section 6 are violated, which a counterexample shows.
  `ExactTheorem` proves the first of them for series that do not round.

That `Deployed`, where most settler runs start, is reachable is read off the
deployment flow; the theorems start from undeployed programs and do not use it.

No definition here is recursive, so nothing proved depends on induction over
data other than finite sets.

Not modelled:

* the swap programs `physical_redeem` may call in production: only their
  stand-in of the tests is source of this repository;
* several custody accounts of the settler for one mint: the caller may name any
  of them, and custody can be spread. The models keep one, and `CustodyCovers`
  says nothing about a spread custody;
* a vault with collateral and no short, which nothing but the exit closes: no
  document promises otherwise, and `UsersSettled` is about vaults that wrote;
* a holder who burns its own oTokens with the token program, which only forfeits a claim;
* the deployment scripts, which submit instructions in a fixed order and hold
  no protocol state; the state they end in is `Deployed`;
* bytes: account layouts, Pyth and Ed25519 parsing, instruction data.

What no property says, because the code does not establish it:

* that the maker whose key a quote displays signed it (section 2.4);
* that a registered series' oTokens all come from vaults, when the factory was told a
  wallet's key as the controller (section 2.5);
* that a price was observed near the expiry: `FinalizedNearMarket` is about the time
  of the finalization;
* how much of a delivery's surplus reaches the maker (section 3.1).

## 6. Findings

Two statements of the repository do not hold of the code. Each has a run in
which TLC finds the violation.

* `ControllerDust`: `src/README.md:24` says that users sell "fully collateralized
  options". Required collateral is floored for each vault, payouts for each
  redemption (`programs/controller/src/lib.rs:558`). Two vaults of one oToken hold
  one unit each while their two oTokens, redeemed at once, claim three. The
  shortfall is below one smallest unit for each vault beyond the first, which is
  what `SolventUpToDust` states.
* `SettlerExit`: the comment at `programs/batch_settler/src/lib.rs:338-340` says
  that emergency withdrawal must not block the beneficiary after redemptions by
  the maker. The burn is adjusted, but the controller still returns the vault's
  whole collateral from a pool that already paid the redemption, and the exit
  fails for lack of funds.

## 7. Plan

The order follows the importance of the behaviour. Done: 1 to 11.

1. `OptionMath`, `TokenLedger`, `Totals`, `Controller` with rounding, shared pools,
   and fees.
2. `ControllerProofs`: types, collateral, prices, closed vaults.
3. `OracleMath`, `Oracle`, `PriceBoard` and the refinement between them, with proofs.
4. `BatchSettler` over `Controller`: configuration, quotes, orders, custody, exits,
   escape.
5. `QuoteBook` as what a maker relies on, implemented by the settler.
6. `PhysicalDelivery`: `physical_redeem` with the balance snapshots around every
   route of the swap, and `compute_contra_amount`.
7. `Listing`: `otoken_factory`, `whitelist` and `create_otoken_info` together, with
   their authorities and their liveness.
8. `MarginPool`: `total_deposited` against the token account.
9. Proofs about sums: `TotalsProofs`, `BooksProofs`.
10. Proofs about the settler and delivery: types, custody, balances, quotes and the
    refinement of `QuoteBook`.
11. Proofs about the books under the settler and delivery: solvency, burns, exits,
    payments, escape; full pause and surplus.
12. Open: several custody accounts of the settler for one mint, and liveness with
    two pool accounts.
13. Open: the controller as a reader of `PriceBoard`, as a refinement theorem.
