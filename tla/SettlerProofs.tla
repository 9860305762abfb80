---------------------------- MODULE SettlerProofs ----------------------------
(***************************************************************************)
(* Theorems about the batch settler and the controller below it, for every *)
(* value of their constants: types, custody, quotes and the book they      *)
(* implement, balances, the controller's books under orders and exits,     *)
(* what exits burn, what makers are paid, what passes through the          *)
(* settler's account, and the makers' escape.                              *)
(***************************************************************************)
EXTENDS BatchSettler, BooksProofs

(***************************************************************************)
(* Keys, fees and transfers.                                               *)
(***************************************************************************)
LEMMA WalletType ==
  /\ Settler \in Key /\ Settler \notin Wallet /\ Settler \in Account
  /\ Wallet \subseteq Key /\ Wallet \subseteq Account /\ IsFiniteSet(Wallet)
  /\ DirectUsers \subseteq Wallet
  /\ NoAccount \notin Nat
<1>1. IsFiniteSet(Key) /\ NoAccount \notin Nat
  BY ControllerAssumption
<1>2. IsFiniteSet(Wallet)
  BY <1>1, FS_Subset DEF Wallet
<1>3. Settler \in Programs /\ Programs \subseteq Key /\ DirectUsers \subseteq Wallet
  BY SettlerAssumption
<1> QED
  BY <1>1, <1>2, <1>3 DEF Wallet, Account

LEMMA QuoteType ==
  ASSUME NEW q \in Quotes
  PROVE  /\ q.maker \in Wallet /\ q.nonce \in Nonce /\ q.quote_id \in QuoteId
         /\ q.otoken_mint \in Series /\ q.premium_mint \in Mint
         /\ q.bid_price \in 0..MaxU64 /\ q.max_amount \in 0..MaxU64
         /\ FillOf(q) \in FillKey /\ FillOf(q)[1] = q.maker /\ FillOf(q)[2] = q.nonce
<1>1. q \in [maker : Wallet, nonce : Nonce, quote_id : QuoteId, otoken_mint : Series,
             premium_mint : Mint, bid_price : 0..MaxU64, max_amount : 0..MaxU64,
             deadline : Time]
  BY SettlerAssumption
<1> QED
  BY <1>1 DEF FillOf, FillKey

Ledgers == [Mint \cup Series -> [Account -> Nat]]

LEMMA MoveType ==
  ASSUME TypeOK, NEW l \in Ledgers, NEW t \in Mint \cup Series, NEW from \in Account,
         NEW to \in Account, NEW n \in Nat, CanMove(l, t, from, n)
  PROVE  Move(l, t, from, to, n) \in Ledgers
<1>1. CASE n = 0
  BY <1>1 DEF Move
<1>2. CASE n # 0
  <2>1. l[t] \in [Account -> Nat] /\ l[t][from] >= n /\ n >= 1
    BY <1>2 DEF Ledgers, CanMove, CanTransfer
  <2>2. Fee(t) \in {0, 1}
    BY FeeType
  <2>3. TransferredLess(l[t], from, to, n, Fee(t)) \in [Account -> Nat]
    BY <2>1, <2>2 DEF TransferredLess
  <2> QED
    BY <1>2, <2>3 DEF Move, Ledgers
<1> QED
  BY <1>1, <1>2

\* A transfer writes one ledger, in two places.
LEMMA MoveElsewhere ==
  ASSUME NEW l \in Ledgers, NEW t \in Mint \cup Series, NEW from \in Account,
         NEW to \in Account, NEW n \in Nat
  PROVE  /\ \A r \in Mint \cup Series : r # t => Move(l, t, from, to, n)[r] = l[r]
         /\ \A x \in Account \ {from, to} : Move(l, t, from, to, n)[t][x] = l[t][x]
  BY DEF Move, Ledgers, TransferredLess

\* A transfer of collateral leaves the oTokens.
LEMMA MoveKeepsSeries ==
  ASSUME NEW l \in Ledgers, NEW t \in Mint, NEW from, NEW to, NEW n, NEW r \in Series
  PROVE  Move(l, t, from, to, n)[r] = l[r]
<1>1. r # t
  BY ControllerAssumption
<1> QED
  BY <1>1 DEF Move, Ledgers

\* A share of an amount is at most the amount.
LEMMA ShareOfAmount ==
  ASSUME NEW a \in Nat, NEW b \in Nat, NEW d \in Nat, d > 0, b <= d
  PROVE  (a * b) \div d \in 0..a
<1> DEFINE x == (a * b) \div d
<1>1. a * b \in Nat /\ a * d \in Nat
  BY TimesIsNat
<1>2. x \in Nat
  BY <1>1, DivIsNat
<1>3. d * x <= a * b
  BY <1>1
<1>4. a * b <= a * d
  OBVIOUS
<1>5. x <= a
  <2>1. SUFFICES ASSUME x >= a + 1 PROVE FALSE
    BY <1>2
  <2>2. d * x >= d * (a + 1)
    BY <1>2, <2>1
  <2>3. d * (a + 1) = a * d + d
    OBVIOUS
  <2> QED
    BY <1>1, <1>3, <1>4, <2>2, <2>3
<1> QED
  BY <1>2, <1>5

(***************************************************************************)
(* Type correctness.  It is inductive with one more fact: a vault's maker  *)
(* keeps its balance account once the order opened it.                     *)
(***************************************************************************)
CustodyOpened ==
  \A v \in VaultKey : vault_mm[v] # NoAccount =>
    mm_balance[vault_mm[v].maker][vault_mm[v].otoken_mint] # NoAccount

Typed == TypeOK /\ SettlerTypeOK /\ CustodyOpened

\* The controller goes on by its own steps.
LEMMA ControllerStep == ControllerNext => Next
<1>1. Wallet \subseteq Key /\ DirectUsers \subseteq Key
  BY WalletType
<1> QED
  BY <1>1 DEF ControllerNext, Next, AdminNext, OwnerNext, MintNext, HolderNext

LEMMA InitTyped == BatchInit => Typed
<1> SUFFICES ASSUME BatchInit PROVE Typed
  OBVIOUS
<1>1. TypeOK
  BY InitTypeOK DEF BatchInit
<1>2. RentReserve \in Nat
  BY SettlerAssumption
<1>3. SettlerTypeOK /\ CustodyOpened
  BY <1>2 DEF BatchInit, SettlerInit, SettlerTypeOK, CustodyOpened
<1> QED
  BY <1>1, <1>3 DEF Typed

LEMMA ConfigChanged ==
  ASSUME Typed, NEW c \in SettlerConfig, ValidConfig(c), settler_config' = c,
         UNCHANGED <<vars, trading, custody, burned>>
  PROVE  Typed'
<1>1. TypeOK'
  BY DEF Typed, TypeOK, vars, accounts, outside, history
<1>2. SettlerTypeOK'
  BY DEF Typed, SettlerTypeOK, trading, custody
<1>3. CustodyOpened'
  BY DEF Typed, CustodyOpened, custody
<1> QED
  BY <1>1, <1>2, <1>3 DEF Typed

LEMMA SettersTyped ==
  ASSUME Typed, NEW k \in Wallet, NEW c \in Settings,
         \/ InitializeSettler(k, c)
         \/ SetTreasury(k, c) \/ SetProtocolFee(k, c) \/ SetOperator(k, c)
         \/ Pause(k, c) \/ SetEscapeDelay(k, c) \/ SetJupiterProgram(k, c)
  PROVE  Typed'
<1>1. c \in SettlerConfig
  BY SettlerAssumption
<1>2. settler_config' = c /\ UNCHANGED <<vars, trading, custody, burned>>
  BY DEF InitializeSettler, SetTreasury, SetProtocolFee, SetOperator, Pause,
     SetEscapeDelay, SetJupiterProgram, SetConfig
<1>3. CASE InitializeSettler(k, c)
  BY <1>1, <1>2, <1>3, ConfigChanged DEF InitializeSettler
<1>4. CASE settler_config # NoAccount
  <2> DEFINE g == settler_config
  <2>1. g \in SettlerConfig /\ ValidConfig(g)
    BY <1>4 DEF Typed, SettlerTypeOK
  <2>2. CASE SetTreasury(k, c)
    <3>1. /\ c.operator = g.operator /\ c.protocol_fee_bps = g.protocol_fee_bps
          /\ c.escape_delay = g.escape_delay /\ c.treasury # Default
      BY <2>1, <2>2 DEF SetTreasury, SettlerConfig
    <3> QED
      BY <1>1, <1>2, <2>1, <3>1, ConfigChanged DEF ValidConfig
  <2>3. CASE SetProtocolFee(k, c)
    <3>1. /\ c.operator = g.operator /\ c.protocol_fee_bps <= MaxFeeBps
          /\ c.escape_delay = g.escape_delay /\ c.treasury = g.treasury
      BY <2>1, <2>3 DEF SetProtocolFee, SettlerConfig
    <3> QED
      BY <1>1, <1>2, <2>1, <3>1, ConfigChanged DEF ValidConfig
  <2>4. CASE SetOperator(k, c)
    <3>1. /\ c.operator # Default /\ c.protocol_fee_bps = g.protocol_fee_bps
          /\ c.escape_delay = g.escape_delay /\ c.treasury = g.treasury
      BY <2>1, <2>4 DEF SetOperator, SettlerConfig
    <3> QED
      BY <1>1, <1>2, <2>1, <3>1, ConfigChanged DEF ValidConfig
  <2>5. CASE Pause(k, c)
    <3>1. /\ c.operator = g.operator /\ c.protocol_fee_bps = g.protocol_fee_bps
          /\ c.escape_delay = g.escape_delay /\ c.treasury = g.treasury
      BY <2>1, <2>5 DEF Pause, SettlerConfig
    <3> QED
      BY <1>1, <1>2, <2>1, <3>1, ConfigChanged DEF ValidConfig
  <2>6. CASE SetEscapeDelay(k, c)
    <3>1. /\ c.operator = g.operator /\ c.protocol_fee_bps = g.protocol_fee_bps
          /\ c.escape_delay >= MinEscapeDelay /\ c.treasury = g.treasury
      BY <2>1, <2>6 DEF SetEscapeDelay, SettlerConfig
    <3> QED
      BY <1>1, <1>2, <2>1, <3>1, ConfigChanged DEF ValidConfig
  <2>7. CASE SetJupiterProgram(k, c)
    <3>1. /\ c.operator = g.operator /\ c.protocol_fee_bps = g.protocol_fee_bps
          /\ c.escape_delay = g.escape_delay /\ c.treasury = g.treasury
      BY <2>1, <2>7 DEF SetJupiterProgram, SettlerConfig
    <3> QED
      BY <1>1, <1>2, <2>1, <3>1, ConfigChanged DEF ValidConfig
  <2>8. CASE InitializeSettler(k, c)
    BY <1>3, <2>8
  <2> QED
    BY <2>2, <2>3, <2>4, <2>5, <2>6, <2>7, <2>8
<1>5. InitializeSettler(k, c) \/ settler_config # NoAccount
  BY DEF SetTreasury, SetProtocolFee, SetOperator, Pause, SetEscapeDelay,
     SetJupiterProgram, SetConfig, IsOwner, SettlerReady
<1> QED
  BY <1>3, <1>4, <1>5

\* The instructions that leave the settler's accounts to the controller.
LEMMA SettlerUntouched ==
  ASSUME Typed, [Next]_vars, UNCHANGED settler_vars
  PROVE  Typed'
<1>1. TypeOK'
  BY NextTypeOK DEF Typed
<1>2. SettlerTypeOK' /\ CustodyOpened'
  BY DEF Typed, SettlerTypeOK, CustodyOpened, settler_vars, trading, custody
<1> QED
  BY <1>1, <1>2 DEF Typed

LEMMA InitVaultCounterTyped ==
  ASSUME Typed, NEW k \in Wallet, InitVaultCounter(k)
  PROVE  Typed'
<1>1. Next
  BY WalletType DEF InitVaultCounter, Next, OwnerNext
<1> QED
  BY <1>1, SettlerUntouched DEF InitVaultCounter

LEMMA SettleVaultForMakerTyped ==
  ASSUME Typed, NEW k \in Wallet, NEW admin \in Wallet, NEW v \in VaultKey,
         NEW p \in PoolAccount, SettleVaultForMaker(k, admin, v, p)
  PROVE  Typed'
<1>1. Next
  BY WalletType DEF SettleVaultForMaker, Next, AdminNext
<1> QED
  BY <1>1, SettlerUntouched DEF SettleVaultForMaker

LEMMA WithdrawRentTyped ==
  ASSUME Typed, NEW k \in Wallet, NEW rents \in RentWithdrawals,
         WithdrawRentReserve(k, rents)
  PROVE  Typed'
<1>1. TypeOK' /\ CustodyOpened'
  BY DEF WithdrawRentReserve, Typed, TypeOK, CustodyOpened, vars, accounts, outside,
     history, custody
<1>2. rent_reserve - rents \in Nat
  BY SettlerAssumption DEF WithdrawRentReserve, Typed, SettlerTypeOK
<1>3. SettlerTypeOK'
  BY <1>2 DEF WithdrawRentReserve, Typed, SettlerTypeOK, custody
<1> QED
  BY <1>1, <1>3 DEF Typed

LEMMA MakersTyped ==
  ASSUME Typed, UNCHANGED <<vars, settler_config, rent_reserve, sold, premium_paid,
                            custody, burned>>,
         maker_state' \in [Wallet -> MakerState \cup {NoAccount}],
         quote_fill' \in [FillKey -> QuoteFill \cup {NoAccount}]
  PROVE  Typed'
<1>1. TypeOK' /\ CustodyOpened'
  BY DEF Typed, TypeOK, CustodyOpened, vars, accounts, outside, history, custody
<1>2. SettlerTypeOK'
  BY DEF Typed, SettlerTypeOK, custody
<1> QED
  BY <1>1, <1>2 DEF Typed

LEMMA WhitelistMakerTyped ==
  ASSUME Typed, NEW k \in Wallet, NEW m \in Makers, NEW flag \in BOOLEAN,
         WhitelistMaker(k, m, flag)
  PROVE  Typed'
<1>1. m \in Wallet /\ maker_state[m] \in MakerState \cup {NoAccount}
  BY SettlerAssumption DEF Typed, SettlerTypeOK
<1>2. [nonce |-> 0, whitelisted |-> flag] \in MakerState
  BY SettlerAssumption DEF MakerState, Nonce
<1>3. ASSUME NEW u \in MakerState PROVE [u EXCEPT !.whitelisted = flag] \in MakerState
  BY DEF MakerState
<1>4. maker_state' \in [Wallet -> MakerState \cup {NoAccount}]
  BY <1>1, <1>2, <1>3 DEF WhitelistMaker, Typed, SettlerTypeOK
<1>5. quote_fill' \in [FillKey -> QuoteFill \cup {NoAccount}]
  BY DEF WhitelistMaker, Typed, SettlerTypeOK
<1> QED
  BY <1>4, <1>5, MakersTyped DEF WhitelistMaker

LEMMA IncrementMakerNonceTyped ==
  ASSUME Typed, NEW m \in Wallet, IncrementMakerNonce(m)
  PROVE  Typed'
<1>1. maker_state[m] \in MakerState
  BY DEF IncrementMakerNonce, Typed, SettlerTypeOK
<1>2. maker_state[m].nonce + 1 \in Nonce
  BY <1>1, SettlerAssumption DEF IncrementMakerNonce, MakerState, Nonce
<1>3. [maker_state[m] EXCEPT !.nonce = @ + 1] \in MakerState
  BY <1>1, <1>2 DEF MakerState
<1>4. maker_state' \in [Wallet -> MakerState \cup {NoAccount}]
  BY <1>3 DEF IncrementMakerNonce, Typed, SettlerTypeOK
<1>5. quote_fill' \in [FillKey -> QuoteFill \cup {NoAccount}]
  BY DEF IncrementMakerNonce, Typed, SettlerTypeOK
<1> QED
  BY <1>4, <1>5, MakersTyped DEF IncrementMakerNonce

LEMMA FilledType ==
  ASSUME Typed, NEW f \in FillKey
  PROVE  FilledSoFar(f) \in 0..MaxU64 /\ FilledSoFar(f) \in Nat
<1>1. quote_fill[f] \in QuoteFill \cup {NoAccount}
  BY DEF Typed, SettlerTypeOK
<1>2. FilledSoFar(f) \in 0..MaxU64
  BY <1>1, AmountType DEF FilledSoFar, QuoteFill
<1> QED
  BY <1>2, AmountType

LEMMA CancelQuoteTyped ==
  ASSUME Typed, NEW m \in Wallet, NEW id \in QuoteId, CancelQuote(m, id)
  PROVE  Typed'
<1>1. PICK f : f = <<m, maker_state[m].nonce, id>>
  OBVIOUS
<1>2. maker_state[m] \in MakerState
  BY DEF CancelQuote, Typed, SettlerTypeOK
<1>3. f \in FillKey
  BY <1>1, <1>2 DEF FillKey, MakerState
<1>4. [filled_amount |-> FilledSoFar(f), cancelled |-> TRUE] \in QuoteFill
  BY <1>3, FilledType DEF QuoteFill
<1>5. quote_fill' \in [FillKey -> QuoteFill \cup {NoAccount}]
  BY <1>1, <1>4 DEF CancelQuote, Typed, SettlerTypeOK
<1>6. maker_state' \in [Wallet -> MakerState \cup {NoAccount}]
  BY DEF CancelQuote, Typed, SettlerTypeOK
<1> QED
  BY <1>5, <1>6, MakersTyped DEF CancelQuote

(***************************************************************************)
(* execute_order.                                                          *)
(***************************************************************************)
\* The premium and the protocol's share of it.
LEMMA PremiumType ==
  ASSUME Typed, SettlerReady, NEW q \in Quotes, NEW n \in Nat
  PROVE  /\ Premium(q, n) \in Nat
         /\ ProtocolFee(Premium(q, n)) \in 0..Premium(q, n)
         /\ settler_config.treasury \in Wallet
<1>1. q.bid_price \in Nat /\ PriceScale \in Nat /\ PriceScale > 0
  BY QuoteType, AmountType, SettlerAssumption
<1>2. n * q.bid_price \in Nat
  BY <1>1, TimesIsNat
<1>3. Premium(q, n) \in Nat
  BY <1>1, <1>2, DivIsNat DEF Premium
<1>4. settler_config \in SettlerConfig /\ ValidConfig(settler_config)
  BY DEF SettlerReady, Typed, SettlerTypeOK
<1>5. /\ BpsDenominator \in Nat /\ BpsDenominator > 0
      /\ settler_config.protocol_fee_bps \in 0..BpsDenominator
      /\ settler_config.treasury \in Wallet
  BY <1>4, SettlerAssumption DEF SettlerConfig, ValidConfig
<1>6. ProtocolFee(Premium(q, n)) \in 0..Premium(q, n)
  BY <1>3, <1>5, ShareOfAmount DEF ProtocolFee
<1> QED
  BY <1>3, <1>5, <1>6

LEMMA RentsType == ASSUME NEW q PROVE RentsOf(q) \in Nat
  BY DEF RentsOf

\* The vault an order leaves behind.
OrderVault(m, user, collateral, s, n) ==
  WithShort(WithCollateral(OpenedVault(m, user), collateral), s, n)

LEMMA ShortWritten ==
  ASSUME NEW u \in Vault, u.short_amount = 0, NEW s \in Series, NEW n \in 0..MaxU64
  PROVE  /\ WithShort(u, s, n) \in Vault
         /\ WithShort(u, s, n).short_amount = n
         /\ WithShort(u, s, n).otoken_mint = s
         /\ WithShort(u, s, n).collateral_amount = u.collateral_amount
         /\ WithShort(u, s, n).beneficiary = u.beneficiary
<1>1. u.short_amount + n = n
  BY AmountType
<1>2. /\ WithShort(u, s, n).short_amount = u.short_amount + n
      /\ WithShort(u, s, n).otoken_mint = s
      /\ WithShort(u, s, n).collateral_amount = u.collateral_amount
      /\ WithShort(u, s, n).beneficiary = u.beneficiary
  BY DEF WithShort, Vault
<1>3. WithShort(u, s, n) \in Vault
  BY <1>1 DEF WithShort, Vault
<1> QED
  BY <1>1, <1>2, <1>3

LEMMA OrderVaultType ==
  ASSUME NEW m \in Mint, NEW user \in Key, NEW s \in Series,
         NEW n \in 0..MaxU64, NEW c \in 0..MaxU64
  PROVE  /\ OrderVault(m, user, c, s, n) \in Vault
         /\ OrderVault(m, user, c, s, n).short_amount = n
         /\ OrderVault(m, user, c, s, n).otoken_mint = s
         /\ OrderVault(m, user, c, s, n).collateral_amount = c
         /\ OrderVault(m, user, c, s, n).beneficiary = user
<1>1. n \in Nat /\ c \in Nat
  BY AmountType
<1>2. OpenedVault(m, user) \in Vault /\ OpenedVault(m, user).collateral_amount = 0
      /\ OpenedVault(m, user).short_amount = 0
      /\ OpenedVault(m, user).beneficiary = user
  BY AmountType DEF OpenedVault, Vault
<1>3. WithCollateral(OpenedVault(m, user), c)
        = [OpenedVault(m, user) EXCEPT !.collateral_amount = c]
  BY <1>1, <1>2 DEF WithCollateral, Vault
<1>4. /\ WithCollateral(OpenedVault(m, user), c) \in Vault
      /\ WithCollateral(OpenedVault(m, user), c).short_amount = 0
      /\ WithCollateral(OpenedVault(m, user), c).collateral_amount = c
      /\ WithCollateral(OpenedVault(m, user), c).beneficiary = user
  BY <1>1, <1>2, <1>3 DEF Vault
<1> QED
  BY <1>1, <1>4, ShortWritten DEF OrderVault

\* An order moves collateral and premium and mints into custody: the other
\* ledgers of oTokens stay.
LEMMA OrderLedgers ==
  ASSUME Typed, NEW user \in Wallet, NEW q \in Quotes, NEW p \in PoolAccount,
         NEW n \in 1..MaxU64, NEW c \in 1..MaxU64, ExecuteOrder(user, q, p, n, c)
  PROVE  /\ balance' \in Ledgers
         /\ balance'[q.otoken_mint] = Minted(balance[q.otoken_mint], Settler, n)
         /\ \A r \in Series : r # q.otoken_mint => balance'[r] = balance[r]
<1> DEFINE s == q.otoken_mint
           m == Terms[s].collateral_mint
           t == q.premium_mint
           premium == Premium(q, n)
           fee == ProtocolFee(premium)
           l1 == Move(balance, m, user, p, c)
           l2 == [l1 EXCEPT ![s] = Minted(@, Settler, n)]
           l3 == Move(l2, t, q.maker, user, premium - fee)
           l4 == Move(l3, t, q.maker, settler_config.treasury, fee)
<1>1. /\ s \in Series /\ m \in Mint /\ t \in Mint /\ t # s /\ m # s
      /\ n \in Nat /\ c \in Nat /\ TypeOK /\ balance \in Ledgers
      /\ \A r \in Series : r # m /\ r # t
  BY QuoteType, TermsType, AmountType, ControllerAssumption DEF Typed, TypeOK, Ledgers
<1>2. /\ user \in Account /\ p \in Account /\ q.maker \in Account /\ Settler \in Account
  BY WalletType, QuoteType DEF Account
<1>3. SettlerReady
  BY DEF ExecuteOrder
<1>4. /\ premium \in Nat /\ fee \in Nat /\ premium - fee \in Nat
      /\ settler_config.treasury \in Account
  BY <1>1, <1>3, PremiumType, WalletType
<1>5. /\ CanMove(balance, m, user, c)
      /\ CanMove(l2, t, q.maker, premium - fee)
      /\ CanMove(l3, t, q.maker, fee)
      /\ balance' = l4
  BY DEF ExecuteOrder, CanMove
<1> HIDE DEF premium, fee, l1, l2, l3, l4
<1>6. l1 \in Ledgers
  BY <1>1, <1>2, <1>5, MoveType DEF l1
<1>7. \A r \in Series : l1[r] = balance[r]
  BY <1>1, MoveKeepsSeries DEF l1
<1>8. l2 \in Ledgers
  <2>1. Minted(l1[s], Settler, n) \in [Account -> Nat]
    BY <1>1, <1>2, <1>6 DEF Minted, Ledgers
  <2> QED
    BY <1>6, <2>1 DEF l2, Ledgers
<1>9. /\ l2[s] = Minted(balance[s], Settler, n)
      /\ \A r \in Series : r # s => l2[r] = balance[r]
  BY <1>1, <1>6, <1>7 DEF l2, Ledgers
<1>10. l3 \in Ledgers
  BY <1>1, <1>2, <1>4, <1>5, <1>8, MoveType DEF l3
<1>11. \A r \in Series : l3[r] = l2[r]
  BY <1>1, <1>8, MoveKeepsSeries DEF l3
<1>12. l4 \in Ledgers
  BY <1>1, <1>2, <1>4, <1>5, <1>10, MoveType DEF l4
<1>13. \A r \in Series : l4[r] = l3[r]
  BY <1>1, <1>10, MoveKeepsSeries DEF l4
<1> QED
  BY <1>1, <1>5, <1>9, <1>11, <1>12, <1>13

LEMMA ExecuteOrderTyped ==
  ASSUME Typed, NEW user \in Wallet, NEW q \in Quotes, NEW p \in PoolAccount,
         NEW n \in 1..MaxU64, NEW c \in 1..MaxU64, ExecuteOrder(user, q, p, n, c)
  PROVE  Typed'
<1> DEFINE s == q.otoken_mint
           m == Terms[s].collateral_mint
           f == FillOf(q)
<1>0. PICK id : id = next_id[Settler]
  OBVIOUS
<1> DEFINE v == <<Settler, id>>
<1>1. /\ s \in Series /\ m \in Mint /\ f \in FillKey /\ q.maker \in Wallet
      /\ q.max_amount \in 0..MaxU64 /\ n \in 0..MaxU64 /\ c \in 0..MaxU64
      /\ user \in Key /\ Settler \in Key
  BY QuoteType, TermsType, AmountType, WalletType
<1>2. balance' \in [Mint \cup Series -> [Account -> Nat]]
  BY OrderLedgers DEF Ledgers
<1>3. next_id[Settler] \in 0..MaxVaultId /\ next_id[Settler] + 1 <= MaxVaultId
  BY <1>1 DEF ExecuteOrder, CanOpen, Typed, TypeOK
<1>4. v \in VaultKey
  BY <1>0, <1>1, <1>3, ControllerAssumption DEF VaultKey, VaultId
<1>5. vault' = [vault EXCEPT ![v] = OrderVault(m, user, c, s, n)]
  BY <1>0 DEF ExecuteOrder, OrderVault
<1>6. vault' \in [VaultKey -> Vault \cup {NoAccount}]
  BY <1>1, <1>5, OrderVaultType DEF Typed, TypeOK
<1>7. next_id' \in [Key -> (0..MaxVaultId) \cup {NoAccount}]
  <2>1. next_id[Settler] + 1 \in 0..MaxVaultId
    BY <1>3, ControllerAssumption
  <2> QED
    BY <2>1 DEF ExecuteOrder, Typed, TypeOK
<1>8. UNCHANGED <<config, expiry_price, outside, history, settler_config,
                  maker_state, burned>>
  BY DEF ExecuteOrder
<1>9. TypeOK'
  BY <1>2, <1>6, <1>7, <1>8 DEF Typed, TypeOK, outside, history
<1>10. quote_fill' \in [FillKey -> QuoteFill \cup {NoAccount}]
  <2>1. FilledSoFar(f) + n \in 0..MaxU64
    BY <1>1, FilledType, AmountType DEF ExecuteOrder, CanFill
  <2>2. Filled(q, n) \in QuoteFill
    BY <2>1 DEF Filled, QuoteFill
  <2> QED
    BY <2>2 DEF ExecuteOrder, Typed, SettlerTypeOK
<1>11. mm_balance' \in [Wallet -> [Series -> (0..MaxU64) \cup {NoAccount}]]
  <2>1. Custodied(q.maker, s) \in 0..MaxU64
    BY <1>1, AmountType DEF Custodied, Typed, SettlerTypeOK
  <2>2. Custodied(q.maker, s) + n \in 0..MaxU64
    BY <1>1, <2>1, AmountType DEF ExecuteOrder
  <2> QED
    BY <1>1, <2>2 DEF ExecuteOrder, Typed, SettlerTypeOK
<1>12. vault_mm' = [vault_mm EXCEPT ![v] =
         [maker |-> q.maker, otoken_mint |-> s, remaining_amount |-> n]]
  BY <1>0 DEF ExecuteOrder
<1>13. vault_mm' \in [VaultKey -> VaultMM \cup {NoAccount}]
  <2>1. [maker |-> q.maker, otoken_mint |-> s, remaining_amount |-> n] \in VaultMM
    BY <1>1 DEF VaultMM
  <2> QED
    BY <1>12, <2>1 DEF Typed, SettlerTypeOK
<1>14. rent_reserve' \in Nat
  BY RentsType DEF ExecuteOrder, Typed, SettlerTypeOK
<1>15. sold' \in [Quotes -> Nat] /\ premium_paid' \in [Quotes -> Nat]
  <2>1. n \in Nat /\ Premium(q, n) \in Nat
    BY <1>1, AmountType, PremiumType DEF ExecuteOrder
  <2> QED
    BY <2>1 DEF ExecuteOrder, Typed, SettlerTypeOK
<1>16. SettlerTypeOK'
  BY <1>8, <1>10, <1>11, <1>13, <1>14, <1>15 DEF Typed, SettlerTypeOK
<1>17. CustodyOpened'
  <2>1. mm_balance'[q.maker][s] \in Nat /\ NoAccount \notin Nat
    BY <1>1, WalletType, AmountType DEF ExecuteOrder, Custodied, Typed, SettlerTypeOK
  <2>2. ASSUME NEW w \in VaultKey, w # v, vault_mm'[w] # NoAccount
        PROVE  mm_balance'[vault_mm'[w].maker][vault_mm'[w].otoken_mint] # NoAccount
    <3>1. vault_mm'[w] = vault_mm[w] /\ vault_mm[w] \in VaultMM
      BY <1>12, <2>2 DEF Typed, SettlerTypeOK
    <3>2. vault_mm[w].maker \in Wallet /\ vault_mm[w].otoken_mint \in Series
      BY <3>1 DEF VaultMM
    <3>3. mm_balance[vault_mm[w].maker][vault_mm[w].otoken_mint] # NoAccount
      BY <2>2, <3>1 DEF Typed, CustodyOpened
    <3> QED
      BY <1>1, <2>1, <3>1, <3>2, <3>3 DEF ExecuteOrder, Typed, SettlerTypeOK
  <2>3. vault_mm'[v].maker = q.maker /\ vault_mm'[v].otoken_mint = s
    BY <1>4, <1>12 DEF Typed, SettlerTypeOK
  <2> QED
    BY <2>1, <2>2, <2>3 DEF CustodyOpened
<1> QED
  BY <1>9, <1>16, <1>17 DEF Typed

(***************************************************************************)
(* Redemption of the custody and the emergency exit.                       *)
(***************************************************************************)
LEMMA BurnedType ==
  ASSUME TypeOK, NEW s \in Series, NEW n \in Nat, CanBurn(balance[s], Settler, n)
  PROVE  /\ [balance EXCEPT ![s] = Burned(@, Settler, n)] \in Ledgers
         /\ [balance EXCEPT ![s] = Burned(@, Settler, n)][s] = Burned(balance[s], Settler, n)
         /\ \A t \in Mint \cup Series : t # s =>
              [balance EXCEPT ![s] = Burned(@, Settler, n)][t] = balance[t]
<1>1. balance[s] \in [Account -> Nat] /\ Settler \in Account
  BY WalletType DEF TypeOK
<1>2. Burned(balance[s], Settler, n) \in [Account -> Nat]
  BY <1>1 DEF Burned, CanBurn
<1> QED
  BY <1>2 DEF TypeOK, Ledgers

LEMMA RedeemCustodyLedgers ==
  ASSUME Typed, NEW m \in Wallet, NEW s \in Series, NEW p \in PoolAccount,
         NEW n \in 1..MaxU64, RedeemCustody(m, s, p, n)
  PROVE  /\ balance' \in Ledgers
         /\ balance'[s] = Burned(balance[s], Settler, n)
         /\ \A r \in Series : r # s => balance'[r] = balance[r]
         /\ PayoutOf(s, n) \in Nat
<1> DEFINE c == Terms[s].collateral_mint
           payout == PayoutOf(s, n)
           l1 == [balance EXCEPT ![s] = Burned(@, Settler, n)]
           l2 == Move(l1, c, p, Settler, payout)
           l3 == Move(l2, c, Settler, m, Gained(l2, c))
<1>1. /\ c \in Mint /\ c # s /\ n \in Nat /\ TypeOK
      /\ Settler \in Account /\ m \in Account /\ p \in Account /\ p # Settler
  BY TermsType, AmountType, WalletType, ControllerAssumption DEF Typed, Account
<1>2. CanRedeem(Settler, s, p, n) /\ balance' = l3
  BY DEF RedeemCustody, CanRedeemCustody
<1>3. payout \in Nat
  BY <1>1, <1>2, PayoutIsNat DEF CanRedeem
<1>4. /\ CanBurn(balance[s], Settler, n) /\ balance[c][p] >= payout
  BY <1>2 DEF CanRedeem, CanPayOut, CanTransfer
<1> HIDE DEF payout, l1, l2, l3
<1>5. l1 \in Ledgers /\ l1[s] = Burned(balance[s], Settler, n)
      /\ \A t \in Mint \cup Series : t # s => l1[t] = balance[t]
  BY <1>1, <1>4, BurnedType DEF l1
<1>6. CanMove(l1, c, p, payout)
  BY <1>1, <1>4, <1>5 DEF CanMove, CanTransfer
<1>7. l2 \in Ledgers
  BY <1>1, <1>3, <1>5, <1>6, MoveType DEF l2
<1>8. \A r \in Series : l2[r] = l1[r]
  BY <1>1, <1>5, MoveKeepsSeries DEF l2
<1>9. Gained(l2, c) \in Nat /\ l2[c][Settler] >= Gained(l2, c)
  <2>1. balance[c] \in [Account -> Nat] /\ l1[c] = balance[c] /\ Fee(c) \in {0, 1}
    BY <1>1, <1>5, FeeType DEF TypeOK
  <2>2. CASE payout = 0
    <3>1. l2[c][Settler] = balance[c][Settler] /\ balance[c][Settler] \in Nat
      BY <1>1, <2>1, <2>2 DEF l2, Move
    <3> QED
      BY <3>1 DEF Gained
  <2>3. CASE payout # 0
    <3>1. l2[c] = TransferredLess(l1[c], p, Settler, payout, Fee(c))
      BY <1>1, <1>5, <2>3 DEF l2, Move, Ledgers
    <3>2. l2[c][Settler] = balance[c][Settler] + (payout - Fee(c))
      BY <1>1, <2>1, <3>1 DEF TransferredLess
    <3>3. payout - Fee(c) \in Nat /\ balance[c][Settler] \in Nat
      BY <1>1, <1>3, <2>1, <2>3
    <3> HIDE DEF c
    <3> QED
      BY <3>2, <3>3 DEF Gained
  <2> QED
    BY <2>2, <2>3
<1>10. CanMove(l2, c, Settler, Gained(l2, c))
  BY <1>9 DEF CanMove, CanTransfer
<1>11. l3 \in Ledgers
  BY <1>1, <1>7, <1>9, <1>10, MoveType DEF l3
<1>12. \A r \in Series : l3[r] = l2[r]
  BY <1>1, <1>7, MoveKeepsSeries DEF l3
<1> QED
  BY <1>2, <1>3, <1>5, <1>8, <1>11, <1>12 DEF payout

LEMMA RedeemCustodyTyped ==
  ASSUME Typed, NEW m \in Wallet, NEW s \in Series, NEW p \in PoolAccount,
         NEW n \in 1..MaxU64, RedeemCustody(m, s, p, n)
  PROVE  Typed'
<1>1. balance' \in [Mint \cup Series -> [Account -> Nat]] /\ PayoutOf(s, n) \in Nat
      /\ n \in Nat
  BY RedeemCustodyLedgers, AmountType DEF Ledgers
<1>2. redeemed' \in [Series -> Nat] /\ paid' \in [Series -> Nat]
  BY <1>1 DEF RedeemCustody, Typed, TypeOK
<1>3. UNCHANGED <<accounts, outside, closed_by, settler_config, trading, vault_mm, burned>>
  BY DEF RedeemCustody
<1>4. TypeOK'
  BY <1>1, <1>2, <1>3 DEF Typed, TypeOK, accounts, outside
<1>5. mm_balance[m][s] - n \in 0..MaxU64 /\ NoAccount \notin Nat
  BY <1>1, AmountType, WalletType
  DEF RedeemCustody, CanRedeemCustody, Typed, SettlerTypeOK
<1>6. mm_balance' \in [Wallet -> [Series -> (0..MaxU64) \cup {NoAccount}]]
  BY <1>5 DEF RedeemCustody, Typed, SettlerTypeOK
<1>7. SettlerTypeOK'
  BY <1>3, <1>6 DEF Typed, SettlerTypeOK, trading
<1>8. CustodyOpened'
  <2>1. mm_balance'[m][s] # NoAccount
    BY <1>5, AmountType DEF RedeemCustody, Typed, SettlerTypeOK
  <2>2. \A w \in Wallet, r \in Series :
          mm_balance[w][r] # NoAccount => mm_balance'[w][r] # NoAccount
    BY <2>1 DEF RedeemCustody, Typed, SettlerTypeOK
  <2>3. ASSUME NEW v \in VaultKey, vault_mm[v] # NoAccount
        PROVE  vault_mm[v].maker \in Wallet /\ vault_mm[v].otoken_mint \in Series
    BY <2>3 DEF Typed, SettlerTypeOK, VaultMM
  <2> QED
    BY <1>3, <2>2, <2>3 DEF Typed, CustodyOpened
<1> QED
  BY <1>4, <1>7, <1>8 DEF Typed

\* What an emergency exit burns is custody the maker has.
LEMMA EmergencyBurnType ==
  ASSUME Typed, NEW v \in VaultKey, vault_mm[v] # NoAccount
  PROVE  /\ vault_mm[v] \in VaultMM
         /\ vault_mm[v].maker \in Wallet /\ vault_mm[v].otoken_mint \in Series
         /\ vault_mm[v].remaining_amount \in Nat
         /\ mm_balance[vault_mm[v].maker][vault_mm[v].otoken_mint] \in 0..MaxU64
         /\ mm_balance[vault_mm[v].maker][vault_mm[v].otoken_mint] \in Nat
         /\ EmergencyBurn(v) \in Nat
         /\ EmergencyBurn(v) <= mm_balance[vault_mm[v].maker][vault_mm[v].otoken_mint]
         /\ EmergencyBurn(v) <= vault_mm[v].remaining_amount
<1> DEFINE m == vault_mm[v].maker
           s == vault_mm[v].otoken_mint
<1>1. vault_mm[v] \in VaultMM
  BY DEF Typed, SettlerTypeOK
<1>2. m \in Wallet /\ s \in Series /\ vault_mm[v].remaining_amount \in Nat
  BY <1>1, AmountType DEF VaultMM
<1>3. mm_balance[m][s] # NoAccount
  BY DEF Typed, CustodyOpened
<1>4. mm_balance[m][s] \in 0..MaxU64 /\ mm_balance[m][s] \in Nat
  BY <1>2, <1>3, AmountType DEF Typed, SettlerTypeOK
<1>5. /\ EmergencyBurn(v) \in Nat
      /\ EmergencyBurn(v) <= mm_balance[m][s]
      /\ EmergencyBurn(v) <= vault_mm[v].remaining_amount
  BY <1>2, <1>4 DEF EmergencyBurn
<1> QED
  BY <1>1, <1>2, <1>4, <1>5

LEMMA EmergencyLedgers ==
  ASSUME Typed, NEW u \in Wallet, NEW v \in VaultKey, NEW p \in PoolAccount,
         EmergencyWithdraw(u, v, p)
  PROVE  LET s == vault_mm[v].otoken_mint
         IN /\ balance' \in Ledgers
            /\ balance'[s] = Burned(balance[s], Settler, EmergencyBurn(v))
            /\ \A r \in Series : r # s => balance'[r] = balance[r]
<1> DEFINE s == vault_mm[v].otoken_mint
           c == vault[v].collateral_mint
           burn == EmergencyBurn(v)
           whole == vault[v].collateral_amount
           l1 == [balance EXCEPT ![s] = Burned(@, Settler, burn)]
           l2 == Move(l1, c, p, u, whole)
<1>1. /\ vault[v] \in Vault /\ vault_mm[v] # NoAccount /\ TypeOK
      /\ u \in Account /\ p \in Account
  BY VaultNotNoAccount, WalletType DEF EmergencyWithdraw, Typed, Account
<1>2. c \in Mint /\ whole \in Nat /\ s \in Series /\ burn \in Nat
  BY <1>1, EmergencyBurnType, AmountType DEF Vault
<1>3. /\ CanBurn(balance[s], Settler, burn) /\ balance[c][p] >= whole
      /\ balance' = l2
  BY DEF EmergencyWithdraw, CanEmergencyWithdraw, CanPayOut, CanTransfer
<1> HIDE DEF burn, l1, l2
<1>4. l1 \in Ledgers /\ l1[s] = Burned(balance[s], Settler, burn)
      /\ \A t \in Mint \cup Series : t # s => l1[t] = balance[t]
  BY <1>1, <1>2, <1>3, BurnedType DEF l1
<1>5. c # s
  BY <1>2, ControllerAssumption
<1>6. CanMove(l1, c, p, whole)
  BY <1>2, <1>3, <1>4, <1>5 DEF CanMove, CanTransfer
<1>7. l2 \in Ledgers
  BY <1>1, <1>2, <1>4, <1>6, MoveType DEF l2
<1>8. \A r \in Series : l2[r] = l1[r]
  BY <1>2, <1>4, MoveKeepsSeries DEF l2
<1> QED
  BY <1>2, <1>3, <1>4, <1>7, <1>8 DEF burn

LEMMA EmergencyWithdrawTyped ==
  ASSUME Typed, NEW u \in Wallet, NEW v \in VaultKey, NEW p \in PoolAccount,
         EmergencyWithdraw(u, v, p)
  PROVE  Typed'
<1> DEFINE m == vault_mm[v].maker
           s == vault_mm[v].otoken_mint
           burn == EmergencyBurn(v)
<1>1. /\ vault[v] \in Vault /\ vault_mm[v] # NoAccount
  BY VaultNotNoAccount DEF EmergencyWithdraw, Typed
<1>2. /\ vault_mm[v] \in VaultMM
      /\ m \in Wallet /\ s \in Series /\ burn \in Nat /\ mm_balance[m][s] \in 0..MaxU64
      /\ mm_balance[m][s] \in Nat /\ burn <= mm_balance[m][s]
  BY <1>1, EmergencyBurnType
<1>3. balance' \in [Mint \cup Series -> [Account -> Nat]]
  BY EmergencyLedgers DEF Ledgers
<1>4. [vault[v] EXCEPT !.settled = TRUE] \in Vault
  BY <1>1, ClosedVault
<1>5. vault' \in [VaultKey -> Vault \cup {NoAccount}]
  BY <1>4 DEF EmergencyWithdraw, Typed, TypeOK
<1>6. closed_by' \in [VaultKey ->
        {"none", "settle_vault", "emergency_withdraw_vault"}]
  BY DEF EmergencyWithdraw, Typed, TypeOK
<1>7. UNCHANGED <<config, next_id, expiry_price, outside, redeemed, paid,
                  settler_config, trading>>
  BY DEF EmergencyWithdraw
<1>8. TypeOK'
  BY <1>3, <1>5, <1>6, <1>7 DEF Typed, TypeOK, outside
<1> HIDE DEF burn
<1>9. mm_balance[m][s] - burn \in 0..MaxU64 /\ NoAccount \notin Nat
  BY <1>2, AmountType, WalletType
<1>10. mm_balance' = [mm_balance EXCEPT ![m][s] = @ - burn]
  BY DEF EmergencyWithdraw, burn
<1>11. mm_balance' \in [Wallet -> [Series -> (0..MaxU64) \cup {NoAccount}]]
  BY <1>2, <1>9, <1>10 DEF Typed, SettlerTypeOK
<1>12. vault_mm' = [vault_mm EXCEPT ![v].remaining_amount = 0]
  BY DEF EmergencyWithdraw
<1>13. /\ [vault_mm[v] EXCEPT !.remaining_amount = 0] \in VaultMM
       /\ [vault_mm[v] EXCEPT !.remaining_amount = 0].maker = m
       /\ [vault_mm[v] EXCEPT !.remaining_amount = 0].otoken_mint = s
  BY <1>2, AmountType DEF VaultMM
<1>14. vault_mm' \in [VaultKey -> VaultMM \cup {NoAccount}]
  BY <1>12, <1>13 DEF Typed, SettlerTypeOK
<1>15. burned' \in [Series -> Nat]
  BY <1>2 DEF EmergencyWithdraw, Typed, SettlerTypeOK, burn
<1>16. SettlerTypeOK'
  BY <1>7, <1>11, <1>14, <1>15 DEF Typed, SettlerTypeOK, trading
<1>17. CustodyOpened'
  <2>1. mm_balance'[m][s] # NoAccount
    BY <1>2, <1>9, <1>10, AmountType DEF Typed, SettlerTypeOK
  <2>2. \A w \in Wallet, r \in Series :
          mm_balance[w][r] # NoAccount => mm_balance'[w][r] # NoAccount
    BY <1>10, <2>1 DEF Typed, SettlerTypeOK
  <2>3. ASSUME NEW w \in VaultKey, vault_mm'[w] # NoAccount
        PROVE  /\ vault_mm[w] # NoAccount
               /\ vault_mm'[w].maker = vault_mm[w].maker
               /\ vault_mm'[w].otoken_mint = vault_mm[w].otoken_mint
    <3>1. CASE w = v
      BY <1>1, <1>12, <1>13, <3>1 DEF Typed, SettlerTypeOK
    <3>2. CASE w # v
      BY <1>12, <2>3, <3>2 DEF Typed, SettlerTypeOK
    <3> QED
      BY <3>1, <3>2
  <2>4. ASSUME NEW w \in VaultKey, vault_mm[w] # NoAccount
        PROVE  vault_mm[w].maker \in Wallet /\ vault_mm[w].otoken_mint \in Series
    BY <2>4 DEF Typed, SettlerTypeOK, VaultMM
  <2> QED
    BY <2>2, <2>3, <2>4 DEF Typed, CustodyOpened
<1> QED
  BY <1>8, <1>16, <1>17 DEF Typed

(***************************************************************************)
(* The next-state relation, and type correctness.                          *)
(***************************************************************************)
\* Every step is one of the settler's that writes its accounts, or one of the
\* controller's.
LEMMA BatchSteps ==
  ASSUME [BatchNext]_all_vars
  PROVE  \/ UNCHANGED all_vars
         \/ ControllerNext /\ UNCHANGED settler_vars
         \/ \E k \in Wallet, c \in Settings :
              \/ InitializeSettler(k, c)
              \/ SetTreasury(k, c) \/ SetProtocolFee(k, c) \/ SetOperator(k, c)
              \/ Pause(k, c) \/ SetEscapeDelay(k, c) \/ SetJupiterProgram(k, c)
         \/ \E k \in Wallet : InitVaultCounter(k)
         \/ \E k \in Wallet, rents \in RentWithdrawals : WithdrawRentReserve(k, rents)
         \/ \E k \in Wallet, m \in Makers, flag \in BOOLEAN : WhitelistMaker(k, m, flag)
         \/ \E m \in Wallet : IncrementMakerNonce(m)
         \/ \E m \in Wallet, id \in QuoteId : CancelQuote(m, id)
         \/ \E m \in Wallet, s \in Series, p \in PoolAccount, n \in 1..MaxU64 :
              RedeemCustody(m, s, p, n)
         \/ \E u \in Wallet, q \in Quotes, p \in PoolAccount, n, c \in 1..MaxU64 :
              ExecuteOrder(u, q, p, n, c)
         \/ \E u \in Wallet, v \in VaultKey, p \in PoolAccount :
              EmergencyWithdraw(u, v, p)
         \/ \E k \in Wallet, admin \in Wallet, v \in VaultKey, p \in PoolAccount :
              SettleVaultForMaker(k, admin, v, p)
<1>1. CASE UNCHANGED all_vars
  BY <1>1
<1>2. CASE ControllerNext /\ UNCHANGED settler_vars
  BY <1>2
<1>3. ASSUME NEW k \in Wallet, OwnerSettings(k)
      PROVE  \/ \E c \in Settings :
                  \/ InitializeSettler(k, c)
                  \/ SetTreasury(k, c) \/ SetProtocolFee(k, c) \/ SetOperator(k, c)
                  \/ Pause(k, c) \/ SetEscapeDelay(k, c) \/ SetJupiterProgram(k, c)
             \/ InitVaultCounter(k)
             \/ \E rents \in RentWithdrawals : WithdrawRentReserve(k, rents)
             \/ \E m \in Makers, flag \in BOOLEAN : WhitelistMaker(k, m, flag)
  BY <1>3, Zenon DEF OwnerSettings
<1>4. ASSUME NEW m \in Wallet, MakerNext(m)
      PROVE  \/ IncrementMakerNonce(m)
             \/ \E id \in QuoteId : CancelQuote(m, id)
             \/ \E s \in Series, p \in PoolAccount, n \in 1..MaxU64 :
                  RedeemCustody(m, s, p, n)
  BY <1>4 DEF MakerNext, MMSelfRedeem
<1>5. ASSUME NEW u \in Wallet, UserNext(u)
      PROVE  \/ \E q \in Quotes, p \in PoolAccount, n, c \in 1..MaxU64 :
                  ExecuteOrder(u, q, p, n, c)
             \/ \E v \in VaultKey, p \in PoolAccount : EmergencyWithdraw(u, v, p)
  BY <1>5 DEF UserNext
<1>6. ASSUME NEW k \in Wallet, OperatorNext(k)
      PROVE  \/ \E admin \in Wallet, v \in VaultKey, p \in PoolAccount :
                  SettleVaultForMaker(k, admin, v, p)
             \/ \E m \in Wallet, s \in Series, p \in PoolAccount, n \in 1..MaxU64 :
                  RedeemCustody(m, s, p, n)
  BY <1>6 DEF OperatorNext, RedeemForMM
<1>7. CASE SettlerNext
  BY <1>3, <1>4, <1>5, <1>6, <1>7 DEF SettlerNext
<1> QED
  BY <1>1, <1>2, <1>7 DEF BatchNext

LEMMA NextTyped == Typed /\ [BatchNext]_all_vars => Typed'
<1> SUFFICES ASSUME Typed, [BatchNext]_all_vars PROVE Typed'
  OBVIOUS
<1>1. CASE UNCHANGED all_vars
  BY <1>1, SettlerUntouched DEF all_vars
<1>2. CASE ControllerNext /\ UNCHANGED settler_vars
  BY <1>2, ControllerStep, SettlerUntouched
<1> QED
  BY <1>1, <1>2, BatchSteps, SettersTyped, InitVaultCounterTyped, WithdrawRentTyped,
     WhitelistMakerTyped, IncrementMakerNonceTyped, CancelQuoteTyped,
     RedeemCustodyTyped, ExecuteOrderTyped, EmergencyWithdrawTyped,
     SettleVaultForMakerTyped

\* Type correctness of the settler and the controller together: custody, vault
\* remainders, the rent reserve and every ledger stay natural and in their
\* width, and the settings keep within their limits.
THEOREM SettlerTyping == BatchSpec => [](TypeOK /\ SettlerTypeOK)
<1>1. Typed => TypeOK /\ SettlerTypeOK
  BY DEF Typed
<1> QED
  BY <1>1, InitTyped, NextTyped, PTL DEF BatchSpec

(***************************************************************************)
(* Custody.                                                                *)
(***************************************************************************)
CustodyMap(s) == [m \in Wallet |-> Custodied(m, s)]

LEMMA CustodyNamed ==
  ASSUME NEW s
  PROVE  /\ CustodyOf(s) = Total(CustodyMap(s), Wallet)
         /\ CustodyOf(s)' = Total(CustodyMap(s)', Wallet)
  BY DEF CustodyOf, CustodyMap

LEMMA CustodySummable ==
  ASSUME Typed, NEW s \in Series
  PROVE  /\ \A m \in Wallet : Custodied(m, s) \in Nat
         /\ Summable(CustodyMap(s), Wallet)
         /\ CustodyOf(s) \in Nat
<1>1. \A m \in Wallet : Custodied(m, s) \in Nat
  BY AmountType DEF Custodied, Typed, SettlerTypeOK
<1>2. Summable(CustodyMap(s), Wallet)
  BY <1>1, WalletType DEF CustodyMap, Summable
<1> QED
  BY <1>1, <1>2, TotalIsNat, CustodyNamed

\* A step that changes what one maker has changes the sum by as much.
LEMMA CustodyMoved ==
  ASSUME Typed, NEW s \in Series, NEW m \in Wallet,
         Custodied(m, s)' \in Nat,
         \A w \in Wallet \ {m} : Custodied(w, s)' = Custodied(w, s)
  PROVE  CustodyOf(s)' = CustodyOf(s) - Custodied(m, s) + Custodied(m, s)'
<1>1. Summable(CustodyMap(s), Wallet)
  BY CustodySummable
<1>2. \A w \in Wallet : /\ CustodyMap(s)[w] = Custodied(w, s)
                        /\ CustodyMap(s)'[w] = Custodied(w, s)'
  BY DEF CustodyMap
<1>3. Total(CustodyMap(s)', Wallet)
        = Total(CustodyMap(s), Wallet) - CustodyMap(s)[m] + CustodyMap(s)'[m]
  BY <1>1, <1>2, TotalChanged
<1> QED
  BY <1>2, <1>3, CustodyNamed

LEMMA CustodySame ==
  ASSUME NEW s, \A w \in Wallet : Custodied(w, s)' = Custodied(w, s)
  PROVE  CustodyOf(s)' = CustodyOf(s)
<1>1. CustodyMap(s)' = CustodyMap(s)
  BY DEF CustodyMap
<1> QED
  BY <1>1, CustodyNamed

Covered(s) == balance[s][Settler] >= CustodyOf(s)

\* Nobody but this program moves the settler's oTokens: the controller's
\* instructions are signed by wallets.
LEMMA DirectWriters ==
  ASSUME ControllerNext
  PROVE  \/ balance' = balance
         \/ \E k \in Key, id \in VaultId, p \in PoolAccount, n \in 1..MaxU64 :
              DepositCollateral(k, id, p, n)
         \/ \E k, d \in Key, id \in VaultId, r \in Series, n \in 1..MaxU64 :
              MintOtoken(k, id, r, d, n)
         \/ \E k \in Key, v \in VaultKey, p \in PoolAccount : SettleVault(k, v, p)
         \/ \E k \in Key, id \in VaultId, p \in PoolAccount :
              EmergencyWithdrawVault(k, id, p)
         \/ \E k \in Wallet, r \in Series, p \in PoolAccount, n \in 1..MaxU64 :
              Redeem(k, r, p, n)
         \/ \E t \in Transferable, from \in Wallet, to \in Account, n \in 1..MaxU64 :
              TransferTokens(t, from, to, n)
<1>1. Wallet \subseteq Key /\ DirectUsers \subseteq Wallet
  BY WalletType
<1> QED
  BY <1>1 DEF ControllerNext, AdminNext, OwnerNext, MintNext, HolderNext, SeriesNext,
     ChainNext, Initialize, InitializeCounter, SetPartialPauser, SetPartiallyPaused,
     SetFullyPaused, CreateOTokenInfo, SetExpiryPrice, WhitelistOtoken,
     FinalizeOraclePrice, OpenVault, TurnFeeOn, Tick

LEMMA DepositElsewhere ==
  ASSUME TypeOK, NEW s \in Series, NEW k \in Key, NEW id \in VaultId,
         NEW p \in PoolAccount, NEW n \in 1..MaxU64, DepositCollateral(k, id, p, n)
  PROVE  balance'[s] = balance[s]
<1>1. <<k, id>> \in VaultKey /\ vault[<<k, id>>].collateral_mint \in Mint
  BY VaultNotNoAccount DEF DepositCollateral, VaultKey, Vault
<1>2. s \notin Mint
  BY ControllerAssumption
<1> QED
  BY <1>1, <1>2 DEF DepositCollateral, TypeOK

LEMMA ClosingElsewhere ==
  ASSUME TypeOK, NEW s \in Series, NEW v \in VaultKey, Exists(v), NEW l,
         balance' = [balance EXCEPT ![vault[v].collateral_mint] = l]
  PROVE  balance'[s] = balance[s]
<1>1. vault[v].collateral_mint \in Mint
  BY VaultNotNoAccount DEF Vault
<1>2. s \notin Mint
  BY ControllerAssumption
<1> QED
  BY <1>1, <1>2 DEF TypeOK

LEMMA DirectKeepsCustody ==
  ASSUME TypeOK, ControllerNext, NEW s \in Series
  PROVE  balance'[s][Settler] >= balance[s][Settler]
<1> DEFINE Kept == balance'[s][Settler] >= balance[s][Settler]
<1>1. /\ balance[s] \in [Account -> Nat] /\ Settler \in Account
      /\ balance[s][Settler] \in Nat /\ s \notin Mint
      /\ balance[s][Settler] >= balance[s][Settler]
  BY WalletType, ControllerAssumption DEF TypeOK
<1>2. CASE balance'[s] = balance[s]
  BY <1>1, <1>2
<1>3. ASSUME NEW k \in Key, NEW d \in Key, NEW id \in VaultId, NEW r \in Series,
             NEW n \in 1..MaxU64, MintOtoken(k, id, r, d, n)
      PROVE  Kept
  <2>1. n \in Nat
    BY AmountType
  <2>2. balance' = [balance EXCEPT ![r] = Minted(@, d, n)]
    BY <1>3 DEF MintOtoken
  <2>3. CASE r # s
    BY <1>1, <2>2, <2>3 DEF TypeOK
  <2>4. CASE r = s
    <3>1. balance'[s] = [balance[s] EXCEPT ![d] = @ + n]
      BY <2>2, <2>4 DEF TypeOK, Minted
    <3> QED
      BY <1>1, <2>1, <3>1
  <2> QED
    BY <2>3, <2>4
<1>4. ASSUME NEW k \in Wallet, NEW r \in Series, NEW p \in PoolAccount,
             NEW n \in 1..MaxU64, Redeem(k, r, p, n)
      PROVE  Kept
  <2>1. Terms[r].collateral_mint \in Mint /\ k \in Account /\ k # Settler
    BY TermsType, WalletType
  <2>2. CASE r # s
    <3>1. balance'[s] = balance[s]
      BY <1>1, <1>4, <2>1, <2>2 DEF Redeem, TypeOK
    <3> QED
      BY <1>1, <3>1
  <2>3. CASE r = s
    <3>1. balance'[s] = Burned(balance[s], k, n)
      BY <1>1, <1>4, <2>1, <2>3 DEF Redeem, TypeOK
    <3>2. balance'[s][Settler] = balance[s][Settler]
      BY <1>1, <2>1, <3>1 DEF Burned
    <3> QED
      BY <1>1, <3>2
  <2> QED
    BY <2>2, <2>3
<1>5. ASSUME NEW t \in Transferable, NEW from \in Wallet, NEW to \in Account,
             NEW n \in 1..MaxU64, TransferTokens(t, from, to, n)
      PROVE  Kept
  <2>1. /\ from \in Account /\ from # Settler /\ n \in Nat /\ n >= 1 /\ t \in Mint \cup Series
    BY WalletType, AmountType, ControllerAssumption
  <2>2. balance' = [balance EXCEPT ![t] = TransferredLess(@, from, to, n, Fee(t))]
    BY <1>5 DEF TransferTokens
  <2>3. CASE t # s
    BY <1>1, <2>2, <2>3 DEF TypeOK
  <2>4. CASE t = s
    <3>1. balance'[s] = TransferredLess(balance[s], from, to, n, Fee(t))
      BY <2>2, <2>4 DEF TypeOK
    <3>2. Fee(t) \in {0, 1}
      BY FeeType
    <3>3. CASE to = Settler
      <4>1. balance'[s][Settler] = balance[s][Settler] + (n - Fee(t))
        BY <1>1, <2>1, <3>1, <3>3 DEF TransferredLess
      <4> QED
        BY <1>1, <2>1, <3>2, <4>1
    <3>4. CASE to # Settler
      <4>1. balance'[s][Settler] = balance[s][Settler]
        BY <1>1, <2>1, <3>1, <3>4 DEF TransferredLess
      <4> QED
        BY <1>1, <4>1
    <3> QED
      BY <3>3, <3>4
  <2> QED
    BY <2>3, <2>4
<1>6. ASSUME NEW k \in Key, NEW id \in VaultId, NEW p \in PoolAccount,
             NEW n \in 1..MaxU64, DepositCollateral(k, id, p, n)
      PROVE  balance'[s] = balance[s]
  BY <1>6, DepositElsewhere
<1>7. ASSUME NEW k \in Key, NEW v \in VaultKey, NEW p \in PoolAccount,
             SettleVault(k, v, p)
      PROVE  balance'[s] = balance[s]
  BY <1>7, ClosingElsewhere DEF SettleVault
<1>8. ASSUME NEW k \in Key, NEW id \in VaultId, NEW p \in PoolAccount,
             EmergencyWithdrawVault(k, id, p)
      PROVE  balance'[s] = balance[s]
  <2>1. <<k, id>> \in VaultKey
    BY DEF VaultKey
  <2> QED
    BY <1>8, <2>1, ClosingElsewhere DEF EmergencyWithdrawVault, CanEmergencyWithdraw
<1> QED
  BY <1>2, <1>3, <1>4, <1>5, <1>6, <1>7, <1>8, DirectWriters

LEMMA OrderCovers ==
  ASSUME Typed, NEW r \in Series, Covered(r), NEW user \in Wallet, NEW q \in Quotes,
         NEW p \in PoolAccount, NEW n \in 1..MaxU64, NEW c \in 1..MaxU64,
         ExecuteOrder(user, q, p, n, c)
  PROVE  Covered(r)'
<1> DEFINE s == q.otoken_mint
<1>1. /\ s \in Series /\ q.maker \in Wallet /\ n \in Nat /\ Settler \in Account
      /\ balance[s] \in [Account -> Nat] /\ NoAccount \notin Nat
      /\ Custodied(q.maker, s) \in Nat /\ CustodyOf(s) \in Nat
  BY QuoteType, AmountType, WalletType, CustodySummable DEF Typed, TypeOK
<1>2. /\ balance'[s] = Minted(balance[s], Settler, n)
      /\ \A x \in Series : x # s => balance'[x] = balance[x]
  BY OrderLedgers
<1>3. mm_balance' = [mm_balance EXCEPT ![q.maker][s] = Custodied(q.maker, s) + n]
  BY DEF ExecuteOrder
<1>4. CASE r # s
  <2>1. \A w \in Wallet : Custodied(w, r)' = Custodied(w, r)
    BY <1>1, <1>3, <1>4 DEF Custodied, Typed, SettlerTypeOK
  <2>2. CustodyOf(r)' = CustodyOf(r)
    BY <2>1, CustodySame
  <2> QED
    BY <1>2, <1>4, <2>2 DEF Covered
<1>5. CASE r = s
  <2>1. mm_balance'[q.maker][s] = Custodied(q.maker, s) + n
    BY <1>1, <1>3 DEF Typed, SettlerTypeOK
  <2>2. Custodied(q.maker, s)' = Custodied(q.maker, s) + n
    BY <1>1, <2>1 DEF Custodied
  <2>3. \A w \in Wallet \ {q.maker} : Custodied(w, s)' = Custodied(w, s)
    BY <1>1, <1>3 DEF Custodied, Typed, SettlerTypeOK
  <2>4. CustodyOf(s)' = CustodyOf(s) - Custodied(q.maker, s) + Custodied(q.maker, s)'
    BY <1>1, <2>2, <2>3, CustodyMoved
  <2>5. balance'[s][Settler] = balance[s][Settler] + n
    BY <1>1, <1>2 DEF Minted
  <2> QED
    BY <1>1, <1>5, <2>2, <2>4, <2>5 DEF Covered
<1> QED
  BY <1>4, <1>5

\* What leaves the settler's account with a burn, leaves a maker's balance.
LEMMA BurnCovers ==
  ASSUME Typed, NEW r \in Series, Covered(r), NEW m \in Wallet, NEW s \in Series,
         NEW n \in Nat, mm_balance[m][s] \in Nat, n <= mm_balance[m][s],
         mm_balance' = [mm_balance EXCEPT ![m][s] = @ - n],
         balance'[s] = Burned(balance[s], Settler, n),
         \A x \in Series : x # s => balance'[x] = balance[x]
  PROVE  Covered(r)'
<1>1. /\ balance[s] \in [Account -> Nat] /\ Settler \in Account /\ NoAccount \notin Nat
      /\ CustodyOf(s) \in Nat
  BY WalletType, CustodySummable DEF Typed, TypeOK
<1>2. CASE r # s
  <2>1. \A w \in Wallet : Custodied(w, r)' = Custodied(w, r)
    BY <1>2 DEF Custodied, Typed, SettlerTypeOK
  <2>2. CustodyOf(r)' = CustodyOf(r)
    BY <2>1, CustodySame
  <2> QED
    BY <1>2, <2>2 DEF Covered
<1>3. CASE r = s
  <2>1. mm_balance'[m][s] = mm_balance[m][s] - n
    BY DEF Typed, SettlerTypeOK
  <2>2. Custodied(m, s)' = mm_balance[m][s] - n /\ Custodied(m, s) = mm_balance[m][s]
    BY <1>1, <2>1 DEF Custodied
  <2>3. \A w \in Wallet \ {m} : Custodied(w, s)' = Custodied(w, s)
    BY DEF Custodied, Typed, SettlerTypeOK
  <2>4. CustodyOf(s)' = CustodyOf(s) - Custodied(m, s) + Custodied(m, s)'
    BY <2>2, <2>3, CustodyMoved
  <2>5. balance'[s][Settler] = balance[s][Settler] - n
    BY <1>1 DEF Burned
  <2> QED
    BY <1>1, <1>3, <2>2, <2>4, <2>5 DEF Covered
<1> QED
  BY <1>2, <1>3

LEMMA RedeemCustodyCovers ==
  ASSUME Typed, NEW r \in Series, Covered(r), NEW m \in Wallet, NEW s \in Series,
         NEW p \in PoolAccount, NEW n \in 1..MaxU64, RedeemCustody(m, s, p, n)
  PROVE  Covered(r)'
<1>1. /\ mm_balance[m][s] # NoAccount /\ n <= mm_balance[m][s]
      /\ mm_balance' = [mm_balance EXCEPT ![m][s] = @ - n]
  BY DEF RedeemCustody, CanRedeemCustody
<1>2. mm_balance[m][s] \in Nat /\ n \in Nat
  BY <1>1, AmountType DEF Typed, SettlerTypeOK
<1>3. /\ balance'[s] = Burned(balance[s], Settler, n)
      /\ \A x \in Series : x # s => balance'[x] = balance[x]
  BY RedeemCustodyLedgers
<1> QED
  BY <1>1, <1>2, <1>3, BurnCovers

LEMMA EmergencyCovers ==
  ASSUME Typed, NEW r \in Series, Covered(r), NEW u \in Wallet, NEW v \in VaultKey,
         NEW p \in PoolAccount, EmergencyWithdraw(u, v, p)
  PROVE  Covered(r)'
<1>0. PICK m : m = vault_mm[v].maker
  OBVIOUS
<1>1. PICK s : s = vault_mm[v].otoken_mint
  OBVIOUS
<1>2. PICK n : n = EmergencyBurn(v)
  OBVIOUS
<1>3. vault_mm[v] # NoAccount
  BY DEF EmergencyWithdraw
<1>4. m \in Wallet /\ s \in Series /\ n \in Nat /\ mm_balance[m][s] \in Nat
      /\ n <= mm_balance[m][s]
  BY <1>0, <1>1, <1>2, <1>3, EmergencyBurnType
<1>5. mm_balance' = [mm_balance EXCEPT ![m][s] = @ - n]
  BY <1>0, <1>1, <1>2 DEF EmergencyWithdraw
<1>6. /\ balance'[s] = Burned(balance[s], Settler, n)
      /\ \A x \in Series : x # s => balance'[x] = balance[x]
  BY <1>1, <1>2, EmergencyLedgers
<1> QED
  BY <1>4, <1>5, <1>6, BurnCovers

\* The steps that write no custody and take nothing out of the settler's
\* accounts.
LEMMA KeepsCovered ==
  ASSUME NEW s \in Series, Covered(s), Typed, Typed', UNCHANGED mm_balance,
         balance'[s][Settler] >= balance[s][Settler]
  PROVE  Covered(s)'
<1>1. CustodyOf(s)' = CustodyOf(s)
  BY CustodySame DEF Custodied
<1>2. /\ CustodyOf(s) \in Nat /\ balance[s][Settler] \in Nat /\ balance'[s][Settler] \in Nat
  BY CustodySummable, WalletType DEF Typed, TypeOK
<1> QED
  BY <1>1, <1>2 DEF Covered

LEMMA SameCovered ==
  ASSUME NEW s \in Series, Covered(s), UNCHANGED <<mm_balance, balance>>
  PROVE  Covered(s)'
<1>1. CustodyOf(s)' = CustodyOf(s)
  BY CustodySame DEF Custodied
<1> QED
  BY <1>1 DEF Covered

LEMMA NextCovered ==
  Typed /\ CustodyCovers /\ [BatchNext]_all_vars => CustodyCovers'
<1> SUFFICES ASSUME Typed, CustodyCovers, [BatchNext]_all_vars, NEW s \in Series
             PROVE  Covered(s)'
  BY DEF CustodyCovers, Covered
<1>1. Covered(s) /\ Typed'
  BY NextTyped DEF CustodyCovers, Covered
<1>2. CASE UNCHANGED all_vars
  BY <1>1, <1>2, SameCovered DEF all_vars, vars, settler_vars, custody
<1>3. CASE ControllerNext /\ UNCHANGED settler_vars
  BY <1>1, <1>3, KeepsCovered, DirectKeepsCustody DEF Typed, settler_vars, custody
<1>4. ASSUME NEW k \in Wallet, NEW c \in Settings,
             \/ InitializeSettler(k, c)
             \/ SetTreasury(k, c) \/ SetProtocolFee(k, c) \/ SetOperator(k, c)
             \/ Pause(k, c) \/ SetEscapeDelay(k, c) \/ SetJupiterProgram(k, c)
      PROVE  Covered(s)'
  <2>1. UNCHANGED <<vars, trading, custody, burned>>
    BY <1>4 DEF InitializeSettler, SetTreasury, SetProtocolFee, SetOperator, Pause,
       SetEscapeDelay, SetJupiterProgram, SetConfig
  <2> QED
    BY <1>1, <2>1, SameCovered DEF vars, custody
<1>5. ASSUME NEW k \in Wallet, InitVaultCounter(k) PROVE Covered(s)'
  BY <1>1, <1>5, SameCovered DEF InitVaultCounter, InitializeCounter, settler_vars, custody
<1>6. ASSUME NEW k \in Wallet, NEW rents \in RentWithdrawals, WithdrawRentReserve(k, rents)
      PROVE  Covered(s)'
  BY <1>1, <1>6, SameCovered DEF WithdrawRentReserve, vars, custody
<1>7. ASSUME NEW k \in Wallet, NEW m \in Makers, NEW flag \in BOOLEAN,
             WhitelistMaker(k, m, flag)
      PROVE  Covered(s)'
  BY <1>1, <1>7, SameCovered DEF WhitelistMaker, vars, custody
<1>8. ASSUME NEW m \in Wallet, IncrementMakerNonce(m) PROVE Covered(s)'
  BY <1>1, <1>8, SameCovered DEF IncrementMakerNonce, vars, custody
<1>9. ASSUME NEW m \in Wallet, NEW id \in QuoteId, CancelQuote(m, id) PROVE Covered(s)'
  BY <1>1, <1>9, SameCovered DEF CancelQuote, vars, custody
<1>10. ASSUME NEW k \in Wallet, NEW admin \in Wallet, NEW v \in VaultKey,
              NEW p \in PoolAccount, SettleVaultForMaker(k, admin, v, p)
       PROVE  Covered(s)'
  <2>1. balance'[s] = balance[s]
    BY <1>10, ClosingElsewhere DEF SettleVaultForMaker, SettleVault, Typed
  <2>2. balance[s][Settler] \in Nat
    BY WalletType DEF Typed, TypeOK
  <2>3. balance'[s][Settler] >= balance[s][Settler]
    BY <2>1, <2>2
  <2> QED
    BY <1>1, <1>10, <2>3, KeepsCovered DEF SettleVaultForMaker, settler_vars, custody
<1> QED
  BY <1>1, <1>2, <1>3, <1>4, <1>5, <1>6, <1>7, <1>8, <1>9, <1>10, BatchSteps,
     OrderCovers, RedeemCustodyCovers, EmergencyCovers

LEMMA InitCovered == BatchInit => CustodyCovers
<1> SUFFICES ASSUME BatchInit, NEW s \in Series
             PROVE  balance[s][Settler] >= CustodyOf(s)
  BY DEF CustodyCovers
<1>1. \A m \in Wallet : Custodied(m, s) = 0
  BY DEF BatchInit, SettlerInit, Custodied
<1>2. Units(CustodyMap(s), Wallet) = {}
  BY <1>1 DEF Units, CustodyMap
<1>3. CustodyOf(s) = 0
  BY <1>2, CustodyNamed, FS_EmptySet DEF Total
<1>4. balance[s][Settler] \in Nat
  BY InitTyped, WalletType DEF Typed, TypeOK
<1> QED
  BY <1>3, <1>4

\* The settler's oToken account always holds what the ledger owes its makers
\* together: orders, redemptions by anyone and emergency exits of any vault
\* keep it, and no wallet can take from it past the settler.
THEOREM CustodyTheorem == BatchSpec => []CustodyCovers
<1>1. Typed /\ CustodyCovers /\ [BatchNext]_all_vars => Typed' /\ CustodyCovers'
  BY NextTyped, NextCovered
<1> QED
  BY <1>1, InitTyped, InitCovered, PTL DEF BatchSpec

(***************************************************************************)
(* Quotes.                                                                 *)
(***************************************************************************)
\* A set of naturals with a bound has a largest member.
LEMMA BoundedHasMax ==
  ASSUME NEW N \in Nat, NEW S \in SUBSET (0..N)
  PROVE  \E n \in S \cup {0} : \A o \in S : o <= n
<1> DEFINE Above(n) == {o \in S : o > n}
           R == StrictSubsetOrdering(S)
           T == {Above(n) : n \in S}
<1>1. CASE S = {}
  BY <1>1
<1>2. CASE S # {}
  <2>1. IsFiniteSet(S)
    <3>1. IsFiniteSet(0..N)
      BY FS_Interval
    <3> QED
      BY <3>1, FS_Subset
  <2>2. IsWellFoundedOn(R, SUBSET S)
    BY <2>1, FS_StrictSubsetOrderingWellFounded, FS_FiniteSubsetsOfFinite
  <2>3. T \subseteq SUBSET S /\ T # {}
    BY <1>2
  <2> HIDE DEF R, T
  <2>4. PICK t \in T : \A u \in T : <<u, t>> \notin R
    BY <2>2, <2>3, WFMin
  <2>5. PICK n \in S : t = Above(n)
    BY DEF T
  <2>6. ASSUME NEW o \in S, ~(o <= n)
        PROVE  FALSE
    <3>1. o \in Above(n) /\ o \notin Above(o) /\ Above(o) \in T
      BY <2>6 DEF T
    <3>2. Above(o) \subseteq Above(n)
      <4>1. ASSUME NEW x \in S, x > o PROVE x > n
        <5>1. x \in Int /\ o \in Int /\ n \in Int
          OBVIOUS
        <5> QED
          BY <2>6, <4>1, <5>1
      <4> QED
        BY <4>1
    <3>3. Above(o) \in SUBSET S /\ Above(n) \in SUBSET S /\ Above(o) # Above(n)
      BY <3>1
    <3> HIDE DEF Above
    <3>4. <<Above(o), Above(n)>> \in R
      BY <3>2, <3>3 DEF R, StrictSubsetOrdering
    <3> QED
      BY <2>4, <2>5, <3>1, <3>4
  <2> QED
    BY <2>6
<1> QED
  BY <1>1, <1>2

LEMMA LimitHolds ==
  ASSUME NEW q \in Quotes
  PROVE  LimitOf(FillOf(q)) \in Nat /\ q.max_amount <= LimitOf(FillOf(q))
<1> DEFINE offered == {r.max_amount : r \in {p \in Quotes : FillOf(p) = FillOf(q)}}
<1>1. offered \in SUBSET (0..MaxU64) /\ q.max_amount \in offered
  BY QuoteType
<1>2. MaxU64 \in Nat
  BY AmountType
<1>3. \E n \in offered \cup {0} : \A o \in offered : o <= n
  BY <1>1, <1>2, BoundedHasMax
<1>4. LimitOf(FillOf(q)) = CHOOSE n \in offered \cup {0} : \A o \in offered : o <= n
  BY DEF LimitOf
<1> HIDE DEF offered
<1>5. /\ LimitOf(FillOf(q)) \in offered \cup {0}
      /\ \A o \in offered : o <= LimitOf(FillOf(q))
  BY <1>3, <1>4
<1>6. LimitOf(FillOf(q)) \in 0..MaxU64
  <2>1. PICK n : n = LimitOf(FillOf(q))
    OBVIOUS
  <2>2. 0 \in 0..MaxU64
    BY <1>2
  <2>3. offered \subseteq 0..MaxU64 /\ n \in offered \cup {0}
    BY <1>1, <1>5, <2>1
  <2>4. n \in 0..MaxU64
    BY <2>2, <2>3
  <2> QED
    BY <2>1, <2>4
<1>7. q.max_amount <= LimitOf(FillOf(q))
  BY <1>1, <1>5
<1> QED
  BY <1>2, <1>6, <1>7

\* The instructions that write a fill account, a maker or what was sold.
TradeSame ==
  UNCHANGED <<maker_state, quote_fill, sold, premium_paid>>

LEMMA TradeWriters ==
  ASSUME [BatchNext]_all_vars
  PROVE  \/ TradeSame
         \/ \E k \in Wallet, m \in Makers, flag \in BOOLEAN : WhitelistMaker(k, m, flag)
         \/ \E m \in Wallet : IncrementMakerNonce(m)
         \/ \E m \in Wallet, id \in QuoteId : CancelQuote(m, id)
         \/ \E u \in Wallet, q \in Quotes, p \in PoolAccount, n, c \in 1..MaxU64 :
              ExecuteOrder(u, q, p, n, c)
<1>1. CASE UNCHANGED all_vars
  BY <1>1 DEF TradeSame, all_vars, settler_vars, trading
<1>2. CASE UNCHANGED settler_vars
  BY <1>2 DEF TradeSame, settler_vars, trading
<1>3. ASSUME NEW k \in Wallet, NEW c \in Settings,
             \/ InitializeSettler(k, c)
             \/ SetTreasury(k, c) \/ SetProtocolFee(k, c) \/ SetOperator(k, c)
             \/ Pause(k, c) \/ SetEscapeDelay(k, c) \/ SetJupiterProgram(k, c)
      PROVE  TradeSame
  BY <1>3 DEF TradeSame, trading, InitializeSettler, SetTreasury, SetProtocolFee,
     SetOperator, Pause, SetEscapeDelay, SetJupiterProgram, SetConfig
<1>4. ASSUME NEW k \in Wallet, InitVaultCounter(k) PROVE TradeSame
  BY <1>4 DEF TradeSame, InitVaultCounter, settler_vars, trading
<1>5. ASSUME NEW k \in Wallet, NEW rents \in RentWithdrawals, WithdrawRentReserve(k, rents)
      PROVE  TradeSame
  BY <1>5 DEF TradeSame, WithdrawRentReserve
<1>6. ASSUME NEW m \in Wallet, NEW s \in Series, NEW p \in PoolAccount,
             NEW n \in 1..MaxU64, RedeemCustody(m, s, p, n)
      PROVE  TradeSame
  BY <1>6 DEF TradeSame, RedeemCustody, trading
<1>7. ASSUME NEW u \in Wallet, NEW v \in VaultKey, NEW p \in PoolAccount,
             EmergencyWithdraw(u, v, p)
      PROVE  TradeSame
  BY <1>7 DEF TradeSame, EmergencyWithdraw, trading
<1>8. ASSUME NEW k \in Wallet, NEW admin \in Wallet, NEW v \in VaultKey,
             NEW p \in PoolAccount, SettleVaultForMaker(k, admin, v, p)
      PROVE  TradeSame
  BY <1>8 DEF TradeSame, SettleVaultForMaker, settler_vars, trading
<1> HIDE DEF TradeSame
<1> QED
  BY <1>1, <1>2, <1>3, <1>4, <1>5, <1>6, <1>7, <1>8, BatchSteps

\* What an order does to the fill it is made under.
LEMMA OrderFills ==
  ASSUME Typed, NEW user \in Wallet, NEW q \in Quotes, NEW p \in PoolAccount,
         NEW n \in 1..MaxU64, NEW c \in 1..MaxU64, ExecuteOrder(user, q, p, n, c)
  PROVE  LET f == FillOf(q)
         IN /\ f \in FillKey /\ n \in Nat /\ n >= 1
            /\ FilledSoFar(f) \in Nat
            /\ FilledSoFar(f)' = FilledSoFar(f) + n
            /\ FilledSoFar(f) + n <= q.max_amount
            /\ ~Cancelled(f) /\ ~Cancelled(f)'
            /\ \A g \in FillKey \ {f} :
                 FilledSoFar(g)' = FilledSoFar(g) /\ Cancelled(g)' = Cancelled(g)
            /\ maker_state' = maker_state
            /\ maker_state[f[1]] # NoAccount /\ maker_state[f[1]].nonce = f[2]
<1> DEFINE f == FillOf(q)
<1>1. /\ f \in FillKey /\ n \in Nat /\ n >= 1 /\ FilledSoFar(f) \in Nat
      /\ f[1] = q.maker /\ f[2] = q.nonce
  BY QuoteType, AmountType, FilledType
<1>2. /\ ~Cancelled(f) /\ FilledSoFar(f) + n <= q.max_amount
      /\ maker_state' = maker_state
      /\ maker_state[q.maker] # NoAccount /\ maker_state[q.maker].nonce = q.nonce
  BY DEF ExecuteOrder, CanFill, Accepts
<1>3. quote_fill' = [quote_fill EXCEPT ![f] = Filled(q, n)]
  BY DEF ExecuteOrder
<1>4. /\ Filled(q, n) # NoAccount
      /\ Filled(q, n).filled_amount = FilledSoFar(f) + n
      /\ Filled(q, n).cancelled = FALSE
  <2>1. q.max_amount \in 0..MaxU64
    BY QuoteType
  <2>2. FilledSoFar(f) + n \in 0..MaxU64
    BY <1>1, <1>2, <2>1, AmountType
  <2>3. Filled(q, n) \in QuoteFill
    BY <2>2 DEF Filled, QuoteFill
  <2>4. Filled(q, n) # NoAccount
    BY <2>3, SettlerAccountAssumption
  <2> QED
    BY <2>4 DEF Filled
<1>5. quote_fill'[f] = Filled(q, n)
  BY <1>1, <1>3 DEF Typed, SettlerTypeOK
<1>6. \A g \in FillKey \ {f} : quote_fill'[g] = quote_fill[g]
  BY <1>3 DEF Typed, SettlerTypeOK
<1> HIDE DEF f
<1>7. FilledSoFar(f)' = FilledSoFar(f) + n
  <2>1. FilledSoFar(f)' = quote_fill'[f].filled_amount
    BY <1>4, <1>5 DEF FilledSoFar
  <2> QED
    BY <1>4, <1>5, <2>1
<1>8. ~Cancelled(f)'
  BY <1>4, <1>5 DEF Cancelled
<1>9. \A g \in FillKey \ {f} :
        FilledSoFar(g)' = FilledSoFar(g) /\ Cancelled(g)' = Cancelled(g)
  BY <1>6 DEF FilledSoFar, Cancelled
<1> QED
  BY <1>1, <1>2, <1>7, <1>8, <1>9 DEF f

\* A cancellation leaves what was filled.
LEMMA CancelKeepsFills ==
  ASSUME Typed, NEW m \in Wallet, NEW id \in QuoteId, CancelQuote(m, id)
  PROVE  \A g \in FillKey :
           /\ FilledSoFar(g)' = FilledSoFar(g)
           /\ Cancelled(g) => Cancelled(g)'
<1>1. PICK f : f = <<m, maker_state[m].nonce, id>>
  OBVIOUS
<1>2. maker_state[m] \in MakerState
  BY DEF CancelQuote, Typed, SettlerTypeOK
<1>3. f \in FillKey
  BY <1>1, <1>2 DEF FillKey, MakerState
<1>4. PICK a : a = [filled_amount |-> FilledSoFar(f), cancelled |-> TRUE]
  OBVIOUS
<1>5. quote_fill' = [quote_fill EXCEPT ![f] = a]
  BY <1>1, <1>4 DEF CancelQuote
<1>6. a # NoAccount /\ a.filled_amount = FilledSoFar(f) /\ a.cancelled
  <2>1. a \in QuoteFill
    BY <1>3, <1>4, FilledType DEF QuoteFill
  <2> QED
    BY <1>4, <2>1, SettlerAccountAssumption
<1>7. quote_fill'[f] = a
  BY <1>3, <1>5 DEF Typed, SettlerTypeOK
<1>8. \A g \in FillKey \ {f} : quote_fill'[g] = quote_fill[g]
  BY <1>5 DEF Typed, SettlerTypeOK
<1>9. FilledSoFar(f)' = FilledSoFar(f) /\ Cancelled(f)'
  <2>1. FilledSoFar(f)' = quote_fill'[f].filled_amount
    BY <1>6, <1>7 DEF FilledSoFar
  <2>2. Cancelled(f)'
    BY <1>6, <1>7 DEF Cancelled
  <2> QED
    BY <1>6, <1>7, <2>1, <2>2
<1>10. \A g \in FillKey \ {f} :
         FilledSoFar(g)' = FilledSoFar(g) /\ Cancelled(g)' = Cancelled(g)
  BY <1>8 DEF FilledSoFar, Cancelled
<1> QED
  BY <1>9, <1>10

(***************************************************************************)
(* Partial fills keep every quote they are made under.                     *)
(***************************************************************************)
QuotesOf(f) == {q \in Quotes : FillOf(q) = f}
FillKept(f) == FilledSoFar(f) = Total(sold, QuotesOf(f))
PaidWithin(q) == premium_paid[q] * PriceScale <= sold[q] * q.bid_price

FillsKept ==
  /\ \A f \in FillKey : FillKept(f)
  /\ \A q \in Quotes : sold[q] <= q.max_amount /\ PaidWithin(q)

LEMMA HonouredByParts == FillsKept <=> QuotesHonoured
  BY DEF FillsKept, QuotesHonoured, FillKept, QuotesOf, PaidWithin

LEMMA SoldSummable ==
  ASSUME Typed, NEW f
  PROVE  Summable(sold, QuotesOf(f)) /\ \A q \in Quotes : sold[q] \in Nat
<1>1. IsFiniteSet(QuotesOf(f))
  BY SettlerAssumption, FS_Subset DEF QuotesOf
<1>2. \A q \in Quotes : sold[q] \in Nat
  BY DEF Typed, SettlerTypeOK
<1> QED
  BY <1>1, <1>2 DEF Summable, QuotesOf

LEMMA KeepsFills ==
  ASSUME FillsKept, UNCHANGED <<sold, premium_paid>>,
         \A f \in FillKey : FilledSoFar(f)' = FilledSoFar(f)
  PROVE  FillsKept'
<1>1. ASSUME NEW f \in FillKey PROVE FillKept(f)'
  BY DEF FillsKept, FillKept, QuotesOf
<1>2. ASSUME NEW q \in Quotes PROVE (sold[q] <= q.max_amount /\ PaidWithin(q))'
  BY DEF FillsKept, PaidWithin
<1> QED
  BY <1>1, <1>2 DEF FillsKept

\* Premiums are rounded down, one order at a time.
LEMMA PremiumBound ==
  ASSUME NEW paid0 \in Nat, NEW sold0 \in Nat, NEW n \in Nat, NEW bid \in Nat,
         NEW scale \in Nat, scale > 0, paid0 * scale <= sold0 * bid
  PROVE  (paid0 + (n * bid) \div scale) * scale <= (sold0 + n) * bid
<1> DEFINE x == (n * bid) \div scale
<1>1. n * bid \in Nat
  BY TimesIsNat
<1>2. x \in Nat /\ scale * x <= n * bid
  BY <1>1, DivIsNat
<1> HIDE DEF x
<1>3. (paid0 + x) * scale = paid0 * scale + scale * x
  BY <1>2
<1>4. (sold0 + n) * bid = sold0 * bid + n * bid
  OBVIOUS
<1>5. /\ paid0 * scale \in Nat /\ sold0 * bid \in Nat /\ scale * x \in Nat
  BY <1>2, TimesIsNat
<1>6. (paid0 + x) * scale <= (sold0 + n) * bid
  BY <1>1, <1>2, <1>3, <1>4, <1>5
<1> QED
  BY <1>6 DEF x

LEMMA OrderKeepsFills ==
  ASSUME Typed, FillsKept, NEW user \in Wallet, NEW q \in Quotes, NEW p \in PoolAccount,
         NEW n \in 1..MaxU64, NEW c \in 1..MaxU64, ExecuteOrder(user, q, p, n, c)
  PROVE  FillsKept'
<1>1. PICK f : f = FillOf(q)
  OBVIOUS
<1>2. /\ f \in FillKey /\ n \in Nat /\ FilledSoFar(f) \in Nat
      /\ FilledSoFar(f)' = FilledSoFar(f) + n
      /\ FilledSoFar(f) + n <= q.max_amount
      /\ \A g \in FillKey \ {f} : FilledSoFar(g)' = FilledSoFar(g)
  BY <1>1, OrderFills
<1>3. /\ sold' = [sold EXCEPT ![q] = @ + n]
      /\ premium_paid' = [premium_paid EXCEPT ![q] = @ + Premium(q, n)]
  BY DEF ExecuteOrder
<1>4. sold \in [Quotes -> Nat] /\ premium_paid \in [Quotes -> Nat]
  BY DEF Typed, SettlerTypeOK
<1>5. /\ sold'[q] = sold[q] + n /\ premium_paid'[q] = premium_paid[q] + Premium(q, n)
      /\ \A r \in Quotes \ {q} : sold'[r] = sold[r] /\ premium_paid'[r] = premium_paid[r]
      /\ sold[q] \in Nat /\ premium_paid[q] \in Nat
  BY <1>3, <1>4
<1>6. ASSUME NEW g \in FillKey PROVE FillKept(g)'
  <2>1. FilledSoFar(g) = Total(sold, QuotesOf(g))
    BY DEF FillsKept, FillKept
  <2>2. CASE g # f
    <3>1. \A r \in QuotesOf(g) : sold[r] = sold'[r]
      BY <1>1, <1>5, <2>2 DEF QuotesOf
    <3>2. Total(sold, QuotesOf(g)) = Total(sold', QuotesOf(g))
      BY <3>1, TotalSame
    <3> QED
      BY <1>2, <2>1, <2>2, <3>2 DEF FillKept, QuotesOf
  <2>3. CASE g = f
    <3>1. q \in QuotesOf(f) /\ sold'[q] \in Nat
      BY <1>1, <1>2, <1>5 DEF QuotesOf
    <3>2. \A r \in QuotesOf(f) \ {q} : sold'[r] = sold[r]
      BY <1>5 DEF QuotesOf
    <3>3. Total(sold', QuotesOf(f)) = Total(sold, QuotesOf(f)) - sold[q] + sold'[q]
      BY <3>1, <3>2, SoldSummable, TotalChanged
    <3>4. Total(sold', QuotesOf(f)) = FilledSoFar(f)'
      BY <1>2, <1>5, <2>1, <2>3, <3>3
    <3> QED
      BY <2>3, <3>4 DEF FillKept, QuotesOf
  <2> QED
    BY <2>2, <2>3
<1>7. ASSUME NEW r \in Quotes
      PROVE  (sold[r] <= r.max_amount /\ PaidWithin(r))'
  <2>1. sold[r] <= r.max_amount /\ PaidWithin(r)
    BY DEF FillsKept
  <2>2. CASE r # q
    BY <1>5, <2>1, <2>2 DEF PaidWithin
  <2>3. CASE r = q
    <3>1. q \in QuotesOf(f)
      BY <1>1 DEF QuotesOf
    <3>2. sold[q] <= FilledSoFar(f)
      BY <1>2, <3>1, SoldSummable, TotalAtLeast DEF FillsKept, FillKept
    <3>3. q.max_amount \in Nat /\ q.bid_price \in Nat
      BY QuoteType, AmountType
    <3>4. sold'[q] <= q.max_amount
      BY <1>2, <1>5, <3>2, <3>3
    <3>5. PriceScale \in Nat /\ PriceScale > 0
      BY SettlerAssumption
    <3>6. premium_paid[q] * PriceScale <= sold[q] * q.bid_price
      BY <2>1, <2>3 DEF PaidWithin
    <3>7. (premium_paid[q] + (n * q.bid_price) \div PriceScale) * PriceScale
            <= (sold[q] + n) * q.bid_price
      BY <1>2, <1>5, <3>3, <3>5, <3>6, PremiumBound
    <3>8. premium_paid'[q] * PriceScale <= sold'[q] * q.bid_price
      BY <1>5, <3>7, Zenon DEF Premium
    <3> QED
      BY <2>3, <3>4, <3>8 DEF PaidWithin
  <2> QED
    BY <2>2, <2>3
<1> QED
  BY <1>6, <1>7 DEF FillsKept

LEMMA NextFillsKept == Typed /\ FillsKept /\ [BatchNext]_all_vars => FillsKept'
<1> SUFFICES ASSUME Typed, FillsKept, [BatchNext]_all_vars PROVE FillsKept'
  OBVIOUS
<1>1. CASE TradeSame
  <2>1. \A f \in FillKey : FilledSoFar(f)' = FilledSoFar(f)
    BY <1>1 DEF TradeSame, FilledSoFar
  <2> QED
    BY <1>1, <2>1, KeepsFills DEF TradeSame
<1>2. ASSUME NEW k \in Wallet, NEW m \in Makers, NEW flag \in BOOLEAN,
             WhitelistMaker(k, m, flag)
      PROVE  FillsKept'
  <2>1. \A f \in FillKey : FilledSoFar(f)' = FilledSoFar(f)
    BY <1>2 DEF WhitelistMaker, FilledSoFar
  <2> QED
    BY <1>2, <2>1, KeepsFills DEF WhitelistMaker
<1>3. ASSUME NEW m \in Wallet, IncrementMakerNonce(m) PROVE FillsKept'
  <2>1. \A f \in FillKey : FilledSoFar(f)' = FilledSoFar(f)
    BY <1>3 DEF IncrementMakerNonce, FilledSoFar
  <2> QED
    BY <1>3, <2>1, KeepsFills DEF IncrementMakerNonce
<1>4. ASSUME NEW m \in Wallet, NEW id \in QuoteId, CancelQuote(m, id) PROVE FillsKept'
  BY <1>4, CancelKeepsFills, KeepsFills DEF CancelQuote
<1> QED
  BY <1>1, <1>2, <1>3, <1>4, OrderKeepsFills, TradeWriters

LEMMA InitFillsKept == BatchInit => FillsKept
<1> SUFFICES ASSUME BatchInit PROVE FillsKept
  OBVIOUS
<1>1. ASSUME NEW f \in FillKey PROVE FillKept(f)
  <2>1. \A q \in QuotesOf(f) : sold[q] = 0
    BY DEF BatchInit, SettlerInit, QuotesOf
  <2>2. Units(sold, QuotesOf(f)) = {}
    BY <2>1 DEF Units
  <2>3. FilledSoFar(f) = 0
    BY DEF BatchInit, SettlerInit, FilledSoFar
  <2> QED
    BY <2>2, <2>3, FS_EmptySet DEF FillKept, Total
<1>2. ASSUME NEW q \in Quotes PROVE sold[q] <= q.max_amount /\ PaidWithin(q)
  <2>1. sold[q] = 0 /\ premium_paid[q] = 0
    BY DEF BatchInit, SettlerInit
  <2>2. q.max_amount \in Nat /\ q.bid_price \in Nat /\ PriceScale \in Nat
    BY QuoteType, AmountType, SettlerAssumption
  <2> QED
    BY <2>1, <2>2 DEF PaidWithin
<1> QED
  BY <1>1, <1>2 DEF FillsKept

\* In any interleaving of partial fills, cancellations and nonce bumps, and for
\* any set of quotes displayed with a maker's key, at most what a quote offers is
\* written against it, and the maker pays at most its bid for it all together:
\* rounding each order down never adds up against the maker.
THEOREM QuotesTheorem == BatchSpec => []QuotesHonoured
<1>1. Typed /\ FillsKept /\ [BatchNext]_all_vars => Typed' /\ FillsKept'
  BY NextTyped, NextFillsKept
<1>2. BatchInit => Typed /\ FillsKept
  BY InitTyped, InitFillsKept
<1> QED
  BY <1>1, <1>2, HonouredByParts, PTL DEF BatchSpec

(***************************************************************************)
(* The book of offers.                                                     *)
(***************************************************************************)
LEMMA BookInit == BatchInit => Book!Init
<1> SUFFICES ASSUME BatchInit PROVE Book!Init
  OBVIOUS
<1>1. ASSUME NEW f \in FillKey PROVE FilledSoFar(f) = 0 /\ ~Retired(f)
  <2>1. quote_fill[f] = NoAccount /\ f[1] \in Wallet
    BY DEF BatchInit, SettlerInit, FillKey
  <2>2. maker_state[f[1]] = NoAccount
    BY <2>1 DEF BatchInit, SettlerInit
  <2> QED
    BY <2>1, <2>2 DEF FilledSoFar, Retired, Cancelled
<1> QED
  BY <1>1 DEF Book!Init

\* Nothing retired comes back.
LEMMA BookRetire ==
  ASSUME \A f \in FillKey : FilledSoFar(f)' = FilledSoFar(f),
         \A f \in FillKey : Retired(f) => Retired(f)'
  PROVE  Book!Next
<1>1. [f \in FillKey |-> FilledSoFar(f)]' = [f \in FillKey |-> FilledSoFar(f)]
  OBVIOUS
<1>2. /\ {f \in FillKey : Retired(f)}' \in SUBSET FillKey
      /\ {f \in FillKey : Retired(f)} \subseteq {f \in FillKey : Retired(f)}'
  OBVIOUS
<1> QED
  BY <1>1, <1>2 DEF Book!Next, Book!Retire

LEMMA BookSell ==
  ASSUME Typed, NEW user \in Wallet, NEW q \in Quotes, NEW p \in PoolAccount,
         NEW n \in 1..MaxU64, NEW c \in 1..MaxU64, ExecuteOrder(user, q, p, n, c)
  PROVE  Book!Next
<1>1. PICK f : f = FillOf(q)
  OBVIOUS
<1>2. /\ f \in FillKey /\ n \in Nat /\ n >= 1
      /\ FilledSoFar(f) \in Nat
      /\ FilledSoFar(f)' = FilledSoFar(f) + n
      /\ FilledSoFar(f) + n <= q.max_amount
      /\ ~Cancelled(f) /\ ~Cancelled(f)'
      /\ \A g \in FillKey \ {f} :
           FilledSoFar(g)' = FilledSoFar(g) /\ Cancelled(g)' = Cancelled(g)
      /\ maker_state' = maker_state
      /\ maker_state[f[1]] # NoAccount /\ maker_state[f[1]].nonce = f[2]
  BY <1>1, OrderFills
<1>3. /\ q.max_amount <= LimitOf(f) /\ LimitOf(f) \in Nat /\ q.max_amount \in Nat
      /\ f[2] \in Nat
  BY <1>1, LimitHolds, QuoteType, AmountType, SettlerAssumption DEF Nonce
<1>4. f \notin {g \in FillKey : Retired(g)}
  BY <1>2, <1>3 DEF Retired
<1>5. {g \in FillKey : Retired(g)}' = {g \in FillKey : Retired(g)}
  BY <1>2 DEF Retired
<1>6. PICK total : total = FilledSoFar(f) + n
  OBVIOUS
<1>7. total \in (FilledSoFar(f) + 1)..LimitOf(f)
  BY <1>2, <1>3, <1>6
<1>8. [g \in FillKey |-> FilledSoFar(g)]'
        = [[g \in FillKey |-> FilledSoFar(g)] EXCEPT ![f] = total]
  BY <1>2, <1>6
<1>9. /\ [g \in FillKey |-> LimitOf(g)][f] = LimitOf(f)
      /\ [g \in FillKey |-> FilledSoFar(g)][f] = FilledSoFar(f)
  BY <1>2
<1>10. Book!Sell(f)
  BY <1>4, <1>5, <1>7, <1>8, <1>9 DEF Book!Sell
<1> QED
  BY <1>2, <1>10 DEF Book!Next

LEMMA BookStep == Typed /\ [BatchNext]_all_vars => Book!Next
<1> SUFFICES ASSUME Typed, [BatchNext]_all_vars PROVE Book!Next
  OBVIOUS
<1>1. CASE TradeSame
  <2>1. \A f \in FillKey : FilledSoFar(f)' = FilledSoFar(f)
    BY <1>1 DEF TradeSame, FilledSoFar
  <2>2. \A f \in FillKey : Retired(f) => Retired(f)'
    BY <1>1 DEF TradeSame, Retired, Cancelled
  <2> QED
    BY <2>1, <2>2, BookRetire
<1>2. ASSUME NEW k \in Wallet, NEW m \in Makers, NEW flag \in BOOLEAN,
             WhitelistMaker(k, m, flag)
      PROVE  Book!Next
  <2>1. \A f \in FillKey : /\ FilledSoFar(f)' = FilledSoFar(f)
                           /\ Cancelled(f) => Cancelled(f)'
    BY <1>2 DEF WhitelistMaker, FilledSoFar, Cancelled
  <2>2. ASSUME NEW w \in Wallet, maker_state[w] # NoAccount
        PROVE  maker_state'[w] # NoAccount /\ maker_state'[w].nonce = maker_state[w].nonce
    <3>1. maker_state[w] \in MakerState
      BY <2>2 DEF Typed, SettlerTypeOK
    <3>2. /\ [maker_state[w] EXCEPT !.whitelisted = flag] \in MakerState
          /\ [maker_state[w] EXCEPT !.whitelisted = flag].nonce = maker_state[w].nonce
      BY <3>1 DEF MakerState
    <3>3. CASE w = m
      <4>1. maker_state'[w] = [maker_state[w] EXCEPT !.whitelisted = flag]
        BY <1>2, <2>2, <3>3 DEF WhitelistMaker, Typed, SettlerTypeOK
      <4> QED
        BY <3>2, <4>1, SettlerAccountAssumption
    <3>4. CASE w # m
      <4>1. maker_state'[w] = maker_state[w]
        BY <1>2, <3>4 DEF WhitelistMaker, Typed, SettlerTypeOK
      <4> QED
        BY <2>2, <4>1
    <3> QED
      BY <3>3, <3>4
  <2>3. \A f \in FillKey : Retired(f) => Retired(f)'
    BY <2>1, <2>2 DEF Retired, FillKey
  <2> QED
    BY <2>1, <2>3, BookRetire
<1>3. ASSUME NEW m \in Wallet, IncrementMakerNonce(m) PROVE Book!Next
  <2>1. \A f \in FillKey : /\ FilledSoFar(f)' = FilledSoFar(f)
                           /\ Cancelled(f) => Cancelled(f)'
    BY <1>3 DEF IncrementMakerNonce, FilledSoFar, Cancelled
  <2>2. ASSUME NEW w \in Wallet, maker_state[w] # NoAccount
        PROVE  /\ maker_state'[w] # NoAccount
               /\ maker_state'[w].nonce >= maker_state[w].nonce
               /\ maker_state'[w].nonce \in Nat /\ maker_state[w].nonce \in Nat
    <3>1. maker_state[w] \in MakerState /\ maker_state[w].nonce \in Nat
      BY <2>2, SettlerAssumption DEF Typed, SettlerTypeOK, MakerState, Nonce
    <3>2. CASE w = m
      <4>1. maker_state'[w] = [maker_state[w] EXCEPT !.nonce = @ + 1]
        BY <1>3, <3>2 DEF IncrementMakerNonce, Typed, SettlerTypeOK
      <4>2. /\ maker_state[w].nonce + 1 \in Nonce
        BY <1>3, <3>1, <3>2, SettlerAssumption DEF IncrementMakerNonce, Nonce
      <4>3. /\ [maker_state[w] EXCEPT !.nonce = @ + 1] \in MakerState
            /\ [maker_state[w] EXCEPT !.nonce = @ + 1].nonce = maker_state[w].nonce + 1
        BY <3>1, <4>2 DEF MakerState
      <4> QED
        BY <3>1, <4>1, <4>3, SettlerAccountAssumption
    <3>3. CASE w # m
      <4>1. maker_state'[w] = maker_state[w]
        BY <1>3, <3>3 DEF IncrementMakerNonce, Typed, SettlerTypeOK
      <4> QED
        BY <2>2, <3>1, <4>1
    <3> QED
      BY <3>2, <3>3
  <2>3. ASSUME NEW f \in FillKey, Retired(f) PROVE Retired(f)'
    <3>1. f[1] \in Wallet /\ f[2] \in Nat
      BY SettlerAssumption DEF FillKey, Nonce
    <3> QED
      BY <2>1, <2>2, <2>3, <3>1 DEF Retired
  <2> QED
    BY <2>1, <2>3, BookRetire
<1>4. ASSUME NEW m \in Wallet, NEW id \in QuoteId, CancelQuote(m, id) PROVE Book!Next
  <2>1. \A f \in FillKey : /\ FilledSoFar(f)' = FilledSoFar(f)
                           /\ Cancelled(f) => Cancelled(f)'
    BY <1>4, CancelKeepsFills
  <2>2. \A f \in FillKey : Retired(f) => Retired(f)'
    BY <1>4, <2>1 DEF Retired, CancelQuote
  <2> QED
    BY <2>1, <2>2, BookRetire
<1> QED
  BY <1>1, <1>2, <1>3, <1>4, BookSell, TradeWriters

\* The settler implements the book of offers: nothing is filled under a maker's
\* nonce and id past the largest quote displayed with them, and nothing again
\* once the id was cancelled or the nonce was passed, whatever is displayed.
THEOREM BookTheorem == BatchSpec => ImplementsQuoteBook
<1>1. BatchInit => Book!Init
  BY BookInit
<1>2. Typed /\ [BatchNext]_all_vars =>
        [Book!Next]_<<[f \in FillKey |-> FilledSoFar(f)], {f \in FillKey : Retired(f)}>>
  BY BookStep
<1> QED
  BY <1>1, <1>2, InitTyped, NextTyped, PTL DEF BatchSpec, ImplementsQuoteBook, Book!Spec

(***************************************************************************)
(* A maker's balance within what its vaults remember.                      *)
(***************************************************************************)
RemainderMap == [v \in VaultKey |-> vault_mm[v].remaining_amount]
RemainderOf(m, s) == Total(RemainderMap, VaultsFor(m, s))
Within(m, s) == Custodied(m, s) <= RemainderOf(m, s)

LEMMA WithinByParts ==
  BalanceWithinVaults <=> \A m \in Wallet, s \in Series : Within(m, s)
  BY DEF BalanceWithinVaults, Within, RemainderOf, RemainderMap

LEMMA RemainderNamed ==
  ASSUME NEW m, NEW s
  PROVE  /\ RemainderOf(m, s)' = Total(RemainderMap', VaultsFor(m, s)')
         /\ Within(m, s)' <=> (Custodied(m, s)' <= RemainderOf(m, s)')
  BY DEF RemainderOf, Within

LEMMA RemainderSummable ==
  ASSUME Typed, NEW m, NEW s
  PROVE  /\ Summable(RemainderMap, VaultsFor(m, s))
         /\ RemainderOf(m, s) \in Nat
<1>1. IsFiniteSet(VaultsFor(m, s))
  BY VaultKeyFinite, FS_Subset DEF VaultsFor
<1>2. ASSUME NEW v \in VaultsFor(m, s) PROVE RemainderMap[v] \in Nat
  <2>1. v \in VaultKey /\ vault_mm[v] \in VaultMM
    BY DEF VaultsFor, Typed, SettlerTypeOK
  <2> QED
    BY <2>1, AmountType DEF RemainderMap, VaultMM
<1>3. Summable(RemainderMap, VaultsFor(m, s))
  BY <1>1, <1>2 DEF Summable
<1> QED
  BY <1>3, TotalIsNat DEF RemainderOf

\* Custody is written by three instructions; every other step is one of the
\* controller's, or leaves its state alone.
LEMMA CustodyWriters ==
  ASSUME [BatchNext]_all_vars
  PROVE  \/ [Next]_vars /\ UNCHANGED <<custody, burned>>
         \/ \E m \in Wallet, s \in Series, p \in PoolAccount, n \in 1..MaxU64 :
              RedeemCustody(m, s, p, n)
         \/ \E u \in Wallet, q \in Quotes, p \in PoolAccount, n, c \in 1..MaxU64 :
              ExecuteOrder(u, q, p, n, c)
         \/ \E u \in Wallet, v \in VaultKey, p \in PoolAccount :
              EmergencyWithdraw(u, v, p)
<1> DEFINE Elsewhere == [Next]_vars /\ UNCHANGED <<custody, burned>>
<1>1. CASE UNCHANGED all_vars
  BY <1>1 DEF custody, all_vars, settler_vars
<1>2. CASE ControllerNext /\ UNCHANGED settler_vars
  BY <1>2, ControllerStep DEF custody, settler_vars
<1>3. ASSUME NEW k \in Wallet, NEW c \in Settings,
             \/ InitializeSettler(k, c)
             \/ SetTreasury(k, c) \/ SetProtocolFee(k, c) \/ SetOperator(k, c)
             \/ Pause(k, c) \/ SetEscapeDelay(k, c) \/ SetJupiterProgram(k, c)
      PROVE  Elsewhere
  <2>1. UNCHANGED <<vars, custody, burned>>
    BY <1>3 DEF InitializeSettler, SetTreasury, SetProtocolFee,
       SetOperator, Pause, SetEscapeDelay, SetJupiterProgram, SetConfig
  <2> QED
    BY <2>1
<1>4. ASSUME NEW k \in Wallet, InitVaultCounter(k) PROVE Elsewhere
  <2>1. Next
    BY <1>4, WalletType DEF InitVaultCounter, Next, OwnerNext
  <2> QED
    BY <1>4, <2>1 DEF InitVaultCounter, settler_vars
<1>5. ASSUME NEW k \in Wallet, NEW rents \in RentWithdrawals, WithdrawRentReserve(k, rents)
      PROVE  Elsewhere
  BY <1>5 DEF WithdrawRentReserve
<1>6. ASSUME NEW k \in Wallet, NEW m \in Makers, NEW flag \in BOOLEAN,
             WhitelistMaker(k, m, flag)
      PROVE  Elsewhere
  BY <1>6 DEF WhitelistMaker
<1>7. ASSUME NEW m \in Wallet, IncrementMakerNonce(m) PROVE Elsewhere
  BY <1>7 DEF IncrementMakerNonce
<1>8. ASSUME NEW m \in Wallet, NEW id \in QuoteId, CancelQuote(m, id)
      PROVE  Elsewhere
  BY <1>8 DEF CancelQuote
<1>9. ASSUME NEW k \in Wallet, NEW admin \in Wallet, NEW v \in VaultKey,
             NEW p \in PoolAccount, SettleVaultForMaker(k, admin, v, p)
      PROVE  Elsewhere
  <2>1. Next
    BY <1>9, WalletType DEF SettleVaultForMaker, Next, AdminNext
  <2> QED
    BY <1>9, <2>1 DEF SettleVaultForMaker, settler_vars
<1> HIDE DEF Elsewhere
<1>10. \/ Elsewhere
       \/ \E m \in Wallet, s \in Series, p \in PoolAccount, n \in 1..MaxU64 :
            RedeemCustody(m, s, p, n)
       \/ \E u \in Wallet, q \in Quotes, p \in PoolAccount, n, c \in 1..MaxU64 :
            ExecuteOrder(u, q, p, n, c)
       \/ \E u \in Wallet, v \in VaultKey, p \in PoolAccount :
            EmergencyWithdraw(u, v, p)
  BY <1>1, <1>2, <1>3, <1>4, <1>5, <1>6, <1>7, <1>8, <1>9, BatchSteps DEF Elsewhere
<1> QED
  BY <1>10 DEF Elsewhere

LEMMA RemainderSame ==
  ASSUME NEW m, NEW s, UNCHANGED vault_mm
  PROVE  RemainderOf(m, s)' = RemainderOf(m, s)
  BY DEF RemainderOf, RemainderMap, VaultsFor

\* The vaults' side of an order: the new vault remembers the amount.
LEMMA RemainderAdded ==
  ASSUME Typed, NEW m \in Wallet, NEW s \in Series, NEW v \in VaultKey, NEW n \in Nat,
         NEW mm \in VaultMM, mm.remaining_amount = n, vault_mm[v] = NoAccount,
         vault_mm' = [vault_mm EXCEPT ![v] = mm]
  PROVE  RemainderOf(m, s)' =
           IF mm.maker = m /\ mm.otoken_mint = s
           THEN RemainderOf(m, s) + n ELSE RemainderOf(m, s)
<1> DEFINE V == VaultsFor(m, s)
<1>1. Summable(RemainderMap, V) /\ v \notin V /\ V \subseteq VaultKey
  <2>1. Summable(RemainderMap, V)
    BY RemainderSummable
  <2>2. v \notin V /\ V \subseteq VaultKey
    BY DEF VaultsFor
  <2> QED
    BY <2>1, <2>2
<1>2. vault_mm'[v] = mm /\ mm # NoAccount
      /\ \A w \in VaultKey \ {v} : vault_mm'[w] = vault_mm[w]
  BY SettlerAccountAssumption DEF Typed, SettlerTypeOK
<1>3. /\ RemainderMap'[v] = n
      /\ \A w \in V : RemainderMap[w] = RemainderMap'[w]
  BY <1>1, <1>2 DEF RemainderMap
<1>4. CASE mm.maker = m /\ mm.otoken_mint = s
  <2>1. VaultsFor(m, s)' = V \cup {v}
    BY <1>2, <1>4 DEF VaultsFor
  <2>2. Summable(RemainderMap', V)
    BY <1>1, <1>3 DEF Summable
  <2>3. Total(RemainderMap', V \cup {v}) = Total(RemainderMap', V) + n
    BY <1>1, <1>3, <2>2, TotalAdded
  <2>4. Total(RemainderMap', V) = Total(RemainderMap, V)
    BY <1>3, TotalSame
  <2> QED
    BY <1>4, <2>1, <2>3, <2>4, RemainderNamed DEF RemainderOf
<1>5. CASE ~(mm.maker = m /\ mm.otoken_mint = s)
  <2>1. VaultsFor(m, s)' = V
    BY <1>2, <1>5 DEF VaultsFor
  <2>2. Total(RemainderMap', V) = Total(RemainderMap, V)
    BY <1>3, TotalSame
  <2> QED
    BY <1>5, <2>1, <2>2, RemainderNamed DEF RemainderOf
<1> QED
  BY <1>4, <1>5

\* The vaults' side of a delivery or an exit: a remainder is lowered.
LEMMA RemainderLowered ==
  ASSUME Typed, NEW m \in Wallet, NEW s \in Series, NEW v \in VaultKey,
         vault_mm[v] # NoAccount, NEW left \in 0..MaxU64,
         vault_mm' = [vault_mm EXCEPT ![v].remaining_amount = left]
  PROVE  RemainderOf(m, s)' =
           IF vault_mm[v].maker = m /\ vault_mm[v].otoken_mint = s
           THEN RemainderOf(m, s) - vault_mm[v].remaining_amount + left
           ELSE RemainderOf(m, s)
<1> DEFINE V == VaultsFor(m, s)
<1>1. Summable(RemainderMap, V) /\ V \subseteq VaultKey /\ left \in Nat
  <2>1. Summable(RemainderMap, V)
    BY RemainderSummable
  <2>2. V \subseteq VaultKey /\ left \in Nat
    BY AmountType DEF VaultsFor
  <2> QED
    BY <2>1, <2>2
<1>2. vault_mm[v] \in VaultMM
  BY DEF Typed, SettlerTypeOK
<1>3. /\ [vault_mm[v] EXCEPT !.remaining_amount = left] \in VaultMM
      /\ [vault_mm[v] EXCEPT !.remaining_amount = left].remaining_amount = left
      /\ [vault_mm[v] EXCEPT !.remaining_amount = left].maker = vault_mm[v].maker
      /\ [vault_mm[v] EXCEPT !.remaining_amount = left].otoken_mint
           = vault_mm[v].otoken_mint
  BY <1>2 DEF VaultMM
<1>4. /\ vault_mm'[v] = [vault_mm[v] EXCEPT !.remaining_amount = left]
      /\ \A w \in VaultKey \ {v} : vault_mm'[w] = vault_mm[w]
  BY DEF Typed, SettlerTypeOK
<1>5. vault_mm'[v] # NoAccount
  BY <1>3, <1>4, SettlerAccountAssumption
<1>6. VaultsFor(m, s)' = V
  <2>1. ASSUME NEW w \in VaultKey
        PROVE  /\ vault_mm'[w] # NoAccount <=> vault_mm[w] # NoAccount
               /\ vault_mm[w] # NoAccount =>
                    /\ vault_mm'[w].maker = vault_mm[w].maker
                    /\ vault_mm'[w].otoken_mint = vault_mm[w].otoken_mint
    BY <1>3, <1>4, <1>5
  <2> QED
    BY <2>1 DEF VaultsFor
<1>7. /\ RemainderMap'[v] = left /\ RemainderMap[v] = vault_mm[v].remaining_amount
      /\ \A w \in V \ {v} : RemainderMap'[w] = RemainderMap[w]
  <2>1. \A w \in VaultKey : /\ RemainderMap[w] = vault_mm[w].remaining_amount
                            /\ RemainderMap'[w] = vault_mm'[w].remaining_amount
    BY DEF RemainderMap
  <2>2. vault_mm'[v].remaining_amount = left
    BY <1>3, <1>4
  <2>3. \A w \in V \ {v} : w \in VaultKey /\ vault_mm'[w] = vault_mm[w]
    BY <1>1, <1>4
  <2> QED
    BY <2>1, <2>2, <2>3
<1>8. CASE v \in V
  <2>1. Total(RemainderMap', V) = Total(RemainderMap, V) - RemainderMap[v] + RemainderMap'[v]
    BY <1>1, <1>7, <1>8, TotalChanged
  <2>2. vault_mm[v].maker = m /\ vault_mm[v].otoken_mint = s
    BY <1>8 DEF VaultsFor
  <2> QED
    BY <1>6, <1>7, <2>1, <2>2, RemainderNamed DEF RemainderOf
<1>9. CASE v \notin V
  <2>1. Total(RemainderMap', V) = Total(RemainderMap, V)
    BY <1>7, <1>9, TotalSame
  <2>2. ~(vault_mm[v].maker = m /\ vault_mm[v].otoken_mint = s)
    BY <1>9 DEF VaultsFor
  <2> QED
    BY <1>6, <2>1, <2>2, RemainderNamed DEF RemainderOf
<1> QED
  BY <1>8, <1>9

\* An order adds the same amount to its maker's balance and to what the
\* maker's vaults remember.
LEMMA OrderBooked ==
  ASSUME Typed, NEW m \in Wallet, NEW s \in Series,
         NEW user \in Wallet, NEW q \in Quotes, NEW p \in PoolAccount,
         NEW n \in 1..MaxU64, NEW c \in 1..MaxU64, ExecuteOrder(user, q, p, n, c)
  PROVE  LET more == IF q.maker = m /\ q.otoken_mint = s THEN n ELSE 0
         IN /\ Custodied(m, s)' = Custodied(m, s) + more
            /\ RemainderOf(m, s)' = RemainderOf(m, s) + more
<1>0. PICK v : v = <<Settler, next_id[Settler]>>
  OBVIOUS
<1>1. PICK mm : mm = [maker |-> q.maker, otoken_mint |-> q.otoken_mint,
                      remaining_amount |-> n]
  OBVIOUS
<1>2. /\ q.maker \in Wallet /\ q.otoken_mint \in Series /\ n \in Nat
      /\ NoAccount \notin Nat /\ Settler \in Key
  BY QuoteType, AmountType, WalletType
<1>3. mm \in VaultMM /\ mm.maker = q.maker /\ mm.otoken_mint = q.otoken_mint
      /\ mm.remaining_amount = n
  BY <1>1, <1>2 DEF VaultMM
<1>4. next_id[Settler] \in 0..MaxVaultId /\ next_id[Settler] + 1 <= MaxVaultId
  BY <1>2 DEF ExecuteOrder, CanOpen, Typed, TypeOK
<1>5. v \in VaultKey
  BY <1>0, <1>2, <1>4, ControllerAssumption DEF VaultKey, VaultId
<1>6. vault_mm[v] = NoAccount /\ vault_mm' = [vault_mm EXCEPT ![v] = mm]
  BY <1>0, <1>1 DEF ExecuteOrder
<1>7. RemainderOf(m, s)' =
        IF q.maker = m /\ q.otoken_mint = s
        THEN RemainderOf(m, s) + n ELSE RemainderOf(m, s)
  <2>1. RemainderOf(m, s)' =
          IF mm.maker = m /\ mm.otoken_mint = s
          THEN RemainderOf(m, s) + n ELSE RemainderOf(m, s)
    <3>1. /\ Typed /\ v \in VaultKey /\ n \in Nat /\ mm \in VaultMM
          /\ mm.remaining_amount = n /\ vault_mm[v] = NoAccount
          /\ vault_mm' = [vault_mm EXCEPT ![v] = mm]
      BY <1>2, <1>3, <1>5, <1>6, Zenon
    <3> QED
      BY <3>1, RemainderAdded, Zenon
  <2> QED
    BY <1>3, <2>1
<1>8. mm_balance' = [mm_balance EXCEPT ![q.maker][q.otoken_mint] =
                       Custodied(q.maker, q.otoken_mint) + n]
  BY DEF ExecuteOrder
<1>9. Custodied(m, s) \in Nat /\ RemainderOf(m, s) \in Nat
  BY CustodySummable, RemainderSummable
<1>10. CASE q.maker = m /\ q.otoken_mint = s
  <2>1. mm_balance'[m][s] = Custodied(m, s) + n
    BY <1>2, <1>8, <1>10 DEF Typed, SettlerTypeOK
  <2>2. Custodied(m, s)' = Custodied(m, s) + n
    BY <1>2, <1>9, <2>1 DEF Custodied
  <2> QED
    BY <1>7, <1>10, <2>2
<1>11. CASE ~(q.maker = m /\ q.otoken_mint = s)
  <2>1. mm_balance'[m][s] = mm_balance[m][s]
    BY <1>2, <1>8, <1>11 DEF Typed, SettlerTypeOK
  <2>2. Custodied(m, s)' = Custodied(m, s)
    BY <2>1 DEF Custodied
  <2> QED
    BY <1>7, <1>9, <1>11, <2>2
<1> QED
  BY <1>10, <1>11

LEMMA OrderWithin ==
  ASSUME Typed, NEW m \in Wallet, NEW s \in Series, Within(m, s),
         NEW user \in Wallet, NEW q \in Quotes, NEW p \in PoolAccount,
         NEW n \in 1..MaxU64, NEW c \in 1..MaxU64, ExecuteOrder(user, q, p, n, c)
  PROVE  Within(m, s)'
<1>1. PICK more : more = IF q.maker = m /\ q.otoken_mint = s THEN n ELSE 0
  OBVIOUS
<1>2. /\ Custodied(m, s)' = Custodied(m, s) + more
      /\ RemainderOf(m, s)' = RemainderOf(m, s) + more
  BY <1>1, OrderBooked
<1>3. /\ more \in Nat /\ Custodied(m, s) \in Nat /\ RemainderOf(m, s) \in Nat
      /\ Custodied(m, s) <= RemainderOf(m, s)
  BY <1>1, AmountType, CustodySummable, RemainderSummable DEF Within
<1>4. Custodied(m, s)' <= RemainderOf(m, s)'
  BY <1>2, <1>3
<1> QED
  BY <1>4, RemainderNamed

LEMMA RedeemWithin ==
  ASSUME Typed, NEW m \in Wallet, NEW s \in Series, Within(m, s),
         NEW w \in Wallet, NEW r \in Series, NEW p \in PoolAccount, NEW n \in 1..MaxU64,
         RedeemCustody(w, r, p, n)
  PROVE  Within(m, s)'
<1>1. /\ mm_balance' = [mm_balance EXCEPT ![w][r] = @ - n]
      /\ mm_balance[w][r] # NoAccount /\ mm_balance[w][r] >= n
      /\ UNCHANGED vault_mm
  BY DEF RedeemCustody, CanRedeemCustody
<1>2. /\ NoAccount \notin Nat /\ n \in Nat /\ mm_balance[w][r] \in Nat
      /\ Custodied(m, s) \in Nat /\ RemainderOf(m, s) \in Nat
      /\ Custodied(m, s) <= RemainderOf(m, s)
  BY <1>1, WalletType, AmountType, CustodySummable, RemainderSummable
  DEF Within, Typed, SettlerTypeOK
<1>3. RemainderOf(m, s)' = RemainderOf(m, s)
  BY <1>1, RemainderSame
<1>4. CASE w = m /\ r = s
  <2>1. mm_balance'[m][s] = mm_balance[m][s] - n
    BY <1>1, <1>4 DEF Typed, SettlerTypeOK
  <2>2. Custodied(m, s)' = mm_balance[m][s] - n /\ Custodied(m, s) = mm_balance[m][s]
    BY <1>1, <1>2, <1>4, <2>1 DEF Custodied
  <2> QED
    BY <1>2, <1>3, <2>2, RemainderNamed
<1>5. CASE ~(w = m /\ r = s)
  <2>1. mm_balance'[m][s] = mm_balance[m][s]
    BY <1>1, <1>5 DEF Typed, SettlerTypeOK
  <2>2. Custodied(m, s)' = Custodied(m, s)
    BY <2>1 DEF Custodied
  <2> QED
    BY <1>2, <1>3, <2>2, RemainderNamed
<1> QED
  BY <1>4, <1>5

\* An exit takes what it burns off the maker's balance and clears what its
\* vault remembers, which is the smaller of the two or part of it.
LEMMA ExitBooked ==
  ASSUME Typed, NEW m \in Wallet, NEW s \in Series,
         NEW u \in Wallet, NEW v \in VaultKey, NEW p \in PoolAccount,
         EmergencyWithdraw(u, v, p)
  PROVE  LET left == vault_mm[v].remaining_amount
             held == Custodied(m, s)
             burn == EmergencyBurn(v)
         IN IF vault_mm[v].maker = m /\ vault_mm[v].otoken_mint = s
            THEN /\ burn = IF left < held THEN left ELSE held
                 /\ left \in Nat /\ burn \in Nat /\ left <= RemainderOf(m, s)
                 /\ Custodied(m, s)' = held - burn
                 /\ RemainderOf(m, s)' = RemainderOf(m, s) - left
            ELSE /\ Custodied(m, s)' = held
                 /\ RemainderOf(m, s)' = RemainderOf(m, s)
<1>0. PICK w : w = vault_mm[v].maker
  OBVIOUS
<1>1. PICK r : r = vault_mm[v].otoken_mint
  OBVIOUS
<1>2. PICK n : n = EmergencyBurn(v)
  OBVIOUS
<1>3. PICK left : left = vault_mm[v].remaining_amount
  OBVIOUS
<1>4. vault_mm[v] # NoAccount /\ vault_mm' = [vault_mm EXCEPT ![v].remaining_amount = 0]
  BY DEF EmergencyWithdraw
<1>5. /\ w \in Wallet /\ r \in Series /\ n \in Nat /\ left \in Nat
      /\ mm_balance[w][r] \in Nat
  BY <1>0, <1>1, <1>2, <1>3, <1>4, EmergencyBurnType
<1>6. n = IF left < mm_balance[w][r] THEN left ELSE mm_balance[w][r]
  BY <1>0, <1>1, <1>2, <1>3 DEF EmergencyBurn
<1>7. mm_balance' = [mm_balance EXCEPT ![w][r] = @ - n]
  BY <1>0, <1>1, <1>2 DEF EmergencyWithdraw
<1>8. 0 \in 0..MaxU64
  BY AmountType
<1>9. RemainderOf(m, s)' =
        IF w = m /\ r = s THEN RemainderOf(m, s) - left + 0 ELSE RemainderOf(m, s)
  BY <1>0, <1>1, <1>3, <1>4, <1>8, RemainderLowered
<1>10. NoAccount \notin Nat /\ Custodied(m, s) \in Nat /\ RemainderOf(m, s) \in Nat
  BY WalletType, CustodySummable, RemainderSummable
<1>11. CASE w = m /\ r = s
  <2>1. mm_balance'[m][s] = mm_balance[m][s] - n
    BY <1>7, <1>11 DEF Typed, SettlerTypeOK
  <2>2. Custodied(m, s)' = mm_balance[m][s] - n /\ Custodied(m, s) = mm_balance[m][s]
    BY <1>5, <1>6, <1>10, <1>11, <2>1 DEF Custodied
  <2>3. v \in VaultsFor(m, s) /\ RemainderMap[v] = left
    BY <1>0, <1>1, <1>3, <1>4, <1>11 DEF VaultsFor, RemainderMap
  <2>4. left <= RemainderOf(m, s)
    BY <2>3, RemainderSummable, TotalAtLeast DEF RemainderOf
  <2>5. RemainderOf(m, s)' = RemainderOf(m, s) - left
    BY <1>5, <1>9, <1>10, <1>11
  <2>6. n = IF left < Custodied(m, s) THEN left ELSE Custodied(m, s)
    BY <1>6, <1>11, <2>2
  <2> QED
    BY <1>0, <1>1, <1>2, <1>3, <1>5, <1>11, <2>2, <2>4, <2>5, <2>6
<1>12. CASE ~(w = m /\ r = s)
  <2>1. mm_balance'[m][s] = mm_balance[m][s]
    BY <1>5, <1>7, <1>12 DEF Typed, SettlerTypeOK
  <2>2. Custodied(m, s)' = Custodied(m, s)
    BY <2>1 DEF Custodied
  <2> QED
    BY <1>0, <1>1, <1>9, <1>12, <2>2
<1> QED
  BY <1>11, <1>12

LEMMA ExitWithin ==
  ASSUME Typed, NEW m \in Wallet, NEW s \in Series, Within(m, s),
         NEW u \in Wallet, NEW v \in VaultKey, NEW p \in PoolAccount,
         EmergencyWithdraw(u, v, p)
  PROVE  Within(m, s)'
<1>1. PICK left, burn : left = vault_mm[v].remaining_amount /\ burn = EmergencyBurn(v)
  OBVIOUS
<1>2. /\ Custodied(m, s) \in Nat /\ RemainderOf(m, s) \in Nat
      /\ Custodied(m, s) <= RemainderOf(m, s)
  BY CustodySummable, RemainderSummable DEF Within
<1>3. \/ /\ burn = IF left < Custodied(m, s) THEN left ELSE Custodied(m, s)
         /\ left \in Nat /\ burn \in Nat /\ left <= RemainderOf(m, s)
         /\ Custodied(m, s)' = Custodied(m, s) - burn
         /\ RemainderOf(m, s)' = RemainderOf(m, s) - left
      \/ /\ Custodied(m, s)' = Custodied(m, s)
         /\ RemainderOf(m, s)' = RemainderOf(m, s)
  BY <1>1, ExitBooked
<1>4. Custodied(m, s)' <= RemainderOf(m, s)'
  BY <1>2, <1>3
<1> QED
  BY <1>4, RemainderNamed

LEMMA NextWithin ==
  Typed /\ BalanceWithinVaults /\ [BatchNext]_all_vars => BalanceWithinVaults'
<1> SUFFICES ASSUME Typed, BalanceWithinVaults, [BatchNext]_all_vars,
                    NEW m \in Wallet, NEW s \in Series
             PROVE  Within(m, s)'
  BY DEF BalanceWithinVaults, Within, RemainderOf, RemainderMap
<1>1. Within(m, s)
  BY WithinByParts
<1>2. CASE UNCHANGED custody
  <2>1. RemainderOf(m, s)' = RemainderOf(m, s)
    BY <1>2, RemainderSame DEF custody
  <2>2. Custodied(m, s)' = Custodied(m, s)
    BY <1>2 DEF custody, Custodied
  <2> QED
    BY <1>1, <2>1, <2>2 DEF Within
<1> QED
  BY <1>1, <1>2, OrderWithin, RedeemWithin, ExitWithin, CustodyWriters

LEMMA InitWithin == BatchInit => BalanceWithinVaults
<1> SUFFICES ASSUME BatchInit, NEW m \in Wallet, NEW s \in Series PROVE Within(m, s)
  BY WithinByParts
<1>1. Custodied(m, s) = 0
  BY DEF BatchInit, SettlerInit, Custodied
<1>2. RemainderOf(m, s) \in Nat
  BY InitTyped, RemainderSummable
<1> QED
  BY <1>1, <1>2 DEF Within

\* A maker's balance never exceeds what the vaults opened for it remember:
\* orders add to both, redemptions take from the balance, and an emergency
\* exit clears a vault's remainder and burns as much of it as is left.
THEOREM BalanceTheorem == BatchSpec => []BalanceWithinVaults
<1>1. Typed /\ BalanceWithinVaults /\ [BatchNext]_all_vars
        => Typed' /\ BalanceWithinVaults'
  BY NextTyped, NextWithin
<1> QED
  BY <1>1, InitTyped, InitWithin, PTL DEF BatchSpec

(***************************************************************************)
(* What the instructions of the settler do to the controller's books.      *)
(***************************************************************************)
\* A supply, and a sum over the pool, follow the ledger they add up.
LEMMA SupplyMinted ==
  ASSUME TypeOK, NEW s \in Series, NEW a \in Account, NEW n \in Nat,
         balance'[s] = Minted(balance[s], a, n)
  PROVE  Supply(s)' = Supply(s) + n /\ Supply(s) \in Nat
<1>1. Summable(balance[s], Account) /\ Supply(s) \in Nat
  BY LedgerSummable, SupplyIsNat
<1>2. balance[s] \in [Account -> Nat]
  BY DEF TypeOK
<1>3. balance'[s][a] = balance[s][a] + n /\ balance[s][a] \in Nat
  BY <1>2 DEF Minted
<1>4. \A x \in Account \ {a} : balance'[s][x] = balance[s][x]
  BY <1>2 DEF Minted
<1>5. Total(balance'[s], Account)
        = Total(balance[s], Account) - balance[s][a] + balance'[s][a]
  BY <1>1, <1>3, <1>4, TotalChanged
<1> QED
  BY <1>1, <1>3, <1>5 DEF Supply

LEMMA SupplyBurned ==
  ASSUME TypeOK, NEW s \in Series, NEW a \in Account, NEW n \in Nat,
         balance[s][a] >= n, balance'[s] = Burned(balance[s], a, n)
  PROVE  /\ Supply(s)' = Supply(s) - n /\ Supply(s) = Supply(s)' + n
         /\ Supply(s) \in Nat /\ Supply(s)' \in Nat
<1>1. Summable(balance[s], Account) /\ Supply(s) \in Nat
  BY LedgerSummable, SupplyIsNat
<1>2. balance[s] \in [Account -> Nat]
  BY DEF TypeOK
<1>3. balance'[s][a] = balance[s][a] - n /\ balance[s][a] \in Nat /\ balance'[s][a] \in Nat
  BY <1>2 DEF Burned
<1>4. \A x \in Account \ {a} : balance'[s][x] = balance[s][x]
  BY <1>2 DEF Burned
<1>5. Total(balance'[s], Account)
        = Total(balance[s], Account) - balance[s][a] + balance'[s][a]
  BY <1>1, <1>3, <1>4, TotalChanged
<1>6. balance[s][a] <= Total(balance[s], Account)
  BY <1>1, TotalAtLeast
<1> QED
  BY <1>1, <1>3, <1>5, <1>6 DEF Supply

\* Pool accounts are never the wallets' or the settler's.
LEMMA PoolApart ==
  ASSUME NEW k \in Key
  PROVE  k \notin PoolAccount /\ \A m : k \notin PoolAccountsOf(m)
  BY ControllerAssumption DEF PoolAccountsOf

\* A transfer between keys leaves the pool.
LEMMA MoveKeepsPool ==
  ASSUME NEW l \in Ledgers, NEW t \in Mint, NEW from \in Key, NEW to \in Key, NEW n \in Nat,
         NEW m \in Mint, NEW a \in PoolAccount
  PROVE  Move(l, t, from, to, n)[m][a] = l[m][a]
<1>1. a # from /\ a # to /\ a \in Account /\ from \in Account /\ to \in Account
  BY PoolApart DEF Account
<1> QED
  BY <1>1, MoveElsewhere

\* What an order leaves in the books of the controller: a vault w, short n of
\* s over collateral c.
Ordered(w, s, n, c) ==
  /\ ~Exists(w) /\ Exists(w)' /\ vault'[w] \in Vault
  /\ vault'[w].collateral_mint = Terms[s].collateral_mint
  /\ vault'[w].collateral_amount = c
  /\ vault'[w].otoken_mint = s /\ vault'[w].short_amount = n
  /\ ~vault'[w].settled
  /\ \A v \in VaultKey : v # w => vault'[v] = vault[v]
  /\ now < Terms[s].expiry /\ expiry_price[s] # NoAccount
  /\ CollateralComputable(Terms[s], n) /\ c >= RequiredCollateral(Terms[s], n)
  /\ Supply(s)' = Supply(s) + n
  /\ \A r \in Series : r # s => Supply(r)' = Supply(r)
  /\ \A m \in Mint :
       PoolTotal(m)' = PoolTotal(m) + (IF m = Terms[s].collateral_mint THEN c ELSE 0)
  /\ UNCHANGED <<config, expiry_price, outside, history, burned>>

\* An order deposits its collateral into the pool and moves the premium
\* between wallets.
LEMMA OrderPool ==
  ASSUME Typed, NEW user \in Wallet, NEW q \in Quotes, NEW p \in PoolAccount,
         NEW n \in 1..MaxU64, NEW c \in 1..MaxU64, ExecuteOrder(user, q, p, n, c),
         NEW m \in Mint
  PROVE  PoolTotal(m)' = PoolTotal(m)
           + (IF m = Terms[q.otoken_mint].collateral_mint THEN c ELSE 0)
<1> DEFINE s == q.otoken_mint
           x == Terms[s].collateral_mint
           t == q.premium_mint
           premium == Premium(q, n)
           fee == ProtocolFee(premium)
           l1 == Move(balance, x, user, p, c)
           l2 == [l1 EXCEPT ![s] = Minted(@, Settler, n)]
           l3 == Move(l2, t, q.maker, user, premium - fee)
           l4 == Move(l3, t, q.maker, settler_config.treasury, fee)
<1>1. /\ s \in Series /\ x \in Mint /\ t \in Mint /\ m # s
      /\ n \in Nat /\ c \in Nat /\ c > 0 /\ TypeOK /\ balance \in Ledgers
  BY QuoteType, TermsType, AmountType, ControllerAssumption DEF Typed, TypeOK, Ledgers
<1>2. user \in Key /\ q.maker \in Key /\ p \in Account /\ user \in Account
      /\ q.maker \in Account /\ Settler \in Account
  BY WalletType, QuoteType DEF Account
<1>3. SettlerReady
  BY DEF ExecuteOrder
<1>4. /\ premium \in Nat /\ fee \in Nat /\ premium - fee \in Nat
      /\ settler_config.treasury \in Key
  BY <1>1, <1>3, PremiumType, WalletType
<1>5. /\ CanMove(balance, x, user, c)
      /\ CanMove(l2, t, q.maker, premium - fee)
      /\ balance' = l4
      /\ PoolMint[p] = x /\ Fee(x) = 0
  BY DEF ExecuteOrder, CanMove, CanDeposit, DepositFits, OpenedVault
<1> HIDE DEF premium, fee, l1, l2, l3, l4
<1>6. l1 \in Ledgers
  BY <1>1, <1>2, <1>5, MoveType DEF l1
<1>7. l2 \in Ledgers /\ l2[m] = l1[m]
  <2>1. Minted(l1[s], Settler, n) \in [Account -> Nat]
    BY <1>1, <1>2, <1>6 DEF Minted, Ledgers
  <2> QED
    BY <1>1, <1>6, <2>1 DEF l2, Ledgers
<1>8. l3 \in Ledgers
  <2>1. user \in Account
    BY <1>2
  <2> QED
    BY <1>1, <1>2, <1>4, <1>5, <1>7, MoveType DEF l3
<1>9. \A a \in PoolAccount : l3[m][a] = l2[m][a]
  <2>1. PICK net : net = premium - fee
    OBVIOUS
  <2>2. l3 = Move(l2, t, q.maker, user, net) /\ net \in Nat
    BY <1>4, <2>1 DEF l3
  <2>3. \A a \in PoolAccount : Move(l2, t, q.maker, user, net)[m][a] = l2[m][a]
    BY <1>1, <1>2, <1>7, <2>2, MoveKeepsPool
  <2> QED
    BY <2>2, <2>3
<1>10. \A a \in PoolAccount : l4[m][a] = l3[m][a]
  <2>1. PICK k, g : k = settler_config.treasury /\ g = fee
    OBVIOUS
  <2>2. l4 = Move(l3, t, q.maker, k, g) /\ k \in Key /\ g \in Nat
    BY <1>4, <2>1 DEF l4
  <2>3. \A a \in PoolAccount : Move(l3, t, q.maker, k, g)[m][a] = l3[m][a]
    BY <1>1, <1>2, <1>8, <2>2, MoveKeepsPool
  <2> QED
    BY <2>2, <2>3
<1>11. \A a \in PoolAccount : balance'[m][a] = l1[m][a]
  BY <1>5, <1>7, <1>9, <1>10
<1>12. Total(balance'[m], PoolAccountsOf(m)) = Total(l1[m], PoolAccountsOf(m))
  BY <1>11, TotalSame DEF PoolAccountsOf
<1>13. PoolAccountsOf(m)' = PoolAccountsOf(m)
  BY DEF PoolAccountsOf
<1>14. PoolTotal(m)' = Total(l1[m], PoolAccountsOf(m))
  BY <1>12, <1>13 DEF PoolTotal
<1>15. /\ Summable(balance[m], PoolAccountsOf(m)) /\ PoolAccountsOf(m) \subseteq Account
       /\ balance[m] \in [Account -> Nat]
  BY <1>1, PoolSummable
<1>16. PoolTotal(m) \in Nat
  BY <1>15, TotalIsNat DEF PoolTotal
<1>17. CASE m = x
  <2>1. l1[m] = TransferredLess(balance[m], user, p, c, 0)
    BY <1>1, <1>5, <1>17 DEF l1, Move, Ledgers
  <2>2. p \in PoolAccountsOf(m) /\ user # p
    BY <1>2, <1>5, <1>17, PoolApart DEF PoolAccountsOf
  <2>3. l1[m][p] = balance[m][p] + c /\ balance[m][p] \in Nat
    BY <1>1, <1>2, <1>15, <2>1, <2>2 DEF TransferredLess
  <2>4. \A a \in PoolAccountsOf(m) \ {p} : l1[m][a] = balance[m][a]
    <3>1. \A a \in PoolAccountsOf(m) : a # user
      BY <1>2, PoolApart
    <3> QED
      BY <1>15, <2>1, <3>1 DEF TransferredLess
  <2>5. Total(l1[m], PoolAccountsOf(m)) =
          Total(balance[m], PoolAccountsOf(m)) - balance[m][p] + l1[m][p]
    BY <1>1, <1>15, <2>2, <2>3, <2>4, TotalChanged
  <2>6. Total(l1[m], PoolAccountsOf(m)) = PoolTotal(m) + c
    BY <1>1, <1>16, <2>3, <2>5 DEF PoolTotal
  <2> QED
    BY <1>14, <1>17, <2>6
<1>18. CASE m # x
  <2>1. l1[m] = balance[m]
    BY <1>1, <1>18 DEF l1, Move, Ledgers
  <2> QED
    BY <1>14, <1>16, <1>18, <2>1 DEF PoolTotal
<1> QED
  BY <1>17, <1>18

LEMMA OrderEffect ==
  ASSUME Typed, NEW user \in Wallet, NEW q \in Quotes, NEW p \in PoolAccount,
         NEW n \in 1..MaxU64, NEW c \in 1..MaxU64, ExecuteOrder(user, q, p, n, c),
         NEW w, w = <<Settler, next_id[Settler]>>
  PROVE  w \in VaultKey /\ Ordered(w, q.otoken_mint, n, c)
<1> DEFINE s == q.otoken_mint
           m == Terms[s].collateral_mint
           u == OrderVault(m, user, c, s, n)
<1>1. /\ s \in Series /\ m \in Mint /\ n \in Nat /\ c \in Nat /\ TypeOK
      /\ user \in Key /\ Settler \in Key /\ Settler \in Account
      /\ n \in 0..MaxU64 /\ c \in 0..MaxU64
  BY QuoteType, TermsType, AmountType, WalletType DEF Typed
<1>2. next_id[Settler] \in 0..MaxVaultId /\ next_id[Settler] + 1 <= MaxVaultId
  BY <1>1 DEF ExecuteOrder, CanOpen, TypeOK
<1>3. w \in VaultKey
  BY <1>1, <1>2, ControllerAssumption DEF VaultKey, VaultId
<1>4. vault' = [vault EXCEPT ![w] = u]
  BY DEF ExecuteOrder, OrderVault
<1>5. /\ u \in Vault /\ u.short_amount = n /\ u.otoken_mint = s
      /\ u.collateral_amount = c
  BY <1>1, OrderVaultType
<1>6. u.collateral_mint = m /\ u.settled = FALSE
  BY DEF OrderVault, WithShort, WithCollateral, OpenedVault
<1>7. CanMint(WithCollateral(OpenedVault(m, user), c), s, n) /\ ~Exists(w)
  BY DEF ExecuteOrder
<1>8. /\ WithCollateral(OpenedVault(m, user), c).short_amount + n = n
      /\ WithCollateral(OpenedVault(m, user), c).collateral_amount = c
  BY <1>1 DEF WithCollateral, OpenedVault
<1>9. /\ now < Terms[s].expiry /\ expiry_price[s] # NoAccount
      /\ CollateralComputable(Terms[s], n) /\ c >= RequiredCollateral(Terms[s], n)
  BY <1>7, <1>8 DEF CanMint, MintFits, Covers
<1>10. vault'[w] = u /\ \A v \in VaultKey : v # w => vault'[v] = vault[v]
  BY <1>1, <1>3, <1>4 DEF TypeOK
<1>11. Exists(w)'
  BY <1>5, <1>10, VaultIsAccount DEF Exists
<1>12. Supply(s)' = Supply(s) + n /\ \A r \in Series : r # s => Supply(r)' = Supply(r)
  <2>1. balance'[s] = Minted(balance[s], Settler, n)
        /\ \A r \in Series : r # s => balance'[r] = balance[r]
    BY OrderLedgers
  <2> QED
    BY <1>1, <2>1, SupplyMinted, SupplySame
<1>13. \A x \in Mint : PoolTotal(x)' = PoolTotal(x) + (IF x = m THEN c ELSE 0)
  BY OrderPool
<1>14. UNCHANGED <<config, expiry_price, outside, history, burned>>
  BY DEF ExecuteOrder
<1> HIDE DEF u
<1> QED
  BY <1>3, <1>5, <1>6, <1>7, <1>9, <1>10, <1>11, <1>12, <1>13, <1>14 DEF Ordered

\* A transfer out of the pool takes what is debited.
LEMMA MoveDrawsPool ==
  ASSUME TypeOK, NEW l \in Ledgers, NEW m \in Mint, l[m] = balance[m], NEW t \in Mint,
         NEW p \in PoolAccount, PoolMint[p] = t, NEW to \in Key, NEW n \in Nat,
         balance[t][p] >= n
  PROVE  Total(Move(l, t, p, to, n)[m], PoolAccountsOf(m))
           = PoolTotal(m) - (IF m = t THEN n ELSE 0)
<1> DEFINE P == PoolAccountsOf(m)
           k == Move(l, t, p, to, n)
<1>1. Summable(balance[m], P) /\ P \subseteq Account /\ balance[m] \in [Account -> Nat]
  BY PoolSummable
<1>2. PoolTotal(m) = Total(balance[m], P) /\ PoolTotal(m) \in Nat
  BY <1>1, TotalIsNat DEF PoolTotal
<1>3. \A a \in P : a # to
  BY PoolApart
<1> HIDE DEF P
<1>4. CASE m = t /\ n # 0
  <2>1. k[m] = TransferredLess(balance[m], p, to, n, Fee(m))
    BY <1>4 DEF Move, Ledgers
  <2>2. p \in P
    BY <1>4 DEF P, PoolAccountsOf
  <2>3. k[m][p] = balance[m][p] - n /\ k[m][p] \in Nat /\ balance[m][p] \in Nat
    BY <1>1, <1>3, <1>4, <2>1, <2>2 DEF TransferredLess
  <2>4. \A a \in P \ {p} : k[m][a] = balance[m][a]
    BY <1>1, <1>3, <2>1 DEF TransferredLess
  <2> HIDE DEF k
  <2>5. Total(k[m], P) = Total(balance[m], P) - balance[m][p] + k[m][p]
    BY <1>1, <2>2, <2>3, <2>4, TotalChanged
  <2>6. Total(k[m], P) = PoolTotal(m) - n
    BY <1>2, <2>3, <2>5
  <2> QED
    BY <1>4, <2>6 DEF k, P
<1>5. CASE m # t \/ n = 0
  <2>1. k[m] = balance[m]
    BY <1>5 DEF Move, Ledgers
  <2>2. Total(k[m], P) = PoolTotal(m)
    BY <1>2, <2>1
  <2> QED
    BY <1>2, <1>5, <2>2 DEF P
<1> QED
  BY <1>4, <1>5

\* A pool's total is the sum of any ledgers that agree on the pool accounts.
LEMMA PoolTotalAs ==
  ASSUME NEW m \in Mint, NEW l, \A a \in PoolAccount : balance'[m][a] = l[m][a]
  PROVE  PoolTotal(m)' = Total(l[m], PoolAccountsOf(m))
<1>1. Total(balance'[m], PoolAccountsOf(m)) = Total(l[m], PoolAccountsOf(m))
  BY TotalSame DEF PoolAccountsOf
<1>2. PoolAccountsOf(m)' = PoolAccountsOf(m)
  BY DEF PoolAccountsOf
<1> QED
  BY <1>1, <1>2 DEF PoolTotal

\* The pool's total is a number after any step that keeps ledgers ledgers.
LEMMA PoolTotalNext ==
  ASSUME balance' \in Ledgers, NEW m \in Mint
  PROVE  PoolTotal(m)' \in Nat
<1>1. IsFiniteSet(PoolAccountsOf(m))
  BY ControllerAssumption, FS_Subset DEF PoolAccountsOf
<1>2. balance'[m] \in [Account -> Nat] /\ PoolAccountsOf(m) \subseteq Account
  BY DEF Ledgers, PoolAccountsOf, Account
<1>3. Total(balance'[m], PoolAccountsOf(m)) \in Nat
  BY <1>1, <1>2, TotalIsNat DEF Summable
<1>4. PoolAccountsOf(m)' = PoolAccountsOf(m)
  BY DEF PoolAccountsOf
<1> QED
  BY <1>3, <1>4 DEF PoolTotal

LEMMA CustodyPool ==
  ASSUME Typed, NEW w \in Wallet, NEW s \in Series, NEW p \in PoolAccount,
         NEW n \in 1..MaxU64, RedeemCustody(w, s, p, n), NEW m \in Mint
  PROVE  PoolTotal(m)' = PoolTotal(m)
           - (IF m = Terms[s].collateral_mint THEN PayoutOf(s, n) ELSE 0)
<1> DEFINE c == Terms[s].collateral_mint
           payout == PayoutOf(s, n)
           l1 == [balance EXCEPT ![s] = Burned(@, Settler, n)]
           l2 == Move(l1, c, p, Settler, payout)
           l3 == Move(l2, c, Settler, w, Gained(l2, c))
<1>1. /\ c \in Mint /\ c # s /\ n \in Nat /\ TypeOK /\ m # s
      /\ Settler \in Key /\ w \in Key /\ Settler \in Account /\ w \in Account
      /\ p \in Account
  BY TermsType, AmountType, WalletType, ControllerAssumption DEF Typed, Account
<1>2. CanRedeem(Settler, s, p, n) /\ balance' = l3
  BY DEF RedeemCustody, CanRedeemCustody
<1>3. payout \in Nat
  BY RedeemCustodyLedgers
<1>4. /\ CanBurn(balance[s], Settler, n) /\ balance[c][p] >= payout /\ PoolMint[p] = c
  BY <1>2 DEF CanRedeem, CanPayOut, CanTransfer
<1> HIDE DEF payout, l1, l2, l3
<1>5. l1 \in Ledgers /\ l1[m] = balance[m] /\ l1[c] = balance[c]
  BY <1>1, <1>4, BurnedType DEF l1
<1>6. Total(l2[m], PoolAccountsOf(m)) = PoolTotal(m) - (IF m = c THEN payout ELSE 0)
  BY <1>1, <1>3, <1>4, <1>5, MoveDrawsPool DEF l2
<1>7. l2 \in Ledgers
  <2>1. CanMove(l1, c, p, payout)
    BY <1>4, <1>5 DEF CanMove, CanTransfer
  <2> QED
    BY <1>1, <1>3, <1>5, <2>1, MoveType DEF l2
<1>8. ASSUME NEW a \in PoolAccount PROVE l3[m][a] = l2[m][a]
  <2>1. a # Settler /\ a # w /\ a \in Account
    BY <1>1, PoolApart DEF Account
  <2> QED
    BY <1>1, <1>7, <2>1 DEF l3, Move, Ledgers, TransferredLess
<1>9. PoolTotal(m)' = Total(l2[m], PoolAccountsOf(m))
  BY <1>2, <1>8, PoolTotalAs
<1> QED
  BY <1>6, <1>9 DEF payout

\* What redeeming n of the custody of s leaves in the controller's books: a
\* pool has paid no more than the payout.
Withdrawn(s, n) ==
  /\ UNCHANGED <<accounts, outside, closed_by, burned>>
  /\ Priced(s) /\ n \in Nat /\ n > 0 /\ PayoutOf(s, n) \in Nat
  /\ Supply(s) = Supply(s)' + n /\ Supply(s)' \in Nat
  /\ \A r \in Series : r # s => Supply(r)' = Supply(r)
  /\ redeemed' = [redeemed EXCEPT ![s] = @ + n]
  /\ paid' = [paid EXCEPT ![s] = @ + PayoutOf(s, n)]
  /\ \A m \in Mint :
       /\ PoolTotal(m)' \in Nat
       /\ PoolTotal(m)' >= PoolTotal(m)
            - (IF m = Terms[s].collateral_mint THEN PayoutOf(s, n) ELSE 0)

LEMMA CustodyEffect ==
  ASSUME Typed, NEW w \in Wallet, NEW s \in Series, NEW p \in PoolAccount,
         NEW n \in 1..MaxU64, RedeemCustody(w, s, p, n)
  PROVE  Withdrawn(s, n)
<1>1. /\ TypeOK /\ n \in Nat /\ n > 0 /\ Settler \in Account
  BY AmountType, WalletType DEF Typed
<1>2. /\ balance'[s] = Burned(balance[s], Settler, n)
      /\ \A r \in Series : r # s => balance'[r] = balance[r]
      /\ PayoutOf(s, n) \in Nat
  BY RedeemCustodyLedgers
<1>3. Priced(s) /\ balance[s][Settler] >= n
  BY DEF RedeemCustody, CanRedeemCustody, CanRedeem, CanSettleSeries, CanBurn
<1>4. Supply(s) = Supply(s)' + n /\ Supply(s)' \in Nat
  BY <1>1, <1>2, <1>3, SupplyBurned
<1>5. \A r \in Series : r # s => Supply(r)' = Supply(r)
  BY <1>2, SupplySame
<1>6. ASSUME NEW m \in Mint
      PROVE  /\ PoolTotal(m)' \in Nat
             /\ PoolTotal(m)' >= PoolTotal(m)
                  - (IF m = Terms[s].collateral_mint THEN PayoutOf(s, n) ELSE 0)
  <2>1. PoolTotal(m)' = PoolTotal(m)
          - (IF m = Terms[s].collateral_mint THEN PayoutOf(s, n) ELSE 0)
    BY CustodyPool
  <2>2. PoolTotal(m)' \in Nat
    BY RedeemCustodyLedgers, PoolTotalNext
  <2> QED
    BY <2>1, <2>2
<1>7. /\ UNCHANGED <<accounts, outside, closed_by, burned>>
      /\ redeemed' = [redeemed EXCEPT ![s] = @ + n]
      /\ paid' = [paid EXCEPT ![s] = @ + PayoutOf(s, n)]
  BY DEF RedeemCustody
<1> QED
  BY <1>1, <1>2, <1>3, <1>4, <1>5, <1>6, <1>7 DEF Withdrawn

LEMMA ExitPool ==
  ASSUME Typed, NEW u \in Wallet, NEW v \in VaultKey, NEW p \in PoolAccount,
         EmergencyWithdraw(u, v, p), NEW m \in Mint
  PROVE  PoolTotal(m)' = PoolTotal(m)
           - (IF m = vault[v].collateral_mint THEN vault[v].collateral_amount ELSE 0)
<1> DEFINE s == vault_mm[v].otoken_mint
           c == vault[v].collateral_mint
           burn == EmergencyBurn(v)
           whole == vault[v].collateral_amount
           l1 == [balance EXCEPT ![s] = Burned(@, Settler, burn)]
           l2 == Move(l1, c, p, u, whole)
<1>1. /\ vault[v] \in Vault /\ vault_mm[v] # NoAccount /\ TypeOK
      /\ u \in Key
  BY VaultNotNoAccount, WalletType DEF EmergencyWithdraw, Typed
<1>2. c \in Mint /\ whole \in Nat /\ s \in Series /\ burn \in Nat
  BY <1>1, EmergencyBurnType, AmountType DEF Vault
<1>3. /\ CanBurn(balance[s], Settler, burn) /\ balance[c][p] >= whole
      /\ PoolMint[p] = c /\ balance' = l2
  BY DEF EmergencyWithdraw, CanEmergencyWithdraw, CanPayOut, CanTransfer
<1> HIDE DEF burn, l1, l2
<1>4. m # s
  BY <1>2, ControllerAssumption
<1>5. l1 \in Ledgers /\ l1[m] = balance[m]
  BY <1>1, <1>2, <1>3, <1>4, BurnedType DEF l1
<1>6. Total(l2[m], PoolAccountsOf(m)) = PoolTotal(m) - (IF m = c THEN whole ELSE 0)
  BY <1>1, <1>2, <1>3, <1>5, MoveDrawsPool DEF l2
<1>7. PoolTotal(m)' = Total(l2[m], PoolAccountsOf(m))
  BY <1>3, PoolTotalAs
<1> QED
  BY <1>6, <1>7

\* What the emergency exit of w leaves there, burning the custody b of s.
Exited(w, s, b) ==
  /\ vault[w] \in Vault /\ Open(w) /\ s \in Series /\ b \in Nat
  /\ vault' = [vault EXCEPT ![w].settled = TRUE]
  /\ closed_by' = [closed_by EXCEPT ![w] = "emergency_withdraw_vault"]
  /\ burned' = [burned EXCEPT ![s] = @ + b]
  /\ Supply(s) = Supply(s)' + b /\ Supply(s)' \in Nat
  /\ \A r \in Series : r # s => Supply(r)' = Supply(r)
  /\ \A m \in Mint :
       PoolTotal(m)' = PoolTotal(m)
         - (IF m = vault[w].collateral_mint THEN vault[w].collateral_amount ELSE 0)
  /\ UNCHANGED <<config, next_id, expiry_price, outside, redeemed, paid>>

LEMMA ExitEffect ==
  ASSUME Typed, NEW u \in Wallet, NEW v \in VaultKey, NEW p \in PoolAccount,
         EmergencyWithdraw(u, v, p)
  PROVE  Exited(v, vault_mm[v].otoken_mint, EmergencyBurn(v))
<1>0. PICK s, b : s = vault_mm[v].otoken_mint /\ b = EmergencyBurn(v)
  OBVIOUS
<1>1. /\ vault[v] \in Vault /\ vault_mm[v] # NoAccount /\ TypeOK /\ Open(v)
      /\ Settler \in Account
  BY VaultNotNoAccount, WalletType
  DEF EmergencyWithdraw, CanEmergencyWithdraw, Typed, Open
<1>2. s \in Series /\ b \in Nat
  BY <1>0, <1>1, EmergencyBurnType
<1>3. balance[s][Settler] >= b
  BY <1>0 DEF EmergencyWithdraw, CanBurn
<1>4. /\ balance'[s] = Burned(balance[s], Settler, b)
      /\ \A r \in Series : r # s => balance'[r] = balance[r]
  BY <1>0, EmergencyLedgers
<1>5. \A m \in Mint :
        PoolTotal(m)' = PoolTotal(m)
          - (IF m = vault[v].collateral_mint THEN vault[v].collateral_amount ELSE 0)
  BY ExitPool
<1>6. /\ vault' = [vault EXCEPT ![v].settled = TRUE]
      /\ closed_by' = [closed_by EXCEPT ![v] = "emergency_withdraw_vault"]
      /\ burned' = [burned EXCEPT ![s] = @ + b]
      /\ UNCHANGED <<config, next_id, expiry_price, outside, redeemed, paid>>
  BY <1>0 DEF EmergencyWithdraw
<1>7. Supply(s) = Supply(s)' + b /\ Supply(s)' \in Nat
  BY <1>1, <1>2, <1>3, <1>4, SupplyBurned
<1>8. \A r \in Series : r # s => Supply(r)' = Supply(r)
  BY <1>4, SupplySame
<1>9. Exited(v, s, b)
  BY <1>1, <1>2, <1>5, <1>6, <1>7, <1>8 DEF Exited
<1> QED
  BY <1>0, <1>9

(***************************************************************************)
(* Supply: what circulates, was redeemed or was burned by exits is what    *)
(* the vaults wrote.                                                       *)
(***************************************************************************)
LEMMA NewWriter ==
  ASSUME TypeOK, NEW s \in Series, NEW w \in VaultKey, NEW n \in Nat,
         \A v \in VaultKey : v # w => vault'[v] = vault[v],
         ~Exists(w), Wrote(w, s)', vault'[w].short_amount = n
  PROVE  WrittenOf(s)' = WrittenOf(s) + n
<1>1. Summable(Shorts, Writers(s))
  BY ShortsSummable
<1>2. Writers(s)' = Writers(s) \cup {w} /\ w \notin Writers(s)
  BY DEF Writers, Wrote, Exists
<1>3. Summable(Shorts', Writers(s))
  <2>1. \A v \in Writers(s) : Shorts'[v] = Shorts[v]
    BY <1>2 DEF Shorts, Writers
  <2> QED
    BY <1>1, <2>1 DEF Summable
<1>4. Shorts'[w] = n
  BY DEF Shorts
<1>5. Total(Shorts', Writers(s) \cup {w}) = Total(Shorts', Writers(s)) + n
  BY <1>2, <1>3, <1>4, TotalAdded
<1>6. Total(Shorts', Writers(s)) = Total(Shorts, Writers(s))
  <2>1. \A v \in Writers(s) : Shorts'[v] = Shorts[v]
    BY <1>2 DEF Shorts, Writers
  <2> QED
    BY <2>1, TotalSame
<1> QED
  BY <1>2, <1>5, <1>6 DEF WrittenOf

LEMMA OrderWrites ==
  ASSUME TypeOK, NEW w \in VaultKey, NEW s \in Series, NEW n \in Nat, NEW c,
         Ordered(w, s, n, c)
  PROVE  /\ WrittenOf(s)' = WrittenOf(s) + n
         /\ \A r \in Series : r # s =>
              WrittenOf(r)' = WrittenOf(r) /\ Writers(r)' = Writers(r)
<1>1. Wrote(w, s)'
  BY DEF Ordered, Wrote
<1>2. WrittenOf(s)' = WrittenOf(s) + n
  BY <1>1, NewWriter DEF Ordered
<1>3. ASSUME NEW r \in Series, r # s
      PROVE  WrittenOf(r)' = WrittenOf(r) /\ Writers(r)' = Writers(r)
  <2>1. ~Wrote(w, r) /\ ~Wrote(w, r)'
    BY <1>3 DEF Ordered, Wrote
  <2>2. \A v \in VaultKey : v # w => vault'[v] = vault[v]
    BY DEF Ordered
  <2> QED
    BY <2>1, <2>2, WriterSame, WritersKept
<1> QED
  BY <1>2, <1>3

Burnt(s) == SupplyOf(s) + burned[s] = WrittenOf(s)

LEMMA BurntByParts == SupplyAccountedWithBurns <=> \A s \in Series : Burnt(s)
  BY DEF SupplyAccountedWithBurns, Burnt, SupplyOf, WrittenOf, Shorts, Writers

LEMMA BurntByPartsNext ==
  SupplyAccountedWithBurns' <=> (\A s \in Series : Burnt(s))'
  BY BurntByParts, PTL

LEMMA BurnedIsNat ==
  Typed => \A s \in Series : burned[s] \in Nat
  BY DEF Typed, SettlerTypeOK

LEMMA OrderBurnt ==
  ASSUME Typed, Typed', NEW r \in Series, Burnt(r),
         NEW w \in VaultKey, NEW s \in Series, NEW n \in Nat, NEW c, Ordered(w, s, n, c)
  PROVE  Burnt(r)'
<1>1. Supply(r) \in Nat /\ redeemed[r] \in Nat /\ WrittenOf(r) \in Nat /\ burned[r] \in Nat
  BY SupplyIsNat, BurnedIsNat DEF Typed
<1>2. redeemed' = redeemed /\ burned' = burned
  BY DEF Ordered, history
<1>3. CASE r = s
  <2>1. Supply(s)' = Supply(s) + n /\ WrittenOf(s)' = WrittenOf(s) + n
    BY OrderWrites DEF Ordered, Typed
  <2> QED
    BY <1>1, <1>2, <1>3, <2>1 DEF Burnt, SupplyOf
<1>4. CASE r # s
  <2>1. Supply(r)' = Supply(r) /\ WrittenOf(r)' = WrittenOf(r)
    BY <1>4, OrderWrites DEF Ordered, Typed
  <2> QED
    BY <1>2, <2>1 DEF Burnt, SupplyOf
<1> QED
  BY <1>3, <1>4

LEMMA CustodyBurnt ==
  ASSUME Typed, NEW r \in Series, Burnt(r), NEW s \in Series, NEW n \in Nat,
         Withdrawn(s, n)
  PROVE  Burnt(r)'
<1>1. Supply(r) \in Nat /\ redeemed[r] \in Nat /\ WrittenOf(r) \in Nat /\ burned[r] \in Nat
  BY SupplyIsNat, BurnedIsNat DEF Typed
<1>2. burned' = burned /\ vault' = vault
  BY DEF Withdrawn, accounts
<1>3. WrittenOf(r)' = WrittenOf(r)
  BY <1>2, WrittenSame DEF Wrote, Exists
<1>4. redeemed'[r] = IF r = s THEN redeemed[r] + n ELSE redeemed[r]
  BY DEF Withdrawn, Typed, TypeOK
<1>5. Supply(r) = Supply(r)' + (IF r = s THEN n ELSE 0) /\ Supply(r)' \in Nat
  BY <1>1 DEF Withdrawn
<1> QED
  BY <1>1, <1>2, <1>3, <1>4, <1>5 DEF Burnt, SupplyOf

LEMMA ExitBurnt ==
  ASSUME Typed, NEW r \in Series, Burnt(r), NEW w \in VaultKey, NEW s \in Series,
         NEW b \in Nat, Exited(w, s, b)
  PROVE  Burnt(r)'
<1>1. Supply(r) \in Nat /\ redeemed[r] \in Nat /\ WrittenOf(r) \in Nat /\ burned[r] \in Nat
  BY SupplyIsNat, BurnedIsNat DEF Typed
<1>2. WrittenOf(r)' = WrittenOf(r)
  BY CloseVaultWritten DEF Exited, Open, Typed
<1>3. burned'[r] = IF r = s THEN burned[r] + b ELSE burned[r]
  BY DEF Exited, Typed, SettlerTypeOK
<1>4. Supply(r) = Supply(r)' + (IF r = s THEN b ELSE 0) /\ Supply(r)' \in Nat
  BY <1>1 DEF Exited
<1>5. redeemed' = redeemed
  BY DEF Exited
<1> QED
  BY <1>1, <1>2, <1>3, <1>4, <1>5 DEF Burnt, SupplyOf

LEMMA StepBurnt ==
  ASSUME Typed, Collateralised, NEW r \in Series, Burnt(r), [Next]_vars, burned' = burned
  PROVE  Burnt(r)'
<1>1. SupplyOf(r) \in Nat /\ WrittenOf(r) \in Nat /\ SupplyOf(r)' \in Nat
      /\ WrittenOf(r)' \in Nat /\ burned[r] \in Nat
  BY NextTypeOK, SuppliesTyped, SuppliesTypedNext, BurnedIsNat DEF Typed
<1>2. SupplyOf(r)' + WrittenOf(r) = SupplyOf(r) + WrittenOf(r)'
  BY SupplyDrift DEF Typed
<1> QED
  BY <1>1, <1>2 DEF Burnt

\* Every step of the settler and of the controller below it, by what it does to
\* the books.
LEMMA BookSteps ==
  ASSUME Typed, [BatchNext]_all_vars
  PROVE  \/ [Next]_vars /\ UNCHANGED <<custody, burned>>
         \/ \E w \in VaultKey, s \in Series, n, c \in 1..MaxU64 : Ordered(w, s, n, c)
         \/ \E s \in Series, n \in 1..MaxU64 : Withdrawn(s, n)
         \/ \E w \in VaultKey, s \in Series, b \in Nat : Exited(w, s, b)
<1>1. ASSUME NEW m \in Wallet, NEW s \in Series, NEW p \in PoolAccount, NEW n \in 1..MaxU64,
             RedeemCustody(m, s, p, n)
      PROVE  Withdrawn(s, n)
  BY <1>1, CustodyEffect
<1>2. ASSUME NEW u \in Wallet, NEW q \in Quotes, NEW p \in PoolAccount,
             NEW n \in 1..MaxU64, NEW c \in 1..MaxU64, ExecuteOrder(u, q, p, n, c)
      PROVE  \E w \in VaultKey : Ordered(w, q.otoken_mint, n, c)
  BY <1>2, OrderEffect
<1>3. ASSUME NEW u \in Wallet, NEW v \in VaultKey, NEW p \in PoolAccount,
             EmergencyWithdraw(u, v, p)
      PROVE  \E s \in Series, b \in Nat : Exited(v, s, b)
  <2>1. PICK s, b : s = vault_mm[v].otoken_mint /\ b = EmergencyBurn(v)
    OBVIOUS
  <2>2. Exited(v, s, b)
    BY <1>3, <2>1, ExitEffect
  <2>3. s \in Series /\ b \in Nat
    BY <2>2 DEF Exited
  <2> QED
    BY <2>2, <2>3
<1>4. \A q \in Quotes : q.otoken_mint \in Series
  BY QuoteType
<1> QED
  BY <1>1, <1>2, <1>3, <1>4, CustodyWriters

LEMMA NextBurnt ==
  Typed /\ Typed' /\ Collateralised /\ SupplyAccountedWithBurns /\ [BatchNext]_all_vars
    => SupplyAccountedWithBurns'
<1> SUFFICES ASSUME Typed, Typed', Collateralised, SupplyAccountedWithBurns,
                    [BatchNext]_all_vars, NEW r \in Series
             PROVE  Burnt(r)'
  BY BurntByPartsNext
<1>1. Burnt(r) /\ \A n \in 1..MaxU64 : n \in Nat
  BY BurntByParts, AmountType
<1> QED
  BY <1>1, StepBurnt, OrderBurnt, CustodyBurnt, ExitBurnt, BookSteps

(***************************************************************************)
(* Collateral, prices and the marks of closed vaults under the settler.    *)
(***************************************************************************)
LEMMA OrderCollateralised ==
  ASSUME TypeOK, Collateralised, NEW w \in VaultKey, NEW s \in Series, NEW n, NEW c,
         Ordered(w, s, n, c)
  PROVE  Collateralised'
<1>1. RegisteredStay
  BY DEF RegisteredStay, Ordered
<1>2. (Short(w) => Backed(w))'
  BY DEF Ordered, Backed
<1> QED
  BY <1>1, <1>2, OneVaultWritten DEF Ordered

LEMMA CustodyCollateralised ==
  ASSUME TypeOK, Collateralised, NEW s \in Series, NEW n, Withdrawn(s, n)
  PROVE  Collateralised'
  BY VaultsUntouched DEF Withdrawn, accounts, RegisteredStay

LEMMA ExitCollateralised ==
  ASSUME TypeOK, Collateralised, NEW w \in VaultKey, NEW s, NEW b, Exited(w, s, b)
  PROVE  Collateralised'
  BY CloseVaultBacked DEF Exited, Open, RegisteredStay

LEMMA BatchCollateralised ==
  Typed /\ Collateralised /\ [BatchNext]_all_vars => Collateralised'
<1> SUFFICES ASSUME Typed, Collateralised, [BatchNext]_all_vars PROVE Collateralised'
  OBVIOUS
<1>1. TypeOK
  BY DEF Typed
<1> QED
  BY <1>1, NextCollateralised, OrderCollateralised, CustodyCollateralised,
     ExitCollateralised, BookSteps

\* The settler leaves the clock and the prices to the controller.
LEMMA BatchPrices ==
  Typed /\ PricesAgree /\ [BatchNext]_all_vars => PricesAgree'
<1> SUFFICES ASSUME Typed, PricesAgree, [BatchNext]_all_vars PROVE PricesAgree'
  OBVIOUS
<1>1. CASE [Next]_vars /\ UNCHANGED <<custody, burned>>
  BY <1>1, NextPricesAgree DEF Typed
<1>2. CASE UNCHANGED <<expiry_price, outside>>
  BY <1>2 DEF PricesAgree, Priced, outside
<1>3. \A w \in VaultKey, s \in Series, n, c \in 1..MaxU64 :
        Ordered(w, s, n, c) => UNCHANGED <<expiry_price, outside>>
  BY DEF Ordered
<1>4. \A s \in Series, n \in 1..MaxU64 :
        Withdrawn(s, n) => UNCHANGED <<expiry_price, outside>>
  BY DEF Withdrawn, accounts
<1>5. \A w \in VaultKey, s \in Series, b \in Nat :
        Exited(w, s, b) => UNCHANGED <<expiry_price, outside>>
  BY DEF Exited
<1> QED
  BY <1>1, <1>2, <1>3, <1>4, <1>5, BookSteps

Closings == ClosedRecorded /\ Marked

LEMMA OrderClosings ==
  ASSUME TypeOK, Closings, NEW w \in VaultKey, NEW s \in Series, NEW n, NEW c,
         Ordered(w, s, n, c)
  PROVE  Closings'
<1>1. UNCHANGED <<closed_by, expiry_price>>
  BY DEF Ordered, history
<1>2. closed_by[w] = "none"
  BY DEF Ordered, Closings, ClosedRecorded
<1>3. \A v \in VaultKey : v # w => vault'[v] = vault[v]
  BY DEF Ordered
<1>4. ~vault'[w].settled
  BY DEF Ordered
<1>5. ClosedRecorded'
  <2> SUFFICES ASSUME NEW v \in VaultKey PROVE RecordOf(v)'
    BY DEF ClosedRecorded, RecordOf
  <2>1. RecordOf(v)
    BY DEF Closings, ClosedRecorded, RecordOf
  <2>2. CASE v = w
    BY <1>1, <1>2, <2>2 DEF RecordOf
  <2>3. CASE v # w
    BY <1>1, <1>3, <2>1, <2>3 DEF RecordOf, Exists, Priced
  <2> QED
    BY <2>2, <2>3
<1>6. Marked'
  BY <1>1, <1>3, <1>4 DEF Closings, Marked, Exists
<1> QED
  BY <1>5, <1>6 DEF Closings

LEMMA CustodyClosings ==
  ASSUME Closings, NEW s, NEW n, Withdrawn(s, n)
  PROVE  Closings'
<1>1. UNCHANGED <<vault, closed_by, expiry_price>>
  BY DEF Withdrawn, accounts
<1>2. ClosedRecorded'
  BY <1>1 DEF Closings, ClosedRecorded, Exists, Priced
<1>3. Marked'
  BY <1>1 DEF Closings, Marked, Exists
<1> QED
  BY <1>2, <1>3 DEF Closings

LEMMA ExitClosings ==
  ASSUME TypeOK, Closings, NEW w \in VaultKey, NEW s, NEW b, Exited(w, s, b)
  PROVE  Closings'
<1>1. /\ expiry_price' = expiry_price
      /\ closed_by'[w] = "emergency_withdraw_vault"
      /\ \A v \in VaultKey : v # w => closed_by'[v] = closed_by[v] /\ vault'[v] = vault[v]
  BY DEF Exited, TypeOK
<1>2. Exists(w)' /\ vault'[w].settled
  <2>1. vault'[w] = [vault[w] EXCEPT !.settled = TRUE] /\ vault[w] \in Vault
    BY DEF Exited, TypeOK
  <2>2. vault'[w] \in Vault /\ vault'[w].settled
    BY <2>1, ClosedVault DEF Vault
  <2> QED
    BY <2>2, VaultIsAccount DEF Exists
<1>3. ClosedRecorded'
  <2> SUFFICES ASSUME NEW v \in VaultKey PROVE RecordOf(v)'
    BY DEF ClosedRecorded, RecordOf
  <2>1. RecordOf(v)
    BY DEF Closings, ClosedRecorded, RecordOf
  <2>2. CASE v = w
    BY <1>1, <1>2, <2>2 DEF RecordOf
  <2>3. CASE v # w
    BY <1>1, <2>1, <2>3 DEF RecordOf, Exists, Priced
  <2> QED
    BY <2>2, <2>3
<1>4. Marked'
  BY <1>1 DEF Closings, Marked, Exists
<1> QED
  BY <1>3, <1>4 DEF Closings

LEMMA BatchClosings ==
  Typed /\ Closings /\ [BatchNext]_all_vars => Closings'
<1> SUFFICES ASSUME Typed, Closings, [BatchNext]_all_vars PROVE Closings'
  OBVIOUS
<1>1. TypeOK
  BY DEF Typed
<1>2. CASE [Next]_vars /\ UNCHANGED <<custody, burned>>
  BY <1>1, <1>2, NextClosedRecorded, NextMarked DEF Closings
<1> QED
  BY <1>1, <1>2, OrderClosings, CustodyClosings, ExitClosings, BookSteps

(***************************************************************************)
(* The pool under the settler.                                             *)
(***************************************************************************)
\* What is reserved while the vaults that settle_vault closed are left alone.
ReservedHeld ==
  /\ expiry_price' = expiry_price
  /\ \A v \in VaultKey :
       /\ closed_by'[v] = "settle_vault" <=> closed_by[v] = "settle_vault"
       /\ closed_by[v] = "settle_vault" => vault'[v] = vault[v]

LEMMA ReservedStays ==
  ASSUME ReservedHeld, NEW m \in Mint
  PROVE  Reserved(m)' = Reserved(m)
<1>1. SettledVaults(m)' = SettledVaults(m)
  BY DEF SettledVaults, ReservedHeld, Holds, Exists
<1>2. ASSUME NEW v \in SettledVaults(m)
      PROVE  Payouts[v] = Payouts'[v]
  <2>1. vault'[v] = vault[v] /\ expiry_price' = expiry_price /\ v \in VaultKey
    BY <1>2 DEF SettledVaults, ReservedHeld
  <2>2. VaultPayout(v)' = VaultPayout(v)
    BY <2>1 DEF VaultPayout, Short, Exists, Priced, PayoutOf
  <2> QED
    BY <2>1, <2>2 DEF Payouts
<1>3. Total(Payouts, SettledVaults(m)) = Total(Payouts', SettledVaults(m))
  BY <1>2, TotalSame
<1> QED
  BY <1>1, <1>3, SumsNamed, SumsNamedNext

LEMMA OrderBacks ==
  ASSUME TypeOK, Closings, NEW m \in Mint, Backs(m), NEW w \in VaultKey,
         NEW s \in Series, NEW n, NEW c \in Nat, Ordered(w, s, n, c)
  PROVE  Backs(m)'
<1>0. ClosedRecorded
  BY DEF Closings
<1>1. UNCHANGED <<closed_by, expiry_price, paid>> /\ ~Exists(w)
      /\ \A v \in VaultKey : v # w => vault'[v] = vault[v]
  BY DEF Ordered, history
<1>2. closed_by[w] = "none"
  BY <1>1 DEF Closings, ClosedRecorded
<1>3. Reserved(m)' = Reserved(m)
  <2>1. ReservedHeld
    BY <1>1, <1>2 DEF ReservedHeld
  <2> QED
    BY <2>1, ReservedStays
<1>4. PaidTotal(m)' = PaidTotal(m)
  BY <1>1, PaidSame
<1>5. CASE m = Terms[s].collateral_mint
  <2>1. (Holds(w, m) /\ Open(w))' /\ vault'[w].collateral_amount = c
    BY <1>5 DEF Ordered, Holds, Open
  <2>2. OpenCollateral(m)' = OpenCollateral(m) + c
    BY <1>1, <2>1, OpenAdded
  <2>3. PoolTotal(m)' = PoolTotal(m) + c
    BY <1>5 DEF Ordered
  <2> QED
    BY <1>3, <1>4, <2>2, <2>3, <1>0, PoolSumsNat DEF Backs
<1>6. CASE m # Terms[s].collateral_mint
  <2>1. ~Holds(w, m) /\ ~Holds(w, m)'
    BY <1>1, <1>6 DEF Ordered, Holds
  <2>2. OpenCollateral(m)' = OpenCollateral(m)
    BY <1>1, <2>1, OpenElsewhere
  <2>3. PoolTotal(m)' = PoolTotal(m) + 0
    BY <1>6 DEF Ordered
  <2>4. PoolTotal(m)' = PoolTotal(m)
    BY <1>0, <2>3, PoolSumsNat
  <2> QED
    BY <1>3, <1>4, <2>2, <2>4, BacksSame
<1> QED
  BY <1>5, <1>6

LEMMA CustodyBacks ==
  ASSUME TypeOK, Closings, NEW m \in Mint, Backs(m), NEW s \in Series, NEW n,
         Withdrawn(s, n)
  PROVE  Backs(m)'
<1>0. ClosedRecorded
  BY DEF Closings
<1>1. UNCHANGED <<vault, closed_by, expiry_price>>
  BY DEF Withdrawn, accounts
<1>2. Reserved(m)' = Reserved(m)
  BY <1>1, ReservedStays DEF ReservedHeld
<1>3. OpenCollateral(m)' = OpenCollateral(m)
  BY <1>1, OpenSame DEF Holds, Open, Exists
<1>4. PICK pay : pay = PayoutOf(s, n)
  OBVIOUS
<1>5. pay \in Nat /\ paid'[s] = paid[s] + pay /\ \A r \in Series \ {s} : paid'[r] = paid[r]
  BY <1>4 DEF Withdrawn, TypeOK
<1>6. CASE m = Terms[s].collateral_mint
  <2>1. PaidTotal(m)' = PaidTotal(m) + pay
    BY <1>5, <1>6, PaidRaised
  <2>2. PoolTotal(m)' \in Nat /\ PoolTotal(m)' >= PoolTotal(m) - pay
    BY <1>4, <1>6 DEF Withdrawn
  <2> QED
    BY <1>2, <1>3, <1>5, <2>1, <2>2, <1>0, PoolSumsNat DEF Backs
<1>7. CASE m # Terms[s].collateral_mint
  <2>1. \A r \in SeriesOf(m) : paid'[r] = paid[r]
    BY <1>5, <1>7 DEF SeriesOf
  <2>2. PaidTotal(m)' = PaidTotal(m)
    BY <2>1, PaidSame
  <2>3. PoolTotal(m)' \in Nat /\ PoolTotal(m)' >= PoolTotal(m) - 0
    BY <1>7 DEF Withdrawn
  <2> QED
    BY <1>2, <1>3, <2>2, <2>3, <1>0, PoolSumsNat DEF Backs
<1> QED
  BY <1>6, <1>7

LEMMA ExitBacks ==
  ASSUME TypeOK, Closings, NEW m \in Mint, Backs(m), NEW w \in VaultKey,
         NEW s \in Series, NEW b, Exited(w, s, b)
  PROVE  Backs(m)'
<1>0. ClosedRecorded
  BY DEF Closings
<1>1. /\ UNCHANGED <<expiry_price, paid>> /\ vault[w] \in Vault /\ Open(w)
      /\ closed_by'[w] = "emergency_withdraw_vault"
      /\ vault'[w] = [vault[w] EXCEPT !.settled = TRUE]
      /\ \A v \in VaultKey : v # w => closed_by'[v] = closed_by[v] /\ vault'[v] = vault[v]
  BY DEF Exited, TypeOK
<1>2. vault'[w].settled /\ vault'[w].collateral_mint = vault[w].collateral_mint
  BY <1>1 DEF Vault
<1>3. closed_by[w] # "settle_vault"
  BY <1>1 DEF Closings, ClosedRecorded, Open
<1>4. Reserved(m)' = Reserved(m)
  <2>1. ReservedHeld
    BY <1>1, <1>3 DEF ReservedHeld
  <2> QED
    BY <2>1, ReservedStays
<1>5. PaidTotal(m)' = PaidTotal(m)
  BY <1>1, PaidSame
<1>6. CASE m = vault[w].collateral_mint
  <2>1. Holds(w, m) /\ Open(w) /\ ~Open(w)'
    BY <1>1, <1>2, <1>6 DEF Holds, Open
  <2>2. OpenCollateral(m)' = OpenCollateral(m) - vault[w].collateral_amount
    BY <1>1, <2>1, OpenClosed
  <2>3. PoolTotal(m)' = PoolTotal(m) - vault[w].collateral_amount
    BY <1>6 DEF Exited
  <2>4. vault[w].collateral_amount \in Nat
    BY <1>1, AmountType DEF Vault
  <2> QED
    BY <1>4, <1>5, <2>2, <2>3, <2>4, <1>0, PoolSumsNat DEF Backs
<1>7. CASE m # vault[w].collateral_mint
  <2>1. ~Holds(w, m) /\ ~Holds(w, m)'
    BY <1>2, <1>7 DEF Holds
  <2>2. OpenCollateral(m)' = OpenCollateral(m)
    BY <1>1, <2>1, OpenElsewhere
  <2>3. PoolTotal(m)' = PoolTotal(m) - 0
    BY <1>7 DEF Exited
  <2>4. PoolTotal(m)' = PoolTotal(m)
    BY <1>0, <2>3, PoolSumsNat
  <2> QED
    BY <1>4, <1>5, <2>2, <2>4, BacksSame
<1> QED
  BY <1>6, <1>7

LEMMA BatchBacks ==
  Typed /\ Closings /\ PoolBacksVaults /\ [BatchNext]_all_vars => PoolBacksVaults'
<1> SUFFICES ASSUME Typed, Closings, PoolBacksVaults, [BatchNext]_all_vars
             PROVE PoolBacksVaults'
  OBVIOUS
<1>1. TypeOK /\ \A n \in 1..MaxU64 : n \in Nat
  BY AmountType DEF Typed
<1>2. \A m \in Mint : Backs(m)
  BY DEF PoolBacksVaults, Backs, PaidTotal
<1>3. CASE [Next]_vars /\ UNCHANGED <<custody, burned>>
  BY <1>1, <1>3, NextBacks DEF Closings
<1>4. CASE \A m \in Mint : Backs(m)'
  BY <1>4 DEF PoolBacksVaults, Backs, PaidTotal
<1>5. ASSUME NEW w \in VaultKey, NEW s \in Series, NEW n \in 1..MaxU64,
             NEW c \in 1..MaxU64, Ordered(w, s, n, c)
      PROVE  \A m \in Mint : Backs(m)'
  BY <1>1, <1>2, <1>5, OrderBacks
<1>6. ASSUME NEW s \in Series, NEW n \in 1..MaxU64, Withdrawn(s, n)
      PROVE  \A m \in Mint : Backs(m)'
  BY <1>1, <1>2, <1>6, CustodyBacks
<1>7. ASSUME NEW w \in VaultKey, NEW s \in Series, NEW b \in Nat, Exited(w, s, b)
      PROVE  \A m \in Mint : Backs(m)'
  BY <1>1, <1>2, <1>7, ExitBacks
<1> QED
  BY <1>3, <1>4, <1>5, <1>6, <1>7, BookSteps

(***************************************************************************)
(* Solvency under the settler.                                             *)
(***************************************************************************)
LEMMA BatchBooked ==
  Typed /\ Collateralised /\ SupplyAccountedWithBurns => Booked
<1> SUFFICES ASSUME Typed, Collateralised, SupplyAccountedWithBurns, NEW s \in Series
             PROVE  Supply(s) <= WrittenOf(s)
  BY DEF Booked, SupplyWithin, Typed
<1>1. /\ Supply(s) \in Nat /\ redeemed[s] \in Nat /\ burned[s] \in Nat
      /\ WrittenOf(s) \in Nat
  BY SupplyIsNat, BurnedIsNat DEF Typed
<1>2. Supply(s) + redeemed[s] + burned[s] = WrittenOf(s)
  BY BurntByParts DEF Burnt, SupplyOf
<1> QED
  BY <1>1, <1>2

\* An order's series is not priced yet, so its vault is due what it deposited.
LEMMA OrderSolvent ==
  ASSUME Booked, Booked', PricesAgree, Closings, NEW m \in Mint, SolventAt(m),
         NEW w \in VaultKey, NEW s \in Series, NEW n \in Nat, NEW c \in Nat,
         Ordered(w, s, n, c)
  PROVE  SolventAt(m)'
<1>0. TypeOK /\ now \in Nat /\ Terms[s].expiry \in Nat
  BY TermsType DEF Booked, TypeOK, Time
<1>1. /\ UNCHANGED <<closed_by, expiry_price>> /\ ~Exists(w) /\ Exists(w)'
      /\ \A v \in VaultKey : v # w => vault'[v] = vault[v]
      /\ ~vault'[w].settled /\ vault'[w].otoken_mint = s
      /\ vault'[w].collateral_mint = Terms[s].collateral_mint
      /\ vault'[w].collateral_amount = c
  BY DEF Ordered, history
<1>2. ~Priced(s)
  BY <1>0 DEF PricesAgree, Ordered
<1>3. closed_by[w] = "none"
  BY <1>1 DEF Closings, ClosedRecorded
<1>4. DueOf(m, w) = 0 /\ LostOf(m, w) = 0 /\ LostOf(m, w)' = 0
  BY <1>1, <1>3 DEF DueOf, LostOf, Holds
<1>5. DueOf(m, w)' = IF m = Terms[s].collateral_mint THEN c ELSE 0
  <2>1. VaultPayout(w)' = 0
    BY <1>1, <1>2 DEF VaultPayout, Priced
  <2> QED
    BY <1>1, <2>1 DEF DueOf, Holds, Open
<1>6. ClaimsFall
  <2>1. ASSUME NEW r \in Series, Priced(r)
        PROVE  Supply(r)' <= Supply(r) /\ Writers(r)' = Writers(r)
    <3>1. r # s
      BY <1>2, <2>1
    <3>2. Supply(r)' = Supply(r) /\ Supply(r) \in Nat
      BY <1>0, <3>1, SupplyIsNat DEF Ordered
    <3>3. Writers(r)' = Writers(r)
      BY <1>0, <3>1, OrderWrites
    <3> QED
      BY <3>2, <3>3
  <2> QED
    BY <1>1, <2>1 DEF ClaimsFall
<1>7. PoolTotal(m)' = PoolTotal(m) + (IF m = Terms[s].collateral_mint THEN c ELSE 0)
  BY DEF Ordered
<1>8. PoolTotal(m) \in Nat
  BY SolvencyTyped DEF SolvencyNats
<1>9. PoolTotal(m)' + LostOf(m, w)' + DueOf(m, w) >=
        PoolTotal(m) + LostOf(m, w) + DueOf(m, w)'
  BY <1>4, <1>5, <1>7, <1>8
<1> QED
  BY <1>1, <1>6, <1>9, OneVaultSolvent

LEMMA CustodySolvent ==
  ASSUME Booked, Booked', NEW m \in Mint, SolventAt(m), NEW s \in Series, NEW n,
         Withdrawn(s, n)
  PROVE  SolventAt(m)'
<1>1. /\ vault' = vault /\ closed_by' = closed_by /\ expiry_price' = expiry_price
      /\ Priced(s) /\ n \in Nat /\ n > 0 /\ PayoutOf(s, n) \in Nat
      /\ Supply(s)' \in Nat /\ Supply(s) = Supply(s)' + n
      /\ \A r \in Series : r # s => Supply(r)' = Supply(r)
  BY DEF Withdrawn, accounts
<1>2. PICK pay : pay = PayoutOf(s, n)
  OBVIOUS
<1>3. /\ PoolTotal(m)' \in Nat
      /\ PoolTotal(m)' >= PoolTotal(m) - (IF m = Terms[s].collateral_mint THEN pay ELSE 0)
  BY <1>2 DEF Withdrawn
<1>4. PoolTotal(m) \in Nat
  BY SolvencyTyped DEF SolvencyNats
<1>5. PoolTotal(m)' + (IF Terms[s].collateral_mint = m THEN pay ELSE 0) >= PoolTotal(m)
  BY <1>1, <1>2, <1>3, <1>4
<1> QED
  BY <1>1, <1>2, <1>5, RedeemSolvent

\* An emergency exit forgives the pool what the vault's own holders lose.
LEMMA ExitSolvent ==
  ASSUME Booked, Booked', Closings, NEW m \in Mint, SolventAt(m),
         NEW w \in VaultKey, NEW s \in Series, NEW b \in Nat, Exited(w, s, b)
  PROVE  SolventAt(m)'
<1>0. TypeOK /\ vault[w] \in Vault /\ Open(w) /\ Exists(w) /\ expiry_price' = expiry_price
      /\ vault' = [vault EXCEPT ![w].settled = TRUE]
  BY DEF Booked, Exited, Open
<1>1. PICK c, whole : c = vault[w].collateral_mint /\ whole = vault[w].collateral_amount
  OBVIOUS
<1>2. /\ Exists(w)' /\ vault'[w].settled /\ vault'[w].collateral_mint = c
      /\ VaultPayout(w)' = VaultPayout(w)
      /\ \A r \in Series : Writers(r)' = Writers(r)
      /\ \A v \in VaultKey : v # w => vault'[v] = vault[v]
  BY <1>0, <1>1, ClosedTerms
<1>3. /\ closed_by'[w] = "emergency_withdraw_vault"
      /\ \A v \in VaultKey : v # w => closed_by'[v] = closed_by[v]
  BY <1>0 DEF Exited, TypeOK
<1>4. PICK lost : lost = VaultPayout(w)
  OBVIOUS
<1>5. lost \in Nat /\ whole \in Nat /\ lost <= whole
  BY <1>0, <1>1, <1>4, VaultPayoutBound DEF Booked
<1>6. LostOf(m, w) = 0 /\ LostOf(m, w)' = IF m = c THEN lost ELSE 0
  <2>1. closed_by[w] = "none"
    BY <1>0 DEF Closings, ClosedRecorded, Open
  <2> QED
    BY <1>2, <1>3, <1>4, <2>1 DEF LostOf, Holds
<1>7. DueOf(m, w)' = 0 /\ DueOf(m, w) = IF m = c THEN whole - lost ELSE 0
  BY <1>0, <1>1, <1>2, <1>4 DEF DueOf, Holds, Open
<1>8. ClaimsFall
  <2>1. ASSUME NEW r \in Series PROVE Supply(r)' <= Supply(r)
    <3>1. Supply(r) \in Nat
      BY <1>0, SupplyIsNat
    <3>2. CASE r = s
      BY <3>1, <3>2 DEF Exited
    <3>3. CASE r # s
      <4>1. Supply(r)' = Supply(r)
        BY <3>3 DEF Exited
      <4> QED
        BY <3>1, <4>1
    <3> QED
      BY <3>2, <3>3
  <2> QED
    BY <1>0, <1>2, <2>1 DEF ClaimsFall
<1>9. PoolTotal(m) \in Nat
  BY SolvencyTyped DEF SolvencyNats
<1>10. PoolTotal(m)' = PoolTotal(m) - (IF m = c THEN whole ELSE 0)
  BY <1>1 DEF Exited
<1>11. PoolTotal(m)' + LostOf(m, w)' + DueOf(m, w) >=
         PoolTotal(m) + LostOf(m, w) + DueOf(m, w)'
  BY <1>5, <1>6, <1>7, <1>9, <1>10
<1> QED
  BY <1>2, <1>3, <1>8, <1>11, OneVaultSolvent

LEMMA BatchSolvent ==
  /\ Typed /\ Booked /\ Booked' /\ PricesAgree /\ Closings /\ Solvent
  /\ [BatchNext]_all_vars
  => Solvent'
<1> SUFFICES ASSUME Typed, Booked, Booked', PricesAgree, Closings, Solvent,
                    [BatchNext]_all_vars
             PROVE  Solvent'
  OBVIOUS
<1>1. /\ \A m \in Mint : SolventAt(m)
      /\ \A n \in 1..MaxU64 : n \in Nat
  BY AmountType DEF Solvent
<1>2. CASE [Next]_vars /\ UNCHANGED <<custody, burned>>
  BY <1>2, NextSolvent DEF Closings
<1>3. CASE \A m \in Mint : SolventAt(m)'
  BY <1>3 DEF Solvent
<1>4. ASSUME NEW w \in VaultKey, NEW s \in Series, NEW n \in 1..MaxU64,
             NEW c \in 1..MaxU64, Ordered(w, s, n, c)
      PROVE  \A m \in Mint : SolventAt(m)'
  BY <1>1, <1>4, OrderSolvent
<1>5. ASSUME NEW s \in Series, NEW n \in 1..MaxU64, Withdrawn(s, n)
      PROVE  \A m \in Mint : SolventAt(m)'
  BY <1>1, <1>5, CustodySolvent
<1>6. ASSUME NEW w \in VaultKey, NEW s \in Series, NEW b \in Nat, Exited(w, s, b)
      PROVE  \A m \in Mint : SolventAt(m)'
  BY <1>1, <1>6, ExitSolvent
<1> QED
  BY <1>2, <1>3, <1>4, <1>5, <1>6, BookSteps

(***************************************************************************)
(* The books of the controller with the settler on top.                    *)
(***************************************************************************)
BooksInv ==
  Typed /\ Collateralised /\ PricesAgree /\ Closings /\ SupplyAccountedWithBurns

LEMMA InitBooksInv == BatchInit => BooksInv /\ PoolBacksVaults /\ Solvent
<1> SUFFICES ASSUME BatchInit PROVE BooksInv /\ PoolBacksVaults /\ Solvent
  OBVIOUS
<1>1. Init /\ Typed
  BY InitTyped DEF BatchInit
<1>2. Collateralised /\ PricesAgree
  BY <1>1 DEF Collateralised, PricesAgree, Short, Exists, Priced, Init
<1>3. ClosedRecorded /\ PoolBacksVaults
  BY <1>1, InitBacks
<1>4. SupplyAccountedWithBurns
  <2> SUFFICES ASSUME NEW s \in Series PROVE Burnt(s)
    BY BurntByParts
  <2>1. SupplyAccounted /\ TypeOK
    BY <1>1, InitAccounted DEF Typed
  <2>2. Supply(s) + redeemed[s] = WrittenOf(s)
    BY <2>1, AccountedByParts DEF SupplyOf
  <2>3. burned[s] = 0
    BY DEF BatchInit, SettlerInit
  <2>4. Supply(s) \in Nat /\ redeemed[s] \in Nat
    BY <2>1, SupplyIsNat
  <2> QED
    BY <2>2, <2>3, <2>4 DEF Burnt, SupplyOf
<1>5. Booked
  BY <1>1, <1>2, <1>4, BatchBooked
<1>6. Marked /\ Solvent
  BY <1>1, <1>5, InitSolvent
<1> QED
  BY <1>1, <1>2, <1>3, <1>4, <1>6 DEF BooksInv, Closings

LEMMA BooksInvariant == BatchSpec => [](BooksInv /\ PoolBacksVaults /\ Solvent)
<1>1. BooksInv /\ Typed' /\ [BatchNext]_all_vars => BooksInv'
  BY BatchCollateralised, BatchPrices, BatchClosings, NextBurnt DEF BooksInv
<1>2. BooksInv => Typed /\ Booked /\ PricesAgree /\ Closings
  BY BatchBooked DEF BooksInv
<1> QED
  BY <1>1, <1>2, InitBooksInv, NextTyped, BatchBacks, BatchSolvent, PTL DEF BatchSpec

\* The settler's orders, custody redemptions and emergency exits keep the
\* controller's books: every oToken that circulates, was redeemed or was burned
\* by an exit was written by a vault.
THEOREM BurnsTheorem == BatchSpec => []SupplyAccountedWithBurns
<1>1. BooksInv => SupplyAccountedWithBurns
  BY DEF BooksInv
<1> QED
  BY <1>1, BooksInvariant, PTL

\* Whatever the settler does in between, the pool of a mint holds what its open
\* vaults deposited and what settled vaults left for their holders.
THEOREM BatchPoolTheorem == BatchSpec => []PoolBacksVaults
  BY BooksInvariant, PTL

\* The pool stays solvent, up to rounding and to what exits left uncovered,
\* with the settler writing, redeeming and closing vaults of its own.
THEOREM BatchSolvencyTheorem == BatchSpec => []SolventUpToDust
<1>1. BooksInv => Booked
  BY BatchBooked DEF BooksInv
<1> QED
  BY <1>1, BooksInvariant, SolventImplies, PTL

(***************************************************************************)
(* Emergency exits while a series is not redeemed.                         *)
(***************************************************************************)
Taken(v) == closed_by[v] = "emergency_withdraw_vault"

\* The settler's own vaults are those its orders opened; what VaultMM recorded
\* of one is its short, until its exit clears it.
RememberedAt(v) ==
  /\ vault_mm[v] # NoAccount <=> Exists(v) /\ v[1] = Settler
  /\ vault_mm[v] # NoAccount =>
       /\ vault_mm[v].otoken_mint = vault[v].otoken_mint
       /\ vault_mm[v].remaining_amount =
            IF Taken(v) THEN 0 ELSE vault[v].short_amount

Remembered == \A v \in VaultKey : RememberedAt(v)

ExitsOf(s) == {v \in VaultKey : Wrote(v, s) /\ v[1] = Settler /\ Taken(v)}

\* Until a series is redeemed, makers hold all their vaults remember, and the
\* exits burned all that their vaults wrote.
Whole(m, s)   == redeemed[s] = 0 => Custodied(m, s) = RemainderOf(m, s)
ExitBurned(s) == redeemed[s] = 0 => burned[s] = Total(Shorts, ExitsOf(s))

\* What every instruction but an order and an exit leaves of the settler's
\* vaults.
OrderKept(v) ==
  /\ Exists(v)' <=> Exists(v)
  /\ Exists(v) => /\ vault'[v].otoken_mint = vault[v].otoken_mint
                  /\ vault'[v].short_amount = vault[v].short_amount
  /\ Taken(v)' <=> Taken(v)

OrdersKept == \A v \in VaultKey : v[1] = Settler => OrderKept(v)

LEMMA SameKept ==
  ASSUME NEW v \in VaultKey, vault'[v] = vault[v], closed_by'[v] = closed_by[v]
  PROVE  OrderKept(v)
  BY DEF OrderKept, Exists, Taken

\* Nobody but the settler signs for its vaults.
LEMMA OthersKept ==
  ASSUME NEW k \in DirectUsers, NEW id,
         \A v \in VaultKey :
           v # <<k, id>> => vault'[v] = vault[v] /\ closed_by'[v] = closed_by[v]
  PROVE  OrdersKept
<1> SUFFICES ASSUME NEW v \in VaultKey, v[1] = Settler PROVE OrderKept(v)
  BY DEF OrdersKept
<1>1. k # Settler
  BY WalletType
<1>2. v # <<k, id>>
  BY <1>1
<1> QED
  BY <1>2, SameKept

LEMMA SettledKept ==
  ASSUME TypeOK, ClosedRecorded, NEW k \in Key, NEW w \in VaultKey,
         NEW p \in PoolAccount, SettleVault(k, w, p)
  PROVE  OrdersKept
<1> SUFFICES ASSUME NEW v \in VaultKey PROVE OrderKept(v)
  BY DEF OrdersKept
<1>1. /\ vault[w] \in Vault /\ Open(w) /\ vault'[w] \in Vault
      /\ vault'[w].otoken_mint = vault[w].otoken_mint
      /\ vault'[w].short_amount = vault[w].short_amount
      /\ \A u \in VaultKey : u # w => vault'[u] = vault[u]
      /\ closed_by' = [closed_by EXCEPT ![w] = "settle_vault"]
  BY SettledVault
<1>2. CASE v # w
  BY <1>1, <1>2, SameKept DEF TypeOK
<1>3. CASE v = w
  <2>1. Exists(v) /\ Exists(v)'
    BY <1>1, <1>3, VaultIsAccount DEF Exists
  <2>2. ~Taken(v)
    BY <1>1, <1>3 DEF ClosedRecorded, Open, Taken
  <2>3. ~Taken(v)'
    BY <1>1, <1>3 DEF Taken, TypeOK
  <2> QED
    BY <1>1, <1>3, <2>1, <2>2, <2>3 DEF OrderKept
<1> QED
  BY <1>2, <1>3

LEMMA DirectKept ==
  ASSUME TypeOK, ClosedRecorded, ControllerNext
  PROVE  OrdersKept
<1>0. Wallet \subseteq Key /\ DirectUsers \subseteq Key
  BY WalletType
<1>1. ASSUME NEW k \in DirectUsers, NEW b \in Key, NEW c \in Mint, OpenVault(k, c, b)
      PROVE  OrdersKept
  <2>1. \A v \in VaultKey : v # <<k, next_id[k]>> =>
          vault'[v] = vault[v] /\ closed_by'[v] = closed_by[v]
    BY <1>1 DEF OpenVault, history, TypeOK
  <2>2. PICK id : id = next_id[k]
    OBVIOUS
  <2> QED
    BY <2>1, <2>2, OthersKept
<1>2. ASSUME NEW k \in DirectUsers, NEW id \in VaultId, NEW p \in PoolAccount,
             NEW n \in 1..MaxU64, DepositCollateral(k, id, p, n)
      PROVE  OrdersKept
  <2>1. \A v \in VaultKey : v # <<k, id>> =>
          vault'[v] = vault[v] /\ closed_by'[v] = closed_by[v]
    BY <1>2 DEF DepositCollateral, history, TypeOK
  <2> QED
    BY <2>1, OthersKept
<1>3. ASSUME NEW k \in DirectUsers, NEW d \in Key, NEW id \in VaultId, NEW s \in Series,
             NEW n \in 1..MaxU64, MintOtoken(k, id, s, d, n)
      PROVE  OrdersKept
  <2>1. \A v \in VaultKey : v # <<k, id>> =>
          vault'[v] = vault[v] /\ closed_by'[v] = closed_by[v]
    BY <1>3 DEF MintOtoken, history, TypeOK
  <2> QED
    BY <2>1, OthersKept
<1>4. ASSUME NEW k \in DirectUsers, NEW id \in VaultId, NEW p \in PoolAccount,
             EmergencyWithdrawVault(k, id, p)
      PROVE  OrdersKept
  <2>1. \A v \in VaultKey : v # <<k, id>> =>
          vault'[v] = vault[v] /\ closed_by'[v] = closed_by[v]
    BY <1>4 DEF EmergencyWithdrawVault, TypeOK
  <2> QED
    BY <2>1, OthersKept
<1>5. ASSUME NEW k \in Wallet, NEW w \in VaultKey, NEW p \in PoolAccount,
             SettleVault(k, w, p)
      PROVE  OrdersKept
  BY <1>0, <1>5, SettledKept
<1>6. CASE vault' = vault /\ closed_by' = closed_by
  BY <1>6, SameKept DEF OrdersKept
<1>7. \/ vault' = vault /\ closed_by' = closed_by
      \/ \E k \in DirectUsers, b \in Key, c \in Mint : OpenVault(k, c, b)
      \/ \E k \in DirectUsers, id \in VaultId, p \in PoolAccount, n \in 1..MaxU64 :
           DepositCollateral(k, id, p, n)
      \/ \E k \in DirectUsers, id \in VaultId, s \in Series, d \in Key, n \in 1..MaxU64 :
           MintOtoken(k, id, s, d, n)
      \/ \E k \in DirectUsers, id \in VaultId, p \in PoolAccount :
           EmergencyWithdrawVault(k, id, p)
      \/ \E k \in Wallet, w \in VaultKey, p \in PoolAccount : SettleVault(k, w, p)
  BY DEF ControllerNext, AdminNext, OwnerNext, MintNext, HolderNext, SeriesNext,
     ChainNext, Initialize, InitializeCounter, SetPartialPauser, SetPartiallyPaused,
     SetFullyPaused, CreateOTokenInfo, SetExpiryPrice, WhitelistOtoken,
     FinalizeOraclePrice, TurnFeeOn, Tick, Redeem, TransferTokens, history, accounts
<1> QED
  BY <1>1, <1>2, <1>3, <1>4, <1>5, <1>6, <1>7

LEMMA OrderWriters ==
  ASSUME Typed, Closings, [BatchNext]_all_vars
  PROVE  \/ OrdersKept
         \/ \E u \in Wallet, q \in Quotes, p \in PoolAccount, n, c \in 1..MaxU64 :
              ExecuteOrder(u, q, p, n, c)
         \/ \E u \in Wallet, v \in VaultKey, p \in PoolAccount :
              EmergencyWithdraw(u, v, p)
<1>0. TypeOK /\ ClosedRecorded
  BY DEF Typed, Closings
<1>1. CASE vault' = vault /\ closed_by' = closed_by
  BY <1>1, SameKept DEF OrdersKept
<1>2. ASSUME NEW k \in Wallet, NEW admin \in Wallet, NEW v \in VaultKey,
             NEW p \in PoolAccount, SettleVaultForMaker(k, admin, v, p)
      PROVE  OrdersKept
  BY <1>0, <1>2, SettledKept, WalletType DEF SettleVaultForMaker
<1>3. ASSUME NEW k \in Wallet, NEW c \in Settings,
             \/ InitializeSettler(k, c)
             \/ SetTreasury(k, c) \/ SetProtocolFee(k, c) \/ SetOperator(k, c)
             \/ Pause(k, c) \/ SetEscapeDelay(k, c) \/ SetJupiterProgram(k, c)
      PROVE  vault' = vault /\ closed_by' = closed_by
  BY <1>3 DEF InitializeSettler, SetTreasury, SetProtocolFee, SetOperator, Pause,
     SetEscapeDelay, SetJupiterProgram, SetConfig, vars, accounts, history
<1>4. ASSUME NEW k \in Wallet, InitVaultCounter(k)
      PROVE  vault' = vault /\ closed_by' = closed_by
  BY <1>4 DEF InitVaultCounter, InitializeCounter, history
<1>5. ASSUME NEW k \in Wallet, NEW rents \in RentWithdrawals, WithdrawRentReserve(k, rents)
      PROVE  vault' = vault /\ closed_by' = closed_by
  BY <1>5 DEF WithdrawRentReserve, vars, accounts, history
<1>6. ASSUME NEW k \in Wallet, NEW m \in Makers, NEW flag \in BOOLEAN,
             WhitelistMaker(k, m, flag)
      PROVE  vault' = vault /\ closed_by' = closed_by
  BY <1>6 DEF WhitelistMaker, vars, accounts, history
<1>7. ASSUME NEW m \in Wallet, IncrementMakerNonce(m)
      PROVE  vault' = vault /\ closed_by' = closed_by
  BY <1>7 DEF IncrementMakerNonce, vars, accounts, history
<1>8. ASSUME NEW m \in Wallet, NEW id \in QuoteId, CancelQuote(m, id)
      PROVE  vault' = vault /\ closed_by' = closed_by
  BY <1>8 DEF CancelQuote, vars, accounts, history
<1>9. ASSUME NEW m \in Wallet, NEW s \in Series, NEW p \in PoolAccount,
             NEW n \in 1..MaxU64, RedeemCustody(m, s, p, n)
      PROVE  vault' = vault /\ closed_by' = closed_by
  BY <1>9 DEF RedeemCustody, accounts
<1>10. CASE UNCHANGED all_vars
  BY <1>10, <1>1 DEF all_vars, vars, accounts, history
<1>11. CASE ControllerNext
  BY <1>0, <1>11, DirectKept
<1> QED
  BY <1>1, <1>2, <1>3, <1>4, <1>5, <1>6, <1>7, <1>8, <1>9, <1>10, <1>11, BatchSteps

LEMMA OrderRemembers ==
  ASSUME Typed, Closings, Remembered, NEW user \in Wallet, NEW q \in Quotes,
         NEW p \in PoolAccount, NEW n \in 1..MaxU64, NEW c \in 1..MaxU64,
         ExecuteOrder(user, q, p, n, c)
  PROVE  /\ Remembered'
         /\ \A v \in VaultKey :
              Exists(v) => vault'[v] = vault[v] /\ closed_by'[v] = closed_by[v]
         /\ \A v \in VaultKey : ~Exists(v) => ~Taken(v)'
<1>0. PICK w, s : w = <<Settler, next_id[Settler]>> /\ s = q.otoken_mint
  OBVIOUS
<1>1. w \in VaultKey /\ Ordered(w, s, n, c) /\ w[1] = Settler
  BY <1>0, OrderEffect
<1>2. /\ ~Exists(w) /\ Exists(w)' /\ closed_by' = closed_by
      /\ vault'[w].otoken_mint = s /\ vault'[w].short_amount = n
      /\ \A v \in VaultKey : v # w => vault'[v] = vault[v]
  BY <1>1 DEF Ordered, history
<1>3. PICK mm : mm = [maker |-> q.maker, otoken_mint |-> s, remaining_amount |-> n]
  OBVIOUS
<1>4. mm \in VaultMM /\ mm.otoken_mint = s /\ mm.remaining_amount = n
  BY <1>0, <1>3, QuoteType, AmountType DEF VaultMM
<1>5. /\ vault_mm'[w] = mm /\ mm # NoAccount
      /\ \A v \in VaultKey : v # w => vault_mm'[v] = vault_mm[v]
  <2>1. vault_mm' = [vault_mm EXCEPT ![w] = mm]
    BY <1>0, <1>3 DEF ExecuteOrder
  <2> QED
    BY <1>1, <1>4, <2>1, SettlerAccountAssumption DEF Typed, SettlerTypeOK
<1>6. \A v \in VaultKey : ~Exists(v) => ~Taken(v)'
  BY <1>2 DEF Closings, ClosedRecorded, Taken
<1>7. Remembered'
  <2> SUFFICES ASSUME NEW v \in VaultKey PROVE RememberedAt(v)'
    BY DEF Remembered
  <2>1. CASE v = w
    <3>1. ~Taken(w)'
      BY <1>1, <1>2, <1>6
    <3> QED
      BY <1>1, <1>2, <1>4, <1>5, <2>1, <3>1 DEF RememberedAt
  <2>2. CASE v # w
    <3>1. RememberedAt(v)
      BY DEF Remembered
    <3>2. vault'[v] = vault[v] /\ vault_mm'[v] = vault_mm[v] /\ closed_by'[v] = closed_by[v]
      BY <1>2, <1>5, <2>2
    <3> QED
      BY <3>1, <3>2 DEF RememberedAt, Exists, Taken
  <2> QED
    BY <2>1, <2>2
<1> QED
  BY <1>2, <1>6, <1>7

LEMMA ExitRemembers ==
  ASSUME Typed, Remembered, NEW u \in Wallet, NEW w \in VaultKey, NEW p \in PoolAccount,
         EmergencyWithdraw(u, w, p)
  PROVE  /\ Remembered' /\ Exists(w) /\ Exists(w)' /\ Taken(w)' /\ w[1] = Settler
         /\ vault'[w].otoken_mint = vault[w].otoken_mint
         /\ vault'[w].short_amount = vault[w].short_amount
         /\ \A v \in VaultKey : v # w => vault'[v] = vault[v] /\ closed_by'[v] = closed_by[v]
<1>1. /\ vault_mm[w] # NoAccount /\ w[1] = Settler /\ Exists(w)
      /\ vault' = [vault EXCEPT ![w].settled = TRUE]
      /\ closed_by' = [closed_by EXCEPT ![w] = "emergency_withdraw_vault"]
      /\ vault_mm' = [vault_mm EXCEPT ![w].remaining_amount = 0]
  BY DEF EmergencyWithdraw
<1>2. vault[w] \in Vault /\ vault_mm[w] \in VaultMM /\ TypeOK
  BY <1>1, VaultNotNoAccount DEF Typed, SettlerTypeOK
<1>3. vault'[w] = [vault[w] EXCEPT !.settled = TRUE]
  BY <1>1, <1>2 DEF TypeOK
<1>4. /\ vault'[w] \in Vault /\ vault'[w].otoken_mint = vault[w].otoken_mint
      /\ vault'[w].short_amount = vault[w].short_amount
  BY <1>2, <1>3, ClosedVault DEF Vault
<1>5. Exists(w)'
  BY <1>4, VaultIsAccount DEF Exists
<1>6. Taken(w)' /\ \A v \in VaultKey :
        v # w => vault'[v] = vault[v] /\ closed_by'[v] = closed_by[v]
  BY <1>1, <1>2 DEF TypeOK, Taken
<1>7. /\ vault_mm'[w] \in VaultMM /\ vault_mm'[w].remaining_amount = 0
      /\ vault_mm'[w].otoken_mint = vault_mm[w].otoken_mint
      /\ \A v \in VaultKey : v # w => vault_mm'[v] = vault_mm[v]
  <2>1. vault_mm'[w] = [vault_mm[w] EXCEPT !.remaining_amount = 0]
        /\ \A v \in VaultKey : v # w => vault_mm'[v] = vault_mm[v]
    BY <1>1 DEF Typed, SettlerTypeOK
  <2>2. 0 \in 0..MaxU64
    BY AmountType
  <2> QED
    BY <1>2, <2>1, <2>2 DEF VaultMM
<1>8. vault_mm'[w] # NoAccount
  BY <1>7, SettlerAccountAssumption
<1>9. Remembered'
  <2> SUFFICES ASSUME NEW v \in VaultKey PROVE RememberedAt(v)'
    BY DEF Remembered
  <2>1. RememberedAt(v)
    BY DEF Remembered
  <2>2. CASE v = w
    BY <1>1, <1>4, <1>5, <1>6, <1>7, <1>8, <2>1, <2>2 DEF RememberedAt
  <2>3. CASE v # w
    BY <1>6, <1>7, <2>1, <2>3 DEF RememberedAt, Exists, Taken
  <2> QED
    BY <2>2, <2>3
<1> QED
  BY <1>1, <1>4, <1>5, <1>6, <1>9

LEMMA KeptRemembers ==
  ASSUME Remembered, OrdersKept, UNCHANGED vault_mm
  PROVE  Remembered'
<1> SUFFICES ASSUME NEW v \in VaultKey PROVE RememberedAt(v)'
  BY DEF Remembered
<1>1. RememberedAt(v) /\ vault_mm'[v] = vault_mm[v]
  BY DEF Remembered
<1>2. CASE v[1] = Settler
  <2>1. OrderKept(v)
    BY <1>2 DEF OrdersKept
  <2> QED
    BY <1>1, <1>2, <2>1 DEF RememberedAt, OrderKept
<1>3. CASE v[1] # Settler
  BY <1>1, <1>3 DEF RememberedAt
<1> QED
  BY <1>2, <1>3

LEMMA BatchRemembered ==
  Typed /\ Closings /\ Remembered /\ [BatchNext]_all_vars => Remembered'
<1> SUFFICES ASSUME Typed, Closings, Remembered, [BatchNext]_all_vars PROVE Remembered'
  OBVIOUS
<1>1. ASSUME NEW w \in Wallet, NEW s \in Series, NEW p \in PoolAccount,
             NEW n \in 1..MaxU64, RedeemCustody(w, s, p, n)
      PROVE  UNCHANGED vault_mm
  BY <1>1 DEF RedeemCustody
<1>2. CASE OrdersKept /\ UNCHANGED vault_mm
  BY <1>2, KeptRemembers
<1>3. ASSUME NEW u \in Wallet, NEW q \in Quotes, NEW p \in PoolAccount,
             NEW n \in 1..MaxU64, NEW c \in 1..MaxU64, ExecuteOrder(u, q, p, n, c)
      PROVE  Remembered'
  BY <1>3, OrderRemembers
<1>4. ASSUME NEW u \in Wallet, NEW w \in VaultKey, NEW p \in PoolAccount,
             EmergencyWithdraw(u, w, p)
      PROVE  Remembered'
  BY <1>4, ExitRemembers
<1> QED
  BY <1>1, <1>2, <1>3, <1>4, OrderWriters, CustodyWriters DEF custody

\* What was redeemed of a series never shrinks.
LEMMA RedeemedGrows ==
  ASSUME Typed, [BatchNext]_all_vars, NEW s \in Series, redeemed'[s] = 0
  PROVE  redeemed[s] = 0
<1>0. redeemed \in [Series -> Nat] /\ \A n \in 1..MaxU64 : n \in Nat /\ n > 0
  BY AmountType DEF Typed, TypeOK
<1>1. CASE redeemed' = redeemed
  BY <1>1
<1>2. ASSUME NEW r \in Series, NEW n \in 1..MaxU64,
             redeemed' = [redeemed EXCEPT ![r] = @ + n]
      PROVE  redeemed[s] = 0
  BY <1>0, <1>2
<1>3. ASSUME [Next]_vars
      PROVE  \/ redeemed' = redeemed
             \/ \E r \in Series, n \in 1..MaxU64 : redeemed' = [redeemed EXCEPT ![r] = @ + n]
  BY <1>3 DEF Next, AdminNext, OwnerNext, MintNext, HolderNext, SeriesNext, ChainNext, vars,
     history, Initialize, InitializeCounter, SetPartialPauser,
     SetPartiallyPaused, SetFullyPaused, CreateOTokenInfo, SetExpiryPrice,
     WhitelistOtoken, FinalizeOraclePrice, OpenVault, DepositCollateral, MintOtoken,
     SettleVault, EmergencyWithdrawVault, Redeem, TransferTokens, TurnFeeOn, Tick
<1>4. \A w \in VaultKey, r \in Series, n, c \in 1..MaxU64 :
        Ordered(w, r, n, c) => redeemed' = redeemed
  BY DEF Ordered, history
<1>5. \A r \in Series, n \in 1..MaxU64 :
        Withdrawn(r, n) => redeemed' = [redeemed EXCEPT ![r] = @ + n]
  BY DEF Withdrawn
<1>6. \A w \in VaultKey, r \in Series, b \in Nat : Exited(w, r, b) => redeemed' = redeemed
  BY DEF Exited
<1> QED
  BY <1>1, <1>2, <1>3, <1>4, <1>5, <1>6, BookSteps

\* A redemption out of custody is one more thing redeemed of its series.
LEMMA CustodyRedeems ==
  ASSUME Typed, NEW w \in Wallet, NEW r \in Series, NEW p \in PoolAccount,
         NEW n \in 1..MaxU64, RedeemCustody(w, r, p, n),
         NEW s \in Series, redeemed'[s] = 0
  PROVE  /\ s # r /\ UNCHANGED <<vault_mm, burned>>
         /\ \A m \in Wallet : mm_balance'[m][s] = mm_balance[m][s]
<1>1. /\ redeemed' = [redeemed EXCEPT ![r] = @ + n]
      /\ mm_balance' = [mm_balance EXCEPT ![w][r] = @ - n]
      /\ UNCHANGED <<vault_mm, burned>>
  BY DEF RedeemCustody
<1>2. redeemed[r] \in Nat /\ n \in Nat /\ n > 0 /\ redeemed \in [Series -> Nat]
  BY AmountType DEF Typed, TypeOK
<1>3. s # r
  BY <1>1, <1>2
<1>4. \A m \in Wallet : mm_balance'[m][s] = mm_balance[m][s]
  BY <1>1, <1>3 DEF Typed, SettlerTypeOK
<1> QED
  BY <1>1, <1>3, <1>4

LEMMA BatchWhole ==
  ASSUME Typed, Remembered, [BatchNext]_all_vars, NEW m \in Wallet, NEW s \in Series,
         Whole(m, s), redeemed'[s] = 0
  PROVE  Custodied(m, s)' = RemainderOf(m, s)'
<1>1. /\ Custodied(m, s) = RemainderOf(m, s)
      /\ Custodied(m, s) \in Nat /\ RemainderOf(m, s) \in Nat
  BY RedeemedGrows, CustodySummable, RemainderSummable DEF Whole
<1>2. CASE vault_mm' = vault_mm /\ mm_balance'[m][s] = mm_balance[m][s]
  <2>1. Custodied(m, s)' = Custodied(m, s)
    BY <1>2 DEF Custodied
  <2> QED
    BY <1>1, <1>2, <2>1, RemainderSame
<1>3. ASSUME NEW w \in Wallet, NEW r \in Series, NEW p \in PoolAccount,
             NEW n \in 1..MaxU64, RedeemCustody(w, r, p, n)
      PROVE  vault_mm' = vault_mm /\ mm_balance'[m][s] = mm_balance[m][s]
  BY <1>3, CustodyRedeems
<1>4. ASSUME NEW u \in Wallet, NEW q \in Quotes, NEW p \in PoolAccount,
             NEW n \in 1..MaxU64, NEW c \in 1..MaxU64, ExecuteOrder(u, q, p, n, c)
      PROVE  Custodied(m, s)' = RemainderOf(m, s)'
  <2>1. PICK more : more = IF q.maker = m /\ q.otoken_mint = s THEN n ELSE 0
    OBVIOUS
  <2>2. /\ Custodied(m, s)' = Custodied(m, s) + more
        /\ RemainderOf(m, s)' = RemainderOf(m, s) + more
    BY <1>4, <2>1, OrderBooked
  <2> QED
    BY <1>1, <2>2
<1>5. ASSUME NEW u \in Wallet, NEW v \in VaultKey, NEW p \in PoolAccount,
             EmergencyWithdraw(u, v, p)
      PROVE  Custodied(m, s)' = RemainderOf(m, s)'
  <2>1. PICK left, burn : left = vault_mm[v].remaining_amount /\ burn = EmergencyBurn(v)
    OBVIOUS
  <2>2. \/ /\ burn = IF left < Custodied(m, s) THEN left ELSE Custodied(m, s)
           /\ left \in Nat /\ burn \in Nat /\ left <= RemainderOf(m, s)
           /\ Custodied(m, s)' = Custodied(m, s) - burn
           /\ RemainderOf(m, s)' = RemainderOf(m, s) - left
        \/ /\ Custodied(m, s)' = Custodied(m, s)
           /\ RemainderOf(m, s)' = RemainderOf(m, s)
    BY <1>5, <2>1, ExitBooked
  <2> QED
    BY <1>1, <2>2
<1>6. CASE UNCHANGED <<custody, burned>>
  BY <1>2, <1>6 DEF custody
<1> QED
  BY <1>2, <1>3, <1>4, <1>5, <1>6, CustodyWriters

\* The vaults an exit closed, and their shorts, stay while nothing else does.
LEMMA ExitsSame ==
  ASSUME NEW s \in Series, \A v \in VaultKey :
           /\ v \in ExitsOf(s)' <=> v \in ExitsOf(s)
           /\ v \in ExitsOf(s) => vault'[v].short_amount = vault[v].short_amount
  PROVE  Total(Shorts, ExitsOf(s))' = Total(Shorts, ExitsOf(s))
<1>1. ExitsOf(s)' = ExitsOf(s) /\ ExitsOf(s) \subseteq VaultKey
  BY DEF ExitsOf
<1>2. \A v \in ExitsOf(s) : Shorts[v] = Shorts'[v]
  BY <1>1 DEF Shorts
<1>3. Total(Shorts, ExitsOf(s)) = Total(Shorts', ExitsOf(s))
  BY <1>2, TotalSame
<1> QED
  BY <1>1, <1>3

LEMMA ExitsSummable ==
  ASSUME TypeOK, NEW s \in Series
  PROVE  /\ Summable(Shorts, Writers(s)) /\ ExitsOf(s) \in SUBSET Writers(s)
         /\ Summable(Shorts, ExitsOf(s))
<1>1. Summable(Shorts, Writers(s)) /\ ExitsOf(s) \in SUBSET Writers(s)
  BY ShortsSummable DEF ExitsOf, Writers
<1>2. Summable(Shorts, ExitsOf(s))
  BY <1>1, FS_Subset DEF Summable
<1> QED
  BY <1>1, <1>2

LEMMA ExitAddsShort ==
  ASSUME Typed, Closings, Remembered, NEW s \in Series, NEW u \in Wallet,
         NEW w \in VaultKey, NEW p \in PoolAccount, EmergencyWithdraw(u, w, p),
         vault[w].otoken_mint = s
  PROVE  Total(Shorts, ExitsOf(s))' = Total(Shorts, ExitsOf(s)) + vault[w].short_amount
<1>0. ~Taken(w)
  BY DEF EmergencyWithdraw, CanEmergencyWithdraw, Taken, Closings, ClosedRecorded
<1>1. /\ Exists(w) /\ Exists(w)' /\ Taken(w)' /\ w[1] = Settler
      /\ vault'[w].otoken_mint = s /\ vault'[w].short_amount = vault[w].short_amount
      /\ \A v \in VaultKey : v # w => vault'[v] = vault[v] /\ closed_by'[v] = closed_by[v]
  BY ExitRemembers
<1>2. ExitsOf(s)' = ExitsOf(s) \cup {w} /\ w \notin ExitsOf(s)
  <2>1. ASSUME NEW v \in VaultKey, v # w PROVE v \in ExitsOf(s)' <=> v \in ExitsOf(s)
    BY <1>1, <2>1 DEF ExitsOf, Wrote, Exists, Taken
  <2>2. w \in ExitsOf(s)' /\ w \notin ExitsOf(s)
    BY <1>0, <1>1 DEF ExitsOf, Wrote
  <2>3. ExitsOf(s) \subseteq VaultKey /\ ExitsOf(s)' \subseteq VaultKey
    BY DEF ExitsOf
  <2> QED
    BY <2>1, <2>2, <2>3
<1>3. Summable(Shorts, ExitsOf(s))
  BY ExitsSummable DEF Typed
<1>4. Shorts'[w] = vault[w].short_amount /\ vault[w].short_amount \in Nat
  <2>1. vault[w] \in Vault
    BY <1>1, VaultNotNoAccount DEF Typed
  <2> QED
    BY <1>1, <2>1, AmountType DEF Shorts, Vault
<1>5. \A v \in ExitsOf(s) : Shorts[v] = Shorts'[v]
  BY <1>1, <1>2 DEF Shorts, ExitsOf
<1>6. Summable(Shorts', ExitsOf(s))
  BY <1>3, <1>5 DEF Summable
<1>7. Total(Shorts', ExitsOf(s) \cup {w}) = Total(Shorts', ExitsOf(s)) + Shorts'[w]
  BY <1>2, <1>4, <1>6, TotalAdded
<1>8. Total(Shorts', ExitsOf(s)) = Total(Shorts, ExitsOf(s))
  BY <1>5, TotalSame
<1> QED
  BY <1>2, <1>4, <1>7, <1>8

LEMMA ExitBurnsIt ==
  ASSUME Typed, Closings, Remembered, NEW s \in Series, ExitBurned(s),
         \A m \in Wallet : Whole(m, s), redeemed[s] = 0,
         NEW u \in Wallet, NEW w \in VaultKey, NEW p \in PoolAccount,
         EmergencyWithdraw(u, w, p)
  PROVE  burned'[s] = Total(Shorts, ExitsOf(s))'
<1>0. PICK m, r, n : m = vault_mm[w].maker /\ r = vault_mm[w].otoken_mint
                     /\ n = EmergencyBurn(w)
  OBVIOUS
<1>1. /\ vault_mm[w] # NoAccount /\ burned' = [burned EXCEPT ![r] = @ + n]
  BY <1>0 DEF EmergencyWithdraw
<1>2. m \in Wallet /\ r \in Series /\ n \in Nat
  BY <1>0, <1>1, EmergencyBurnType
<1>3. ~Taken(w)
  BY DEF EmergencyWithdraw, CanEmergencyWithdraw, Taken, Closings, ClosedRecorded
<1>4. r = vault[w].otoken_mint /\ vault_mm[w].remaining_amount = vault[w].short_amount
  BY <1>0, <1>1, <1>3 DEF Remembered, RememberedAt
<1>5. burned[s] = Total(Shorts, ExitsOf(s)) /\ burned \in [Series -> Nat]
  BY DEF ExitBurned, Typed, SettlerTypeOK
<1>6. CASE r = s
  <2>1. PICK left : left = vault_mm[w].remaining_amount
    OBVIOUS
  <2>2. /\ n = IF left < Custodied(m, s) THEN left ELSE Custodied(m, s)
        /\ left \in Nat /\ left <= RemainderOf(m, s)
    BY <1>0, <1>2, <1>6, <2>1, ExitBooked
  <2>3. Custodied(m, s) = RemainderOf(m, s) /\ RemainderOf(m, s) \in Nat
    BY <1>2, RemainderSummable DEF Whole
  <2>4. n = left
    BY <1>2, <2>2, <2>3
  <2>5. Total(Shorts, ExitsOf(s))' = Total(Shorts, ExitsOf(s)) + left
    BY <1>4, <1>6, <2>1, ExitAddsShort
  <2>6. burned'[s] = burned[s] + n
    BY <1>1, <1>5, <1>6
  <2> QED
    BY <1>5, <2>4, <2>5, <2>6
<1>7. CASE r # s
  <2>1. burned'[s] = burned[s]
    BY <1>1, <1>5, <1>7
  <2>2. /\ vault'[w].otoken_mint = vault[w].otoken_mint
        /\ \A v \in VaultKey : v # w => vault'[v] = vault[v] /\ closed_by'[v] = closed_by[v]
    BY ExitRemembers
  <2>3. ASSUME NEW v \in VaultKey
        PROVE  /\ v \in ExitsOf(s)' <=> v \in ExitsOf(s)
               /\ v \in ExitsOf(s) => vault'[v].short_amount = vault[v].short_amount
    <3>1. CASE v = w
      BY <1>4, <1>7, <2>2, <3>1 DEF ExitsOf, Wrote
    <3>2. CASE v # w
      BY <2>2, <3>2 DEF ExitsOf, Wrote, Exists, Taken
    <3> QED
      BY <3>1, <3>2
  <2>4. Total(Shorts, ExitsOf(s))' = Total(Shorts, ExitsOf(s))
    BY <2>3, ExitsSame
  <2> QED
    BY <1>5, <2>1, <2>4
<1> QED
  BY <1>6, <1>7

LEMMA BatchExitBurned ==
  ASSUME Typed, Closings, Remembered, [BatchNext]_all_vars, NEW s \in Series,
         ExitBurned(s), \A m \in Wallet : Whole(m, s), redeemed'[s] = 0
  PROVE  burned'[s] = Total(Shorts, ExitsOf(s))'
<1>1. redeemed[s] = 0 /\ burned[s] = Total(Shorts, ExitsOf(s))
  BY RedeemedGrows DEF ExitBurned
<1>2. CASE OrdersKept /\ burned' = burned
  <2>1. ASSUME NEW v \in VaultKey
        PROVE  /\ v \in ExitsOf(s)' <=> v \in ExitsOf(s)
               /\ v \in ExitsOf(s) => vault'[v].short_amount = vault[v].short_amount
    BY <1>2 DEF OrdersKept, OrderKept, ExitsOf, Wrote
  <2>2. Total(Shorts, ExitsOf(s))' = Total(Shorts, ExitsOf(s))
    BY <2>1, ExitsSame
  <2> QED
    BY <1>1, <1>2, <2>2
<1>3. ASSUME NEW u \in Wallet, NEW q \in Quotes, NEW p \in PoolAccount,
             NEW n \in 1..MaxU64, NEW c \in 1..MaxU64, ExecuteOrder(u, q, p, n, c)
      PROVE  burned'[s] = Total(Shorts, ExitsOf(s))'
  <2>1. /\ \A v \in VaultKey :
             Exists(v) => vault'[v] = vault[v] /\ closed_by'[v] = closed_by[v]
        /\ \A v \in VaultKey : ~Exists(v) => ~Taken(v)'
    BY <1>3, OrderRemembers
  <2>2. ASSUME NEW v \in VaultKey
        PROVE  /\ v \in ExitsOf(s)' <=> v \in ExitsOf(s)
               /\ v \in ExitsOf(s) => vault'[v].short_amount = vault[v].short_amount
    <3>1. CASE Exists(v)
      BY <2>1, <3>1 DEF ExitsOf, Wrote, Exists, Taken
    <3>2. CASE ~Exists(v)
      BY <2>1, <3>2 DEF ExitsOf, Wrote
    <3> QED
      BY <3>1, <3>2
  <2>3. Total(Shorts, ExitsOf(s))' = Total(Shorts, ExitsOf(s))
    BY <2>2, ExitsSame
  <2>4. burned' = burned
    BY <1>3 DEF ExecuteOrder
  <2> QED
    BY <1>1, <2>3, <2>4
<1>4. ASSUME NEW u \in Wallet, NEW w \in VaultKey, NEW p \in PoolAccount,
             EmergencyWithdraw(u, w, p)
      PROVE  burned'[s] = Total(Shorts, ExitsOf(s))'
  BY <1>1, <1>4, ExitBurnsIt
<1>5. ASSUME NEW w \in Wallet, NEW r \in Series, NEW p \in PoolAccount,
             NEW n \in 1..MaxU64, RedeemCustody(w, r, p, n)
      PROVE  burned' = burned
  BY <1>5 DEF RedeemCustody
<1>6. CASE UNCHANGED <<custody, burned>>
  BY <1>2, <1>6, <1>3, <1>4, OrderWriters
<1> QED
  BY <1>2, <1>3, <1>4, <1>5, <1>6, CustodyWriters, OrderWriters

Unredeemed ==
  \A s \in Series : ExitBurned(s) /\ \A m \in Wallet : Whole(m, s)

LEMMA BatchUnredeemed ==
  Typed /\ Closings /\ Remembered /\ Unredeemed /\ [BatchNext]_all_vars => Unredeemed'
<1> SUFFICES ASSUME Typed, Closings, Remembered, Unredeemed, [BatchNext]_all_vars,
                    NEW s \in Series
             PROVE  ExitBurned(s)' /\ \A m \in Wallet : Whole(m, s)'
  BY DEF Unredeemed
<1>1. ExitBurned(s) /\ \A m \in Wallet : Whole(m, s)
  BY DEF Unredeemed
<1>2. ExitBurned(s)'
  BY <1>1, BatchExitBurned DEF ExitBurned
<1>3. ASSUME NEW m \in Wallet PROVE Whole(m, s)'
  BY <1>1, BatchWhole DEF Whole
<1> QED
  BY <1>2, <1>3

LEMMA InitUnredeemed == BatchInit => Remembered /\ Unredeemed
<1> SUFFICES ASSUME BatchInit PROVE Remembered /\ Unredeemed
  OBVIOUS
<1>1. Remembered
  BY DEF BatchInit, SettlerInit, Init, Remembered, RememberedAt, Exists
<1>2. ASSUME NEW s \in Series PROVE ExitBurned(s)
  <2>1. ExitsOf(s) = {} /\ burned[s] = 0
    BY DEF BatchInit, SettlerInit, Init, ExitsOf, Wrote, Exists
  <2> QED
    BY <2>1, TotalOfNothing DEF ExitBurned
<1>3. ASSUME NEW s \in Series, NEW m \in Wallet PROVE Whole(m, s)
  <2>1. VaultsFor(m, s) = {} /\ Custodied(m, s) = 0
    BY DEF BatchInit, SettlerInit, VaultsFor, Custodied
  <2> QED
    BY <2>1, TotalOfNothing DEF Whole, RemainderOf
<1> QED
  BY <1>1, <1>2, <1>3 DEF Unredeemed

LEMMA UnredeemedImplies ==
  Typed /\ SupplyAccountedWithBurns /\ Unredeemed => ExitBurnsShort
<1> SUFFICES ASSUME Typed, SupplyAccountedWithBurns, Unredeemed, NEW s \in Series,
                    redeemed[s] = 0
             PROVE  Supply(s) =
                      Total([v \in VaultKey |-> vault[v].short_amount],
                            {v \in VaultKey :
                               /\ Wrote(v, s)
                               /\ v[1] = Settler =>
                                    closed_by[v] # "emergency_withdraw_vault"})
  BY DEF ExitBurnsShort
<1>1. {v \in VaultKey : /\ Wrote(v, s)
                        /\ v[1] = Settler => closed_by[v] # "emergency_withdraw_vault"}
        = Writers(s) \ ExitsOf(s)
  BY DEF Writers, ExitsOf, Taken
<1>2. /\ Summable(Shorts, Writers(s)) /\ ExitsOf(s) \in SUBSET Writers(s)
      /\ Summable(Shorts, ExitsOf(s))
  BY ExitsSummable DEF Typed
<1>3. WrittenOf(s) = Total(Shorts, ExitsOf(s)) + Total(Shorts, Writers(s) \ ExitsOf(s))
  BY <1>2, TotalPartition DEF WrittenOf
<1>4. Supply(s) + redeemed[s] + burned[s] = WrittenOf(s)
  BY BurntByParts DEF Burnt, SupplyOf
<1>5. burned[s] = Total(Shorts, ExitsOf(s))
  BY DEF Unredeemed, ExitBurned
<1>6. /\ Total(Shorts, ExitsOf(s)) \in Nat
      /\ Total(Shorts, Writers(s) \ ExitsOf(s)) \in Nat /\ Supply(s) \in Nat
  <2>1. Summable(Shorts, Writers(s) \ ExitsOf(s))
    BY <1>2, FS_Subset DEF Summable
  <2> QED
    BY <1>2, <2>1, TotalIsNat, SupplyIsNat DEF Typed
<1>7. Supply(s) = Total(Shorts, Writers(s) \ ExitsOf(s))
  BY <1>3, <1>4, <1>5, <1>6
<1> QED
  BY <1>1, <1>7 DEF Shorts

\* While nobody redeemed a series, emergency exits burn exactly what their own
\* vaults wrote: the oTokens left are those of the vaults that stay.
THEOREM ExitTheorem == BatchSpec => []ExitBurnsShort
<1>1. BooksInv => Typed /\ Closings /\ SupplyAccountedWithBurns
  BY DEF BooksInv
<1> QED
  BY <1>1, BooksInvariant, InitUnredeemed, BatchRemembered, BatchUnredeemed,
     UnredeemedImplies, PTL DEF BatchSpec

(***************************************************************************)
(* What a redemption of custody pays: the whole payout passes through the  *)
(* settler's account and reaches the maker, less the fee of each of the    *)
(* two transfers.                                                          *)
(***************************************************************************)

\* What redeeming custody of s for w leaves in the wallets.
Forwarded(w, s, n) ==
  LET c      == Terms[s].collateral_mint
      payout == PayoutOf(s, n)
  IN /\ balance'[c][w] - balance[c][w] \in (payout - 2 * Fee(c))..payout
     /\ \A k \in Key : k # w => balance'[c][k] = balance[c][k]
     /\ \A t \in Mint : t # c => balance'[t] = balance[t]

LEMMA CustodyForwarded ==
  ASSUME Typed, NEW w \in Wallet, NEW s \in Series, NEW p \in PoolAccount,
         NEW n \in 1..MaxU64, RedeemCustody(w, s, p, n)
  PROVE  Forwarded(w, s, n)
<1> DEFINE c == Terms[s].collateral_mint
           payout == PayoutOf(s, n)
           l1 == [balance EXCEPT ![s] = Burned(@, Settler, n)]
           l2 == Move(l1, c, p, Settler, payout)
           l3 == Move(l2, c, Settler, w, Gained(l2, c))
<1>1. /\ c \in Mint /\ c # s /\ n \in Nat /\ TypeOK
      /\ Settler \in Account /\ w \in Account /\ p \in Account
      /\ p # Settler /\ p # w /\ w # Settler
      /\ \A k \in Key : k \in Account /\ k # p
      /\ \A t \in Mint : t # s
  BY TermsType, AmountType, WalletType, PoolApart, ControllerAssumption, SettlerAssumption
  DEF Typed, Account, Wallet
<1>2. CanRedeem(Settler, s, p, n) /\ balance' = l3
  BY DEF RedeemCustody, CanRedeemCustody
<1>3. payout \in Nat
  BY RedeemCustodyLedgers
<1>4. /\ CanBurn(balance[s], Settler, n) /\ balance[c][p] >= payout
  BY <1>2 DEF CanRedeem, CanPayOut, CanTransfer
<1>5. balance[c] \in [Account -> Nat] /\ Fee(c) \in {0, 1}
  BY <1>1, FeeType DEF TypeOK
<1> HIDE DEF payout, l1, l2, l3, c
<1>6. l1 \in Ledgers /\ \A t \in Mint : l1[t] = balance[t]
  BY <1>1, <1>4, BurnedType DEF l1
<1>7. l2 \in Ledgers
  <2>1. CanMove(l1, c, p, payout)
    BY <1>1, <1>4, <1>6 DEF CanMove, CanTransfer
  <2> QED
    BY <1>1, <1>3, <1>6, <2>1, MoveType DEF l2
<1>8. \A t \in Mint : t # c => balance'[t] = balance[t]
  BY <1>1, <1>2, <1>6, <1>7 DEF l2, l3, Move, Ledgers
<1>9. CASE payout = 0
  <2>1. l2 = l1 /\ l2[c] = balance[c]
    BY <1>1, <1>6, <1>9 DEF l2, Move
  <2>2. Gained(l2, c) = 0
    BY <1>1, <1>5, <2>1 DEF Gained
  <2>3. balance'[c] = balance[c]
    BY <1>2, <2>1, <2>2 DEF l3, Move
  <2>4. balance'[c][w] - balance[c][w] \in (payout - 2 * Fee(c))..payout
    BY <1>1, <1>5, <1>9, <2>3
  <2> QED
    BY <1>8, <2>3, <2>4 DEF Forwarded, c, payout
<1>10. CASE payout > 0
  <2>1. l2[c] = TransferredLess(balance[c], p, Settler, payout, Fee(c))
    BY <1>1, <1>6, <1>10 DEF l2, Move, Ledgers
  <2>2. l2[c][Settler] = balance[c][Settler] + (payout - Fee(c))
    BY <1>1, <1>5, <2>1 DEF TransferredLess
  <2>3. Gained(l2, c) = payout - Fee(c)
    <3>1. balance[c][Settler] \in Nat
      BY <1>1, <1>5
    <3> QED
      BY <1>3, <1>5, <2>2, <3>1 DEF Gained
  <2>4. CASE payout - Fee(c) = 0
    <3>1. balance'[c] = l2[c]
      BY <1>2, <2>3, <2>4 DEF l3, Move
    <3>2. \A k \in Key : k # Settler => balance'[c][k] = balance[c][k]
      BY <1>1, <1>5, <2>1, <3>1 DEF TransferredLess
    <3>3. balance'[c][Settler] = balance[c][Settler]
      BY <1>1, <1>5, <2>2, <2>4, <3>1
    <3>4. balance'[c][w] - balance[c][w] = 0
      <4>1. w \in Key /\ balance[c][w] \in Nat
        BY <1>1, <1>5, WalletType
      <4> QED
        BY <1>1, <3>2, <4>1
    <3>5. 0 \in (payout - 2 * Fee(c))..payout
      BY <1>3, <1>5, <2>4
    <3>6. \A k \in Key : k # w => balance'[c][k] = balance[c][k]
      BY <3>2, <3>3
    <3> QED
      BY <1>8, <3>4, <3>5, <3>6 DEF Forwarded, c, payout
  <2>5. CASE payout - Fee(c) > 0
    <3>1. balance'[c] = TransferredLess(l2[c], Settler, w, payout - Fee(c), Fee(c))
      BY <1>1, <1>2, <1>7, <2>3, <2>5 DEF l3, Move, Ledgers
    <3>2. /\ balance'[c][w] = balance[c][w] + (payout - 2 * Fee(c))
          /\ \A k \in Account : k \notin {p, w} => balance'[c][k] = balance[c][k]
      <4>1. /\ l2[c] \in [Account -> Nat]
            /\ l2[c][Settler] = balance[c][Settler] + (payout - Fee(c))
            /\ l2[c][w] = balance[c][w]
            /\ \A k \in Account : k \notin {p, Settler} => l2[c][k] = balance[c][k]
        BY <1>1, <1>5, <1>7, <2>1, <2>2 DEF TransferredLess, Ledgers
      <4>2. /\ balance'[c][Settler] = l2[c][Settler] - (payout - Fee(c))
            /\ balance'[c][w] = l2[c][w] + ((payout - Fee(c)) - Fee(c))
            /\ \A k \in Account : k \notin {Settler, w} => balance'[c][k] = l2[c][k]
        BY <1>1, <3>1, <4>1 DEF TransferredLess
      <4>3. balance[c][Settler] \in Nat /\ balance[c][w] \in Nat
        BY <1>1, <1>5
      <4>4. /\ balance'[c][Settler] = balance[c][Settler]
            /\ balance'[c][w] = balance[c][w] + (payout - 2 * Fee(c))
        BY <1>3, <1>5, <4>1, <4>2, <4>3
      <4>5. \A k \in Account : k \notin {p, w} => balance'[c][k] = balance[c][k]
        BY <4>1, <4>2, <4>4
      <4> QED
        BY <4>4, <4>5
    <3>3. balance[c][w] \in Nat
      BY <1>1, <1>5
    <3>4. balance'[c][w] - balance[c][w] \in (payout - 2 * Fee(c))..payout
      BY <1>3, <1>5, <3>2, <3>3
    <3>5. \A k \in Key : k # w => balance'[c][k] = balance[c][k]
      BY <1>1, <3>2
    <3> QED
      BY <1>8, <3>4, <3>5 DEF Forwarded, c, payout
  <2>6. payout - Fee(c) \in Nat
    BY <1>3, <1>5, <1>10
  <2> QED
    BY <2>4, <2>5, <2>6
<1> QED
  BY <1>3, <1>9, <1>10

\* Custody falls by what is redeemed, for one maker and one series.
LEMMA CustodyFalls ==
  ASSUME Typed, NEW w \in Wallet, NEW r \in Series, NEW p \in PoolAccount,
         NEW n \in 1..MaxU64, RedeemCustody(w, r, p, n), NEW m \in Wallet, NEW s \in Series
  PROVE  /\ m = w /\ s = r => Custodied(m, s)' = Custodied(m, s) - n
         /\ m # w \/ s # r => Custodied(m, s)' = Custodied(m, s)
<1>1. /\ mm_balance \in [Wallet -> [Series -> (0..MaxU64) \cup {NoAccount}]]
      /\ mm_balance[w][r] # NoAccount /\ mm_balance[w][r] >= n
      /\ mm_balance' = [mm_balance EXCEPT ![w][r] = @ - n]
      /\ n \in Nat /\ NoAccount \notin Nat
  BY AmountType, WalletType DEF RedeemCustody, CanRedeemCustody, Typed, SettlerTypeOK
<1>2. mm_balance[w][r] \in Nat
  BY <1>1, AmountType
<1>3. mm_balance'[w][r] = mm_balance[w][r] - n
  BY <1>1
<1>4. mm_balance[w][r] - n \in Nat
  BY <1>1, <1>2
<1>5. m # w \/ s # r => mm_balance'[m][s] = mm_balance[m][s]
  BY <1>1
<1> QED
  BY <1>1, <1>2, <1>3, <1>4, <1>5 DEF Custodied

\* An order adds to the maker's custody and takes nobody's.
LEMMA OrderKeepsCustody ==
  ASSUME Typed, NEW u \in Wallet, NEW q \in Quotes, NEW p \in PoolAccount,
         NEW n \in 1..MaxU64, NEW c \in 1..MaxU64, ExecuteOrder(u, q, p, n, c),
         NEW m \in Wallet, NEW s \in Series
  PROVE  Custodied(m, s)' >= Custodied(m, s)
<1>1. /\ mm_balance \in [Wallet -> [Series -> (0..MaxU64) \cup {NoAccount}]]
      /\ mm_balance' = [mm_balance EXCEPT ![q.maker][q.otoken_mint] =
                         Custodied(q.maker, q.otoken_mint) + n]
      /\ n \in Nat /\ q.maker \in Wallet /\ q.otoken_mint \in Series
  BY AmountType, QuoteType DEF ExecuteOrder, Typed, SettlerTypeOK
<1>2. Custodied(m, s) \in Nat /\ Custodied(q.maker, q.otoken_mint) \in Nat
  BY <1>1, CustodySummable
<1>3. CASE m = q.maker /\ s = q.otoken_mint
  <2>1. mm_balance'[m][s] = Custodied(m, s) + n
    BY <1>1, <1>3
  <2>2. Custodied(m, s)' = Custodied(m, s) + n
    BY <1>1, <1>2, <2>1, WalletType DEF Custodied
  <2> QED
    BY <1>1, <1>2, <2>2
<1>4. CASE ~(m = q.maker /\ s = q.otoken_mint)
  <2>1. mm_balance'[m][s] = mm_balance[m][s]
    BY <1>1, <1>4
  <2> QED
    BY <1>2, <2>1 DEF Custodied
<1> QED
  BY <1>3, <1>4

LEMMA CustodyTyped ==
  Typed => \A m \in Wallet, s \in Series : Custodied(m, s) \in Nat
  BY CustodySummable

LEMMA CustodyTypedNext ==
  Typed' => (\A m \in Wallet, s \in Series : Custodied(m, s) \in Nat)'
  BY CustodyTyped, PTL

\* A maker who loses custody outside a full pause is paid for it.
PaidFor(m, s) ==
  LET c      == Terms[s].collateral_mint
      payout == PayoutOf(s, Custodied(m, s) - Custodied(m, s)')
  IN /\ PoolTotal(c) - PoolTotal(c)' = payout
     /\ balance'[c][m] - balance[c][m] \in (payout - 2 * Fee(c))..payout

LEMMA RedemptionPays ==
  ASSUME Typed, NEW w \in Wallet, NEW r \in Series, NEW p \in PoolAccount,
         NEW n \in 1..MaxU64, RedeemCustody(w, r, p, n), NEW m \in Wallet, NEW s \in Series,
         Custodied(m, s)' < Custodied(m, s)
  PROVE  PaidFor(m, s)
<1>1. Custodied(m, s) \in Nat /\ n \in Nat /\ TypeOK
  BY CustodySummable, AmountType DEF Typed
<1>2. m = w /\ s = r
  BY <1>1, CustodyFalls
<1>3. Custodied(m, s) - Custodied(m, s)' = n
  BY <1>1, <1>2, CustodyFalls
<1>4. PICK c : c = Terms[s].collateral_mint
  OBVIOUS
<1>5. PICK payout : payout = PayoutOf(s, n)
  OBVIOUS
<1>6. c \in Mint /\ payout \in Nat /\ PoolTotal(c) \in Nat
  <2>1. c \in Mint
    BY <1>4, TermsType
  <2>2. PoolTotal(c) \in Nat
    BY <1>1, <2>1, PoolSummable, TotalIsNat DEF PoolTotal
  <2> QED
    BY <1>2, <1>5, <2>1, <2>2, RedeemCustodyLedgers
<1>7. PoolTotal(c)' = PoolTotal(c) - payout
  BY <1>2, <1>4, <1>5, <1>6, CustodyPool
<1>8. PoolTotal(c) - PoolTotal(c)' = payout
  BY <1>6, <1>7
<1>9. balance'[c][m] - balance[c][m] \in (payout - 2 * Fee(c))..payout
  BY <1>2, <1>4, <1>5, CustodyForwarded DEF Forwarded
<1> QED
  BY <1>3, <1>4, <1>5, <1>8, <1>9 DEF PaidFor

LEMMA BatchPays ==
  ASSUME Typed, [BatchNext]_all_vars, NEW m \in Wallet, NEW s \in Series,
         Custodied(m, s)' < Custodied(m, s), ~config.fully_paused
  PROVE  PaidFor(m, s)
<1>0. Custodied(m, s) \in Nat
  BY CustodySummable
<1>1. CASE UNCHANGED <<custody, burned>>
  <2>1. Custodied(m, s)' = Custodied(m, s)
    BY <1>1 DEF Custodied, custody
  <2> QED
    BY <1>0, <2>1
<1>2. ASSUME NEW w \in Wallet, NEW r \in Series, NEW p \in PoolAccount,
             NEW n \in 1..MaxU64, RedeemCustody(w, r, p, n)
      PROVE  PaidFor(m, s)
  BY <1>2, RedemptionPays
<1>3. ASSUME NEW u \in Wallet, NEW q \in Quotes, NEW p \in PoolAccount,
             NEW n \in 1..MaxU64, NEW c \in 1..MaxU64, ExecuteOrder(u, q, p, n, c)
      PROVE  FALSE
  <2>1. Custodied(m, s)' >= Custodied(m, s)
    BY <1>3, OrderKeepsCustody
  <2>2. Custodied(m, s)' \in Nat
    BY <1>3, ExecuteOrderTyped, CustodyTypedNext
  <2> QED
    BY <1>0, <2>1, <2>2
<1>4. ASSUME NEW u \in Wallet, NEW v \in VaultKey, NEW p \in PoolAccount,
             EmergencyWithdraw(u, v, p)
      PROVE  FALSE
  BY <1>4 DEF EmergencyWithdraw, CanEmergencyWithdraw
<1> QED
  BY <1>1, <1>2, <1>3, <1>4, CustodyWriters

\* Custody leaves a maker only against its payout, or under a full pause.
THEOREM MakersTheorem == BatchSpec => MakersPaid
<1>1. Typed /\ [BatchNext]_all_vars =>
        \A m \in Wallet, s \in Series :
          Custodied(m, s)' < Custodied(m, s) /\ ~config.fully_paused => PaidFor(m, s)
  BY BatchPays
<1>2. (\A m \in Wallet, s \in Series :
         Custodied(m, s)' < Custodied(m, s) /\ ~config.fully_paused => PaidFor(m, s))
      => \A m \in Wallet, s \in Series :
           Custodied(m, s)' < Custodied(m, s) /\ ~config.fully_paused =>
             LET c      == Terms[s].collateral_mint
                 payout == PayoutOf(s, Custodied(m, s) - Custodied(m, s)')
             IN /\ PoolTotal(c) - PoolTotal(c)' = payout
                /\ balance'[c][m] - balance[c][m] \in (payout - 2 * Fee(c))..payout
  BY DEF PaidFor
<1> QED
  BY <1>1, <1>2, InitTyped, NextTyped, PTL DEF BatchSpec, MakersPaid

(***************************************************************************)
(* The settler's collateral accounts.                                      *)
(***************************************************************************)

\* The controller's instructions that write a token account are signed by
\* wallets, never by the settler's PDA.
LEMMA WalletsSign ==
  ASSUME ControllerNext
  PROVE  \/ balance' = balance
         \/ \E k \in Wallet, id \in VaultId, p \in PoolAccount, n \in 1..MaxU64 :
              DepositCollateral(k, id, p, n)
         \/ \E k \in Wallet, id \in VaultId, r \in Series, d \in Key, n \in 1..MaxU64 :
              MintOtoken(k, id, r, d, n)
         \/ \E k \in Wallet, v \in VaultKey, p \in PoolAccount : SettleVault(k, v, p)
         \/ \E k \in Wallet, id \in VaultId, p \in PoolAccount :
              EmergencyWithdrawVault(k, id, p)
         \/ \E k \in Wallet, r \in Series, p \in PoolAccount, n \in 1..MaxU64 :
              Redeem(k, r, p, n)
         \/ \E t \in Transferable, from \in Wallet, to \in Account, n \in 1..MaxU64 :
              TransferTokens(t, from, to, n)
<1>1. DirectUsers \subseteq Wallet
  BY WalletType
<1> QED
  BY <1>1 DEF ControllerNext, AdminNext, OwnerNext, MintNext, HolderNext, SeriesNext,
     ChainNext, Initialize, InitializeCounter, SetPartialPauser, SetPartiallyPaused,
     SetFullyPaused, CreateOTokenInfo, SetExpiryPrice, WhitelistOtoken,
     FinalizeOraclePrice, OpenVault, TurnFeeOn, Tick

\* A transfer somebody else signs takes nothing from the settler.
LEMMA OthersPay ==
  ASSUME TypeOK, NEW m \in Mint, NEW from \in Account, from # Settler, NEW to \in Account,
         NEW n \in Nat, NEW t \in Mint \cup Series, n > 0 \/ Fee(t) = 0,
         balance'[m] = (IF m = t THEN TransferredLess(balance[m], from, to, n, Fee(t))
                        ELSE balance[m])
  PROVE  balance'[m][Settler] >= balance[m][Settler]
<1>1. balance[m] \in [Account -> Nat] /\ Settler \in Account
  BY WalletType DEF TypeOK, Account
<1>2. balance[m][Settler] \in Nat /\ n - Fee(t) \in Nat
  BY <1>1, FeeType
<1>3. CASE m = t /\ to = Settler
  <2>1. balance'[m][Settler] = balance[m][Settler] + (n - Fee(t))
    BY <1>1, <1>3 DEF TransferredLess
  <2> QED
    BY <1>2, <2>1
<1>4. CASE m # t \/ to # Settler
  <2>1. balance'[m][Settler] = balance[m][Settler]
    BY <1>1, <1>4 DEF TransferredLess
  <2> QED
    BY <1>2, <2>1
<1> QED
  BY <1>3, <1>4

\* So does a payout of the controller's.
LEMMA PoolPays ==
  ASSUME TypeOK, NEW m \in Mint, NEW p \in PoolAccount, NEW to \in Key, NEW n \in Nat,
         NEW t \in Mint,
         balance'[m] = (IF m = t THEN PaidOut(t, p, to, n) ELSE balance[m])
  PROVE  balance'[m][Settler] >= balance[m][Settler]
<1>1. Settler \in Key /\ p # Settler /\ p \in Account /\ to \in Account
      /\ balance[m][Settler] \in Nat
  BY WalletType, PoolApart DEF TypeOK, Account
<1>2. CASE n = 0
  BY <1>1, <1>2 DEF PaidOut
<1>3. CASE n > 0
  <2>1. balance'[m] = (IF m = t THEN TransferredLess(balance[m], p, to, n, Fee(t))
                       ELSE balance[m])
    BY <1>3 DEF PaidOut
  <2> QED
    BY <1>1, <1>3, <2>1, OthersPay
<1> QED
  BY <1>2, <1>3

LEMMA SettlementSpares ==
  ASSUME TypeOK, NEW k \in Key, NEW v \in VaultKey, NEW p \in PoolAccount,
         SettleVault(k, v, p), NEW m \in Mint
  PROVE  balance'[m][Settler] >= balance[m][Settler]
<1>1. PICK c : c = vault[v].collateral_mint
  OBVIOUS
<1>2. PICK to : to = vault[v].beneficiary
  OBVIOUS
<1>3. PICK n : n = vault[v].collateral_amount
                     - PayoutOf(vault[v].otoken_mint, vault[v].short_amount)
  OBVIOUS
<1>4. vault[v] \in Vault /\ n \in Nat
  BY <1>3, SettledVault
<1>5. c \in Mint /\ to \in Key
  BY <1>1, <1>2, <1>4 DEF Vault
<1>6. balance'[m] = (IF m = c THEN PaidOut(c, p, to, n) ELSE balance[m])
  BY <1>1, <1>2, <1>3, <1>5 DEF SettleVault, TypeOK
<1> QED
  BY <1>4, <1>5, <1>6, PoolPays

\* The controller's instructions pay the settler, if anything.
LEMMA ControllerSpares ==
  ASSUME TypeOK, ControllerNext, NEW m \in Mint
  PROVE  balance'[m][Settler] >= balance[m][Settler]
<1> DEFINE Spared == balance'[m][Settler] >= balance[m][Settler]
<1>0. /\ Wallet \subseteq Key /\ Settler \notin Wallet /\ Settler \in Key
      /\ \A k \in Key : k \in Account
      /\ \A p \in PoolAccount : p \in Account
      /\ balance[m][Settler] \in Nat
  BY WalletType, SettlerAssumption DEF TypeOK, Account, Wallet
<1>1. ASSUME NEW k \in Wallet, NEW id \in VaultId, NEW p \in PoolAccount,
             NEW n \in 1..MaxU64, DepositCollateral(k, id, p, n)
      PROVE  Spared
  <2>1. PICK c : c = vault[<<k, id>>].collateral_mint
    OBVIOUS
  <2>2. <<k, id>> \in VaultKey
    BY <1>0 DEF VaultKey
  <2>3. vault[<<k, id>>] \in Vault
    BY <1>1, <2>2, VaultNotNoAccount DEF DepositCollateral
  <2>4. c \in Mint /\ n \in Nat /\ n > 0
    BY <2>1, <2>3, AmountType DEF Vault
  <2>5. balance'[m] = (IF m = c THEN TransferredLess(balance[m], k, p, n, Fee(c))
                       ELSE balance[m])
    BY <1>1, <2>1, <2>4 DEF DepositCollateral, TypeOK
  <2>6. k \in Account /\ k # Settler /\ p \in Account /\ c \in Mint \cup Series
    BY <1>0, <2>4
  <2> QED
    BY <2>4, <2>5, <2>6, OthersPay
<1>2. ASSUME NEW k \in Wallet, NEW id \in VaultId, NEW r \in Series, NEW d \in Key,
             NEW n \in 1..MaxU64, MintOtoken(k, id, r, d, n)
      PROVE  Spared
  <2>1. balance'[m] = balance[m]
    BY <1>2, ControllerAssumption DEF MintOtoken, TypeOK
  <2> QED
    BY <1>0, <2>1
<1>3. ASSUME NEW k \in Wallet, NEW v \in VaultKey, NEW p \in PoolAccount,
             SettleVault(k, v, p)
      PROVE  Spared
  BY <1>3, SettlementSpares, WalletType
<1>4. ASSUME NEW k \in Wallet, NEW id \in VaultId, NEW p \in PoolAccount,
             EmergencyWithdrawVault(k, id, p)
      PROVE  Spared
  <2>1. PICK c : c = vault[<<k, id>>].collateral_mint
    OBVIOUS
  <2>2. PICK whole : whole = vault[<<k, id>>].collateral_amount
    OBVIOUS
  <2>3. PICK to : to = vault[<<k, id>>].beneficiary
    OBVIOUS
  <2>4. vault[<<k, id>>] \in Vault
    BY <1>0, <1>4, EmergencyVault
  <2>5. c \in Mint /\ whole \in Nat /\ to \in Key
    BY <2>1, <2>2, <2>3, <2>4, AmountType DEF Vault
  <2>6. balance'[m] = (IF m = c THEN PaidOut(c, p, to, whole) ELSE balance[m])
    BY <1>4, <2>1, <2>2, <2>3, <2>5 DEF EmergencyWithdrawVault, TypeOK
  <2> QED
    BY <2>5, <2>6, PoolPays
<1>5. ASSUME NEW k \in Wallet, NEW r \in Series, NEW p \in PoolAccount,
             NEW n \in 1..MaxU64, Redeem(k, r, p, n)
      PROVE  Spared
  <2>1. PICK c : c = Terms[r].collateral_mint
    OBVIOUS
  <2>2. PICK payout : payout = PayoutOf(r, n)
    OBVIOUS
  <2>3. c \in Mint /\ payout \in Nat /\ k \in Key /\ m # r
    BY <1>0, <1>5, <2>1, <2>2, TermsType, AmountType, PayoutIsNat, ControllerAssumption
    DEF Redeem, CanRedeem, CanSettleSeries
  <2>4. balance'[m] = (IF m = c THEN PaidOut(c, p, k, payout) ELSE balance[m])
    BY <1>5, <2>1, <2>2, <2>3 DEF Redeem, TypeOK
  <2> QED
    BY <2>3, <2>4, PoolPays
<1>6. ASSUME NEW t \in Transferable, NEW from \in Wallet, NEW to \in Account,
             NEW n \in 1..MaxU64, TransferTokens(t, from, to, n)
      PROVE  Spared
  <2>1. t \in Mint \cup Series /\ from \in Account /\ from # Settler /\ n \in Nat /\ n > 0
    BY <1>0, AmountType, ControllerAssumption
  <2>2. balance'[m] = (IF m = t THEN TransferredLess(balance[m], from, to, n, Fee(t))
                       ELSE balance[m])
    BY <1>6, <2>1 DEF TransferTokens, TypeOK
  <2> QED
    BY <2>1, <2>2, OthersPay
<1>7. CASE balance' = balance
  BY <1>0, <1>7
<1> QED
  BY <1>1, <1>2, <1>3, <1>4, <1>5, <1>6, <1>7, WalletsSign

\* The settler's own instructions leave the settler's balance of m.
Spared(m) == balance'[m][Settler] = balance[m][Settler]

LEMMA MoveSpares ==
  ASSUME NEW l \in Ledgers, NEW t \in Mint \cup Series, NEW from \in Account,
         NEW to \in Account, NEW n \in Nat, from # Settler, to # Settler, NEW m \in Mint
  PROVE  Move(l, t, from, to, n)[m][Settler] = l[m][Settler]
<1>1. Settler \in Account /\ m \in Mint \cup Series
  BY WalletType
<1> QED
  BY <1>1, MoveElsewhere

LEMMA OrderSpares ==
  ASSUME Typed, NEW user \in Wallet, NEW q \in Quotes, NEW p \in PoolAccount,
         NEW n \in 1..MaxU64, NEW c \in 1..MaxU64, ExecuteOrder(user, q, p, n, c),
         NEW x \in Mint
  PROVE  Spared(x)
<1> DEFINE s == q.otoken_mint
           m == Terms[s].collateral_mint
           t == q.premium_mint
           premium == Premium(q, n)
           fee == ProtocolFee(premium)
           l1 == Move(balance, m, user, p, c)
           l2 == [l1 EXCEPT ![s] = Minted(@, Settler, n)]
           l3 == Move(l2, t, q.maker, user, premium - fee)
           l4 == Move(l3, t, q.maker, settler_config.treasury, fee)
<1>1. /\ s \in Series /\ m \in Mint /\ t \in Mint /\ x # s
      /\ n \in Nat /\ c \in Nat /\ TypeOK /\ balance \in Ledgers
  BY QuoteType, TermsType, AmountType, ControllerAssumption DEF Typed, TypeOK, Ledgers
<1>2. /\ user \in Account /\ p \in Account /\ q.maker \in Account
      /\ user # Settler /\ p # Settler /\ q.maker # Settler /\ Settler \in Account
  BY WalletType, QuoteType, PoolApart DEF Account
<1>3. SettlerReady
  BY DEF ExecuteOrder
<1>4. /\ premium \in Nat /\ fee \in Nat /\ premium - fee \in Nat
      /\ settler_config.treasury \in Account /\ settler_config.treasury # Settler
  <2>1. settler_config.treasury \in Wallet
    BY <1>3 DEF Typed, SettlerTypeOK, SettlerConfig, ValidConfig, SettlerReady
  <2> QED
    BY <1>1, <1>3, <2>1, PremiumType, WalletType
<1>5. /\ CanMove(balance, m, user, c)
      /\ CanMove(l2, t, q.maker, premium - fee)
      /\ CanMove(l3, t, q.maker, fee)
      /\ balance' = l4
  BY DEF ExecuteOrder, CanMove
<1> HIDE DEF premium, fee, l1, l2, l3, l4
<1>6. l1 \in Ledgers
  BY <1>1, <1>2, <1>5, MoveType DEF l1
<1>7. l1[x][Settler] = balance[x][Settler]
  BY <1>1, <1>2, MoveSpares DEF l1
<1>8. l2 \in Ledgers /\ l2[x] = l1[x]
  <2>1. Minted(l1[s], Settler, n) \in [Account -> Nat]
    BY <1>1, <1>2, <1>6 DEF Minted, Ledgers
  <2> QED
    BY <1>1, <1>6, <2>1 DEF l2, Ledgers
<1>9. l3 \in Ledgers
  BY <1>1, <1>2, <1>4, <1>5, <1>8, MoveType DEF l3
<1>10. l3[x][Settler] = l2[x][Settler]
  BY <1>1, <1>2, <1>4, <1>8 DEF l3, Move, Ledgers, TransferredLess
<1>11. l4[x][Settler] = l3[x][Settler]
  BY <1>1, <1>2, <1>4, <1>9 DEF l4, Move, Ledgers, TransferredLess
<1> QED
  BY <1>5, <1>7, <1>8, <1>10, <1>11 DEF Spared

LEMMA ExitSpares ==
  ASSUME Typed, NEW u \in Wallet, NEW v \in VaultKey, NEW p \in PoolAccount,
         EmergencyWithdraw(u, v, p), NEW x \in Mint
  PROVE  Spared(x)
<1> DEFINE s == vault_mm[v].otoken_mint
           c == vault[v].collateral_mint
           burn == EmergencyBurn(v)
           whole == vault[v].collateral_amount
           l1 == [balance EXCEPT ![s] = Burned(@, Settler, burn)]
           l2 == Move(l1, c, p, u, whole)
<1>1. /\ vault[v] \in Vault /\ vault_mm[v] # NoAccount /\ TypeOK
      /\ u \in Account /\ p \in Account /\ u # Settler /\ p # Settler
  BY VaultNotNoAccount, WalletType, PoolApart DEF EmergencyWithdraw, Typed, Account
<1>2. c \in Mint /\ whole \in Nat /\ s \in Series /\ burn \in Nat
  BY <1>1, EmergencyBurnType, AmountType DEF Vault
<1>3. CanBurn(balance[s], Settler, burn) /\ balance' = l2
  BY DEF EmergencyWithdraw
<1> HIDE DEF burn, l1, l2
<1>4. l1 \in Ledgers /\ \A t \in Mint \cup Series : t # s => l1[t] = balance[t]
  BY <1>1, <1>2, <1>3, BurnedType DEF l1
<1>5. x # s
  BY <1>2, ControllerAssumption
<1>6. l2[x][Settler] = l1[x][Settler]
  BY <1>1, <1>2, <1>4, MoveSpares DEF l2
<1> QED
  BY <1>3, <1>4, <1>5, <1>6 DEF Spared

\* A step leaves the settler's balance, or pays into it without the settler.
SparedOrPaid(m) ==
  \/ balance'[m][Settler] = balance[m][Settler]
  \/ balance'[m][Settler] > balance[m][Settler] /\ UNCHANGED settler_vars

LEMMA BatchSpares ==
  ASSUME Typed, [BatchNext]_all_vars, NEW m \in Mint
  PROVE  SparedOrPaid(m)
<1>0. TypeOK /\ balance[m][Settler] \in Nat
  BY WalletType DEF Typed, TypeOK
<1>1. CASE balance' = balance
  BY <1>1 DEF SparedOrPaid
<1>2. CASE ControllerNext /\ UNCHANGED settler_vars
  <2>1. balance'[m][Settler] >= balance[m][Settler]
    BY <1>0, <1>2, ControllerSpares
  <2>2. balance'[m][Settler] \in Nat
    <3>1. TypeOK'
      BY NextTyped DEF Typed
    <3> QED
      BY <3>1, WalletType DEF TypeOK
  <2> QED
    BY <1>0, <1>2, <2>1, <2>2 DEF SparedOrPaid
<1>3. ASSUME NEW k \in Wallet, NEW c \in Settings,
             \/ InitializeSettler(k, c)
             \/ SetTreasury(k, c) \/ SetProtocolFee(k, c) \/ SetOperator(k, c)
             \/ Pause(k, c) \/ SetEscapeDelay(k, c) \/ SetJupiterProgram(k, c)
      PROVE  balance' = balance
  BY <1>3 DEF InitializeSettler, SetTreasury, SetProtocolFee,
     SetOperator, Pause, SetEscapeDelay, SetJupiterProgram, SetConfig, vars
<1>4. ASSUME NEW k \in Wallet,
             \/ InitVaultCounter(k)
             \/ \E rents \in RentWithdrawals : WithdrawRentReserve(k, rents)
             \/ \E w \in Makers, flag \in BOOLEAN : WhitelistMaker(k, w, flag)
             \/ IncrementMakerNonce(k)
             \/ \E id \in QuoteId : CancelQuote(k, id)
      PROVE  balance' = balance
  BY <1>4 DEF InitVaultCounter, InitializeCounter, WithdrawRentReserve, WhitelistMaker,
     IncrementMakerNonce, CancelQuote, vars
<1>5. ASSUME NEW w \in Wallet, NEW s \in Series, NEW p \in PoolAccount,
             NEW n \in 1..MaxU64, RedeemCustody(w, s, p, n)
      PROVE  SparedOrPaid(m)
  <2>1. Forwarded(w, s, n)
    BY <1>5, CustodyForwarded
  <2>2. Settler \in Key /\ Settler # w
    BY WalletType
  <2>3. balance'[m][Settler] = balance[m][Settler]
    BY <2>1, <2>2 DEF Forwarded
  <2> QED
    BY <2>3 DEF SparedOrPaid
<1>6. ASSUME NEW u \in Wallet, NEW q \in Quotes, NEW p \in PoolAccount,
             NEW n \in 1..MaxU64, NEW c \in 1..MaxU64, ExecuteOrder(u, q, p, n, c)
      PROVE  SparedOrPaid(m)
  BY <1>6, OrderSpares DEF SparedOrPaid, Spared
<1>7. ASSUME NEW u \in Wallet, NEW v \in VaultKey, NEW p \in PoolAccount,
             EmergencyWithdraw(u, v, p)
      PROVE  SparedOrPaid(m)
  BY <1>7, ExitSpares DEF SparedOrPaid, Spared
<1>8. ASSUME NEW k \in Wallet, NEW admin \in Wallet, NEW v \in VaultKey,
             NEW p \in PoolAccount, SettleVaultForMaker(k, admin, v, p)
      PROVE  SparedOrPaid(m)
  <2>1. SettleVault(admin, v, p) /\ UNCHANGED settler_vars /\ admin \in Key
    BY <1>8, WalletType DEF SettleVaultForMaker
  <2>2. balance'[m][Settler] >= balance[m][Settler]
    BY <1>0, <2>1, SettlementSpares
  <2>3. balance'[m][Settler] \in Nat
    <3>1. TypeOK'
      BY NextTyped DEF Typed
    <3> QED
      BY <3>1, WalletType DEF TypeOK
  <2> QED
    BY <1>0, <2>1, <2>2, <2>3 DEF SparedOrPaid
<1>9. CASE UNCHANGED all_vars
  BY <1>1, <1>9 DEF all_vars, vars
<1>10. (\E k \in Wallet, c \in Settings :
              \/ InitializeSettler(k, c)
              \/ SetTreasury(k, c) \/ SetProtocolFee(k, c) \/ SetOperator(k, c)
              \/ Pause(k, c) \/ SetEscapeDelay(k, c) \/ SetJupiterProgram(k, c))
         => SparedOrPaid(m)
  BY <1>1, <1>3
<1>11. /\ (\E k \in Wallet : InitVaultCounter(k)) => SparedOrPaid(m)
       /\ (\E k \in Wallet, rents \in RentWithdrawals : WithdrawRentReserve(k, rents))
            => SparedOrPaid(m)
       /\ (\E k \in Wallet, w \in Makers, flag \in BOOLEAN : WhitelistMaker(k, w, flag))
            => SparedOrPaid(m)
       /\ (\E k \in Wallet : IncrementMakerNonce(k)) => SparedOrPaid(m)
       /\ (\E k \in Wallet, id \in QuoteId : CancelQuote(k, id)) => SparedOrPaid(m)
  BY <1>1, <1>4
<1> QED
  BY <1>2, <1>5, <1>6, <1>7, <1>8, <1>9, <1>10, <1>11, BatchSteps

\* The settler's instructions leave the balances of its own accounts alone; the
\* controller's pay into them at most.
THEOREM PassThroughTheorem == BatchSpec => SettlerKeepsNothing
<1>1. Typed /\ [BatchNext]_all_vars => \A m \in Mint : SparedOrPaid(m)
  BY BatchSpares
<1>2. (\A m \in Mint : SparedOrPaid(m)) =>
        \A m \in Mint :
          \/ balance'[m][Settler] = balance[m][Settler]
          \/ /\ balance'[m][Settler] > balance[m][Settler]
             /\ UNCHANGED settler_vars
  BY DEF SparedOrPaid
<1> QED
  BY <1>1, <1>2, InitTyped, NextTyped, PTL DEF BatchSpec, SettlerKeepsNothing

(***************************************************************************)
(* Collateral is not created: no step raises what all accounts hold of a   *)
(* mint, and a transfer fee lowers it.                                     *)
(***************************************************************************)
NoMore(k, l) == \A x \in Mint : Total(k[x], Account) <= Total(l[x], Account)

LEMMA LedgersSummable ==
  ASSUME NEW l \in Ledgers, NEW t \in Mint \cup Series
  PROVE  Summable(l[t], Account) /\ Total(l[t], Account) \in Nat
<1>1. Summable(l[t], Account)
  BY AccountFinite DEF Summable, Ledgers
<1> QED
  BY <1>1, TotalIsNat

\* Ledgers that agree on the mints hold the same collateral.
LEMMA NoMoreSame ==
  ASSUME NEW l \in Ledgers, NEW k, \A x \in Mint : k[x] = l[x]
  PROVE  NoMore(k, l)
  BY LedgersSummable DEF NoMore

LEMMA NoMoreChain ==
  ASSUME NEW l \in Ledgers, NEW k \in Ledgers, NEW j \in Ledgers,
         NoMore(k, l), NoMore(j, k)
  PROVE  NoMore(j, l)
<1> SUFFICES ASSUME NEW x \in Mint PROVE Total(j[x], Account) <= Total(l[x], Account)
  BY DEF NoMore
<1>1. /\ Total(j[x], Account) \in Nat /\ Total(k[x], Account) \in Nat
      /\ Total(l[x], Account) \in Nat
  BY LedgersSummable
<1> QED
  BY <1>1 DEF NoMore

LEMMA MoveShrinks ==
  ASSUME NEW l \in Ledgers, NEW t \in Mint \cup Series, NEW from \in Account,
         NEW to \in Account, NEW n \in Nat, CanMove(l, t, from, n)
  PROVE  NoMore(Move(l, t, from, to, n), l)
<1> DEFINE f == l[t]
           g == Move(l, t, from, to, n)[t]
<1>1. CASE n = 0
  BY <1>1, NoMoreSame DEF Move
<1>2. CASE n # 0
  <2>1. f \in [Account -> Nat] /\ f[from] >= n /\ n >= 1 /\ Fee(t) \in {0, 1}
    BY <1>2, FeeType DEF Ledgers, CanMove, CanTransfer
  <2>2. g = TransferredLess(f, from, to, n, Fee(t))
    BY <1>2 DEF Move, Ledgers
  <2>3. Summable(f, Account) /\ Total(f, Account) \in Nat
    BY LedgersSummable
  <2> HIDE DEF f, g
  <2>4. Total(g, Account) <= Total(f, Account)
    <3>1. CASE from = to
      <4>1. /\ g[from] = f[from] - Fee(t) /\ g[from] \in Nat /\ f[from] \in Nat
            /\ \A y \in Account \ {from} : g[y] = f[y]
        BY <2>1, <2>2, <3>1 DEF TransferredLess
      <4>2. Total(g, Account) = Total(f, Account) - f[from] + g[from]
        BY <2>3, <4>1, TotalChanged
      <4> QED
        BY <2>1, <2>3, <4>1, <4>2
    <3>2. CASE from # to
      <4>1. /\ g[from] = f[from] - n /\ g[from] \in Nat /\ f[from] \in Nat
            /\ g[to] = f[to] + (n - Fee(t)) /\ g[to] \in Nat /\ f[to] \in Nat
            /\ \A y \in Account \ {from, to} : g[y] = f[y]
        BY <2>1, <2>2, <3>2 DEF TransferredLess
      <4>2. Total(g, Account) = Total(f, Account) - f[from] - f[to] + g[from] + g[to]
        BY <2>3, <3>2, <4>1, TotalMoved
      <4> QED
        BY <2>1, <2>3, <4>1, <4>2
    <3> QED
      BY <3>1, <3>2
  <2>5. \A x \in Mint : x # t => Move(l, t, from, to, n)[x] = l[x]
    BY MoveElsewhere
  <2> QED
    BY <2>4, <2>5, LedgersSummable DEF NoMore, f, g
<1> QED
  BY <1>1, <1>2

\* The controller moves the collateral of one mint at a time.
LEMMA MovedNoMore ==
  ASSUME TypeOK, NEW t \in Mint \cup Series, NEW from \in Account, NEW to \in Account,
         NEW n \in Nat, CanMove(balance, t, from, n),
         \A x \in Mint : balance'[x] = Move(balance, t, from, to, n)[x]
  PROVE  NoMore(balance', balance)
<1>1. balance \in Ledgers
  BY DEF TypeOK, Ledgers
<1>2. NoMore(Move(balance, t, from, to, n), balance)
  BY <1>1, MoveShrinks
<1> QED
  BY <1>2 DEF NoMore

LEMMA ControllerNoMore ==
  ASSUME TypeOK, [Next]_vars
  PROVE  NoMore(balance', balance)
<1>0. /\ balance \in Ledgers
      /\ \A k \in Key : k \in Account
      /\ \A p \in PoolAccount : p \in Account
  BY DEF TypeOK, Account, Ledgers
<1>1. ASSUME NEW k \in Key, NEW id \in VaultId, NEW p \in PoolAccount,
             NEW n \in 1..MaxU64, DepositCollateral(k, id, p, n)
      PROVE  NoMore(balance', balance)
  <2>1. PICK c : c = vault[<<k, id>>].collateral_mint
    OBVIOUS
  <2>2. <<k, id>> \in VaultKey
    BY DEF VaultKey
  <2>3. vault[<<k, id>>] \in Vault
    BY <1>1, <2>2, VaultNotNoAccount DEF DepositCollateral
  <2>4. c \in Mint /\ n \in Nat /\ n # 0 /\ k \in Account /\ p \in Account
    BY <1>0, <2>1, <2>3, AmountType DEF Vault
  <2>5. CanMove(balance, c, k, n)
    BY <1>1, <2>1 DEF DepositCollateral, CanMove
  <2>6. \A x \in Mint : balance'[x] = Move(balance, c, k, p, n)[x]
    BY <1>1, <2>1, <2>4 DEF DepositCollateral, Move
  <2>7. c \in Mint \cup Series
    BY <2>4
  <2> QED
    BY <2>4, <2>5, <2>6, <2>7, MovedNoMore
<1>2. ASSUME NEW k \in Key, NEW d \in Key, NEW id \in VaultId, NEW r \in Series,
             NEW n \in 1..MaxU64, MintOtoken(k, id, r, d, n)
      PROVE  NoMore(balance', balance)
  <2>1. \A x \in Mint : balance'[x] = balance[x]
    BY <1>2, ControllerAssumption DEF MintOtoken, TypeOK
  <2> QED
    BY <1>0, <2>1, NoMoreSame
<1>3. ASSUME NEW c \in Mint, NEW p \in PoolAccount, NEW to \in Key, NEW n \in Nat,
             CanPayOut(c, p, n), 
             \A x \in Mint : balance'[x] = (IF x = c THEN PaidOut(c, p, to, n)
                                            ELSE balance[x])
      PROVE  NoMore(balance', balance)
  <2>1. CanMove(balance, c, p, n)
    BY <1>3 DEF CanPayOut, CanMove
  <2>2. \A x \in Mint : balance'[x] = Move(balance, c, p, to, n)[x]
    BY <1>0, <1>3 DEF Move, PaidOut, Ledgers
  <2>3. c \in Mint \cup Series /\ p \in Account /\ to \in Account
    BY <1>0
  <2> QED
    BY <2>1, <2>2, <2>3, MovedNoMore
<1>4. ASSUME NEW k \in Key, NEW v \in VaultKey, NEW p \in PoolAccount,
             SettleVault(k, v, p)
      PROVE  NoMore(balance', balance)
  <2>1. PICK c : c = vault[v].collateral_mint
    OBVIOUS
  <2>2. PICK to : to = vault[v].beneficiary
    OBVIOUS
  <2>3. PICK n : n = vault[v].collateral_amount
                       - PayoutOf(vault[v].otoken_mint, vault[v].short_amount)
    OBVIOUS
  <2>4. vault[v] \in Vault /\ n \in Nat
    BY <1>4, <2>3, SettledVault
  <2>5. c \in Mint /\ to \in Key
    BY <2>1, <2>2, <2>4 DEF Vault
  <2>6. CanPayOut(c, p, n)
    BY <1>4, <2>1, <2>3 DEF SettleVault
  <2>7. \A x \in Mint : balance'[x] = (IF x = c THEN PaidOut(c, p, to, n) ELSE balance[x])
    BY <1>4, <2>1, <2>2, <2>3, <2>5 DEF SettleVault, TypeOK
  <2> QED
    BY <1>3, <2>4, <2>5, <2>6, <2>7
<1>5. ASSUME NEW k \in Key, NEW id \in VaultId, NEW p \in PoolAccount,
             EmergencyWithdrawVault(k, id, p)
      PROVE  NoMore(balance', balance)
  <2>1. PICK c : c = vault[<<k, id>>].collateral_mint
    OBVIOUS
  <2>2. PICK whole : whole = vault[<<k, id>>].collateral_amount
    OBVIOUS
  <2>3. PICK to : to = vault[<<k, id>>].beneficiary
    OBVIOUS
  <2>4. vault[<<k, id>>] \in Vault
    BY <1>5, EmergencyVault
  <2>5. c \in Mint /\ whole \in Nat /\ to \in Key
    BY <2>1, <2>2, <2>3, <2>4, AmountType DEF Vault
  <2>6. CanPayOut(c, p, whole)
    BY <1>5, <2>1, <2>2 DEF EmergencyWithdrawVault, CanEmergencyWithdraw
  <2>7. \A x \in Mint : balance'[x] = (IF x = c THEN PaidOut(c, p, to, whole)
                                       ELSE balance[x])
    BY <1>5, <2>1, <2>2, <2>3, <2>5 DEF EmergencyWithdrawVault, TypeOK
  <2> QED
    BY <1>3, <2>5, <2>6, <2>7
<1>6. ASSUME NEW k \in Key, NEW r \in Series, NEW p \in PoolAccount,
             NEW n \in 1..MaxU64, Redeem(k, r, p, n)
      PROVE  NoMore(balance', balance)
  <2>1. PICK c : c = Terms[r].collateral_mint
    OBVIOUS
  <2>2. PICK payout : payout = PayoutOf(r, n)
    OBVIOUS
  <2>3. c \in Mint /\ payout \in Nat /\ \A x \in Mint : x # r
    BY <1>6, <2>1, <2>2, TermsType, AmountType, PayoutIsNat, ControllerAssumption
    DEF Redeem, CanRedeem, CanSettleSeries
  <2>4. CanPayOut(c, p, payout)
    BY <1>6, <2>1, <2>2 DEF Redeem, CanRedeem
  <2>5. \A x \in Mint : balance'[x] = (IF x = c THEN PaidOut(c, p, k, payout)
                                       ELSE balance[x])
    BY <1>6, <2>1, <2>2, <2>3 DEF Redeem, TypeOK
  <2> QED
    BY <1>3, <2>3, <2>4, <2>5
<1>7. ASSUME NEW t \in Transferable, NEW from \in Key, NEW to \in Account,
             NEW n \in 1..MaxU64, TransferTokens(t, from, to, n)
      PROVE  NoMore(balance', balance)
  <2>1. t \in Mint \cup Series /\ from \in Account /\ n \in Nat /\ n # 0
    BY <1>0, AmountType, ControllerAssumption
  <2>2. CanMove(balance, t, from, n)
    BY <1>7 DEF TransferTokens, CanMove
  <2>3. \A x \in Mint : balance'[x] = Move(balance, t, from, to, n)[x]
    BY <1>7, <2>1 DEF TransferTokens, Move
  <2> QED
    BY <2>1, <2>2, <2>3, MovedNoMore
<1>8. CASE balance' = balance
  BY <1>0, <1>8, NoMoreSame
<1> QED
  BY <1>1, <1>2, <1>4, <1>5, <1>6, <1>7, <1>8, LedgerWriters

LEMMA OrderNoMore ==
  ASSUME Typed, NEW user \in Wallet, NEW q \in Quotes, NEW p \in PoolAccount,
         NEW n \in 1..MaxU64, NEW c \in 1..MaxU64, ExecuteOrder(user, q, p, n, c)
  PROVE  NoMore(balance', balance)
<1> DEFINE s == q.otoken_mint
           m == Terms[s].collateral_mint
           t == q.premium_mint
           premium == Premium(q, n)
           fee == ProtocolFee(premium)
           l1 == Move(balance, m, user, p, c)
           l2 == [l1 EXCEPT ![s] = Minted(@, Settler, n)]
           l3 == Move(l2, t, q.maker, user, premium - fee)
           l4 == Move(l3, t, q.maker, settler_config.treasury, fee)
<1>1. /\ s \in Series /\ m \in Mint /\ t \in Mint
      /\ m \in Mint \cup Series /\ t \in Mint \cup Series
      /\ n \in Nat /\ c \in Nat /\ TypeOK /\ balance \in Ledgers
  BY QuoteType, TermsType, AmountType DEF Typed, TypeOK, Ledgers
<1>2. /\ user \in Account /\ p \in Account /\ q.maker \in Account /\ Settler \in Account
  BY WalletType, QuoteType DEF Account
<1>3. SettlerReady
  BY DEF ExecuteOrder
<1>4. /\ premium \in Nat /\ fee \in Nat /\ premium - fee \in Nat
      /\ settler_config.treasury \in Account
  BY <1>1, <1>3, PremiumType, WalletType
<1>5. /\ CanMove(balance, m, user, c)
      /\ CanMove(l2, t, q.maker, premium - fee)
      /\ CanMove(l3, t, q.maker, fee)
      /\ balance' = l4
  BY DEF ExecuteOrder, CanMove
<1> HIDE DEF premium, fee, l1, l2, l3, l4
<1>6. l1 \in Ledgers /\ NoMore(l1, balance)
  BY <1>1, <1>2, <1>5, MoveType, MoveShrinks DEF l1
<1>7. l2 \in Ledgers /\ \A x \in Mint : l2[x] = l1[x]
  <2>1. Minted(l1[s], Settler, n) \in [Account -> Nat]
    BY <1>1, <1>2, <1>6 DEF Minted, Ledgers
  <2> QED
    BY <1>1, <1>6, <2>1, ControllerAssumption DEF l2, Ledgers
<1>8. NoMore(l2, l1)
  BY <1>6, <1>7, NoMoreSame
<1>9. l3 \in Ledgers /\ NoMore(l3, l2)
  BY <1>1, <1>2, <1>4, <1>5, <1>7, MoveType, MoveShrinks DEF l3
<1>10. l4 \in Ledgers /\ NoMore(l4, l3)
  BY <1>1, <1>2, <1>4, <1>5, <1>9, MoveType, MoveShrinks DEF l4
<1>11. NoMore(l2, balance)
  BY <1>1, <1>6, <1>7, <1>8, NoMoreChain
<1>12. NoMore(l3, balance)
  BY <1>1, <1>7, <1>9, <1>11, NoMoreChain
<1>13. NoMore(l4, balance)
  BY <1>1, <1>9, <1>10, <1>12, NoMoreChain
<1> QED
  BY <1>5, <1>13

\* Burning oTokens of the settler's leaves the collateral.
LEMMA BurnedNoMore ==
  ASSUME TypeOK, NEW s \in Series, NEW n \in Nat, CanBurn(balance[s], Settler, n), NEW l,
         l = [balance EXCEPT ![s] = Burned(@, Settler, n)]
  PROVE  l \in Ledgers /\ NoMore(l, balance) /\ \A x \in Mint : l[x] = balance[x]
<1>1. l \in Ledgers /\ \A t \in Mint \cup Series : t # s => l[t] = balance[t]
  BY BurnedType
<1>2. \A x \in Mint : l[x] = balance[x]
  BY <1>1, ControllerAssumption
<1>3. balance \in Ledgers
  BY DEF TypeOK, Ledgers
<1> QED
  BY <1>1, <1>2, <1>3, NoMoreSame

LEMMA CustodyNoMore ==
  ASSUME Typed, NEW m \in Wallet, NEW s \in Series, NEW p \in PoolAccount,
         NEW n \in 1..MaxU64, RedeemCustody(m, s, p, n)
  PROVE  NoMore(balance', balance)
<1> DEFINE c == Terms[s].collateral_mint
           payout == PayoutOf(s, n)
           l1 == [balance EXCEPT ![s] = Burned(@, Settler, n)]
           l2 == Move(l1, c, p, Settler, payout)
           l3 == Move(l2, c, Settler, m, Gained(l2, c))
<1>1. /\ c \in Mint /\ c \in Mint \cup Series /\ n \in Nat /\ TypeOK /\ balance \in Ledgers
      /\ Settler \in Account /\ m \in Account /\ p \in Account /\ p # Settler
  BY TermsType, AmountType, WalletType, ControllerAssumption DEF Typed, Account, TypeOK, Ledgers
<1>2. CanRedeem(Settler, s, p, n) /\ balance' = l3
  BY DEF RedeemCustody, CanRedeemCustody
<1>3. payout \in Nat
  BY <1>1, <1>2, PayoutIsNat DEF CanRedeem
<1>4. /\ CanBurn(balance[s], Settler, n) /\ balance[c][p] >= payout
  BY <1>2 DEF CanRedeem, CanPayOut, CanTransfer
<1> HIDE DEF payout, l1, l2, l3
<1>5. l1 \in Ledgers /\ NoMore(l1, balance) /\ l1[c] = balance[c]
  BY <1>1, <1>4, BurnedNoMore DEF l1
<1>6. CanMove(l1, c, p, payout)
  BY <1>4, <1>5 DEF CanMove, CanTransfer
<1>7. l2 \in Ledgers /\ NoMore(l2, l1)
  BY <1>1, <1>3, <1>5, <1>6, MoveType, MoveShrinks DEF l2
<1>8. Gained(l2, c) \in Nat /\ l2[c][Settler] >= Gained(l2, c)
  <2>1. balance[c] \in [Account -> Nat] /\ Fee(c) \in {0, 1} /\ balance[c][Settler] \in Nat
        /\ l2[c][Settler] \in Nat
    BY <1>1, <1>7, FeeType DEF TypeOK, Ledgers
  <2>2. l2[c][Settler] >= balance[c][Settler]
    <3>1. CASE payout = 0
      BY <1>5, <2>1, <3>1 DEF l2, Move
    <3>2. CASE payout # 0
      <4>1. l2[c] = TransferredLess(l1[c], p, Settler, payout, Fee(c))
        BY <1>1, <1>5, <3>2 DEF l2, Move, Ledgers
      <4>2. l2[c][Settler] = balance[c][Settler] + (payout - Fee(c))
        BY <1>1, <1>5, <2>1, <4>1 DEF TransferredLess
      <4> HIDE DEF c
      <4> QED
        BY <1>3, <2>1, <3>2, <4>2
    <3> QED
      BY <3>1, <3>2
  <2> QED
    BY <2>1, <2>2 DEF Gained
<1>9. CanMove(l2, c, Settler, Gained(l2, c))
  BY <1>8 DEF CanMove, CanTransfer
<1>10. l3 \in Ledgers /\ NoMore(l3, l2)
  BY <1>1, <1>7, <1>8, <1>9, MoveType, MoveShrinks DEF l3
<1>11. NoMore(l2, balance)
  BY <1>1, <1>5, <1>7, NoMoreChain
<1>12. NoMore(l3, balance)
  BY <1>1, <1>7, <1>10, <1>11, NoMoreChain
<1> QED
  BY <1>2, <1>12

LEMMA ExitNoMore ==
  ASSUME Typed, NEW u \in Wallet, NEW v \in VaultKey, NEW p \in PoolAccount,
         EmergencyWithdraw(u, v, p)
  PROVE  NoMore(balance', balance)
<1> DEFINE s == vault_mm[v].otoken_mint
           c == vault[v].collateral_mint
           burn == EmergencyBurn(v)
           whole == vault[v].collateral_amount
           l1 == [balance EXCEPT ![s] = Burned(@, Settler, burn)]
           l2 == Move(l1, c, p, u, whole)
<1>1. /\ vault[v] \in Vault /\ vault_mm[v] # NoAccount /\ TypeOK /\ balance \in Ledgers
      /\ u \in Account /\ p \in Account
  BY VaultNotNoAccount, WalletType DEF EmergencyWithdraw, Typed, Account, TypeOK, Ledgers
<1>2. c \in Mint /\ whole \in Nat /\ s \in Series /\ burn \in Nat /\ c \in Mint \cup Series
  BY <1>1, EmergencyBurnType, AmountType DEF Vault
<1>3. /\ CanBurn(balance[s], Settler, burn) /\ balance[c][p] >= whole
      /\ balance' = l2
  BY DEF EmergencyWithdraw, CanEmergencyWithdraw, CanPayOut, CanTransfer
<1> HIDE DEF burn, l1, l2
<1>4. l1 \in Ledgers /\ NoMore(l1, balance) /\ l1[c] = balance[c]
  BY <1>1, <1>2, <1>3, BurnedNoMore DEF l1
<1>5. CanMove(l1, c, p, whole)
  BY <1>2, <1>3, <1>4 DEF CanMove, CanTransfer
<1>6. l2 \in Ledgers /\ NoMore(l2, l1)
  BY <1>1, <1>2, <1>4, <1>5, MoveType, MoveShrinks DEF l2
<1>7. NoMore(l2, balance)
  BY <1>1, <1>4, <1>6, NoMoreChain
<1> QED
  BY <1>3, <1>7

LEMMA BatchNoMore ==
  ASSUME Typed, [BatchNext]_all_vars
  PROVE  NoMore(balance', balance)
<1>1. TypeOK
  BY DEF Typed
<1> QED
  BY <1>1, ControllerNoMore, OrderNoMore, CustodyNoMore, ExitNoMore, CustodyWriters

\* The token programs keep the supply of a mint in a u64, and it starts there.
CollateralFits == \A x \in Mint : Supply(x) <= MaxU64
EndowmentFits  == \A x \in Mint : Total(Endowment[x], Key) <= MaxU64

LEMMA NoMoreFits ==
  ASSUME TypeOK, TypeOK', CollateralFits, NoMore(balance', balance)
  PROVE  CollateralFits'
<1> SUFFICES ASSUME NEW x \in Mint PROVE Supply(x)' <= MaxU64
  BY DEF CollateralFits
<1>1. PICK n : n = Total(balance'[x], Account)
  OBVIOUS
<1>2. balance' \in Ledgers /\ balance \in Ledgers /\ x \in Mint \cup Series
  BY DEF TypeOK, Ledgers
<1>3. Total(balance'[x], Account) \in Nat /\ Total(balance[x], Account) \in Nat
  BY <1>2, LedgersSummable
<1>4. Total(balance'[x], Account) <= Total(balance[x], Account)
      /\ Total(balance[x], Account) <= MaxU64
  BY DEF NoMore, CollateralFits, Supply
<1>5. n <= MaxU64
  BY <1>1, <1>3, <1>4, MathAssumption
<1> QED
  BY <1>1, <1>5 DEF Supply

LEMMA InitFits == EndowmentFits /\ Init => CollateralFits
<1> SUFFICES ASSUME EndowmentFits, Init, NEW x \in Mint PROVE Supply(x) <= MaxU64
  BY DEF CollateralFits
<1>1. Key \in SUBSET Account
  BY DEF Account
<1>2. /\ \A a \in Key : balance[x][a] = Endowment[x][a]
      /\ \A a \in Account \ Key : balance[x][a] = 0
  BY DEF Init, Account
<1>3. Total(balance[x], Account) = Total(Endowment[x], Key)
  BY <1>1, <1>2, TotalMasked
<1> QED
  BY <1>3 DEF EndowmentFits, Supply

(***************************************************************************)
(* The makers' escape.                                                     *)
(***************************************************************************)
\* The deployment of the repository keeps one token account per mint; the
\* code would take any account of the pool authority.
SinglePool == \A c \in Mint : \E p \in PoolAccount : PoolAccountsOf(c) = {p}

LEMMA SinglePoolHolds ==
  ASSUME TypeOK, CollateralFits, NEW c \in Mint, NEW p \in PoolAccount,
         PoolAccountsOf(c) = {p}
  PROVE  /\ PoolTotal(c) = balance[c][p]
         /\ balance[c][p] \in Nat
         /\ balance[c][p] <= MaxU64
         /\ PoolMint[p] = c
<1>1. PoolMint[p] = c /\ p \in Account /\ c \in Mint \cup Series
  BY DEF PoolAccountsOf, Account
<1>2. Summable(balance[c], {p}) /\ Summable(balance[c], Account)
  BY PoolSummable, LedgerSummable, <1>1
<1>3. balance[c][p] \in Nat
  BY <1>2 DEF Summable
<1>4. Total(balance[c], {p}) = Total(balance[c], {p} \ {p}) + balance[c][p]
  BY <1>2, TotalSplit
<1>5. {p} \ {p} = {} /\ Total(balance[c], {}) = 0
  BY TotalOfNothing
<1>6. balance[c][p] <= Supply(c)
  BY <1>1, <1>2, TotalAtLeast DEF Supply
<1>7. Supply(c) \in Nat /\ Supply(c) <= MaxU64
  BY <1>2, TotalIsNat DEF Supply, CollateralFits
<1>8. Total(balance[c], {p}) = balance[c][p]
  BY <1>3, <1>4, <1>5
<1>9. balance[c][p] <= MaxU64
  <2>1. PICK a, b : a = balance[c][p] /\ b = Supply(c)
    OBVIOUS
  <2>2. a \in Nat /\ b \in Nat /\ a <= b /\ b <= MaxU64
    BY <1>3, <1>6, <1>7, <2>1
  <2> QED
    BY <2>1, <2>2, MathAssumption
<1> QED
  BY <1>1, <1>3, <1>8, <1>9 DEF PoolTotal

\* A maker's custody is in circulation.
LEMMA CustodyCirculates ==
  ASSUME Typed, CustodyCovers, NEW m \in Wallet, NEW s \in Series
  PROVE  /\ Custodied(m, s) \in Nat /\ Supply(s) \in Nat
         /\ Custodied(m, s) <= balance[s][Settler] /\ balance[s][Settler] \in Nat
         /\ Custodied(m, s) <= Supply(s)
<1>1. /\ Custodied(m, s) \in Nat /\ CustodyOf(s) \in Nat /\ Summable(CustodyMap(s), Wallet)
  BY CustodySummable
<1>2. CustodyMap(s)[m] = Custodied(m, s) /\ CustodyOf(s) = Total(CustodyMap(s), Wallet)
  BY CustodyNamed DEF CustodyMap
<1>3. CustodyMap(s)[m] <= Total(CustodyMap(s), Wallet)
  BY <1>1, TotalAtLeast
<1>4. balance[s][Settler] >= CustodyOf(s)
  BY DEF CustodyCovers
<1>5. TypeOK /\ s \in Mint \cup Series /\ Settler \in Account
  BY WalletType DEF Typed
<1>6. Summable(balance[s], Account)
  BY <1>5, LedgerSummable
<1>7. balance[s][Settler] \in Nat /\ balance[s][Settler] <= Supply(s) /\ Supply(s) \in Nat
  BY <1>5, <1>6, TotalAtLeast, TotalIsNat DEF Supply, Summable
<1> QED
  BY <1>1, <1>2, <1>3, <1>4, <1>7

\* The pool pays for any part of a priced series.
LEMMA PartIsPaid ==
  ASSUME Booked, Solvent, CollateralFits, NothingRounded, NoEmergencyExit,
         NEW s \in Series, Priced(s), NEW n \in Nat, n > 0, n <= Supply(s),
         NEW p \in PoolAccount, PoolAccountsOf(Terms[s].collateral_mint) = {p}
  PROVE  /\ CanPayOut(Terms[s].collateral_mint, p, PayoutOf(s, n))
         /\ PayoutComputable(Terms[s], expiry_price[s], n)
<1>1. PICK c : c = Terms[s].collateral_mint
  OBVIOUS
<1>2. TypeOK /\ c \in Mint /\ Supply(s) \in Nat /\ s \in SeriesOf(c) /\ Supply(s) > 0
  BY <1>1, TermsType, SupplyIsNat DEF Booked, SeriesOf
<1>3. Scalable(s)
  BY <1>2, SupplyScales
<1>4. PICK k : k = Supply(s) - n
  OBVIOUS
<1>5. k \in Nat /\ n + k = Supply(s)
  BY <1>2, <1>4
<1>6. /\ PayoutOf(s, n) \in Nat /\ PayoutOf(s, k) \in Nat
      /\ PayoutOf(s, n) + PayoutOf(s, k) <= PayoutOf(s, n + k)
  BY <1>3, <1>5, PayoutSplits
<1>7. ClaimMap[s] = PayoutOf(s, n + k)
  BY <1>2, <1>5 DEF ClaimMap, Claims
<1>8. /\ Summable(ClaimMap, SeriesOf(c)) /\ ClaimTotal(c) \in Nat /\ DueTotal(c) \in Nat
      /\ PoolTotal(c) \in Nat
  BY <1>2, SolvencyTyped DEF SolvencyNats
<1>9. ClaimMap[s] <= ClaimTotal(c) /\ ClaimMap[s] \in Nat
  BY <1>2, <1>8, TotalAtLeast DEF ClaimTotal, Summable
<1>10. PoolTotal(c) >= DueTotal(c) + ClaimTotal(c)
  <2>1. FullyCollateralized
    BY ExactImplies
  <2>2. PICK claims : claims = Total([r \in Series |-> Claims(r)], SeriesOf(c))
    OBVIOUS
  <2>3. Returnable(c) = DueTotal(c) /\ ClaimTotal(c) = claims
    BY <1>2, <2>2, SolventNamed
  <2>4. PoolTotal(c) >= Returnable(c) + claims
    BY <1>2, <2>1, <2>2 DEF FullyCollateralized
  <2> QED
    BY <2>3, <2>4
<1>11. /\ PoolTotal(c) = balance[c][p] /\ balance[c][p] \in Nat /\ balance[c][p] <= MaxU64
       /\ PoolMint[p] = c
  BY <1>1, <1>2, SinglePoolHolds
<1>12. PayoutOf(s, n) <= balance[c][p]
  BY <1>6, <1>7, <1>8, <1>9, <1>10, <1>11
<1>13. PayoutOf(s, n) <= MaxU64
  <2>1. PICK a, b : a = PayoutOf(s, n) /\ b = balance[c][p]
    OBVIOUS
  <2>2. a \in Nat /\ b \in Nat /\ a <= b /\ b <= MaxU64
    BY <1>6, <1>11, <1>12, <2>1
  <2> QED
    BY <2>1, <2>2, MathAssumption
<1>14. CanPayOut(c, p, PayoutOf(s, n))
  BY <1>11, <1>12 DEF CanPayOut, CanTransfer
<1>15. PayoutComputable(Terms[s], expiry_price[s], n)
  BY <1>3, <1>13 DEF PayoutComputable, CollateralComputable, Scalable, PayoutOf, Payout
<1> QED
  BY <1>1, <1>14, <1>15

LEMMA EscapeHolds ==
  ASSUME Typed, Booked, Solvent, CustodyCovers, CollateralFits, NothingRounded, SinglePool
  PROVE  EscapeAvailable
<1> SUFFICES ASSUME NEW m \in Wallet, NEW s \in Series, EscapeReady(m, s), Priced(s),
                    FullyUnpaused, NoEmergencyExit, NEW n \in 1..Custodied(m, s)
             PROVE  \E p \in PoolAccount : CanRedeemCustody(m, s, p, n)
  BY DEF EscapeAvailable
<1>1. /\ Custodied(m, s) \in Nat /\ Supply(s) \in Nat
      /\ Custodied(m, s) <= balance[s][Settler] /\ balance[s][Settler] \in Nat
      /\ Custodied(m, s) <= Supply(s)
  BY CustodyCirculates
<1>2. n \in Nat /\ n > 0 /\ n <= Custodied(m, s)
  BY <1>1
<1>3. n <= balance[s][Settler] /\ n <= Supply(s)
  BY <1>1, <1>2
<1>4. mm_balance[m][s] # NoAccount /\ mm_balance[m][s] >= n
  BY <1>2 DEF Custodied
<1>5. Terms[s].collateral_mint \in Mint
  BY TermsType
<1>6. PICK p \in PoolAccount : PoolAccountsOf(Terms[s].collateral_mint) = {p}
  BY <1>5 DEF SinglePool
<1>7. /\ CanPayOut(Terms[s].collateral_mint, p, PayoutOf(s, n))
      /\ PayoutComputable(Terms[s], expiry_price[s], n)
  BY <1>2, <1>3, <1>6, PartIsPaid
<1>8. now >= Terms[s].expiry
  <2>1. SettlerReady /\ now >= Terms[s].expiry + settler_config.escape_delay
    BY DEF EscapeReady
  <2>2. settler_config.escape_delay \in Nat
    BY <2>1 DEF Typed, SettlerTypeOK, SettlerConfig, SettlerReady
  <2>3. Terms[s].expiry \in Nat /\ now \in Nat
    BY TermsType, ControllerAssumption DEF Typed, TypeOK, Time
  <2> QED
    BY <2>1, <2>2, <2>3
<1>9. CanSettleSeries(s)
  BY <1>8 DEF CanSettleSeries
<1>10. CanRedeem(Settler, s, p, n)
  BY <1>2, <1>3, <1>7, <1>9 DEF CanRedeem, CanBurn
<1> QED
  BY <1>4, <1>6, <1>10 DEF CanRedeemCustody, EscapeReady

\* Once the escape time of a priced series has come, the pool can pay a maker
\* for every part of its custody, whatever the operator did or left undone: if
\* a mint has one pool account, no amount needs rounding and no vault took the
\* emergency exit.
THEOREM EscapeTheorem ==
  EndowmentFits /\ SinglePool /\ NothingRounded => (BatchSpec => []EscapeAvailable)
<1> SUFFICES ASSUME EndowmentFits, SinglePool, NothingRounded
             PROVE  BatchSpec => []EscapeAvailable
  OBVIOUS
<1>1. BatchInit => CollateralFits
  BY InitFits DEF BatchInit
<1>2. Typed /\ Typed' /\ CollateralFits /\ [BatchNext]_all_vars => CollateralFits'
  BY BatchNoMore, NoMoreFits DEF Typed
<1>3. BooksInv => Typed /\ Booked
  BY BatchBooked DEF BooksInv
<1>4. Typed /\ Booked /\ Solvent /\ CustodyCovers /\ CollateralFits => EscapeAvailable
  BY EscapeHolds
<1> QED
  BY <1>1, <1>2, <1>3, <1>4, BooksInvariant, CustodyTheorem, PTL DEF BatchSpec
=============================================================================
