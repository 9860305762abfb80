--------------------------- MODULE ControllerProofs ---------------------------
(***************************************************************************)
(* Theorems about the controller, for every value of its constants.        *)
(***************************************************************************)
EXTENDS Controller, TLAPS

(***************************************************************************)
(* Arithmetic of the collateral formulas.                                  *)
(***************************************************************************)
LEMMA DivIsNat == ASSUME NEW x \in Nat, NEW y \in Nat, y > 0
                  PROVE  x \div y \in Nat
  OBVIOUS

LEMMA TimesIsNat == ASSUME NEW x \in Nat, NEW y \in Nat
                    PROVE  x * y \in Nat
  OBVIOUS

LEMMA TermsType ==
  ASSUME NEW s \in Series
  PROVE  /\ Terms[s].collateral_mint \in Mint
         /\ Terms[s].strike_price \in Nat
         /\ Terms[s].expiry \in Nat
         /\ Terms[s].is_put \in BOOLEAN
         /\ Terms[s].collateral_decimals \in CollateralDecimals
<1>1. /\ Terms[s].collateral_mint \in Mint
      /\ Terms[s].strike_price \in 0..MaxU64
      /\ Terms[s].expiry \in Time
      /\ Terms[s].is_put \in BOOLEAN
      /\ Terms[s].collateral_decimals \in CollateralDecimals
  BY TermsAssumption
<1>2. MaxU64 \in Nat /\ MaxTime \in Nat
  BY MathAssumption, ControllerAssumption
<1> QED
  BY <1>1, <1>2 DEF Time

\* Amounts, stored quantities and prices are naturals.
LEMMA AmountType ==
  /\ MaxU64 \in Nat
  /\ \A n \in 0..MaxU64 : n \in Nat
  /\ \A n \in 1..MaxU64 : n \in Nat /\ n >= 1 /\ n > 0 /\ n \in 0..MaxU64
  BY MathAssumption

LEMMA PriceType ==
  /\ Prices \subseteq 0..MaxU64
  /\ \A price \in Prices : price > 0 /\ price # NoAccount
<1>1. Prices \subseteq 1..MaxU64 /\ NoAccount \notin Nat
  BY ControllerAssumption
<1> QED
  BY <1>1, AmountType

\* A computable collateral requirement is a natural number.
LEMMA RequiredIsNat ==
  ASSUME NEW s \in Series, NEW n \in Nat, CollateralComputable(Terms[s], n)
  PROVE  RequiredCollateral(Terms[s], n) \in Nat
<1> DEFINE d == Terms[s].collateral_decimals
<1>0. /\ d \in 0..MaxDecimals /\ OTokenDecimals \in Nat /\ MaxDecimals \in Nat
      /\ MaxDecimals >= 2 * OTokenDecimals + 2
      /\ Terms[s].strike_price \in Nat
  BY TermsType, MathAssumption DEF CollateralDecimals
<1>1. CASE Terms[s].is_put
  <2>1. 2 * OTokenDecimals - d \in 0..MaxDecimals
    BY <1>0, <1>1 DEF CollateralComputable
  <2>2. /\ Radix ^ (2 * OTokenDecimals - d) \in Nat
        /\ Radix ^ (2 * OTokenDecimals - d) > 0
    BY <2>1, PowerAssumption
  <2>3. n * Terms[s].strike_price \in Nat
    BY <1>0, TimesIsNat
  <2> QED
    BY <1>1, <2>2, <2>3, DivIsNat DEF RequiredCollateral, PutCollateral
<1>2. CASE ~Terms[s].is_put /\ d >= OTokenDecimals
  <2>1. d - OTokenDecimals \in 0..MaxDecimals
    BY <1>0, <1>2
  <2>2. Radix ^ (d - OTokenDecimals) \in Nat
    BY <2>1, PowerAssumption
  <2> QED
    BY <1>2, <2>2, TimesIsNat DEF RequiredCollateral, CallCollateral
<1>3. CASE ~Terms[s].is_put /\ ~(d >= OTokenDecimals)
  <2>1. OTokenDecimals - d \in 0..MaxDecimals
    BY <1>0, <1>3
  <2>2. /\ Radix ^ (OTokenDecimals - d) \in Nat
        /\ Radix ^ (OTokenDecimals - d) > 0
    BY <2>1, PowerAssumption
  <2> QED
    BY <1>3, <2>2, DivIsNat DEF RequiredCollateral, CallCollateral
<1> QED
  BY <1>1, <1>2, <1>3

LEMMA PayoutIsNat ==
  ASSUME NEW s \in Series, NEW n \in Nat,
         PayoutComputable(Terms[s], expiry_price[s], n)
  PROVE  PayoutOf(s, n) \in Nat
  BY RequiredIsNat DEF PayoutOf, Payout, PayoutComputable

(***************************************************************************)
(* Type correctness.                                                       *)
(***************************************************************************)
LEMMA VaultNotNoAccount ==
  ASSUME TypeOK, NEW v \in VaultKey, Exists(v)
  PROVE  vault[v] \in Vault
  BY DEF TypeOK, Exists

LEMMA VaultIsAccount == \A u \in Vault : u # NoAccount
  BY AccountAssumption

\* Closing a vault writes the settled flag and nothing else.
LEMMA ClosedVault ==
  ASSUME NEW u \in Vault
  PROVE  /\ [u EXCEPT !.settled = TRUE] \in Vault
         /\ [u EXCEPT !.settled = TRUE].short_amount = u.short_amount
         /\ [u EXCEPT !.settled = TRUE].otoken_mint = u.otoken_mint
         /\ [u EXCEPT !.settled = TRUE].collateral_mint = u.collateral_mint
         /\ [u EXCEPT !.settled = TRUE].collateral_amount = u.collateral_amount
  BY DEF Vault

LEMMA FeeType == \A m : Fee(m) \in {0, 1}
  BY DEF Fee

\* What leaves the pool leaves every balance of the mint a natural number.
LEMMA PaidOutType ==
  ASSUME TypeOK, NEW m \in Mint, NEW pool \in PoolAccount, NEW to \in Key,
         NEW n \in Nat, CanPayOut(m, pool, n)
  PROVE  PaidOut(m, pool, to, n) \in [Account -> Nat]
<1>1. balance[m] \in [Account -> Nat] /\ pool \in Account /\ to \in Account
      /\ pool # to
  BY ControllerAssumption DEF TypeOK, Account
<1>2. Fee(m) \in {0, 1}
  BY FeeType
<1> QED
  BY <1>1, <1>2 DEF PaidOut, TransferredLess, CanPayOut, CanTransfer

LEMMA InitTypeOK == Init => TypeOK
<1> SUFFICES ASSUME Init PROVE TypeOK
  OBVIOUS
<1>1. balance \in [Mint \cup Series -> [Account -> Nat]]
  <2>1. ASSUME NEW t \in Mint \cup Series, NEW x \in Account
        PROVE  (IF t \in Mint /\ x \in Key THEN Endowment[t][x] ELSE 0) \in Nat
    BY <2>1, ControllerAssumption
  <2> QED
    BY <2>1 DEF Init
<1> QED
  BY <1>1, ControllerAssumption DEF Init, TypeOK, Time

LEMMA OpenVaultTypeOK ==
  ASSUME TypeOK, NEW k \in Key, NEW m \in Mint, NEW b \in Key, OpenVault(k, m, b)
  PROVE  TypeOK'
<1>1. next_id[k] \in 0..MaxVaultId /\ next_id[k] + 1 <= MaxVaultId
  BY DEF OpenVault, CanOpen, TypeOK
<1>2. OpenedVault(m, b) \in Vault
  BY AmountType DEF OpenedVault, Vault
<1>3. vault' \in [VaultKey -> Vault \cup {NoAccount}]
  BY <1>2 DEF OpenVault, TypeOK
<1>4. next_id' \in [Key -> (0..MaxVaultId) \cup {NoAccount}]
  <2>1. next_id[k] + 1 \in 0..MaxVaultId
    BY <1>1, ControllerAssumption
  <2> QED
    BY <2>1 DEF OpenVault, TypeOK
<1> QED
  BY <1>3, <1>4 DEF OpenVault, TypeOK, outside, history

LEMMA DepositCollateralTypeOK ==
  ASSUME TypeOK, NEW k \in Key, NEW id \in VaultId, NEW p \in PoolAccount,
         NEW n \in 1..MaxU64, DepositCollateral(k, id, p, n)
  PROVE  TypeOK'
<1> DEFINE v == <<k, id>>
           m == vault[v].collateral_mint
<1>1. v \in VaultKey /\ vault[v] \in Vault /\ m \in Mint
  BY VaultNotNoAccount DEF DepositCollateral, VaultKey, Vault
<1>2. WithCollateral(vault[v], n) \in Vault
  BY <1>1, AmountType DEF DepositCollateral, CanDeposit, DepositFits, WithCollateral, Vault
<1>3. TransferredLess(balance[m], k, p, n, Fee(m)) \in [Account -> Nat]
  <2>1. balance[m] \in [Account -> Nat] /\ k \in Account /\ p \in Account
        /\ k # p
    BY <1>1, ControllerAssumption DEF TypeOK, Account
  <2>2. n \in Nat /\ balance[m][k] >= n /\ Fee(m) = 0
    BY AmountType DEF DepositCollateral, CanTransfer, CanDeposit
  <2> QED
    BY <2>1, <2>2 DEF TransferredLess
<1>4. vault' \in [VaultKey -> Vault \cup {NoAccount}]
  BY <1>2 DEF DepositCollateral, TypeOK
<1>5. balance' \in [Mint \cup Series -> [Account -> Nat]]
  BY <1>1, <1>3 DEF DepositCollateral, TypeOK
<1>6. UNCHANGED <<config, next_id, expiry_price, outside, history>>
  BY DEF DepositCollateral
<1> QED
  BY <1>4, <1>5, <1>6 DEF TypeOK, outside, history

LEMMA MintOtokenTypeOK ==
  ASSUME TypeOK, NEW k \in Key, NEW id \in VaultId, NEW s \in Series,
         NEW d \in Key, NEW n \in 1..MaxU64, MintOtoken(k, id, s, d, n)
  PROVE  TypeOK'
<1> DEFINE v == <<k, id>>
<1>1. v \in VaultKey /\ vault[v] \in Vault
  BY VaultNotNoAccount DEF MintOtoken, VaultKey
<1>2. WithShort(vault[v], s, n) \in Vault
  <2>1. vault[v].short_amount + n \in 0..MaxU64
    BY <1>1, AmountType DEF MintOtoken, CanMint, MintFits, Covers, Vault
  <2> QED
    BY <1>1, <2>1 DEF WithShort, Vault
<1>3. Minted(balance[s], d, n) \in [Account -> Nat]
  <2>1. balance[s] \in [Account -> Nat] /\ d \in Account /\ n \in Nat
    BY AmountType DEF TypeOK, Account
  <2> QED
    BY <2>1 DEF Minted
<1>4. vault' \in [VaultKey -> Vault \cup {NoAccount}]
  BY <1>2 DEF MintOtoken, TypeOK
<1>5. balance' \in [Mint \cup Series -> [Account -> Nat]]
  BY <1>3 DEF MintOtoken, TypeOK
<1>6. UNCHANGED <<config, next_id, expiry_price, outside, history>>
  BY DEF MintOtoken
<1> QED
  BY <1>4, <1>5, <1>6 DEF TypeOK, outside, history

LEMMA SettleVaultTypeOK ==
  ASSUME TypeOK, NEW k \in Key, NEW v \in VaultKey, NEW p \in PoolAccount,
         SettleVault(k, v, p)
  PROVE  TypeOK'
<1> DEFINE s == vault[v].otoken_mint
           m == vault[v].collateral_mint
           n == vault[v].short_amount
           returned == vault[v].collateral_amount - PayoutOf(s, n)
<1>1. vault[v] \in Vault
  BY VaultNotNoAccount DEF SettleVault
<1>2. s \in Series /\ m \in Mint /\ n \in Nat /\ vault[v].collateral_amount \in Nat
  BY <1>1, AmountType DEF Vault, SettleVault
<1>3. PayoutOf(s, n) \in Nat
  BY <1>2, PayoutIsNat DEF SettleVault
<1>4. returned \in Nat
  BY <1>2, <1>3 DEF SettleVault
<1>5. PaidOut(m, p, vault[v].beneficiary, returned) \in [Account -> Nat]
  BY <1>1, <1>2, <1>4, PaidOutType DEF SettleVault, Vault
<1>6. [vault[v] EXCEPT !.settled = TRUE] \in Vault
  BY <1>1 DEF Vault
<1> QED
  BY <1>2, <1>5, <1>6 DEF SettleVault, TypeOK, outside

LEMMA RedeemTypeOK ==
  ASSUME TypeOK, NEW k \in Key, NEW s \in Series, NEW p \in PoolAccount,
         NEW n \in 1..MaxU64, Redeem(k, s, p, n)
  PROVE  TypeOK'
<1> DEFINE m == Terms[s].collateral_mint
<1>1. m \in Mint /\ m # s /\ n \in Nat
  BY TermsType, ControllerAssumption, AmountType
<1>2. PayoutOf(s, n) \in Nat
  BY <1>1, PayoutIsNat DEF Redeem, CanRedeem
<1>3. PaidOut(m, p, k, PayoutOf(s, n)) \in [Account -> Nat]
  BY <1>1, <1>2, PaidOutType DEF Redeem, CanRedeem
<1>4. Burned(balance[s], k, n) \in [Account -> Nat]
  BY <1>1 DEF Redeem, CanRedeem, CanBurn, Burned, TypeOK, Account
<1>5. balance' \in [Mint \cup Series -> [Account -> Nat]]
  BY <1>1, <1>3, <1>4 DEF Redeem, TypeOK
<1>6. /\ redeemed' \in [Series -> Nat]
      /\ paid' \in [Series -> Nat]
  BY <1>1, <1>2 DEF Redeem, TypeOK
<1> QED
  BY <1>5, <1>6 DEF Redeem, TypeOK, accounts, outside

LEMMA EmergencyWithdrawVaultTypeOK ==
  ASSUME TypeOK, NEW k \in Key, NEW id \in VaultId, NEW p \in PoolAccount,
         EmergencyWithdrawVault(k, id, p)
  PROVE  TypeOK'
<1> DEFINE v == <<k, id>>
           m == vault[v].collateral_mint
<1>1. v \in VaultKey /\ vault[v] \in Vault
  BY VaultNotNoAccount DEF EmergencyWithdrawVault, CanEmergencyWithdraw, VaultKey
<1>2. m \in Mint /\ vault[v].collateral_amount \in Nat /\ vault[v].beneficiary \in Key
  BY <1>1, AmountType DEF Vault
<1>3. PaidOut(m, p, vault[v].beneficiary, vault[v].collateral_amount)
        \in [Account -> Nat]
  BY <1>2, PaidOutType DEF EmergencyWithdrawVault, CanEmergencyWithdraw
<1>4. [vault[v] EXCEPT !.settled = TRUE] \in Vault
  BY <1>1 DEF Vault
<1> QED
  BY <1>1, <1>2, <1>3, <1>4 DEF EmergencyWithdrawVault, TypeOK, outside

LEMMA TransferTokensTypeOK ==
  ASSUME TypeOK, NEW t \in Transferable, NEW from \in Key, NEW to \in Account,
         NEW n \in 1..MaxU64, TransferTokens(t, from, to, n)
  PROVE  TypeOK'
<1>1. t \in Mint \cup Series /\ from \in Account /\ n \in Nat /\ n >= 1
  BY ControllerAssumption, AmountType DEF Account
<1>2. Fee(t) \in {0, 1}
  BY FeeType
<1>3. TransferredLess(balance[t], from, to, n, Fee(t)) \in [Account -> Nat]
  BY <1>1, <1>2 DEF TransferTokens, CanTransfer, TransferredLess, TypeOK
<1> QED
  BY <1>1, <1>3 DEF TransferTokens, TypeOK, accounts, outside, history

LEMMA AdministrationTypeOK ==
  ASSUME TypeOK, NEW k \in Key, NEW p \in Key, NEW paused \in BOOLEAN,
         \/ Initialize(k)
         \/ InitializeCounter(k)
         \/ SetPartialPauser(k, p)
         \/ SetPartiallyPaused(k, paused)
         \/ SetFullyPaused(k, paused)
  PROVE  TypeOK'
<1>1. CASE Initialize(k)
  BY <1>1 DEF Initialize, TypeOK, Config, outside, history
<1>2. CASE InitializeCounter(k)
  BY <1>2, ControllerAssumption DEF InitializeCounter, TypeOK, outside, history
<1>3. CASE SetPartialPauser(k, p)
  BY <1>3 DEF SetPartialPauser, IsAdmin, Initialized, TypeOK, Config, outside, history
<1>4. CASE SetPartiallyPaused(k, paused)
  BY <1>4
  DEF SetPartiallyPaused, MayPartiallyPause, Initialized, TypeOK, Config,
      outside, history
<1>5. CASE SetFullyPaused(k, paused)
  BY <1>5 DEF SetFullyPaused, IsAdmin, Initialized, TypeOK, Config, outside, history
<1> QED
  BY <1>1, <1>2, <1>3, <1>4, <1>5

LEMMA SetExpiryPriceTypeOK ==
  ASSUME TypeOK, NEW s \in Series, NEW k \in Key, SetExpiryPrice(k, s)
  PROVE  TypeOK'
<1>1. FixingOf(s) \in Fixing
  BY DEF Fixing
<1>2. oracle_price[FixingOf(s)] \in Prices
  BY <1>1 DEF SetExpiryPrice, TypeOK
<1>3. expiry_price' \in [Series -> (0..MaxU64) \cup {NoAccount}]
  BY <1>2, PriceType DEF SetExpiryPrice, TypeOK
<1> QED
  BY <1>3 DEF SetExpiryPrice, TypeOK, outside, history

LEMMA NextTypeOK == TypeOK /\ [Next]_vars => TypeOK'
<1> SUFFICES ASSUME TypeOK, [Next]_vars PROVE TypeOK'
  OBVIOUS
<1>1. ASSUME NEW k \in Key, Initialize(k) \/ InitializeCounter(k) PROVE TypeOK'
  BY <1>1, AdministrationTypeOK
<1>2. ASSUME NEW k \in Key, NEW p \in Pausers, SetPartialPauser(k, p)
      PROVE  TypeOK'
  <2>1. p \in Key
    BY ControllerAssumption
  <2> QED
    BY <1>2, <2>1, AdministrationTypeOK
<1>3. ASSUME NEW k \in Key, NEW paused \in BOOLEAN,
             SetPartiallyPaused(k, paused) \/ SetFullyPaused(k, paused)
      PROVE  TypeOK'
  BY <1>3, AdministrationTypeOK
<1>4. ASSUME NEW k \in Key, NEW b \in Key, NEW m \in Mint, OpenVault(k, m, b)
      PROVE  TypeOK'
  BY <1>4, OpenVaultTypeOK
<1>5. ASSUME NEW k \in Key, NEW id \in VaultId, NEW p \in PoolAccount,
             NEW n \in 1..MaxU64, DepositCollateral(k, id, p, n)
      PROVE  TypeOK'
  BY <1>5, DepositCollateralTypeOK
<1>6. ASSUME NEW k \in Key, NEW d \in Key, NEW id \in VaultId, NEW s \in Series,
             NEW n \in 1..MaxU64, MintOtoken(k, id, s, d, n)
      PROVE  TypeOK'
  BY <1>6, MintOtokenTypeOK
<1>7. ASSUME NEW s \in Series, CreateOTokenInfo(s) PROVE TypeOK'
  BY <1>7, AmountType DEF CreateOTokenInfo, TypeOK, outside, history
<1>8. ASSUME NEW s \in Series, WhitelistOtoken(s) PROVE TypeOK'
  BY <1>8 DEF WhitelistOtoken, TypeOK, accounts, history
<1>9. ASSUME NEW k \in Key, NEW s \in Series, SetExpiryPrice(k, s) PROVE TypeOK'
  BY <1>9, SetExpiryPriceTypeOK
<1>10. ASSUME NEW k \in Key, NEW v \in VaultKey, NEW p \in PoolAccount,
              SettleVault(k, v, p)
       PROVE  TypeOK'
  BY <1>10, SettleVaultTypeOK
<1>11. ASSUME NEW k \in Key, NEW s \in Series, NEW p \in PoolAccount,
              NEW n \in 1..MaxU64, Redeem(k, s, p, n)
       PROVE  TypeOK'
  BY <1>11, RedeemTypeOK
<1>12. ASSUME NEW k \in Key, NEW id \in VaultId, NEW p \in PoolAccount,
              EmergencyWithdrawVault(k, id, p)
       PROVE  TypeOK'
  BY <1>12, EmergencyWithdrawVaultTypeOK
<1>13. ASSUME NEW f \in Fixing, NEW price \in Prices, FinalizeOraclePrice(f, price)
       PROVE  TypeOK'
  BY <1>13 DEF FinalizeOraclePrice, TypeOK, accounts, history
<1>14. ASSUME NEW t \in Transferable, NEW from \in Key, NEW to \in Account,
              NEW n \in 1..MaxU64, TransferTokens(t, from, to, n)
       PROVE  TypeOK'
  BY <1>14, TransferTokensTypeOK
<1>15. ASSUME NEW m \in FeeCapable, TurnFeeOn(m) PROVE TypeOK'
  BY <1>15, ControllerAssumption DEF TurnFeeOn, TypeOK, accounts, history
<1>16. CASE Tick
  BY <1>16, ControllerAssumption DEF Tick, TypeOK, Time, accounts, history
<1>17. CASE UNCHANGED vars
  BY <1>17 DEF vars, TypeOK, accounts, outside, history
<1> QED
  BY <1>1, <1>2, <1>3, <1>4, <1>5, <1>6, <1>7, <1>8, <1>9, <1>10, <1>11,
     <1>12, <1>13, <1>14, <1>15, <1>16, <1>17
  DEF Next, AdminNext, OwnerNext, MintNext, HolderNext, SeriesNext, ChainNext

\* Every account the instructions leave behind has its type.
THEOREM Typing == Spec => []TypeOK
<1>1. Init => TypeOK
  BY InitTypeOK
<1>2. TypeOK /\ [Next]_vars => TypeOK'
  BY NextTypeOK
<1> QED
  BY <1>1, <1>2, PTL DEF Spec

\* The instructions that write a vault.
LEMMA VaultWriters ==
  ASSUME [Next]_vars
  PROVE  \/ vault' = vault
         \/ \E k, b \in Key, m \in Mint : OpenVault(k, m, b)
         \/ \E k \in Key, id \in VaultId, p \in PoolAccount, n \in 1..MaxU64 :
              DepositCollateral(k, id, p, n)
         \/ \E k, d \in Key, id \in VaultId, s \in Series, n \in 1..MaxU64 :
              MintOtoken(k, id, s, d, n)
         \/ \E k \in Key, w \in VaultKey, p \in PoolAccount : SettleVault(k, w, p)
         \/ \E k \in Key, id \in VaultId, p \in PoolAccount :
              EmergencyWithdrawVault(k, id, p)
  BY DEF Next, AdminNext, OwnerNext, MintNext, HolderNext, SeriesNext, ChainNext, vars, accounts,
     Initialize, InitializeCounter, SetPartialPauser,
     SetPartiallyPaused, SetFullyPaused, CreateOTokenInfo, SetExpiryPrice,
     WhitelistOtoken, Redeem, FinalizeOraclePrice, TransferTokens, TurnFeeOn, Tick

(***************************************************************************)
(* Collateral.  Typing makes the invariant inductive: the minting guard    *)
(* establishes it, deposits only raise the collateral, closing a vault     *)
(* leaves its amounts as they are and a registered series stays so.        *)
(***************************************************************************)
RegisteredStay ==
  \A s \in Series : expiry_price[s] # NoAccount => expiry_price'[s] # NoAccount

LEMMA BackedStays ==
  ASSUME TypeOK, NEW v \in VaultKey, Exists(v), Short(v) => Backed(v),
         RegisteredStay,
         vault'[v] # NoAccount,
         vault'[v].short_amount = vault[v].short_amount,
         vault'[v].otoken_mint = vault[v].otoken_mint,
         vault'[v].collateral_mint = vault[v].collateral_mint,
         vault'[v].collateral_amount >= vault[v].collateral_amount,
         vault'[v].collateral_amount \in Nat
  PROVE  (Short(v) => Backed(v))'
<1> DEFINE s == vault[v].otoken_mint
           n == vault[v].short_amount
<1> SUFFICES ASSUME Short(v)' PROVE Backed(v)'
  OBVIOUS
<1>1. Short(v) /\ Backed(v)
  BY DEF Short, Exists
<1>2. vault[v] \in Vault
  BY VaultNotNoAccount
<1>3. /\ n \in Nat /\ vault[v].collateral_amount \in Nat
  BY <1>2, AmountType DEF Vault
<1>4. RequiredCollateral(Terms[s], n) \in Nat
  BY <1>1, <1>3, RequiredIsNat DEF Backed
<1>5. vault'[v].collateral_amount >= RequiredCollateral(Terms[s], n)
  BY <1>1, <1>3, <1>4 DEF Backed
<1> QED
  BY <1>1, <1>5 DEF Backed, RegisteredStay

LEMMA RegistrationStays ==
  ASSUME TypeOK, [Next]_vars
  PROVE  RegisteredStay
<1>1. ASSUME NEW s \in Series, CreateOTokenInfo(s)
      PROVE  RegisteredStay
  <2>1. NoAccount # 0
    BY ControllerAssumption
  <2> QED
    BY <1>1, <2>1 DEF CreateOTokenInfo, RegisteredStay, TypeOK
<1>2. ASSUME NEW k \in Key, NEW s \in Series, SetExpiryPrice(k, s)
      PROVE  RegisteredStay
  BY <1>2 DEF SetExpiryPrice, RegisteredStay, TypeOK
<1>3. CASE expiry_price' = expiry_price
  BY <1>3 DEF RegisteredStay
<1>4. expiry_price' = expiry_price
      \/ (\E s \in Series : CreateOTokenInfo(s))
      \/ (\E k \in Key, s \in Series : SetExpiryPrice(k, s))
  BY DEF Next, AdminNext, OwnerNext, MintNext, HolderNext, SeriesNext, ChainNext, vars, accounts,
     Initialize, InitializeCounter, SetPartialPauser,
     SetPartiallyPaused, SetFullyPaused, OpenVault, DepositCollateral, MintOtoken,
     WhitelistOtoken, SettleVault, Redeem, EmergencyWithdrawVault,
     FinalizeOraclePrice, TransferTokens, TurnFeeOn, Tick
<1> QED
  BY <1>1, <1>2, <1>3, <1>4

\* The instructions that leave every vault alone.
LEMMA VaultsUntouched ==
  ASSUME TypeOK, Collateralised, RegisteredStay, vault' = vault
  PROVE  Collateralised'
<1> SUFFICES ASSUME NEW v \in VaultKey, Short(v)' PROVE Backed(v)'
  BY DEF Collateralised
<1>1. Exists(v) /\ Short(v)
  BY DEF Short, Exists
<1>2. vault[v] \in Vault
  BY <1>1, VaultNotNoAccount
<1>3. vault[v].collateral_amount \in Nat
  BY <1>2, AmountType DEF Vault
<1> QED
  BY <1>1, <1>2, <1>3, BackedStays DEF Collateralised, Exists, Backed, RegisteredStay

\* The instructions that write one vault w: it is enough to look at w.
LEMMA OneVaultWritten ==
  ASSUME TypeOK, Collateralised, RegisteredStay, NEW w \in VaultKey,
         \A v \in VaultKey : v # w => vault'[v] = vault[v],
         (Short(w) => Backed(w))'
  PROVE  Collateralised'
<1> SUFFICES ASSUME NEW v \in VaultKey, v # w, Short(v)' PROVE Backed(v)'
  BY DEF Collateralised
<1>1. Exists(v) /\ Short(v) /\ vault'[v] = vault[v]
  BY DEF Short, Exists
<1>2. vault[v] \in Vault
  BY <1>1, VaultNotNoAccount
<1> QED
  BY <1>1, <1>2 DEF Collateralised, Backed, RegisteredStay

LEMMA OpenVaultBacked ==
  ASSUME TypeOK, Collateralised, RegisteredStay,
         NEW k \in Key, NEW m \in Mint, NEW b \in Key, OpenVault(k, m, b)
  PROVE  Collateralised'
<1>0. PICK id : id = next_id[k]
  OBVIOUS
<1> DEFINE w == <<k, id>>
<1>1. next_id[k] \in 0..MaxVaultId /\ next_id[k] + 1 <= MaxVaultId
  BY DEF OpenVault, CanOpen, TypeOK
<1>2. w \in VaultKey
  BY <1>0, <1>1, ControllerAssumption DEF VaultKey, VaultId
<1>3. vault' = [vault EXCEPT ![w] = OpenedVault(m, b)]
  BY <1>0 DEF OpenVault
<1>4. vault'[w].short_amount = 0
  BY <1>2, <1>3 DEF OpenedVault, TypeOK
<1>5. (Short(w) => Backed(w))'
  BY <1>4 DEF Short
<1> QED
  BY <1>2, <1>3, <1>5, OneVaultWritten DEF TypeOK

LEMMA DepositCollateralBacked ==
  ASSUME TypeOK, Collateralised, RegisteredStay,
         NEW k \in Key, NEW id \in VaultId, NEW p \in PoolAccount,
         NEW n \in 1..MaxU64, DepositCollateral(k, id, p, n)
  PROVE  Collateralised'
<1> DEFINE w == <<k, id>>
<1>1. w \in VaultKey /\ Exists(w) /\ vault[w] \in Vault
  BY VaultNotNoAccount DEF DepositCollateral, VaultKey
<1>2. vault' = [vault EXCEPT ![w] = WithCollateral(@, n)]
  BY DEF DepositCollateral
<1>3. vault'[w] = [vault[w] EXCEPT !.collateral_amount = @ + n]
  BY <1>1, <1>2 DEF WithCollateral, TypeOK
<1>4. vault[w].collateral_amount \in Nat /\ n \in Nat
  BY <1>1, AmountType DEF Vault
<1>5. /\ vault'[w].collateral_amount = vault[w].collateral_amount + n
      /\ vault'[w].short_amount = vault[w].short_amount
      /\ vault'[w].otoken_mint = vault[w].otoken_mint
      /\ vault'[w].collateral_mint = vault[w].collateral_mint
  BY <1>1, <1>3 DEF Vault
<1>6. vault'[w] # NoAccount
  <2>1. vault'[w] \in Vault
    <3>1. vault[w].collateral_amount + n \in 0..MaxU64
      BY <1>1, <1>4, AmountType DEF DepositCollateral, CanDeposit, DepositFits
    <3> QED
      BY <1>1, <1>3, <3>1 DEF Vault
  <2> QED
    BY <2>1, VaultIsAccount
<1>7. (Short(w) => Backed(w))'
  BY <1>1, <1>4, <1>5, <1>6, BackedStays DEF Collateralised
<1> QED
  BY <1>1, <1>2, <1>7, OneVaultWritten DEF TypeOK

\* The guard of mint_otoken is the invariant, for the new short.
LEMMA MintOtokenBacked ==
  ASSUME TypeOK, Collateralised, RegisteredStay,
         NEW k \in Key, NEW id \in VaultId, NEW s \in Series, NEW d \in Key,
         NEW n \in 1..MaxU64, MintOtoken(k, id, s, d, n)
  PROVE  Collateralised'
<1> DEFINE w == <<k, id>>
<1>1. w \in VaultKey /\ Exists(w) /\ vault[w] \in Vault
  BY VaultNotNoAccount DEF MintOtoken, VaultKey
<1>2. vault' = [vault EXCEPT ![w] = WithShort(@, s, n)]
  BY DEF MintOtoken
<1>3. vault'[w] = [vault[w] EXCEPT !.otoken_mint = s, !.short_amount = @ + n]
  BY <1>1, <1>2 DEF WithShort, TypeOK
<1>4. /\ vault'[w].short_amount = vault[w].short_amount + n
      /\ vault'[w].otoken_mint = s
      /\ vault'[w].collateral_mint = vault[w].collateral_mint
      /\ vault'[w].collateral_amount = vault[w].collateral_amount
  BY <1>1, <1>3 DEF Vault
<1>5. /\ expiry_price[s] # NoAccount
      /\ Terms[s].collateral_mint = vault[w].collateral_mint
      /\ CollateralComputable(Terms[s], vault[w].short_amount + n)
      /\ vault[w].collateral_amount
           >= RequiredCollateral(Terms[s], vault[w].short_amount + n)
  BY DEF MintOtoken, CanMint, MintFits, Covers
<1>6. (Short(w) => Backed(w))'
  BY <1>4, <1>5 DEF Backed, RegisteredStay
<1> QED
  BY <1>1, <1>2, <1>6, OneVaultWritten DEF TypeOK

LEMMA CloseVaultBacked ==
  ASSUME TypeOK, Collateralised, RegisteredStay, NEW w \in VaultKey, Exists(w),
         vault' = [vault EXCEPT ![w].settled = TRUE]
  PROVE  Collateralised'
<1>1. vault[w] \in Vault
  BY VaultNotNoAccount
<1>2. vault'[w] = [vault[w] EXCEPT !.settled = TRUE]
  BY DEF TypeOK
<1>3. /\ vault'[w] \in Vault
      /\ vault'[w].short_amount = vault[w].short_amount
      /\ vault'[w].otoken_mint = vault[w].otoken_mint
      /\ vault'[w].collateral_mint = vault[w].collateral_mint
      /\ vault'[w].collateral_amount = vault[w].collateral_amount
  BY <1>1, <1>2, ClosedVault
<1>4. vault'[w] # NoAccount
  BY <1>3, VaultIsAccount
<1>5. vault[w].collateral_amount \in Nat
  BY <1>1, AmountType DEF Vault
<1>6. (Short(w) => Backed(w))'
  BY <1>3, <1>4, <1>5, BackedStays DEF Collateralised
<1> QED
  BY <1>6, OneVaultWritten DEF TypeOK

LEMMA NextCollateralised ==
  TypeOK /\ Collateralised /\ [Next]_vars => Collateralised'
<1> SUFFICES ASSUME TypeOK, Collateralised, [Next]_vars PROVE Collateralised'
  OBVIOUS
<1>0. RegisteredStay
  BY RegistrationStays
<1>1. ASSUME NEW k \in Key, NEW b \in Key, NEW m \in Mint, OpenVault(k, m, b)
      PROVE  Collateralised'
  BY <1>0, <1>1, OpenVaultBacked
<1>2. ASSUME NEW k \in Key, NEW id \in VaultId, NEW p \in PoolAccount,
             NEW n \in 1..MaxU64, DepositCollateral(k, id, p, n)
      PROVE  Collateralised'
  BY <1>0, <1>2, DepositCollateralBacked
<1>3. ASSUME NEW k \in Key, NEW d \in Key, NEW id \in VaultId, NEW s \in Series,
             NEW n \in 1..MaxU64, MintOtoken(k, id, s, d, n)
      PROVE  Collateralised'
  BY <1>0, <1>3, MintOtokenBacked
<1>4. ASSUME NEW k \in Key, NEW v \in VaultKey, NEW p \in PoolAccount,
             SettleVault(k, v, p)
      PROVE  Collateralised'
  BY <1>0, <1>4, CloseVaultBacked DEF SettleVault
<1>5. ASSUME NEW k \in Key, NEW id \in VaultId, NEW p \in PoolAccount,
             EmergencyWithdrawVault(k, id, p)
      PROVE  Collateralised'
  <2>1. <<k, id>> \in VaultKey
    BY DEF VaultKey
  <2> QED
    BY <1>0, <1>5, <2>1, CloseVaultBacked
    DEF EmergencyWithdrawVault, CanEmergencyWithdraw
<1>6. CASE vault' = vault
  BY <1>0, <1>6, VaultsUntouched
<1>7. \/ vault' = vault
      \/ \E k, b \in Key, m \in Mint : OpenVault(k, m, b)
      \/ \E k \in Key, id \in VaultId, p \in PoolAccount, n \in 1..MaxU64 :
           DepositCollateral(k, id, p, n)
      \/ \E k, d \in Key, id \in VaultId, s \in Series, n \in 1..MaxU64 :
           MintOtoken(k, id, s, d, n)
      \/ \E k \in Key, v \in VaultKey, p \in PoolAccount : SettleVault(k, v, p)
      \/ \E k \in Key, id \in VaultId, p \in PoolAccount :
           EmergencyWithdrawVault(k, id, p)
  BY VaultWriters
<1> QED
  BY <1>1, <1>2, <1>3, <1>4, <1>5, <1>6, <1>7

\* Every short vault keeps the collateral of its whole short on record, so
\* settle_vault's subtraction and its payout never fail.
THEOREM CollateralTheorem == Spec => []Collateralised
<1>1. Init => Collateralised
  BY DEF Init, Collateralised, Short, Exists
<1>2. TypeOK /\ Collateralised /\ [Next]_vars => Collateralised'
  BY NextCollateralised
<1> QED
  BY <1>1, <1>2, Typing, PTL DEF Spec

(***************************************************************************)
(* Prices.                                                                 *)
(***************************************************************************)
\* A written oracle account stays as it is.
LEMMA OraclePriceStays ==
  ASSUME TypeOK, [Next]_vars, NEW f \in Fixing, oracle_price[f] # NoAccount
  PROVE  oracle_price'[f] = oracle_price[f]
<1>1. ASSUME NEW g \in Fixing, NEW price \in Prices, FinalizeOraclePrice(g, price)
      PROVE  oracle_price'[f] = oracle_price[f]
  BY <1>1 DEF FinalizeOraclePrice, TypeOK
<1>2. \/ oracle_price' = oracle_price
      \/ \E g \in Fixing, price \in Prices : FinalizeOraclePrice(g, price)
  BY DEF Next, AdminNext, OwnerNext, MintNext, HolderNext, SeriesNext, ChainNext, vars, outside,
     Initialize, InitializeCounter, SetPartialPauser,
     SetPartiallyPaused, SetFullyPaused, OpenVault, DepositCollateral, MintOtoken,
     CreateOTokenInfo, SetExpiryPrice, WhitelistOtoken, SettleVault, Redeem,
     EmergencyWithdrawVault, TransferTokens, TurnFeeOn, Tick
<1> QED
  BY <1>1, <1>2

\* So does a price the controller copied.
LEMMA ExpiryPriceStays ==
  ASSUME TypeOK, [Next]_vars, NEW s \in Series, Priced(s)
  PROVE  expiry_price'[s] = expiry_price[s]
<1>1. ASSUME NEW r \in Series, CreateOTokenInfo(r)
      PROVE  expiry_price'[s] = expiry_price[s]
  BY <1>1 DEF CreateOTokenInfo, Priced, TypeOK
<1>2. ASSUME NEW k \in Key, NEW r \in Series, SetExpiryPrice(k, r)
      PROVE  expiry_price'[s] = expiry_price[s]
  BY <1>2 DEF SetExpiryPrice, Priced, TypeOK
<1>3. \/ expiry_price' = expiry_price
      \/ \E r \in Series : CreateOTokenInfo(r)
      \/ \E k \in Key, r \in Series : SetExpiryPrice(k, r)
  BY DEF Next, AdminNext, OwnerNext, MintNext, HolderNext, SeriesNext, ChainNext, vars, accounts,
     Initialize, InitializeCounter, SetPartialPauser,
     SetPartiallyPaused, SetFullyPaused, OpenVault, DepositCollateral, MintOtoken,
     WhitelistOtoken, SettleVault, Redeem, EmergencyWithdrawVault,
     FinalizeOraclePrice, TransferTokens, TurnFeeOn, Tick
<1> QED
  BY <1>1, <1>2, <1>3

LEMMA TimeAdvances ==
  ASSUME TypeOK, [Next]_vars
  PROVE  now' \in Nat /\ now \in Nat /\ now' >= now
<1>1. now \in Nat
  BY ControllerAssumption DEF TypeOK, Time
<1>2. now' = now \/ Tick
  BY DEF Next, AdminNext, OwnerNext, MintNext, HolderNext, SeriesNext, ChainNext, vars, outside,
     Initialize, InitializeCounter, SetPartialPauser,
     SetPartiallyPaused, SetFullyPaused, OpenVault, DepositCollateral, MintOtoken,
     CreateOTokenInfo, SetExpiryPrice, WhitelistOtoken, SettleVault, Redeem,
     EmergencyWithdrawVault, FinalizeOraclePrice, TransferTokens, TurnFeeOn
<1> QED
  BY <1>1, <1>2 DEF Tick

\* A series becomes priced only by copying the oracle's price after expiry.
LEMMA NewlyPriced ==
  ASSUME TypeOK, [Next]_vars, NEW s \in Series, Priced(s)', ~Priced(s)
  PROVE  /\ now >= Terms[s].expiry
         /\ expiry_price'[s] = oracle_price[FixingOf(s)]
         /\ oracle_price[FixingOf(s)] # NoAccount
<1>1. ASSUME NEW r \in Series, CreateOTokenInfo(r) PROVE FALSE
  <2>1. expiry_price'[s] = expiry_price[s] \/ expiry_price'[s] = 0
    BY <1>1 DEF CreateOTokenInfo, TypeOK
  <2> QED
    BY <2>1 DEF Priced
<1>2. ASSUME NEW k \in Key, NEW r \in Series, SetExpiryPrice(k, r)
      PROVE  /\ now >= Terms[s].expiry
             /\ expiry_price'[s] = oracle_price[FixingOf(s)]
             /\ oracle_price[FixingOf(s)] # NoAccount
  BY <1>2 DEF SetExpiryPrice, Priced, TypeOK
<1>3. \/ expiry_price' = expiry_price
      \/ \E r \in Series : CreateOTokenInfo(r)
      \/ \E k \in Key, r \in Series : SetExpiryPrice(k, r)
  BY DEF Next, AdminNext, OwnerNext, MintNext, HolderNext, SeriesNext, ChainNext, vars, accounts,
     Initialize, InitializeCounter, SetPartialPauser,
     SetPartiallyPaused, SetFullyPaused, OpenVault, DepositCollateral, MintOtoken,
     WhitelistOtoken, SettleVault, Redeem, EmergencyWithdrawVault,
     FinalizeOraclePrice, TransferTokens, TurnFeeOn, Tick
<1>4. CASE expiry_price' = expiry_price
  BY <1>4 DEF Priced
<1> QED
  BY <1>1, <1>2, <1>3, <1>4

LEMMA NextPricesAgree == TypeOK /\ PricesAgree /\ [Next]_vars => PricesAgree'
<1> SUFFICES ASSUME TypeOK, PricesAgree, [Next]_vars,
                    NEW s \in Series, Priced(s)'
             PROVE  /\ now' >= Terms[s].expiry
                    /\ expiry_price'[s] = oracle_price'[FixingOf(s)]
  BY DEF PricesAgree, FixingOf
<1>0. FixingOf(s) \in Fixing /\ Terms[s].expiry \in Nat
  BY TermsType DEF Fixing
<1>1. /\ now >= Terms[s].expiry
      /\ expiry_price'[s] = oracle_price[FixingOf(s)]
      /\ oracle_price[FixingOf(s)] # NoAccount
  <2>1. CASE Priced(s)
    BY <2>1, ExpiryPriceStays DEF PricesAgree, Priced
  <2>2. CASE ~Priced(s)
    BY <2>2, NewlyPriced
  <2> QED
    BY <2>1, <2>2
<1> QED
  BY <1>0, <1>1, OraclePriceStays, TimeAdvances

\* Series of one underlying and expiry settle at one price, the oracle's.
THEOREM PriceTheorem == Spec => []PricesAgree
<1>1. Init => PricesAgree
  BY DEF Init, PricesAgree, Priced
<1>2. TypeOK /\ PricesAgree /\ [Next]_vars => PricesAgree'
  BY NextPricesAgree
<1> QED
  BY <1>1, <1>2, Typing, PTL DEF Spec

\* No price is ever written twice, by the oracle or by the controller.
THEOREM WriteOnceTheorem == Spec => PricesWrittenOnce
<1>1. TypeOK /\ [Next]_vars =>
        [/\ \A s \in Series : Priced(s) => expiry_price'[s] = expiry_price[s]
         /\ \A f \in Fixing :
              oracle_price[f] # NoAccount => oracle_price'[f] = oracle_price[f]]_vars
  BY ExpiryPriceStays, OraclePriceStays
<1> QED
  BY <1>1, Typing, PTL DEF Spec, PricesWrittenOnce

(***************************************************************************)
(* Closed vaults.                                                          *)
(***************************************************************************)
LEMMA ClosedVaultStays ==
  ASSUME TypeOK, [Next]_vars, NEW v \in VaultKey, Exists(v), vault[v].settled
  PROVE  vault'[v] = vault[v]
<1>1. ASSUME NEW k \in Key, NEW b \in Key, NEW m \in Mint, OpenVault(k, m, b)
      PROVE  vault'[v] = vault[v]
  BY <1>1 DEF OpenVault, Exists, TypeOK
<1>2. ASSUME NEW k \in Key, NEW id \in VaultId, NEW p \in PoolAccount,
             NEW n \in 1..MaxU64, DepositCollateral(k, id, p, n)
      PROVE  vault'[v] = vault[v]
  BY <1>2 DEF DepositCollateral, CanDeposit, TypeOK
<1>3. ASSUME NEW k \in Key, NEW d \in Key, NEW id \in VaultId, NEW s \in Series,
             NEW n \in 1..MaxU64, MintOtoken(k, id, s, d, n)
      PROVE  vault'[v] = vault[v]
  BY <1>3 DEF MintOtoken, CanMint, MintFits, Covers, TypeOK
<1>4. ASSUME NEW k \in Key, NEW w \in VaultKey, NEW p \in PoolAccount,
             SettleVault(k, w, p)
      PROVE  vault'[v] = vault[v]
  BY <1>4 DEF SettleVault, TypeOK
<1>5. ASSUME NEW k \in Key, NEW id \in VaultId, NEW p \in PoolAccount,
             EmergencyWithdrawVault(k, id, p)
      PROVE  vault'[v] = vault[v]
  BY <1>5 DEF EmergencyWithdrawVault, CanEmergencyWithdraw, TypeOK
<1>6. \/ vault' = vault
      \/ \E k, b \in Key, m \in Mint : OpenVault(k, m, b)
      \/ \E k \in Key, id \in VaultId, p \in PoolAccount, n \in 1..MaxU64 :
           DepositCollateral(k, id, p, n)
      \/ \E k, d \in Key, id \in VaultId, s \in Series, n \in 1..MaxU64 :
           MintOtoken(k, id, s, d, n)
      \/ \E k \in Key, w \in VaultKey, p \in PoolAccount : SettleVault(k, w, p)
      \/ \E k \in Key, id \in VaultId, p \in PoolAccount :
           EmergencyWithdrawVault(k, id, p)
  BY VaultWriters
<1> QED
  BY <1>1, <1>2, <1>3, <1>4, <1>5, <1>6

\* A settled vault is never written again.
THEOREM ClosedTheorem == Spec => ClosedVaultsFrozen
<1>1. TypeOK /\ [Next]_vars =>
        [\A v \in VaultKey :
           Exists(v) /\ vault[v].settled => vault'[v] = vault[v]]_vars
  BY ClosedVaultStays
<1> QED
  BY <1>1, Typing, PTL DEF Spec, ClosedVaultsFrozen
=============================================================================
