----------------------------- MODULE BooksProofs -----------------------------
(***************************************************************************)
(* The controller's books, for every value of its constants: the supply of *)
(* a series is what the vaults wrote of it, the pool of a mint holds what  *)
(* the vaults are owed and can pay everyone who is left up to the rounding *)
(* dust, and a full pause freezes all but closing vaults.  Each            *)
(* instruction is reduced to the one place at which it changes a sum;      *)
(* Totals says what that does to the sum.                                  *)
(***************************************************************************)
EXTENDS ControllerProofs, TotalsProofs

(***************************************************************************)
(* The sums are finite sums of naturals.                                   *)
(***************************************************************************)
LEMMA VaultKeyFinite == IsFiniteSet(VaultKey)
<1>1. IsFiniteSet(Key) /\ MaxVaultId \in Nat
  BY ControllerAssumption
<1>2. IsFiniteSet(VaultId)
  BY <1>1, FS_Interval DEF VaultId
<1> QED
  BY <1>1, <1>2, FS_Product DEF VaultKey

LEMMA AccountFinite == IsFiniteSet(Account)
<1>1. IsFiniteSet(Key) /\ IsFiniteSet(PoolAccount)
  BY ControllerAssumption
<1> QED
  BY <1>1, FS_Union DEF Account

\* The terms of the sums: what each vault wrote, and the vaults that wrote s.
Shorts     == [v \in VaultKey |-> vault[v].short_amount]
Writers(s) == {v \in VaultKey : Wrote(v, s)}

LEMMA ShortsSummable ==
  ASSUME TypeOK, NEW s \in Series
  PROVE  Summable(Shorts, Writers(s))
<1>1. IsFiniteSet(Writers(s))
  BY VaultKeyFinite, FS_Subset DEF Writers
<1>2. ASSUME NEW v \in Writers(s) PROVE Shorts[v] \in Nat
  <2>1. v \in VaultKey /\ vault[v] \in Vault
    BY VaultNotNoAccount DEF Writers, Wrote
  <2> QED
    BY <2>1, AmountType DEF Shorts, Vault
<1> QED
  BY <1>1, <1>2 DEF Summable

LEMMA LedgerSummable ==
  ASSUME TypeOK, NEW t \in Mint \cup Series
  PROVE  Summable(balance[t], Account)
<1>1. balance[t] \in [Account -> Nat]
  BY DEF TypeOK
<1> QED
  BY <1>1, AccountFinite DEF Summable

\* SupplyAccounted, one series at a time.
SupplyOf(s) == Supply(s) + redeemed[s]
WrittenOf(s) == Total(Shorts, Writers(s))

LEMMA AccountedByParts == SupplyAccounted <=> \A s \in Series : SupplyOf(s) = WrittenOf(s)
  BY DEF SupplyAccounted, SupplyOf, WrittenOf, Shorts, Writers

LEMMA SupplyIsNat ==
  ASSUME TypeOK, NEW s \in Series
  PROVE  /\ Supply(s) \in Nat /\ redeemed[s] \in Nat /\ WrittenOf(s) \in Nat
<1>1. Summable(balance[s], Account)
  BY LedgerSummable
<1>2. Summable(Shorts, Writers(s))
  BY ShortsSummable
<1> QED
  BY <1>1, <1>2, TotalIsNat DEF Supply, WrittenOf, TypeOK

(***************************************************************************)
(* What the writers of a series wrote.                                     *)
(***************************************************************************)
\* No vault's short of s changes.
LEMMA WrittenSame ==
  ASSUME NEW s \in Series,
         \A v \in VaultKey :
           /\ Wrote(v, s)' <=> Wrote(v, s)
           /\ Wrote(v, s) => vault'[v].short_amount = vault[v].short_amount
  PROVE  WrittenOf(s)' = WrittenOf(s)
<1>1. Writers(s)' = Writers(s)
  BY DEF Writers
<1>2. \A v \in Writers(s) : Shorts[v] = Shorts'[v]
  BY DEF Writers, Shorts
<1>3. Total(Shorts, Writers(s)) = Total(Shorts', Writers(s))
  BY <1>2, TotalSame
<1> QED
  BY <1>1, <1>3 DEF WrittenOf

\* One vault is written, and what it wrote of s stays.
LEMMA WriterSame ==
  ASSUME NEW s \in Series, NEW w \in VaultKey,
         \A v \in VaultKey : v # w => vault'[v] = vault[v],
         Wrote(w, s)' <=> Wrote(w, s),
         Wrote(w, s) => vault'[w].short_amount = vault[w].short_amount
  PROVE  WrittenOf(s)' = WrittenOf(s)
<1>1. ASSUME NEW v \in VaultKey
      PROVE  /\ Wrote(v, s)' <=> Wrote(v, s)
             /\ Wrote(v, s) => vault'[v].short_amount = vault[v].short_amount
  <2>1. CASE v = w
    BY <2>1
  <2>2. CASE v # w
    BY <2>2 DEF Wrote, Exists
  <2> QED
    BY <2>1, <2>2
<1> QED
  BY <1>1, WrittenSame

\* One vault writes n more of s.
LEMMA WriterWrites ==
  ASSUME TypeOK, NEW s \in Series, NEW w \in VaultKey, NEW n \in Nat,
         \A v \in VaultKey : v # w => vault'[v] = vault[v],
         Exists(w), Wrote(w, s)',
         vault[w].short_amount \in Nat,
         vault'[w].short_amount = vault[w].short_amount + n,
         ~Wrote(w, s) => vault[w].short_amount = 0
  PROVE  WrittenOf(s)' = WrittenOf(s) + n
<1> DEFINE W == Writers(s)
<1>1. Summable(Shorts, W) /\ WrittenOf(s) \in Nat
  BY ShortsSummable, SupplyIsNat
<1>2. \A v \in VaultKey : v # w => (Wrote(v, s)' <=> Wrote(v, s))
  BY DEF Wrote, Exists
<1>3. \A v \in VaultKey : v # w => Shorts'[v] = Shorts[v]
  BY DEF Shorts
<1>4. Shorts'[w] = Shorts[w] + n /\ Shorts[w] \in Nat /\ Shorts'[w] \in Nat
  BY DEF Shorts
<1>5. CASE Wrote(w, s)
  <2>1. Writers(s)' = W /\ w \in W
    BY <1>2, <1>5 DEF Writers
  <2>2. \A v \in W \ {w} : Shorts'[v] = Shorts[v]
    BY <1>3 DEF Writers
  <2>3. Total(Shorts', W) = Total(Shorts, W) - Shorts[w] + Shorts'[w]
    BY <1>1, <1>4, <2>1, <2>2, TotalChanged
  <2> QED
    BY <1>1, <1>4, <2>1, <2>3 DEF WrittenOf
<1>6. CASE ~Wrote(w, s)
  <2>1. Writers(s)' = W \cup {w} /\ w \notin W
    BY <1>2, <1>6 DEF Writers
  <2>2. \A v \in W : Shorts'[v] = Shorts[v]
    BY <1>3, <2>1 DEF Writers
  <2>3. Summable(Shorts', W)
    BY <1>1, <2>2 DEF Summable
  <2>4. Total(Shorts', W \cup {w}) = Total(Shorts', W) + Shorts'[w]
    BY <1>4, <2>1, <2>3, TotalAdded
  <2>5. Total(Shorts', W) = Total(Shorts, W)
    BY <2>2, TotalSame
  <2>6. Shorts'[w] = n
    BY <1>4, <1>6 DEF Shorts
  <2> QED
    BY <2>1, <2>4, <2>5, <2>6 DEF WrittenOf
<1> QED
  BY <1>5, <1>6

(***************************************************************************)
(* What each instruction that writes a vault does to the written amounts.  *)
(***************************************************************************)
LEMMA DefaultNotSeries == Default \notin Series
  BY ControllerAssumption

LEMMA OpenVaultWritten ==
  ASSUME TypeOK, NEW s \in Series, NEW k \in Key, NEW m \in Mint, NEW b \in Key,
         OpenVault(k, m, b)
  PROVE  WrittenOf(s)' = WrittenOf(s)
<1>0. PICK id : id = next_id[k]
  OBVIOUS
<1> DEFINE w == <<k, id>>
<1>1. next_id[k] \in 0..MaxVaultId /\ next_id[k] + 1 <= MaxVaultId
  BY DEF OpenVault, CanOpen, TypeOK
<1>2. w \in VaultKey
  BY <1>0, <1>1, ControllerAssumption DEF VaultKey, VaultId
<1>3. vault' = [vault EXCEPT ![w] = OpenedVault(m, b)] /\ ~Exists(w)
  BY <1>0 DEF OpenVault
<1>4. vault'[w].otoken_mint = Default
  BY <1>2, <1>3 DEF OpenedVault, TypeOK
<1>5. ~Wrote(w, s) /\ ~Wrote(w, s)'
  BY <1>3, <1>4, DefaultNotSeries DEF Wrote
<1>6. \A v \in VaultKey : v # w => vault'[v] = vault[v]
  BY <1>3 DEF TypeOK
<1> QED
  BY <1>2, <1>5, <1>6, WriterSame

LEMMA DepositCollateralWritten ==
  ASSUME TypeOK, NEW s \in Series, NEW k \in Key, NEW id \in VaultId,
         NEW p \in PoolAccount, NEW n \in 1..MaxU64, DepositCollateral(k, id, p, n)
  PROVE  WrittenOf(s)' = WrittenOf(s)
<1> DEFINE w == <<k, id>>
<1>1. w \in VaultKey /\ Exists(w) /\ vault[w] \in Vault
  BY VaultNotNoAccount DEF DepositCollateral, VaultKey
<1>2. vault' = [vault EXCEPT ![w] = WithCollateral(@, n)]
  BY DEF DepositCollateral
<1>3. vault'[w] = [vault[w] EXCEPT !.collateral_amount = @ + n]
  BY <1>1, <1>2 DEF WithCollateral, TypeOK
<1>4. /\ vault'[w].short_amount = vault[w].short_amount
      /\ vault'[w].otoken_mint = vault[w].otoken_mint
  BY <1>1, <1>3 DEF Vault
<1>5. vault'[w] # NoAccount
  <2>1. vault[w].collateral_amount + n \in 0..MaxU64
    BY <1>1, AmountType DEF DepositCollateral, CanDeposit, DepositFits, Vault
  <2>2. vault'[w] \in Vault
    BY <1>1, <1>3, <2>1 DEF Vault
  <2> QED
    BY <2>2, VaultIsAccount
<1>6. \A v \in VaultKey : v # w => vault'[v] = vault[v]
  BY <1>2 DEF TypeOK
<1> QED
  BY <1>1, <1>4, <1>5, <1>6, WriterSame DEF Wrote, Exists

LEMMA CloseVaultWritten ==
  ASSUME TypeOK, NEW s \in Series, NEW w \in VaultKey, Exists(w),
         vault' = [vault EXCEPT ![w].settled = TRUE]
  PROVE  WrittenOf(s)' = WrittenOf(s)
<1>1. vault[w] \in Vault
  BY VaultNotNoAccount
<1>2. vault'[w] = [vault[w] EXCEPT !.settled = TRUE]
  BY DEF TypeOK
<1>3. /\ vault'[w] \in Vault
      /\ vault'[w].short_amount = vault[w].short_amount
      /\ vault'[w].otoken_mint = vault[w].otoken_mint
  BY <1>1, <1>2, ClosedVault
<1>4. vault'[w] # NoAccount
  BY <1>3, VaultIsAccount
<1>5. \A v \in VaultKey : v # w => vault'[v] = vault[v]
  BY DEF TypeOK
<1> QED
  BY <1>3, <1>4, <1>5, WriterSame DEF Wrote, Exists

\* A vault not bound to a series has written nothing.
LEMMA UnboundWroteNothing ==
  ASSUME TypeOK, Collateralised, NEW v \in VaultKey, Exists(v),
         vault[v].otoken_mint = Default
  PROVE  vault[v].short_amount = 0
<1>1. vault[v].short_amount \in Nat
  BY VaultNotNoAccount, AmountType DEF Vault
<1> QED
  BY <1>1, DefaultNotSeries DEF Collateralised, Short, Backed

LEMMA MintedVault ==
  ASSUME TypeOK, NEW k \in Key, NEW id \in VaultId, NEW s \in Series,
         NEW d \in Key, NEW n \in 1..MaxU64, MintOtoken(k, id, s, d, n)
  PROVE  LET w == <<k, id>>
         IN /\ w \in VaultKey /\ Exists(w) /\ vault[w] \in Vault
            /\ vault[w].otoken_mint \in {Default, s}
            /\ ~vault[w].settled
            /\ vault'[w] \in Vault
            /\ vault'[w].otoken_mint = s
            /\ vault'[w].short_amount = vault[w].short_amount + n
            /\ vault'[w].collateral_mint = vault[w].collateral_mint
            /\ vault'[w].collateral_amount = vault[w].collateral_amount
            /\ vault'[w].settled = vault[w].settled
            /\ vault'[w].beneficiary = vault[w].beneficiary
            /\ \A v \in VaultKey : v # w => vault'[v] = vault[v]
<1> DEFINE w == <<k, id>>
<1>1. w \in VaultKey /\ Exists(w) /\ vault[w] \in Vault
  BY VaultNotNoAccount DEF MintOtoken, VaultKey
<1>2. vault' = [vault EXCEPT ![w] = WithShort(@, s, n)]
  BY DEF MintOtoken
<1>3. vault'[w] = [vault[w] EXCEPT !.otoken_mint = s, !.short_amount = @ + n]
  BY <1>1, <1>2 DEF WithShort, TypeOK
<1>4. /\ vault[w].short_amount + n \in 0..MaxU64
      /\ vault[w].otoken_mint \in {Default, s}
      /\ ~vault[w].settled
  BY <1>1, AmountType DEF MintOtoken, CanMint, MintFits, Vault
<1>5. vault'[w] \in Vault
  BY <1>1, <1>3, <1>4 DEF Vault
<1>6. \A v \in VaultKey : v # w => vault'[v] = vault[v]
  BY <1>2 DEF TypeOK
<1>7. /\ vault'[w].otoken_mint = s
      /\ vault'[w].short_amount = vault[w].short_amount + n
      /\ vault'[w].collateral_mint = vault[w].collateral_mint
      /\ vault'[w].collateral_amount = vault[w].collateral_amount
      /\ vault'[w].settled = vault[w].settled
      /\ vault'[w].beneficiary = vault[w].beneficiary
  BY <1>1, <1>3 DEF Vault
<1> QED
  BY <1>1, <1>4, <1>5, <1>6, <1>7

LEMMA MintOtokenWritten ==
  ASSUME TypeOK, Collateralised, NEW k \in Key, NEW id \in VaultId, NEW s \in Series,
         NEW d \in Key, NEW n \in 1..MaxU64, MintOtoken(k, id, s, d, n)
  PROVE  WrittenOf(s)' = WrittenOf(s) + n
<1> DEFINE w == <<k, id>>
<1>1. /\ w \in VaultKey /\ Exists(w) /\ vault[w] \in Vault
      /\ vault[w].otoken_mint \in {Default, s}
      /\ vault'[w] \in Vault
      /\ vault'[w].otoken_mint = s
      /\ vault'[w].short_amount = vault[w].short_amount + n
      /\ \A v \in VaultKey : v # w => vault'[v] = vault[v]
  BY MintedVault
<1>2. Wrote(w, s)'
  BY <1>1, VaultIsAccount DEF Wrote, Exists
<1>3. ~Wrote(w, s) => vault[w].short_amount = 0
  BY <1>1, UnboundWroteNothing DEF Wrote
<1>4. vault[w].short_amount \in Nat /\ n \in Nat
  BY <1>1, AmountType DEF Vault
<1> QED
  BY <1>1, <1>2, <1>3, <1>4, WriterWrites

LEMMA MintOtokenOthers ==
  ASSUME TypeOK, NEW k \in Key, NEW id \in VaultId, NEW r \in Series,
         NEW d \in Key, NEW n \in 1..MaxU64, MintOtoken(k, id, r, d, n),
         NEW s \in Series, s # r
  PROVE  WrittenOf(s)' = WrittenOf(s)
<1> DEFINE w == <<k, id>>
<1>1. /\ w \in VaultKey
      /\ vault[w].otoken_mint \in {Default, r}
      /\ vault'[w].otoken_mint = r
      /\ \A v \in VaultKey : v # w => vault'[v] = vault[v]
  BY MintedVault
<1>2. ~Wrote(w, s) /\ ~Wrote(w, s)'
  BY <1>1, DefaultNotSeries DEF Wrote
<1> QED
  BY <1>1, <1>2, WriterSame

LEMMA WrittenFollows ==
  ASSUME TypeOK, [Next]_vars, NEW s \in Series,
         ~ \E k, d \in Key, id \in VaultId, n \in 1..MaxU64 : MintOtoken(k, id, s, d, n)
  PROVE  WrittenOf(s)' = WrittenOf(s)
<1>1. ASSUME NEW k \in Key, NEW b \in Key, NEW m \in Mint, OpenVault(k, m, b)
      PROVE  WrittenOf(s)' = WrittenOf(s)
  BY <1>1, OpenVaultWritten
<1>2. ASSUME NEW k \in Key, NEW id \in VaultId, NEW p \in PoolAccount,
             NEW n \in 1..MaxU64, DepositCollateral(k, id, p, n)
      PROVE  WrittenOf(s)' = WrittenOf(s)
  BY <1>2, DepositCollateralWritten
<1>3. ASSUME NEW k \in Key, NEW d \in Key, NEW id \in VaultId, NEW r \in Series,
             NEW n \in 1..MaxU64, MintOtoken(k, id, r, d, n)
      PROVE  WrittenOf(s)' = WrittenOf(s)
  <2>1. r # s
    BY <1>3
  <2> QED
    BY <1>3, <2>1, MintOtokenOthers
<1>4. ASSUME NEW k \in Key, NEW v \in VaultKey, NEW p \in PoolAccount,
             SettleVault(k, v, p)
      PROVE  WrittenOf(s)' = WrittenOf(s)
  BY <1>4, CloseVaultWritten DEF SettleVault
<1>5. ASSUME NEW k \in Key, NEW id \in VaultId, NEW p \in PoolAccount,
             EmergencyWithdrawVault(k, id, p)
      PROVE  WrittenOf(s)' = WrittenOf(s)
  <2>1. <<k, id>> \in VaultKey
    BY DEF VaultKey
  <2> QED
    BY <1>5, <2>1, CloseVaultWritten DEF EmergencyWithdrawVault, CanEmergencyWithdraw
<1>6. CASE vault' = vault
  BY <1>6 DEF WrittenOf, Writers, Shorts, Wrote, Exists
<1>7. \/ vault' = vault
      \/ \E k, b \in Key, m \in Mint : OpenVault(k, m, b)
      \/ \E k \in Key, id \in VaultId, p \in PoolAccount, n \in 1..MaxU64 :
           DepositCollateral(k, id, p, n)
      \/ \E k, d \in Key, id \in VaultId, r \in Series, n \in 1..MaxU64 :
           MintOtoken(k, id, r, d, n)
      \/ \E k \in Key, v \in VaultKey, p \in PoolAccount : SettleVault(k, v, p)
      \/ \E k \in Key, id \in VaultId, p \in PoolAccount :
           EmergencyWithdrawVault(k, id, p)
  BY VaultWriters
<1> QED
  BY <1>1, <1>2, <1>3, <1>4, <1>5, <1>6, <1>7

(***************************************************************************)
(* The supply of a series.                                                 *)
(***************************************************************************)
LEMMA MintOtokenSupply ==
  ASSUME TypeOK, NEW k \in Key, NEW id \in VaultId, NEW s \in Series,
         NEW d \in Key, NEW n \in 1..MaxU64, MintOtoken(k, id, s, d, n)
  PROVE  Supply(s)' = Supply(s) + n
<1>1. Summable(balance[s], Account) /\ Supply(s) \in Nat
  BY LedgerSummable, SupplyIsNat
<1>2. balance[s] \in [Account -> Nat] /\ d \in Account /\ n \in Nat
  BY AmountType DEF TypeOK, Account
<1>3. balance'[s] = [balance[s] EXCEPT ![d] = @ + n]
  BY DEF MintOtoken, Minted, TypeOK
<1>4. balance'[s][d] = balance[s][d] + n /\ balance[s][d] \in Nat
  BY <1>2, <1>3
<1>5. \A x \in Account \ {d} : balance'[s][x] = balance[s][x]
  BY <1>2, <1>3
<1>6. Total(balance'[s], Account)
        = Total(balance[s], Account) - balance[s][d] + balance'[s][d]
  BY <1>1, <1>2, <1>4, <1>5, TotalChanged
<1> QED
  BY <1>1, <1>2, <1>4, <1>6 DEF Supply

LEMMA RedeemSupply ==
  ASSUME TypeOK, NEW k \in Key, NEW s \in Series, NEW p \in PoolAccount,
         NEW n \in 1..MaxU64, Redeem(k, s, p, n)
  PROVE  /\ Supply(s)' = Supply(s) - n
         /\ redeemed'[s] = redeemed[s] + n
<1>1. Summable(balance[s], Account) /\ Supply(s) \in Nat
  BY LedgerSummable, SupplyIsNat
<1>2. balance[s] \in [Account -> Nat] /\ k \in Account /\ n \in Nat
      /\ balance[s][k] >= n
  BY AmountType DEF TypeOK, Account, Redeem, CanRedeem, CanBurn
<1>3. balance'[s] = [balance[s] EXCEPT ![k] = @ - n]
  <2>1. Terms[s].collateral_mint # s
    BY TermsType, ControllerAssumption
  <2> QED
    BY <2>1 DEF Redeem, Burned, TypeOK
<1>4. balance'[s][k] = balance[s][k] - n /\ balance'[s][k] \in Nat
  BY <1>2, <1>3
<1>5. \A x \in Account \ {k} : balance'[s][x] = balance[s][x]
  BY <1>2, <1>3
<1>6. Total(balance'[s], Account)
        = Total(balance[s], Account) - balance[s][k] + balance'[s][k]
  BY <1>1, <1>2, <1>4, <1>5, TotalChanged
<1>7. Supply(s)' = Supply(s) - n
  BY <1>1, <1>2, <1>4, <1>6 DEF Supply
<1>8. redeemed'[s] = redeemed[s] + n
  BY DEF Redeem, TypeOK
<1> QED
  BY <1>7, <1>8

LEMMA TransferTokensSupply ==
  ASSUME TypeOK, NEW s \in Series, NEW from \in Key, NEW to \in Account,
         NEW n \in 1..MaxU64, TransferTokens(s, from, to, n)
  PROVE  Supply(s)' = Supply(s)
<1>1. Summable(balance[s], Account)
  BY LedgerSummable
<1>2. balance[s] \in [Account -> Nat] /\ from \in Account /\ n \in Nat
      /\ from # to /\ balance[s][from] >= n
  BY AmountType DEF TypeOK, Account, TransferTokens, CanTransfer
<1>3. Fee(s) = 0
  BY ControllerAssumption DEF Fee, TypeOK
<1>4. balance'[s] = [balance[s] EXCEPT ![from] = @ - n, ![to] = @ + n]
  BY <1>2, <1>3 DEF TransferTokens, TransferredLess, TypeOK
<1>5. /\ balance'[s][from] = balance[s][from] - n /\ balance'[s][from] \in Nat
      /\ balance'[s][to] = balance[s][to] + n /\ balance'[s][to] \in Nat
      /\ balance[s][from] \in Nat /\ balance[s][to] \in Nat
  BY <1>2, <1>4
<1>6. \A x \in Account \ {from, to} : balance'[s][x] = balance[s][x]
  BY <1>2, <1>4
<1>7. Total(balance'[s], Account)
        = Total(balance[s], Account) - balance[s][from] - balance[s][to]
            + balance'[s][from] + balance'[s][to]
  BY <1>1, <1>2, <1>5, <1>6, TotalMoved
<1>8. Total(balance[s], Account) \in Nat
  BY <1>1, TotalIsNat
<1> QED
  BY <1>2, <1>5, <1>7, <1>8 DEF Supply

\* The instructions that write a token account.
LEMMA LedgerWriters ==
  ASSUME [Next]_vars
  PROVE  \/ balance' = balance /\ redeemed' = redeemed /\ paid' = paid
         \/ \E k \in Key, id \in VaultId, p \in PoolAccount, n \in 1..MaxU64 :
              DepositCollateral(k, id, p, n)
         \/ \E k, d \in Key, id \in VaultId, r \in Series, n \in 1..MaxU64 :
              MintOtoken(k, id, r, d, n)
         \/ \E k \in Key, v \in VaultKey, p \in PoolAccount : SettleVault(k, v, p)
         \/ \E k \in Key, id \in VaultId, p \in PoolAccount :
              EmergencyWithdrawVault(k, id, p)
         \/ \E k \in Key, r \in Series, p \in PoolAccount, n \in 1..MaxU64 :
              Redeem(k, r, p, n)
         \/ \E t \in Transferable, from \in Key, to \in Account, n \in 1..MaxU64 :
              TransferTokens(t, from, to, n)
  BY DEF Next, AdminNext, OwnerNext, MintNext, HolderNext, SeriesNext, ChainNext, vars,
     history, Initialize, InitializeCounter, SetPartialPauser,
     SetPartiallyPaused, SetFullyPaused, CreateOTokenInfo, SetExpiryPrice,
     WhitelistOtoken, FinalizeOraclePrice, OpenVault, TurnFeeOn, Tick

\* The instructions that write the ledger of an oToken or what was redeemed.
LEMMA SupplyWriters ==
  ASSUME TypeOK, [Next]_vars, NEW s \in Series
  PROVE  \/ balance'[s] = balance[s] /\ redeemed'[s] = redeemed[s]
         \/ \E k, d \in Key, id \in VaultId, n \in 1..MaxU64 :
              MintOtoken(k, id, s, d, n)
         \/ \E k \in Key, p \in PoolAccount, n \in 1..MaxU64 : Redeem(k, s, p, n)
         \/ /\ redeemed' = redeemed
            /\ \E from \in Key, to \in Account, n \in 1..MaxU64 :
                 TransferTokens(s, from, to, n)
<1>0. s \notin Mint
  BY ControllerAssumption
<1> DEFINE Same == balance'[s] = balance[s] /\ redeemed'[s] = redeemed[s]
<1>1. ASSUME NEW k \in Key, NEW id \in VaultId, NEW p \in PoolAccount,
             NEW n \in 1..MaxU64, DepositCollateral(k, id, p, n)
      PROVE  Same
  <2>1. <<k, id>> \in VaultKey /\ vault[<<k, id>>].collateral_mint \in Mint
    BY <1>1, VaultNotNoAccount DEF DepositCollateral, VaultKey, Vault
  <2> QED
    BY <1>0, <1>1, <2>1 DEF DepositCollateral, TypeOK, history
<1>2. ASSUME NEW k \in Key, NEW v \in VaultKey, NEW p \in PoolAccount,
             SettleVault(k, v, p)
      PROVE  Same
  <2>1. vault[v].collateral_mint \in Mint
    BY <1>2, VaultNotNoAccount DEF SettleVault, Vault
  <2> QED
    BY <1>0, <1>2, <2>1 DEF SettleVault, TypeOK
<1>3. ASSUME NEW k \in Key, NEW id \in VaultId, NEW p \in PoolAccount,
             EmergencyWithdrawVault(k, id, p)
      PROVE  Same
  <2>1. <<k, id>> \in VaultKey /\ vault[<<k, id>>].collateral_mint \in Mint
    BY <1>3, VaultNotNoAccount
    DEF EmergencyWithdrawVault, CanEmergencyWithdraw, VaultKey, Vault
  <2> QED
    BY <1>0, <1>3, <2>1 DEF EmergencyWithdrawVault, TypeOK
<1>4. ASSUME NEW k \in Key, NEW d \in Key, NEW id \in VaultId, NEW r \in Series,
             NEW n \in 1..MaxU64, r # s, MintOtoken(k, id, r, d, n)
      PROVE  Same
  BY <1>4 DEF MintOtoken, TypeOK, history
<1>5. ASSUME NEW k \in Key, NEW r \in Series, NEW p \in PoolAccount,
             NEW n \in 1..MaxU64, r # s, Redeem(k, r, p, n)
      PROVE  Same
  <2>1. Terms[r].collateral_mint # s
    BY <1>0, TermsType
  <2> QED
    BY <1>5, <2>1 DEF Redeem, TypeOK
<1>6. ASSUME NEW t \in Transferable, NEW from \in Key, NEW to \in Account,
             NEW n \in 1..MaxU64, TransferTokens(t, from, to, n)
      PROVE  redeemed' = redeemed /\ (t # s => Same)
  BY <1>6 DEF TransferTokens, TypeOK, history
<1>7. \/ balance' = balance /\ redeemed' = redeemed
      \/ \E k \in Key, id \in VaultId, p \in PoolAccount, n \in 1..MaxU64 :
           DepositCollateral(k, id, p, n)
      \/ \E k, d \in Key, id \in VaultId, r \in Series, n \in 1..MaxU64 :
           MintOtoken(k, id, r, d, n)
      \/ \E k \in Key, v \in VaultKey, p \in PoolAccount : SettleVault(k, v, p)
      \/ \E k \in Key, id \in VaultId, p \in PoolAccount :
           EmergencyWithdrawVault(k, id, p)
      \/ \E k \in Key, r \in Series, p \in PoolAccount, n \in 1..MaxU64 :
           Redeem(k, r, p, n)
      \/ \E t \in Transferable, from \in Key, to \in Account, n \in 1..MaxU64 :
           TransferTokens(t, from, to, n)
  BY LedgerWriters
<1> QED
  BY <1>1, <1>2, <1>3, <1>4, <1>5, <1>6, <1>7

\* A step of the controller moves what is in circulation or redeemed by what
\* it writes into vaults.
LEMMA SupplyDrift ==
  ASSUME TypeOK, Collateralised, [Next]_vars, NEW s \in Series
  PROVE  SupplyOf(s)' + WrittenOf(s) = SupplyOf(s) + WrittenOf(s)'
<1>0. Supply(s) \in Nat /\ redeemed[s] \in Nat /\ WrittenOf(s) \in Nat
  BY SupplyIsNat
<1>1. ASSUME NEW k \in Key, NEW d \in Key, NEW id \in VaultId, NEW n \in 1..MaxU64,
             MintOtoken(k, id, s, d, n)
      PROVE  SupplyOf(s)' + WrittenOf(s) = SupplyOf(s) + WrittenOf(s)'
  <2>1. WrittenOf(s)' = WrittenOf(s) + n /\ Supply(s)' = Supply(s) + n
    BY <1>1, MintOtokenWritten, MintOtokenSupply
  <2>2. redeemed'[s] = redeemed[s] /\ n \in Nat
    BY <1>1, AmountType DEF MintOtoken, history
  <2> QED
    BY <1>0, <2>1, <2>2 DEF SupplyOf
<1>2. CASE ~ \E k, d \in Key, id \in VaultId, n \in 1..MaxU64 :
               MintOtoken(k, id, s, d, n)
  <2>0. WrittenOf(s)' = WrittenOf(s)
    BY <1>2, WrittenFollows
  <2>1. ASSUME NEW k \in Key, NEW p \in PoolAccount, NEW n \in 1..MaxU64,
               Redeem(k, s, p, n)
        PROVE  SupplyOf(s)' = SupplyOf(s)
    <3>1. Supply(s)' = Supply(s) - n /\ redeemed'[s] = redeemed[s] + n /\ n \in Nat
      BY <2>1, RedeemSupply, AmountType
    <3> QED
      BY <1>0, <3>1 DEF SupplyOf
  <2>2. ASSUME redeemed' = redeemed, NEW from \in Key, NEW to \in Account,
               NEW n \in 1..MaxU64, TransferTokens(s, from, to, n)
        PROVE  SupplyOf(s)' = SupplyOf(s)
    BY <2>2, TransferTokensSupply DEF SupplyOf
  <2>3. ASSUME balance'[s] = balance[s], redeemed'[s] = redeemed[s]
        PROVE  SupplyOf(s)' = SupplyOf(s)
    <3>1. Total(balance'[s], Account) = Total(balance[s], Account)
      BY <2>3
    <3>2. Supply(s)' = Supply(s)
      BY <3>1 DEF Supply
    <3> QED
      BY <2>3, <3>2 DEF SupplyOf
  <2>4. \/ balance'[s] = balance[s] /\ redeemed'[s] = redeemed[s]
        \/ \E k \in Key, p \in PoolAccount, n \in 1..MaxU64 : Redeem(k, s, p, n)
        \/ /\ redeemed' = redeemed
           /\ \E from \in Key, to \in Account, n \in 1..MaxU64 :
                TransferTokens(s, from, to, n)
    BY <1>2, SupplyWriters
  <2>5. SupplyOf(s)' = SupplyOf(s)
    BY <2>1, <2>2, <2>3, <2>4
  <2> QED
    BY <1>0, <2>0, <2>5
<1> QED
  BY <1>1, <1>2

LEMMA SuppliesTyped ==
  TypeOK => \A s \in Series : SupplyOf(s) \in Nat /\ WrittenOf(s) \in Nat
  BY SupplyIsNat DEF SupplyOf

LEMMA SuppliesTypedNext ==
  TypeOK' => (\A s \in Series : SupplyOf(s) \in Nat /\ WrittenOf(s) \in Nat)'
  BY SuppliesTyped, PTL

LEMMA NextAccounted ==
  TypeOK /\ Collateralised /\ SupplyAccounted /\ [Next]_vars => SupplyAccounted'
<1> SUFFICES ASSUME TypeOK, Collateralised, SupplyAccounted, [Next]_vars,
                    NEW s \in Series
             PROVE  SupplyOf(s)' = WrittenOf(s)'
  BY DEF SupplyAccounted, SupplyOf, WrittenOf, Shorts, Writers
<1>1. SupplyOf(s) = WrittenOf(s)
  BY AccountedByParts
<1>2. SupplyOf(s) \in Nat /\ SupplyOf(s)' \in Nat /\ WrittenOf(s)' \in Nat
  BY NextTypeOK, SuppliesTyped, SuppliesTypedNext
<1> QED
  BY <1>1, <1>2, SupplyDrift

LEMMA InitAccounted == Init => SupplyAccounted
<1> SUFFICES ASSUME Init, NEW s \in Series PROVE SupplyOf(s) = WrittenOf(s)
  BY AccountedByParts
<1>1. \A x \in Account : balance[s][x] = 0
  BY ControllerAssumption DEF Init
<1>2. Units(balance[s], Account) = {}
  BY <1>1 DEF Units
<1>3. Supply(s) = 0
  BY <1>2, FS_EmptySet DEF Supply, Total
<1>4. Writers(s) = {}
  BY DEF Writers, Wrote, Exists, Init
<1>5. WrittenOf(s) = 0
  BY <1>4, TotalOfNothing DEF WrittenOf
<1>6. redeemed[s] = 0
  BY DEF Init
<1> QED
  BY <1>3, <1>5, <1>6 DEF SupplyOf

\* Every oToken in circulation or redeemed was written by a vault.
THEOREM SupplyTheorem == Spec => []SupplyAccounted
<1>1. Init => SupplyAccounted
  BY InitAccounted
<1>2. TypeOK /\ Collateralised /\ SupplyAccounted /\ [Next]_vars => SupplyAccounted'
  BY NextAccounted
<1> QED
  BY <1>1, <1>2, Typing, CollateralTheorem, PTL DEF Spec

\* oTokens appear before the expiry of their series and disappear only after
\* it has a price.
LEMMA SupplyTimes ==
  ASSUME TypeOK, [Next]_vars, NEW s \in Series
  PROVE  /\ Supply(s)' > Supply(s) => now < Terms[s].expiry
         /\ Supply(s)' < Supply(s) => now >= Terms[s].expiry /\ Priced(s)
<1> DEFINE Timely ==
      /\ Supply(s)' > Supply(s) => now < Terms[s].expiry
      /\ Supply(s)' < Supply(s) => now >= Terms[s].expiry /\ Priced(s)
<1>0. Supply(s) \in Nat
  BY SupplyIsNat
<1>1. ASSUME NEW k \in Key, NEW d \in Key, NEW id \in VaultId, NEW n \in 1..MaxU64,
             MintOtoken(k, id, s, d, n)
      PROVE  Timely
  <2>1. Supply(s)' = Supply(s) + n /\ n \in Nat
    BY <1>1, MintOtokenSupply, AmountType
  <2>2. now < Terms[s].expiry
    BY <1>1 DEF MintOtoken, CanMint
  <2> QED
    BY <1>0, <2>1, <2>2
<1>2. ASSUME NEW k \in Key, NEW p \in PoolAccount, NEW n \in 1..MaxU64,
             Redeem(k, s, p, n)
      PROVE  Timely
  <2>1. Supply(s)' = Supply(s) - n /\ n \in Nat /\ n >= 1
    BY <1>2, RedeemSupply, AmountType
  <2>2. now >= Terms[s].expiry /\ Priced(s)
    BY <1>2 DEF Redeem, CanRedeem, CanSettleSeries
  <2> QED
    BY <1>0, <2>1, <2>2
<1>3. CASE Supply(s)' = Supply(s)
  BY <1>0, <1>3
<1>4. ASSUME NEW from \in Key, NEW to \in Account, NEW n \in 1..MaxU64,
             TransferTokens(s, from, to, n)
      PROVE  Supply(s)' = Supply(s)
  BY <1>4, TransferTokensSupply
<1>5. CASE balance'[s] = balance[s]
  <2>1. Supply(s)' = Supply(s)
    BY <1>5 DEF Supply
  <2> QED
    BY <1>3, <2>1
<1> QED
  BY <1>1, <1>2, <1>3, <1>4, <1>5, SupplyWriters

THEOREM SupplyTimeTheorem == Spec => SupplyFollowsExpiry
<1>1. TypeOK /\ [Next]_vars =>
        [\A s \in Series :
           /\ Supply(s)' > Supply(s) => now < Terms[s].expiry
           /\ Supply(s)' < Supply(s) => now >= Terms[s].expiry /\ Priced(s)]_vars
  BY SupplyTimes
<1> QED
  BY <1>1, Typing, PTL DEF Spec, SupplyFollowsExpiry

(***************************************************************************)
(* The pool of a mint.  The bound on it is inductive together with what    *)
(* closed_by records: a vault marked by an instruction is closed, and one  *)
(* that settle_vault closed was short of a priced series.                  *)
(***************************************************************************)
ClosedRecorded ==
  \A v \in VaultKey :
    /\ closed_by[v] # "none" => Exists(v) /\ vault[v].settled
    /\ closed_by[v] = "settle_vault" =>
         LET s == vault[v].otoken_mint
             n == vault[v].short_amount
         IN /\ s \in Series /\ n > 0 /\ Priced(s)
            /\ PayoutComputable(Terms[s], expiry_price[s], n)

\* The four sums and the sets they range over.
Collaterals       == [v \in VaultKey |-> vault[v].collateral_amount]
Payouts           == [v \in VaultKey |-> VaultPayout(v)]
OpenVaults(m)     == {v \in VaultKey : Holds(v, m) /\ Open(v)}
SettledVaults(m)  == {v \in VaultKey : Holds(v, m) /\ closed_by[v] = "settle_vault"}
PaidTotal(m)      == Total(paid, SeriesOf(m))

Backs(m) == PoolTotal(m) + PaidTotal(m) >= OpenCollateral(m) + Reserved(m)

LEMMA SumsNamed ==
  ASSUME NEW m
  PROVE  /\ OpenCollateral(m) = Total(Collaterals, OpenVaults(m))
         /\ Reserved(m) = Total(Payouts, SettledVaults(m))
<1>1. {v \in VaultsOf(m) : Open(v)} = OpenVaults(m)
  BY DEF VaultsOf, OpenVaults
<1>2. {v \in VaultsOf(m) : closed_by[v] = "settle_vault"} = SettledVaults(m)
  BY DEF VaultsOf, SettledVaults
<1> QED
  BY <1>1, <1>2 DEF OpenCollateral, Reserved, Collaterals, Payouts

LEMMA SumsNamedNext ==
  ASSUME NEW m
  PROVE  /\ OpenCollateral(m)' = Total(Collaterals', OpenVaults(m)')
         /\ Reserved(m)' = Total(Payouts', SettledVaults(m)')
<1>1. {v \in VaultsOf(m)' : Open(v)'} = OpenVaults(m)'
  BY DEF VaultsOf, OpenVaults
<1>2. {v \in VaultsOf(m)' : closed_by'[v] = "settle_vault"} = SettledVaults(m)'
  BY DEF VaultsOf, SettledVaults
<1> QED
  BY <1>1, <1>2 DEF OpenCollateral, Reserved, Collaterals, Payouts

LEMMA CollateralsSummable ==
  ASSUME TypeOK, NEW m \in Mint
  PROVE  Summable(Collaterals, OpenVaults(m))
<1>1. IsFiniteSet(OpenVaults(m))
  BY VaultKeyFinite, FS_Subset DEF OpenVaults
<1>2. ASSUME NEW v \in OpenVaults(m) PROVE Collaterals[v] \in Nat
  <2>1. v \in VaultKey /\ vault[v] \in Vault
    BY VaultNotNoAccount DEF OpenVaults, Open
  <2> QED
    BY <2>1, AmountType DEF Collaterals, Vault
<1> QED
  BY <1>1, <1>2 DEF Summable

\* A vault that settle_vault closed forfeited a natural number.
LEMMA SettledPayout ==
  ASSUME TypeOK, ClosedRecorded, NEW v \in VaultKey, closed_by[v] = "settle_vault"
  PROVE  VaultPayout(v) \in Nat
<1> DEFINE s == vault[v].otoken_mint
           n == vault[v].short_amount
<1>1. /\ s \in Series /\ n > 0 /\ Priced(s) /\ Exists(v)
      /\ PayoutComputable(Terms[s], expiry_price[s], n)
  BY DEF ClosedRecorded
<1>2. n \in Nat
  BY <1>1, VaultNotNoAccount, AmountType DEF Vault
<1>3. PayoutOf(s, n) \in Nat
  BY <1>1, <1>2, PayoutIsNat
<1> QED
  BY <1>1, <1>3 DEF VaultPayout, Short

LEMMA PayoutsSummable ==
  ASSUME TypeOK, ClosedRecorded, NEW m \in Mint
  PROVE  Summable(Payouts, SettledVaults(m))
<1>1. IsFiniteSet(SettledVaults(m))
  BY VaultKeyFinite, FS_Subset DEF SettledVaults
<1>2. ASSUME NEW v \in SettledVaults(m) PROVE Payouts[v] \in Nat
  BY SettledPayout DEF SettledVaults, Payouts
<1> QED
  BY <1>1, <1>2 DEF Summable

LEMMA PoolSummable ==
  ASSUME TypeOK, NEW m \in Mint
  PROVE  /\ Summable(balance[m], PoolAccountsOf(m))
         /\ PoolAccountsOf(m) \subseteq Account
         /\ balance[m] \in [Account -> Nat]
<1>1. balance[m] \in [Account -> Nat]
  BY DEF TypeOK
<1>2. IsFiniteSet(PoolAccountsOf(m))
  BY ControllerAssumption, FS_Subset DEF PoolAccountsOf
<1> QED
  BY <1>1, <1>2 DEF Summable, PoolAccountsOf, Account

LEMMA PaidSummable ==
  ASSUME TypeOK, NEW m \in Mint
  PROVE  Summable(paid, SeriesOf(m))
<1>1. IsFiniteSet(SeriesOf(m))
  BY ControllerAssumption, FS_Subset DEF SeriesOf
<1> QED
  BY <1>1 DEF Summable, SeriesOf, TypeOK

LEMMA PoolSumsNat ==
  ASSUME TypeOK, ClosedRecorded, NEW m \in Mint
  PROVE  /\ PoolTotal(m) \in Nat /\ PaidTotal(m) \in Nat
         /\ OpenCollateral(m) \in Nat /\ Reserved(m) \in Nat
  BY PoolSummable, PaidSummable, CollateralsSummable, PayoutsSummable, SumsNamed,
     TotalIsNat DEF PoolTotal, PaidTotal

(***************************************************************************)
(* How the sums move.                                                      *)
(***************************************************************************)
\* A payout leaves a pool account for a wallet.
LEMMA PoolPaysOut ==
  ASSUME TypeOK, NEW m \in Mint, NEW p \in PoolAccount, NEW to \in Key, NEW n \in Nat,
         CanPayOut(m, p, n), balance'[m] = PaidOut(m, p, to, n)
  PROVE  PoolTotal(m)' = PoolTotal(m) - n
<1> DEFINE P == PoolAccountsOf(m)
<1>1. /\ Summable(balance[m], P) /\ P \subseteq Account /\ balance[m] \in [Account -> Nat]
  BY PoolSummable
<1>2. p \in P /\ p \in Account /\ to \in Account /\ to \notin P /\ balance[m][p] >= n
  BY ControllerAssumption DEF CanPayOut, CanTransfer, PoolAccountsOf, Account
<1>3. balance'[m][p] = balance[m][p] - n /\ balance[m][p] \in Nat
      /\ balance'[m][p] \in Nat
  BY <1>1, <1>2 DEF PaidOut, TransferredLess
<1>4. \A x \in P \ {p} : balance'[m][x] = balance[m][x]
  BY <1>1, <1>2 DEF PaidOut, TransferredLess
<1>5. Total(balance'[m], P) = Total(balance[m], P) - balance[m][p] + balance'[m][p]
  BY <1>1, <1>2, <1>3, <1>4, TotalChanged
<1>6. Total(balance[m], P) \in Nat
  BY <1>1, TotalIsNat
<1>7. Total(balance'[m], P) = Total(balance[m], P) - n
  BY <1>3, <1>5, <1>6
<1> QED
  BY <1>7 DEF PoolTotal, PoolAccountsOf

\* A pool account is credited by a wallet.
LEMMA PoolReceives ==
  ASSUME TypeOK, NEW m \in Mint, NEW p \in PoolAccountsOf(m), NEW from \in Key,
         NEW n \in Nat, NEW fee \in Nat, n >= fee,
         balance'[m] = TransferredLess(balance[m], from, p, n, fee)
  PROVE  PoolTotal(m)' = PoolTotal(m) + (n - fee)
<1> DEFINE P == PoolAccountsOf(m)
<1>1. /\ Summable(balance[m], P) /\ P \subseteq Account /\ balance[m] \in [Account -> Nat]
  BY PoolSummable
<1>2. p \in Account /\ from \in Account /\ from \notin P /\ from # p
  BY <1>1, ControllerAssumption DEF PoolAccountsOf, Account
<1>3. balance'[m][p] = balance[m][p] + (n - fee) /\ balance[m][p] \in Nat
      /\ balance'[m][p] \in Nat
  BY <1>1, <1>2 DEF TransferredLess
<1>4. \A x \in P \ {p} : balance'[m][x] = balance[m][x]
  BY <1>1, <1>2 DEF TransferredLess
<1>5. Total(balance'[m], P) = Total(balance[m], P) - balance[m][p] + balance'[m][p]
  BY <1>1, <1>2, <1>3, <1>4, TotalChanged
<1>6. Total(balance[m], P) \in Nat
  BY <1>1, TotalIsNat
<1>7. Total(balance'[m], P) = Total(balance[m], P) + (n - fee)
  BY <1>3, <1>5, <1>6
<1> QED
  BY <1>7 DEF PoolTotal, PoolAccountsOf

LEMMA PoolSame ==
  ASSUME NEW m \in Mint, \A p \in PoolAccountsOf(m) : balance'[m][p] = balance[m][p]
  PROVE  PoolTotal(m)' = PoolTotal(m)
<1>1. Total(balance[m], PoolAccountsOf(m)) = Total(balance'[m], PoolAccountsOf(m))
  BY TotalSame
<1> QED
  BY <1>1 DEF PoolTotal, PoolAccountsOf

\* The collateral of the open vaults of a mint stays.
LEMMA OpenSame ==
  ASSUME NEW m \in Mint,
         \A v \in VaultKey :
           /\ (Holds(v, m) /\ Open(v))' <=> Holds(v, m) /\ Open(v)
           /\ Holds(v, m) /\ Open(v) =>
                vault'[v].collateral_amount = vault[v].collateral_amount
  PROVE  OpenCollateral(m)' = OpenCollateral(m)
<1>1. OpenVaults(m)' = OpenVaults(m)
  BY DEF OpenVaults
<1>2. \A v \in OpenVaults(m) : Collaterals[v] = Collaterals'[v]
  BY DEF OpenVaults, Collaterals
<1>3. Total(Collaterals, OpenVaults(m)) = Total(Collaterals', OpenVaults(m))
  BY <1>2, TotalSame
<1>4. OpenCollateral(m)' = Total(Collaterals', OpenVaults(m)')
  BY SumsNamedNext
<1> QED
  BY <1>1, <1>3, <1>4, SumsNamed

\* An open vault gets n more collateral.
LEMMA OpenRaised ==
  ASSUME TypeOK, NEW m \in Mint, NEW w \in VaultKey, NEW n \in Nat,
         \A v \in VaultKey : v # w => vault'[v] = vault[v],
         Holds(w, m) /\ Open(w), (Holds(w, m) /\ Open(w))',
         vault'[w].collateral_amount = vault[w].collateral_amount + n
  PROVE  OpenCollateral(m)' = OpenCollateral(m) + n
<1> DEFINE V == OpenVaults(m)
<1>1. Summable(Collaterals, V) /\ w \in V
  BY CollateralsSummable DEF OpenVaults
<1>2. OpenVaults(m)' = V
  <2>1. \A v \in VaultKey :
          v # w => ((Holds(v, m) /\ Open(v))' <=> Holds(v, m) /\ Open(v))
    BY DEF Holds, Open, Exists
  <2> QED
    BY <2>1 DEF OpenVaults
<1>3. Collaterals'[w] = Collaterals[w] + n /\ Collaterals[w] \in Nat
      /\ Collaterals'[w] \in Nat
  <2>1. Collaterals[w] \in Nat
    BY <1>1 DEF Summable
  <2>2. Collaterals'[w] = Collaterals[w] + n
    BY DEF Collaterals
  <2> QED
    BY <2>1, <2>2
<1>4. \A v \in V \ {w} : Collaterals'[v] = Collaterals[v]
  BY DEF Collaterals, OpenVaults
<1>5. Total(Collaterals', V) = Total(Collaterals, V) - Collaterals[w] + Collaterals'[w]
  BY <1>1, <1>3, <1>4, TotalChanged
<1>6. Total(Collaterals, V) \in Nat
  BY <1>1, TotalIsNat
<1>7. OpenCollateral(m)' = Total(Collaterals', OpenVaults(m)')
  BY SumsNamedNext
<1> QED
  BY <1>2, <1>3, <1>5, <1>6, <1>7, SumsNamed

\* A vault without collateral is opened.
LEMMA OpenAdded ==
  ASSUME TypeOK, NEW m \in Mint, NEW w \in VaultKey,
         \A v \in VaultKey : v # w => vault'[v] = vault[v],
         ~Exists(w), (Holds(w, m) /\ Open(w))',
         NEW n \in Nat, vault'[w].collateral_amount = n
  PROVE  OpenCollateral(m)' = OpenCollateral(m) + n
<1> DEFINE V == OpenVaults(m)
<1>1. Summable(Collaterals, V) /\ w \notin V
  BY CollateralsSummable DEF OpenVaults, Open
<1>2. OpenVaults(m)' = V \cup {w}
  <2>1. \A v \in VaultKey :
          v # w => ((Holds(v, m) /\ Open(v))' <=> Holds(v, m) /\ Open(v))
    BY DEF Holds, Open, Exists
  <2> QED
    BY <1>1, <2>1 DEF OpenVaults
<1>3. Collaterals'[w] = n
  BY DEF Collaterals
<1>4. \A v \in V : Collaterals'[v] = Collaterals[v]
  BY <1>1 DEF Collaterals, OpenVaults
<1>5. Summable(Collaterals', V)
  BY <1>1, <1>4 DEF Summable
<1>6. Total(Collaterals', V \cup {w}) = Total(Collaterals', V) + n
  BY <1>1, <1>3, <1>5, TotalAdded
<1>7. Total(Collaterals', V) = Total(Collaterals, V)
  BY <1>4, TotalSame
<1>8. Total(Collaterals, V) \in Nat
  BY <1>1, TotalIsNat
<1>9. OpenCollateral(m)' = Total(Collaterals', OpenVaults(m)')
  BY SumsNamedNext
<1> QED
  BY <1>2, <1>6, <1>7, <1>8, <1>9, SumsNamed

\* An open vault is closed.
LEMMA OpenClosed ==
  ASSUME TypeOK, NEW m \in Mint, NEW w \in VaultKey,
         \A v \in VaultKey : v # w => vault'[v] = vault[v],
         Holds(w, m) /\ Open(w), ~Open(w)'
  PROVE  OpenCollateral(m)' = OpenCollateral(m) - vault[w].collateral_amount
<1> DEFINE V == OpenVaults(m)
<1>1. Summable(Collaterals, V) /\ w \in V
  BY CollateralsSummable DEF OpenVaults
<1>2. OpenVaults(m)' = V \ {w}
  <2>1. \A v \in VaultKey :
          v # w => ((Holds(v, m) /\ Open(v))' <=> Holds(v, m) /\ Open(v))
    BY DEF Holds, Open, Exists
  <2> QED
    BY <2>1 DEF OpenVaults
<1>3. \A v \in V \ {w} : Collaterals'[v] = Collaterals[v]
  BY DEF Collaterals, OpenVaults
<1>4. Total(Collaterals, V) = Total(Collaterals, V \ {w}) + Collaterals[w]
  BY <1>1, TotalSplit
<1>5. Summable(Collaterals, V \ {w}) /\ Collaterals[w] \in Nat
  BY <1>1, FS_RemoveElement DEF Summable
<1>6. Total(Collaterals', V \ {w}) = Total(Collaterals, V \ {w})
  BY <1>3, TotalSame
<1>7. Total(Collaterals, V \ {w}) \in Nat
  BY <1>5, TotalIsNat
<1>8. OpenCollateral(m)' = Total(Collaterals', OpenVaults(m)')
  BY SumsNamedNext
<1>9. Collaterals[w] = vault[w].collateral_amount
  BY DEF Collaterals
<1> QED
  BY <1>2, <1>4, <1>5, <1>6, <1>7, <1>8, <1>9, SumsNamed

(***************************************************************************)
(* What settled vaults reserve.                                            *)
(***************************************************************************)
\* The record of a vault that settle_vault closed, and its payout, stay.
LEMMA SettledStays ==
  ASSUME TypeOK, ClosedRecorded, [Next]_vars, NEW v \in VaultKey,
         closed_by[v] = "settle_vault"
  PROVE  vault'[v] = vault[v] /\ VaultPayout(v)' = VaultPayout(v)
<1> DEFINE s == vault[v].otoken_mint
<1>1. Exists(v) /\ vault[v].settled /\ s \in Series /\ Priced(s)
  BY DEF ClosedRecorded
<1>2. vault'[v] = vault[v]
  BY <1>1, ClosedVaultStays
<1>3. expiry_price'[s] = expiry_price[s]
  BY <1>1, ExpiryPriceStays
<1>4. VaultPayout(v)' = VaultPayout(v)
  BY <1>2, <1>3 DEF VaultPayout, Short, Exists, Priced, PayoutOf
<1> QED
  BY <1>2, <1>4

LEMMA ReservedSame ==
  ASSUME TypeOK, ClosedRecorded, [Next]_vars, NEW m \in Mint,
         \A v \in VaultKey :
           (Holds(v, m) /\ closed_by[v] = "settle_vault")' <=>
             Holds(v, m) /\ closed_by[v] = "settle_vault"
  PROVE  Reserved(m)' = Reserved(m)
<1>1. SettledVaults(m)' = SettledVaults(m)
  BY DEF SettledVaults
<1>2. \A v \in SettledVaults(m) : Payouts[v] = Payouts'[v]
  BY SettledStays DEF SettledVaults, Payouts
<1>3. Total(Payouts, SettledVaults(m)) = Total(Payouts', SettledVaults(m))
  BY <1>2, TotalSame
<1> QED
  BY <1>1, <1>3, SumsNamed, SumsNamedNext

\* The instructions other than settle_vault reserve nothing.
LEMMA ReservedKept ==
  ASSUME TypeOK, ClosedRecorded, [Next]_vars, NEW m \in Mint,
         \A v \in VaultKey :
           closed_by'[v] = "settle_vault" <=> closed_by[v] = "settle_vault"
  PROVE  Reserved(m)' = Reserved(m)
<1>1. \A v \in VaultKey :
        closed_by[v] = "settle_vault" => (Holds(v, m)' <=> Holds(v, m))
  BY SettledStays DEF Holds, Exists
<1> QED
  BY <1>1, ReservedSame

\* settle_vault closes an open vault, short of a priced series.
LEMMA SettledVault ==
  ASSUME TypeOK, NEW k \in Key, NEW w \in VaultKey, NEW p \in PoolAccount,
         SettleVault(k, w, p)
  PROVE  LET s == vault[w].otoken_mint
             n == vault[w].short_amount
         IN /\ vault[w] \in Vault /\ Open(w)
            /\ s \in Series /\ n \in Nat /\ n > 0 /\ Priced(s)
            /\ PayoutComputable(Terms[s], expiry_price[s], n)
            /\ PayoutOf(s, n) \in Nat
            /\ vault[w].collateral_amount - PayoutOf(s, n) \in Nat
            /\ expiry_price' = expiry_price
            /\ vault'[w] \in Vault /\ vault'[w].settled
            /\ vault'[w].otoken_mint = s /\ vault'[w].short_amount = n
            /\ vault'[w].collateral_mint = vault[w].collateral_mint
            /\ \A v \in VaultKey : v # w => vault'[v] = vault[v]
            /\ closed_by' = [closed_by EXCEPT ![w] = "settle_vault"]
<1> DEFINE s == vault[w].otoken_mint
           n == vault[w].short_amount
<1>1. vault[w] \in Vault /\ Open(w)
  BY VaultNotNoAccount DEF SettleVault, Open
<1>2. s \in Series /\ n \in Nat /\ n > 0 /\ vault[w].collateral_amount \in Nat
  BY <1>1, AmountType DEF Vault, SettleVault
<1>3. Priced(s) /\ PayoutComputable(Terms[s], expiry_price[s], n)
  BY DEF SettleVault, CanSettleSeries
<1>4. PayoutOf(s, n) \in Nat
  BY <1>2, <1>3, PayoutIsNat
<1>5. vault[w].collateral_amount - PayoutOf(s, n) \in Nat
  BY <1>2, <1>4 DEF SettleVault
<1>6. vault'[w] = [vault[w] EXCEPT !.settled = TRUE]
  BY DEF SettleVault, TypeOK
<1>7. /\ vault'[w] \in Vault /\ vault'[w].settled
      /\ vault'[w].otoken_mint = s /\ vault'[w].short_amount = n
      /\ vault'[w].collateral_mint = vault[w].collateral_mint
  BY <1>1, <1>6, ClosedVault DEF Vault
<1>8. /\ \A v \in VaultKey : v # w => vault'[v] = vault[v]
      /\ closed_by' = [closed_by EXCEPT ![w] = "settle_vault"]
      /\ expiry_price' = expiry_price
  BY DEF SettleVault, TypeOK
<1> QED
  BY <1>1, <1>2, <1>3, <1>4, <1>5, <1>7, <1>8

LEMMA EmergencyVault ==
  ASSUME TypeOK, NEW k \in Key, NEW id \in VaultId, NEW p \in PoolAccount,
         EmergencyWithdrawVault(k, id, p)
  PROVE  LET w == <<k, id>>
         IN /\ w \in VaultKey /\ vault[w] \in Vault /\ Open(w)
            /\ vault'[w] \in Vault /\ vault'[w].settled
            /\ vault'[w].collateral_mint = vault[w].collateral_mint
            /\ \A v \in VaultKey : v # w => vault'[v] = vault[v]
            /\ closed_by' = [closed_by EXCEPT ![w] = "emergency_withdraw_vault"]
<1> DEFINE w == <<k, id>>
<1>1. w \in VaultKey /\ vault[w] \in Vault /\ Open(w)
  BY VaultNotNoAccount DEF EmergencyWithdrawVault, CanEmergencyWithdraw, VaultKey, Open
<1>2. vault'[w] = [vault[w] EXCEPT !.settled = TRUE]
  BY <1>1 DEF EmergencyWithdrawVault, TypeOK
<1>3. /\ vault'[w] \in Vault /\ vault'[w].settled
      /\ vault'[w].collateral_mint = vault[w].collateral_mint
  BY <1>1, <1>2, ClosedVault DEF Vault
<1>4. /\ \A v \in VaultKey : v # w => vault'[v] = vault[v]
      /\ closed_by' = [closed_by EXCEPT ![w] = "emergency_withdraw_vault"]
  BY DEF EmergencyWithdrawVault, TypeOK
<1> QED
  BY <1>1, <1>3, <1>4

\* The instructions that mark a vault closed.
LEMMA Closers ==
  ASSUME [Next]_vars
  PROVE  \/ closed_by' = closed_by
         \/ \E k \in Key, w \in VaultKey, p \in PoolAccount : SettleVault(k, w, p)
         \/ \E k \in Key, id \in VaultId, p \in PoolAccount :
              EmergencyWithdrawVault(k, id, p)
  BY DEF Next, AdminNext, OwnerNext, MintNext, HolderNext, SeriesNext, ChainNext, vars,
     history, Initialize, InitializeCounter, SetPartialPauser,
     SetPartiallyPaused, SetFullyPaused, CreateOTokenInfo, SetExpiryPrice,
     WhitelistOtoken, FinalizeOraclePrice, OpenVault, DepositCollateral, MintOtoken,
     Redeem, TransferTokens, TurnFeeOn, Tick

\* ClosedRecorded at one vault.
RecordOf(v) ==
  /\ closed_by[v] # "none" => Exists(v) /\ vault[v].settled
  /\ closed_by[v] = "settle_vault" =>
       LET s == vault[v].otoken_mint
           n == vault[v].short_amount
       IN /\ s \in Series /\ n > 0 /\ Priced(s)
          /\ PayoutComputable(Terms[s], expiry_price[s], n)

LEMMA RecordStays ==
  ASSUME TypeOK, ClosedRecorded, [Next]_vars, NEW v \in VaultKey,
         closed_by'[v] = closed_by[v]
  PROVE  RecordOf(v)'
<1>1. CASE closed_by[v] = "none"
  BY <1>1 DEF RecordOf
<1>2. CASE closed_by[v] # "none"
  <2>1. Exists(v) /\ vault[v].settled
    BY <1>2 DEF ClosedRecorded
  <2>2. vault'[v] = vault[v]
    BY <2>1, ClosedVaultStays
  <2>3. (closed_by[v] # "none" => Exists(v) /\ vault[v].settled)'
    BY <2>1, <2>2 DEF Exists
  <2>4. PICK s : s = vault[v].otoken_mint
    OBVIOUS
  <2>5. PICK n : n = vault[v].short_amount
    OBVIOUS
  <2>6. ASSUME closed_by[v] = "settle_vault"
        PROVE  /\ s \in Series /\ n > 0 /\ Priced(s)
               /\ PayoutComputable(Terms[s], expiry_price[s], n)
               /\ expiry_price'[s] = expiry_price[s]
    <3>1. /\ s \in Series /\ n > 0 /\ Priced(s)
          /\ PayoutComputable(Terms[s], expiry_price[s], n)
      BY <2>4, <2>5, <2>6 DEF ClosedRecorded
    <3> QED
      BY <3>1, ExpiryPriceStays
  <2>7. vault'[v].otoken_mint = s /\ vault'[v].short_amount = n
    BY <2>2, <2>4, <2>5
  <2> QED
    BY <2>3, <2>6, <2>7 DEF RecordOf, Priced
<1> QED
  BY <1>1, <1>2

LEMMA NextClosedRecorded ==
  TypeOK /\ ClosedRecorded /\ [Next]_vars => ClosedRecorded'
<1> SUFFICES ASSUME TypeOK, ClosedRecorded, [Next]_vars, NEW v \in VaultKey
             PROVE  RecordOf(v)'
  BY DEF ClosedRecorded, RecordOf
<1>1. ASSUME NEW k \in Key, NEW w \in VaultKey, NEW p \in PoolAccount,
             SettleVault(k, w, p)
      PROVE  RecordOf(v)'
  <2>1. CASE v # w
    <3>1. closed_by'[v] = closed_by[v]
      BY <1>1, <2>1, SettledVault DEF TypeOK
    <3> QED
      BY <3>1, RecordStays
  <2>2. CASE v = w
    <3> DEFINE s == vault[w].otoken_mint
               n == vault[w].short_amount
    <3>1. /\ s \in Series /\ n > 0 /\ Priced(s)
          /\ PayoutComputable(Terms[s], expiry_price[s], n)
          /\ expiry_price' = expiry_price
          /\ vault'[w] \in Vault /\ vault'[w].settled
          /\ vault'[w].otoken_mint = s /\ vault'[w].short_amount = n
      BY <1>1, SettledVault
    <3>2. vault'[w] # NoAccount
      BY <3>1, VaultIsAccount
    <3> QED
      BY <2>2, <3>1, <3>2 DEF RecordOf, Exists, Priced
  <2> QED
    BY <2>1, <2>2
<1>2. ASSUME NEW k \in Key, NEW id \in VaultId, NEW p \in PoolAccount,
             EmergencyWithdrawVault(k, id, p)
      PROVE  RecordOf(v)'
  <2> DEFINE w == <<k, id>>
  <2>0. /\ w \in VaultKey /\ vault'[w] \in Vault /\ vault'[w].settled
        /\ closed_by' = [closed_by EXCEPT ![w] = "emergency_withdraw_vault"]
    BY <1>2, EmergencyVault
  <2>1. CASE v # w
    <3>1. closed_by'[v] = closed_by[v]
      BY <2>0, <2>1 DEF TypeOK
    <3> QED
      BY <3>1, RecordStays
  <2>2. CASE v = w
    <3>1. closed_by'[w] = "emergency_withdraw_vault" /\ vault'[w] # NoAccount
      BY <2>0, VaultIsAccount DEF TypeOK
    <3> QED
      BY <2>0, <2>2, <3>1 DEF RecordOf, Exists
  <2> QED
    BY <2>1, <2>2
<1>3. CASE closed_by' = closed_by
  BY <1>3, RecordStays
<1> QED
  BY <1>1, <1>2, <1>3, Closers

(***************************************************************************)
(* The pool after each instruction.                                        *)
(***************************************************************************)
LEMMA PaidSame ==
  ASSUME NEW m, \A s \in SeriesOf(m) : paid'[s] = paid[s]
  PROVE  PaidTotal(m)' = PaidTotal(m)
<1>1. Total(paid, SeriesOf(m)) = Total(paid', SeriesOf(m))
  BY TotalSame
<1> QED
  BY <1>1 DEF PaidTotal, SeriesOf

\* A step that leaves a mint's sums alone.
LEMMA BacksSame ==
  ASSUME NEW m, Backs(m), PoolTotal(m)' = PoolTotal(m), PaidTotal(m)' = PaidTotal(m),
         OpenCollateral(m)' = OpenCollateral(m), Reserved(m)' = Reserved(m)
  PROVE  Backs(m)'
  BY DEF Backs

\* The open vaults of a mint that no step of another mint's vault w concerns.
LEMMA OpenElsewhere ==
  ASSUME NEW m \in Mint, NEW w \in VaultKey,
         \A v \in VaultKey : v # w => vault'[v] = vault[v],
         ~Holds(w, m), ~Holds(w, m)'
  PROVE  OpenCollateral(m)' = OpenCollateral(m)
<1>1. ASSUME NEW v \in VaultKey
      PROVE  /\ (Holds(v, m) /\ Open(v))' <=> Holds(v, m) /\ Open(v)
             /\ Holds(v, m) /\ Open(v) =>
                  vault'[v].collateral_amount = vault[v].collateral_amount
  <2>1. CASE v = w
    BY <2>1
  <2>2. CASE v # w
    BY <2>2 DEF Holds, Open, Exists
  <2> QED
    BY <2>1, <2>2
<1> QED
  BY <1>1, OpenSame

LEMMA OpenVaultBacks ==
  ASSUME TypeOK, ClosedRecorded, [Next]_vars, NEW m \in Mint, Backs(m),
         NEW k \in Key, NEW c \in Mint, NEW b \in Key, OpenVault(k, c, b)
  PROVE  Backs(m)'
<1>0. PICK id : id = next_id[k]
  OBVIOUS
<1> DEFINE w == <<k, id>>
<1>1. next_id[k] \in 0..MaxVaultId /\ next_id[k] + 1 <= MaxVaultId
  BY DEF OpenVault, CanOpen, TypeOK
<1>2. w \in VaultKey
  BY <1>0, <1>1, ControllerAssumption DEF VaultKey, VaultId
<1>3. vault' = [vault EXCEPT ![w] = OpenedVault(c, b)] /\ ~Exists(w)
  BY <1>0 DEF OpenVault
<1>4. /\ vault'[w] = OpenedVault(c, b)
      /\ \A v \in VaultKey : v # w => vault'[v] = vault[v]
  BY <1>2, <1>3 DEF TypeOK
<1>5. OpenedVault(c, b) \in Vault
  BY AmountType DEF OpenedVault, Vault
<1>6. /\ vault'[w] # NoAccount /\ ~vault'[w].settled
      /\ vault'[w].collateral_mint = c /\ vault'[w].collateral_amount = 0
  <2>1. vault'[w] # NoAccount
    BY <1>4, <1>5, VaultIsAccount
  <2>2. OpenedVault(c, b).settled = FALSE
    BY DEF OpenedVault
  <2>3. OpenedVault(c, b).collateral_mint = c /\ OpenedVault(c, b).collateral_amount = 0
    BY DEF OpenedVault
  <2> QED
    BY <1>4, <2>1, <2>2, <2>3
<1>7. OpenCollateral(m)' = OpenCollateral(m)
  <2>1. CASE c = m
    <3>1. (Holds(w, m) /\ Open(w))'
      BY <1>6, <2>1 DEF Holds, Open, Exists
    <3>2. OpenCollateral(m)' = OpenCollateral(m) + 0
      BY <1>2, <1>3, <1>4, <1>6, <3>1, OpenAdded
    <3> QED
      BY <3>2, PoolSumsNat
  <2>2. CASE c # m
    <3>1. ~Holds(w, m) /\ ~Holds(w, m)'
      BY <1>3, <1>6, <2>2 DEF Holds
    <3> QED
      BY <1>2, <1>4, <3>1, OpenElsewhere
  <2> QED
    BY <2>1, <2>2
<1>8. balance' = balance /\ paid' = paid /\ closed_by' = closed_by
  BY DEF OpenVault, history
<1>9. PoolTotal(m)' = PoolTotal(m)
  BY <1>8, PoolSame
<1>10. PaidTotal(m)' = PaidTotal(m)
  BY <1>8, PaidSame
<1>11. Reserved(m)' = Reserved(m)
  BY <1>8, ReservedKept
<1> QED
  BY <1>7, <1>9, <1>10, <1>11, BacksSame

LEMMA DepositCollateralBacks ==
  ASSUME TypeOK, ClosedRecorded, [Next]_vars, NEW m \in Mint, Backs(m),
         NEW k \in Key, NEW id \in VaultId, NEW p \in PoolAccount,
         NEW n \in 1..MaxU64, DepositCollateral(k, id, p, n)
  PROVE  Backs(m)'
<1> DEFINE w == <<k, id>>
<1>1. PICK c : c = vault[w].collateral_mint
  OBVIOUS
<1>2. w \in VaultKey /\ Exists(w) /\ vault[w] \in Vault /\ c \in Mint /\ n \in Nat
  BY <1>1, VaultNotNoAccount, AmountType DEF DepositCollateral, VaultKey, Vault
<1>3. /\ PoolMint[p] = c /\ ~vault[w].settled /\ Fee(c) = 0
      /\ vault[w].collateral_amount + n \in 0..MaxU64
  BY <1>1, <1>2, AmountType DEF DepositCollateral, CanDeposit, DepositFits, Vault
<1>4. vault'[w] = [vault[w] EXCEPT !.collateral_amount = @ + n]
  BY <1>2 DEF DepositCollateral, WithCollateral, TypeOK
<1>5. /\ vault'[w] \in Vault /\ ~vault'[w].settled
      /\ vault'[w].collateral_mint = c
      /\ vault'[w].collateral_amount = vault[w].collateral_amount + n
  BY <1>1, <1>2, <1>3, <1>4 DEF Vault
<1>6. \A v \in VaultKey : v # w => vault'[v] = vault[v]
  BY DEF DepositCollateral, TypeOK
<1>7. balance' = [balance EXCEPT ![c] = TransferredLess(@, k, p, n, 0)]
  BY <1>1, <1>3 DEF DepositCollateral
<1>8. paid' = paid /\ closed_by' = closed_by
  BY DEF DepositCollateral, history
<1>9. PaidTotal(m)' = PaidTotal(m) /\ Reserved(m)' = Reserved(m)
  BY <1>8, PaidSame, ReservedKept
<1>10. CASE m = c
  <2>1. balance'[m] = TransferredLess(balance[m], k, p, n, 0)
    BY <1>7, <1>10 DEF TypeOK
  <2>2. p \in PoolAccountsOf(m)
    BY <1>3, <1>10 DEF PoolAccountsOf
  <2>3. PoolTotal(m)' = PoolTotal(m) + (n - 0)
    BY <1>2, <2>1, <2>2, PoolReceives
  <2>4. Holds(w, m) /\ Open(w) /\ (Holds(w, m) /\ Open(w))'
    BY <1>1, <1>2, <1>3, <1>5, <1>10, VaultIsAccount DEF Holds, Open, Exists
  <2>5. OpenCollateral(m)' = OpenCollateral(m) + n
    BY <1>2, <1>5, <1>6, <2>4, OpenRaised
  <2> QED
    BY <1>2, <1>9, <2>3, <2>5, PoolSumsNat DEF Backs
<1>11. CASE m # c
  <2>1. balance'[m] = balance[m]
    BY <1>7, <1>11 DEF TypeOK
  <2>2. PoolTotal(m)' = PoolTotal(m)
    BY <2>1, PoolSame
  <2>3. ~Holds(w, m) /\ ~Holds(w, m)'
    BY <1>1, <1>5, <1>11 DEF Holds
  <2>4. OpenCollateral(m)' = OpenCollateral(m)
    BY <1>2, <1>6, <2>3, OpenElsewhere
  <2> QED
    BY <1>9, <2>2, <2>4, BacksSame
<1> QED
  BY <1>10, <1>11

LEMMA MintOtokenBacks ==
  ASSUME TypeOK, ClosedRecorded, [Next]_vars, NEW m \in Mint, Backs(m),
         NEW k \in Key, NEW id \in VaultId, NEW s \in Series, NEW d \in Key,
         NEW n \in 1..MaxU64, MintOtoken(k, id, s, d, n)
  PROVE  Backs(m)'
<1> DEFINE w == <<k, id>>
<1>1. /\ w \in VaultKey /\ Exists(w) /\ vault'[w] \in Vault
      /\ vault'[w].collateral_mint = vault[w].collateral_mint
      /\ vault'[w].collateral_amount = vault[w].collateral_amount
      /\ vault'[w].settled = vault[w].settled
      /\ \A v \in VaultKey : v # w => vault'[v] = vault[v]
  BY MintedVault
<1>2. ASSUME NEW v \in VaultKey
      PROVE  /\ (Holds(v, m) /\ Open(v))' <=> Holds(v, m) /\ Open(v)
             /\ Holds(v, m) /\ Open(v) =>
                  vault'[v].collateral_amount = vault[v].collateral_amount
  <2>1. CASE v = w
    BY <1>1, <2>1, VaultIsAccount DEF Holds, Open, Exists
  <2>2. CASE v # w
    BY <1>1, <2>2 DEF Holds, Open, Exists
  <2> QED
    BY <2>1, <2>2
<1>3. OpenCollateral(m)' = OpenCollateral(m)
  BY <1>2, OpenSame
<1>4. balance'[m] = balance[m]
  BY ControllerAssumption DEF MintOtoken, TypeOK
<1>5. PoolTotal(m)' = PoolTotal(m)
  BY <1>4, PoolSame
<1>6. paid' = paid /\ closed_by' = closed_by
  BY DEF MintOtoken, history
<1>7. PaidTotal(m)' = PaidTotal(m) /\ Reserved(m)' = Reserved(m)
  BY <1>6, PaidSame, ReservedKept
<1> QED
  BY <1>3, <1>5, <1>7, BacksSame

\* settle_vault moves a vault's collateral from the open vaults to what it
\* reserves and what it returns.
LEMMA SettleVaultBacks ==
  ASSUME TypeOK, ClosedRecorded, [Next]_vars, NEW m \in Mint, Backs(m),
         NEW k \in Key, NEW w \in VaultKey, NEW p \in PoolAccount,
         SettleVault(k, w, p)
  PROVE  Backs(m)'
<1>1. PICK c : c = vault[w].collateral_mint
  OBVIOUS
<1>2. PICK pay : pay = PayoutOf(vault[w].otoken_mint, vault[w].short_amount)
  OBVIOUS
<1>3. PICK whole : whole = vault[w].collateral_amount
  OBVIOUS
<1>4. /\ vault[w] \in Vault /\ Open(w)
      /\ vault[w].otoken_mint \in Series /\ vault[w].short_amount > 0
      /\ Priced(vault[w].otoken_mint)
      /\ pay \in Nat /\ whole - pay \in Nat
      /\ expiry_price' = expiry_price
      /\ vault'[w] \in Vault /\ vault'[w].settled
      /\ vault'[w].otoken_mint = vault[w].otoken_mint
      /\ vault'[w].short_amount = vault[w].short_amount
      /\ vault'[w].collateral_mint = c
      /\ \A v \in VaultKey : v # w => vault'[v] = vault[v]
      /\ closed_by' = [closed_by EXCEPT ![w] = "settle_vault"]
  BY <1>1, <1>2, <1>3, SettledVault
<1>5. c \in Mint /\ whole \in Nat /\ vault[w].beneficiary \in Key
  BY <1>1, <1>3, <1>4, AmountType DEF Vault
<1>6. Exists(w) /\ ~Open(w)' /\ vault'[w] # NoAccount
  BY <1>4, VaultIsAccount DEF Open
<1>7. paid' = paid
  BY DEF SettleVault
<1>8. PaidTotal(m)' = PaidTotal(m)
  BY <1>7, PaidSame
<1>9. CASE m = c
  <2>1. CanPayOut(m, p, whole - pay)
    BY <1>1, <1>2, <1>3, <1>9 DEF SettleVault
  <2>2. balance'[m] = PaidOut(m, p, vault[w].beneficiary, whole - pay)
    BY <1>1, <1>2, <1>3, <1>5, <1>9 DEF SettleVault, TypeOK
  <2>3. PoolTotal(m)' = PoolTotal(m) - (whole - pay)
    BY <1>4, <1>5, <2>1, <2>2, PoolPaysOut
  <2>4. Holds(w, m)
    BY <1>1, <1>6, <1>9 DEF Holds
  <2>5. OpenCollateral(m)' = OpenCollateral(m) - whole
    BY <1>3, <1>4, <1>6, <2>4, OpenClosed
  <2>6. Reserved(m)' = Reserved(m) + pay
    <3> DEFINE R == SettledVaults(m)
    <3>1. Summable(Payouts, R)
      BY PayoutsSummable
    <3>2. closed_by[w] = "none"
      BY <1>4 DEF ClosedRecorded, Open
    <3>3. w \notin R
      BY <3>2 DEF SettledVaults
    <3>4. SettledVaults(m)' = R \cup {w}
      <4>1. \A v \in VaultKey : v # w => (Holds(v, m)' <=> Holds(v, m))
        BY <1>4 DEF Holds, Exists
      <4>2. \A v \in VaultKey : v # w => closed_by'[v] = closed_by[v]
        BY <1>4 DEF TypeOK
      <4>3. Holds(w, m)' /\ closed_by'[w] = "settle_vault"
        BY <1>4, <1>6, <1>9 DEF Holds, Exists, TypeOK
      <4> QED
        BY <4>1, <4>2, <4>3 DEF SettledVaults
    <3>5. \A v \in R : Payouts'[v] = Payouts[v]
      BY SettledStays DEF SettledVaults, Payouts
    <3>6. Payouts'[w] = pay
      <4>1. VaultPayout(w) = pay
        BY <1>2, <1>4 DEF VaultPayout, Short, Open
      <4>2. VaultPayout(w)' = VaultPayout(w)
        BY <1>4, <1>6 DEF VaultPayout, Short, Exists, Priced, PayoutOf
      <4> QED
        BY <4>1, <4>2 DEF Payouts
    <3>7. Summable(Payouts', R)
      BY <3>1, <3>5 DEF Summable
    <3>8. Total(Payouts', R \cup {w}) = Total(Payouts', R) + Payouts'[w]
      BY <1>4, <3>3, <3>6, <3>7, TotalAdded
    <3>9. Total(Payouts', R) = Total(Payouts, R)
      BY <3>5, TotalSame
    <3> QED
      BY <3>4, <3>6, <3>8, <3>9, SumsNamed, SumsNamedNext
  <2> QED
    BY <1>4, <1>5, <1>8, <2>3, <2>5, <2>6, PoolSumsNat DEF Backs
<1>10. CASE m # c
  <2>1. balance'[m] = balance[m]
    BY <1>1, <1>10 DEF SettleVault, TypeOK
  <2>2. PoolTotal(m)' = PoolTotal(m)
    BY <2>1, PoolSame
  <2>3. ~Holds(w, m) /\ ~Holds(w, m)'
    BY <1>1, <1>4, <1>10 DEF Holds
  <2>4. OpenCollateral(m)' = OpenCollateral(m)
    BY <1>4, <2>3, OpenElsewhere
  <2>5. ASSUME NEW v \in VaultKey
        PROVE  (Holds(v, m) /\ closed_by[v] = "settle_vault")' <=>
                 Holds(v, m) /\ closed_by[v] = "settle_vault"
    <3>1. CASE v = w
      BY <2>3, <3>1
    <3>2. CASE v # w
      BY <1>4, <3>2 DEF Holds, Exists, TypeOK
    <3> QED
      BY <3>1, <3>2
  <2>6. Reserved(m)' = Reserved(m)
    BY <2>5, ReservedSame
  <2> QED
    BY <1>8, <2>2, <2>4, <2>6, BacksSame
<1> QED
  BY <1>9, <1>10

LEMMA EmergencyWithdrawBacks ==
  ASSUME TypeOK, ClosedRecorded, [Next]_vars, NEW m \in Mint, Backs(m),
         NEW k \in Key, NEW id \in VaultId, NEW p \in PoolAccount,
         EmergencyWithdrawVault(k, id, p)
  PROVE  Backs(m)'
<1> DEFINE w == <<k, id>>
<1>1. PICK c : c = vault[w].collateral_mint
  OBVIOUS
<1>2. PICK whole : whole = vault[w].collateral_amount
  OBVIOUS
<1>3. /\ w \in VaultKey /\ vault[w] \in Vault /\ Open(w)
      /\ vault'[w] \in Vault /\ vault'[w].settled
      /\ vault'[w].collateral_mint = c
      /\ \A v \in VaultKey : v # w => vault'[v] = vault[v]
      /\ closed_by' = [closed_by EXCEPT ![w] = "emergency_withdraw_vault"]
  BY <1>1, EmergencyVault
<1>4. c \in Mint /\ whole \in Nat /\ vault[w].beneficiary \in Key
  BY <1>1, <1>2, <1>3, AmountType DEF Vault
<1>5. ~Open(w)' /\ Exists(w)
  BY <1>3 DEF Open
<1>6. paid' = paid
  BY DEF EmergencyWithdrawVault
<1>7. closed_by[w] = "none"
  BY <1>3 DEF ClosedRecorded, Open
<1>8. \A v \in VaultKey :
        closed_by'[v] = "settle_vault" <=> closed_by[v] = "settle_vault"
  BY <1>3, <1>7 DEF TypeOK
<1>9. PaidTotal(m)' = PaidTotal(m) /\ Reserved(m)' = Reserved(m)
  BY <1>6, <1>8, PaidSame, ReservedKept
<1>10. CASE m = c
  <2>1. CanPayOut(m, p, whole)
    BY <1>1, <1>2, <1>10 DEF EmergencyWithdrawVault, CanEmergencyWithdraw
  <2>2. balance'[m] = PaidOut(m, p, vault[w].beneficiary, whole)
    BY <1>1, <1>2, <1>4, <1>10 DEF EmergencyWithdrawVault, TypeOK
  <2>3. PoolTotal(m)' = PoolTotal(m) - whole
    BY <1>4, <2>1, <2>2, PoolPaysOut
  <2>4. Holds(w, m)
    BY <1>1, <1>5, <1>10 DEF Holds
  <2>5. OpenCollateral(m)' = OpenCollateral(m) - whole
    BY <1>2, <1>3, <1>5, <2>4, OpenClosed
  <2> QED
    BY <1>4, <1>9, <2>3, <2>5, PoolSumsNat DEF Backs
<1>11. CASE m # c
  <2>1. balance'[m] = balance[m]
    BY <1>1, <1>11 DEF EmergencyWithdrawVault, TypeOK
  <2>2. PoolTotal(m)' = PoolTotal(m)
    BY <2>1, PoolSame
  <2>3. ~Holds(w, m) /\ ~Holds(w, m)'
    BY <1>1, <1>3, <1>11 DEF Holds
  <2>4. OpenCollateral(m)' = OpenCollateral(m)
    BY <1>3, <2>3, OpenElsewhere
  <2> QED
    BY <1>9, <2>2, <2>4, BacksSame
<1> QED
  BY <1>10, <1>11

\* The instructions that leave every vault and closed_by alone.
LEMMA VaultsKept ==
  ASSUME TypeOK, ClosedRecorded, [Next]_vars, vault' = vault, closed_by' = closed_by,
         NEW m \in Mint
  PROVE  OpenCollateral(m)' = OpenCollateral(m) /\ Reserved(m)' = Reserved(m)
<1>1. OpenCollateral(m)' = OpenCollateral(m)
  BY OpenSame DEF Holds, Open, Exists
<1>2. Reserved(m)' = Reserved(m)
  BY ReservedKept
<1> QED
  BY <1>1, <1>2

\* A redemption is added to what its mint paid.
LEMMA PaidRaised ==
  ASSUME TypeOK, NEW s \in Series, NEW m \in Mint, m = Terms[s].collateral_mint,
         NEW pay \in Nat, paid'[s] = paid[s] + pay,
         \A r \in Series \ {s} : paid'[r] = paid[r]
  PROVE  PaidTotal(m)' = PaidTotal(m) + pay
<1> DEFINE S == SeriesOf(m)
<1>1. Summable(paid, S) /\ s \in S
  BY PaidSummable DEF SeriesOf
<1>2. paid'[s] \in Nat /\ paid[s] \in Nat
  BY DEF TypeOK
<1>3. \A r \in S \ {s} : paid'[r] = paid[r]
  BY DEF SeriesOf
<1> HIDE DEF S
<1>4. Total(paid', S) = Total(paid, S) - paid[s] + paid'[s]
  BY <1>1, <1>2, <1>3, TotalChanged
<1>5. Total(paid, S) \in Nat
  BY <1>1, TotalIsNat
<1>6. Total(paid', S) = Total(paid, S) + pay
  BY <1>2, <1>4, <1>5
<1>7. SeriesOf(m)' = SeriesOf(m)
  BY DEF SeriesOf
<1> QED
  BY <1>6, <1>7 DEF PaidTotal, S

\* What leaves the pool is counted as paid.
LEMMA RedeemBacks ==
  ASSUME TypeOK, ClosedRecorded, [Next]_vars, NEW m \in Mint, Backs(m),
         NEW k \in Key, NEW s \in Series, NEW p \in PoolAccount,
         NEW n \in 1..MaxU64, Redeem(k, s, p, n)
  PROVE  Backs(m)'
<1>1. PICK c : c = Terms[s].collateral_mint
  OBVIOUS
<1>2. PICK pay : pay = PayoutOf(s, n)
  OBVIOUS
<1>3. c \in Mint /\ n \in Nat /\ c # s
  BY <1>1, TermsType, AmountType, ControllerAssumption
<1>4. pay \in Nat
  BY <1>2, <1>3, PayoutIsNat DEF Redeem, CanRedeem
<1>5. vault' = vault /\ closed_by' = closed_by
  BY DEF Redeem, accounts
<1>6. OpenCollateral(m)' = OpenCollateral(m) /\ Reserved(m)' = Reserved(m)
  BY <1>5, VaultsKept
<1>7. paid' = [paid EXCEPT ![s] = @ + pay]
  BY <1>2 DEF Redeem
<1>8. CASE m = c
  <2>1. CanPayOut(m, p, pay)
    BY <1>1, <1>2, <1>8 DEF Redeem, CanRedeem
  <2>2. balance'[m] = PaidOut(m, p, k, pay)
    BY <1>1, <1>2, <1>3, <1>8 DEF Redeem, TypeOK
  <2>3. PoolTotal(m)' = PoolTotal(m) - pay
    BY <1>4, <2>1, <2>2, PoolPaysOut
  <2>4. PaidTotal(m)' = PaidTotal(m) + pay
    <3>1. paid'[s] = paid[s] + pay /\ \A r \in Series \ {s} : paid'[r] = paid[r]
      BY <1>7 DEF TypeOK
    <3> QED
      BY <1>1, <1>4, <1>8, <3>1, PaidRaised
  <2> QED
    BY <1>4, <1>6, <2>3, <2>4, PoolSumsNat DEF Backs
<1>9. CASE m # c
  <2>1. m # s
    BY ControllerAssumption
  <2>2. balance'[m] = balance[m]
    BY <1>1, <1>9, <2>1 DEF Redeem, TypeOK
  <2>3. PoolTotal(m)' = PoolTotal(m)
    BY <2>2, PoolSame
  <2>4. \A r \in SeriesOf(m) : paid'[r] = paid[r]
    BY <1>1, <1>7, <1>9 DEF SeriesOf, TypeOK
  <2>5. PaidTotal(m)' = PaidTotal(m)
    BY <2>4, PaidSame
  <2> QED
    BY <1>6, <2>3, <2>5, BacksSame
<1> QED
  BY <1>8, <1>9

\* Wallets cannot take collateral out of the pool, only add to it.
LEMMA TransferTokensBacks ==
  ASSUME TypeOK, ClosedRecorded, [Next]_vars, NEW m \in Mint, Backs(m),
         NEW t \in Transferable, NEW from \in Key, NEW to \in Account,
         NEW n \in 1..MaxU64, TransferTokens(t, from, to, n)
  PROVE  Backs(m)'
<1>1. vault' = vault /\ closed_by' = closed_by /\ paid' = paid
  BY DEF TransferTokens, accounts, history
<1>2. OpenCollateral(m)' = OpenCollateral(m) /\ Reserved(m)' = Reserved(m)
      /\ PaidTotal(m)' = PaidTotal(m)
  BY <1>1, VaultsKept, PaidSame
<1>3. Fee(m) \in Nat /\ n \in Nat /\ n >= Fee(m)
  BY FeeType, AmountType
<1>4. CASE t # m
  <2>1. balance'[m] = balance[m]
    BY <1>4 DEF TransferTokens, TypeOK
  <2> QED
    BY <1>2, <2>1, PoolSame, BacksSame
<1>5. CASE t = m /\ to \in PoolAccountsOf(m)
  <2>1. balance'[m] = TransferredLess(balance[m], from, to, n, Fee(m))
    BY <1>5 DEF TransferTokens, TypeOK
  <2>2. PoolTotal(m)' = PoolTotal(m) + (n - Fee(m))
    BY <1>3, <1>5, <2>1, PoolReceives
  <2> QED
    BY <1>2, <1>3, <2>2, PoolSumsNat DEF Backs
<1>6. CASE t = m /\ to \notin PoolAccountsOf(m)
  <2>1. balance'[m] = TransferredLess(balance[m], from, to, n, Fee(m))
    BY <1>6 DEF TransferTokens, TypeOK
  <2>2. from \notin PoolAccountsOf(m)
    BY ControllerAssumption DEF PoolAccountsOf
  <2>3. \A p \in PoolAccountsOf(m) : balance'[m][p] = balance[m][p]
    BY <1>6, <2>1, <2>2, PoolSummable DEF TransferredLess
  <2> QED
    BY <1>2, <2>3, PoolSame, BacksSame
<1> QED
  BY <1>4, <1>5, <1>6

LEMMA NextBacks ==
  TypeOK /\ ClosedRecorded /\ PoolBacksVaults /\ [Next]_vars => PoolBacksVaults'
<1> SUFFICES ASSUME TypeOK, ClosedRecorded, PoolBacksVaults, [Next]_vars, NEW m \in Mint
             PROVE  Backs(m)'
  BY DEF PoolBacksVaults, Backs, PaidTotal
<1>0. Backs(m)
  BY DEF PoolBacksVaults, Backs, PaidTotal
<1>1. ASSUME NEW k \in Key, NEW b \in Key, NEW c \in Mint, OpenVault(k, c, b)
      PROVE  Backs(m)'
  BY <1>0, <1>1, OpenVaultBacks
<1>2. ASSUME NEW k \in Key, NEW id \in VaultId, NEW p \in PoolAccount,
             NEW n \in 1..MaxU64, DepositCollateral(k, id, p, n)
      PROVE  Backs(m)'
  BY <1>0, <1>2, DepositCollateralBacks
<1>3. ASSUME NEW k \in Key, NEW d \in Key, NEW id \in VaultId, NEW s \in Series,
             NEW n \in 1..MaxU64, MintOtoken(k, id, s, d, n)
      PROVE  Backs(m)'
  BY <1>0, <1>3, MintOtokenBacks
<1>4. ASSUME NEW k \in Key, NEW w \in VaultKey, NEW p \in PoolAccount,
             SettleVault(k, w, p)
      PROVE  Backs(m)'
  BY <1>0, <1>4, SettleVaultBacks
<1>5. ASSUME NEW k \in Key, NEW id \in VaultId, NEW p \in PoolAccount,
             EmergencyWithdrawVault(k, id, p)
      PROVE  Backs(m)'
  BY <1>0, <1>5, EmergencyWithdrawBacks
<1>6. ASSUME NEW k \in Key, NEW s \in Series, NEW p \in PoolAccount,
             NEW n \in 1..MaxU64, Redeem(k, s, p, n)
      PROVE  Backs(m)'
  BY <1>0, <1>6, RedeemBacks
<1>7. ASSUME NEW t \in Transferable, NEW from \in Key, NEW to \in Account,
             NEW n \in 1..MaxU64, TransferTokens(t, from, to, n)
      PROVE  Backs(m)'
  BY <1>0, <1>7, TransferTokensBacks
<1>8. CASE vault' = vault /\ balance' = balance /\ paid' = paid /\ closed_by' = closed_by
  BY <1>0, <1>8, VaultsKept, PoolSame, PaidSame, BacksSame
<1>9. \/ vault' = vault /\ balance' = balance /\ paid' = paid /\ closed_by' = closed_by
      \/ \E k, b \in Key, c \in Mint : OpenVault(k, c, b)
      \/ \E k \in Key, id \in VaultId, p \in PoolAccount, n \in 1..MaxU64 :
           DepositCollateral(k, id, p, n)
      \/ \E k, d \in Key, id \in VaultId, s \in Series, n \in 1..MaxU64 :
           MintOtoken(k, id, s, d, n)
      \/ \E k \in Key, w \in VaultKey, p \in PoolAccount : SettleVault(k, w, p)
      \/ \E k \in Key, id \in VaultId, p \in PoolAccount :
           EmergencyWithdrawVault(k, id, p)
      \/ \E k \in Key, s \in Series, p \in PoolAccount, n \in 1..MaxU64 :
           Redeem(k, s, p, n)
      \/ \E t \in Transferable, from \in Key, to \in Account, n \in 1..MaxU64 :
           TransferTokens(t, from, to, n)
  BY DEF Next, AdminNext, OwnerNext, MintNext, HolderNext, SeriesNext, ChainNext, vars,
     accounts, history, Initialize, InitializeCounter, SetPartialPauser,
     SetPartiallyPaused, SetFullyPaused, CreateOTokenInfo, SetExpiryPrice,
     WhitelistOtoken, FinalizeOraclePrice, TurnFeeOn, Tick
<1> QED
  BY <1>1, <1>2, <1>3, <1>4, <1>5, <1>6, <1>7, <1>8, <1>9

LEMMA InitBacks == Init => ClosedRecorded /\ PoolBacksVaults
<1> SUFFICES ASSUME Init PROVE ClosedRecorded /\ PoolBacksVaults
  OBVIOUS
<1>1. TypeOK /\ ClosedRecorded
  BY InitTypeOK DEF Init, ClosedRecorded
<1>2. ASSUME NEW m \in Mint PROVE Backs(m)
  <2>1. OpenVaults(m) = {} /\ SettledVaults(m) = {}
    BY DEF OpenVaults, SettledVaults, Open, Exists, Init
  <2>2. OpenCollateral(m) = 0 /\ Reserved(m) = 0
    BY <2>1, SumsNamed, TotalOfNothing
  <2> QED
    BY <1>1, <2>2, PoolSumsNat DEF Backs
<1> QED
  BY <1>1, <1>2 DEF PoolBacksVaults, Backs, PaidTotal

\* The pool of a mint, with what redemptions took from it, holds the collateral
\* of the open vaults and the payouts that settle_vault reserved: no
\* instruction pays the same collateral twice.
THEOREM PoolTheorem == Spec => []PoolBacksVaults
<1>1. Init => ClosedRecorded /\ PoolBacksVaults
  BY InitBacks
<1>2. TypeOK /\ ClosedRecorded /\ PoolBacksVaults /\ [Next]_vars
        => ClosedRecorded' /\ PoolBacksVaults'
  BY NextClosedRecorded, NextBacks
<1> QED
  BY <1>1, <1>2, Typing, PTL DEF Spec

(***************************************************************************)
(* Solvency.  A payout is the required collateral of an amount or nothing, *)
(* and the required collateral is the amount scaled and rounded down.      *)
(***************************************************************************)
\* The exponent of the put formula does not underflow.
Scalable(s) ==
  Terms[s].is_put => Terms[s].collateral_decimals <= 2 * OTokenDecimals

LEMMA RequiredScales ==
  ASSUME NEW s \in Series, Scalable(s)
  PROVE  \E c, d \in Nat :
           /\ d > 0
           /\ \A n \in Nat : RequiredCollateral(Terms[s], n) = (n * c) \div d
<1> DEFINE dec == Terms[s].collateral_decimals
<1>0. /\ dec \in 0..MaxDecimals /\ OTokenDecimals \in Nat /\ MaxDecimals \in Nat
      /\ MaxDecimals >= 2 * OTokenDecimals + 2
      /\ Terms[s].strike_price \in Nat
  BY TermsType, MathAssumption DEF CollateralDecimals
<1>1. CASE Terms[s].is_put
  <2>1. 2 * OTokenDecimals - dec \in 0..MaxDecimals
    BY <1>0, <1>1 DEF Scalable
  <2>2. PICK d : d = Radix ^ (2 * OTokenDecimals - dec)
    OBVIOUS
  <2>3. d \in Nat /\ d > 0
    BY <2>1, <2>2, PowerAssumption
  <2>4. \A n \in Nat : RequiredCollateral(Terms[s], n) = (n * Terms[s].strike_price) \div d
    BY <1>1, <2>2 DEF RequiredCollateral, PutCollateral
  <2> QED
    BY <1>0, <2>3, <2>4
<1>2. CASE ~Terms[s].is_put /\ dec >= OTokenDecimals
  <2>1. dec - OTokenDecimals \in 0..MaxDecimals
    BY <1>0, <1>2
  <2>2. PICK c : c = Radix ^ (dec - OTokenDecimals)
    OBVIOUS
  <2>3. c \in Nat
    BY <2>1, <2>2, PowerAssumption
  <2>4. \A n \in Nat : RequiredCollateral(Terms[s], n) = n * c
    BY <1>2, <2>2 DEF RequiredCollateral, CallCollateral
  <2>5. ASSUME NEW n \in Nat PROVE n * c = (n * c) \div 1
    <3>1. PICK a : a = n * c
      OBVIOUS
    <3>2. a \in Nat
      BY <2>3, <3>1, TimesIsNat
    <3>3. PICK q : q = a \div 1
      OBVIOUS
    <3>4. q \in Nat /\ 1 * q <= a /\ a < 1 * q + 1
      BY <3>2, <3>3, DivMod
    <3>5. a = q
      BY <3>2, <3>4
    <3> QED
      BY <3>1, <3>3, <3>5
  <2>6. \A n \in Nat : RequiredCollateral(Terms[s], n) = (n * c) \div 1
    BY <2>4, <2>5
  <2>7. 1 \in Nat /\ 1 > 0
    OBVIOUS
  <2> QED
    BY <2>3, <2>6, <2>7
<1>3. CASE ~Terms[s].is_put /\ ~(dec >= OTokenDecimals)
  <2>1. OTokenDecimals - dec \in 0..MaxDecimals
    BY <1>0, <1>3
  <2>2. PICK d : d = Radix ^ (OTokenDecimals - dec)
    OBVIOUS
  <2>3. d \in Nat /\ d > 0
    BY <2>1, <2>2, PowerAssumption
  <2>4. \A n \in Nat : RequiredCollateral(Terms[s], n) = n \div d
    BY <1>3, <2>2 DEF RequiredCollateral, CallCollateral
  <2>5. \A n \in Nat : n = n * 1
    OBVIOUS
  <2>6. \A n \in Nat : RequiredCollateral(Terms[s], n) = (n * 1) \div d
    BY <2>4, <2>5
  <2> QED
    BY <2>3, <2>6
<1> QED
  BY <1>1, <1>2, <1>3, TermsType

\* Splitting an amount never raises what it requires, and lowers it by at
\* most one unit.
LEMMA RequiredSplits ==
  ASSUME NEW s \in Series, Scalable(s), NEW a \in Nat, NEW b \in Nat
  PROVE  /\ RequiredCollateral(Terms[s], a) \in Nat
         /\ RequiredCollateral(Terms[s], a) + RequiredCollateral(Terms[s], b) <=
              RequiredCollateral(Terms[s], a + b)
<1>1. PICK c, d \in Nat :
        /\ d > 0
        /\ \A n \in Nat : RequiredCollateral(Terms[s], n) = (n * c) \div d
  BY RequiredScales
<1>2. a * c \in Nat /\ b * c \in Nat /\ (a + b) * c = a * c + b * c
  BY TimesIsNat
<1>3. (a * c) \div d \in Nat
  BY <1>1, <1>2, DivIsNat
<1>4. (a * c) \div d + (b * c) \div d <= (a * c + b * c) \div d
  BY <1>1, <1>2, DivOfSum
<1> QED
  BY <1>1, <1>2, <1>3, <1>4

\* Series whose amounts collateralize without rounding.
Exact(s) ==
  \A a, b \in Nat :
    RequiredCollateral(Terms[s], a + b) =
      RequiredCollateral(Terms[s], a) + RequiredCollateral(Terms[s], b)

\* What several vaults require separately falls short of what the sum of
\* their shorts requires by less than one unit per vault beyond the first,
\* and by nothing if the series is exact.
LEMMA RequiredOfTotal ==
  ASSUME NEW s \in Series, Scalable(s), NEW f, NEW S, Summable(f, S), S # {},
         NEW g, \A x \in S : g[x] = RequiredCollateral(Terms[s], f[x])
  PROVE  RequiredCollateral(Terms[s], Total(f, S)) <=
           Total(g, S) + (IF Exact(s) THEN 0 ELSE Cardinality(S) - 1)
<1> DEFINE Req(n) == RequiredCollateral(Terms[s], n)
<1>0. \A n \in Nat : Req(n) \in Nat
  BY RequiredSplits
<1>1. PICK c, d \in Nat :
        d > 0 /\ \A n \in Nat : Req(n) = (n * c) \div d
  BY RequiredScales
<1>2. Summable(g, S) /\ Total(f, S) \in Nat /\ Total(g, S) \in Nat
  <2>1. Summable(g, S)
    BY <1>0 DEF Summable
  <2> QED
    BY <2>1, TotalIsNat
<1>3. Req(Total(f, S)) + 1 <= Total(g, S) + Cardinality(S)
  <2>1. \A x \in S : g[x] = (f[x] * c) \div d
    BY <1>1 DEF Summable
  <2>2. (Total(f, S) * c) \div d + 1 <= Total(g, S) + Cardinality(S)
    BY <1>1, <2>1, TotalOfFloors
  <2> QED
    BY <1>1, <1>2, <2>2
<1>4. ASSUME Exact(s) PROVE Req(Total(f, S)) = Total(g, S)
  <2> DEFINE Good == {A \in SUBSET S : Req(Total(f, A)) = Total(g, A)}
  <2>1. {} \in Good
    <3>1. PICK z : z = Req(0)
      OBVIOUS
    <3>2. Req(0 + 0) = z + z /\ z \in Nat
      BY <1>0, <1>4, <3>1 DEF Exact
    <3>3. 0 + 0 = 0
      OBVIOUS
    <3>4. z = z + z
      BY <3>1, <3>2, <3>3
    <3>5. z = 0
      BY <3>2, <3>4
    <3>6. Req(0) = 0
      BY <3>1, <3>5
    <3> QED
      BY <3>6, TotalOfNothing
  <2>2. ASSUME NEW A \in SUBSET S, NEW x \in S \ A, A \in Good
        PROVE  A \cup {x} \in Good
    <3>1. Summable(f, A) /\ Summable(g, A) /\ f[x] \in Nat /\ g[x] \in Nat
      BY <1>2, FS_Subset DEF Summable
    <3>2. Total(f, A \cup {x}) = Total(f, A) + f[x] /\ Total(f, A) \in Nat
      BY <3>1, TotalAdded, TotalIsNat
    <3>3. Total(g, A \cup {x}) = Total(g, A) + g[x]
      BY <3>1, TotalAdded
    <3>4. Req(Total(f, A) + f[x]) = Req(Total(f, A)) + Req(f[x])
      BY <1>4, <3>1, <3>2 DEF Exact
    <3>5. Req(Total(f, A)) = Total(g, A) /\ g[x] = Req(f[x])
      BY <2>2
    <3>6. Req(Total(f, A \cup {x})) = Total(g, A \cup {x})
      BY <3>2, <3>3, <3>4, <3>5
    <3> QED
      BY <3>6
  <2>3. S \in Good
    <3>1. IsFiniteSet(S)
      BY DEF Summable
    <3> HIDE DEF Good
    <3> QED
      BY <2>1, <2>2, <3>1, SubsetInduction
  <2> QED
    BY <2>3
<1>5. Cardinality(S) \in Nat /\ Req(Total(f, S)) \in Nat
  BY <1>0, <1>2, FS_CardinalityType DEF Summable
<1> HIDE DEF Req
<1>6. CASE Exact(s)
  BY <1>2, <1>4, <1>5, <1>6 DEF Req
<1>7. CASE ~Exact(s)
  <2>1. Req(Total(f, S)) <= Total(g, S) + (Cardinality(S) - 1)
    BY <1>2, <1>3, <1>5
  <2> QED
    BY <1>7, <2>1 DEF Req
<1> QED
  BY <1>6, <1>7

(***************************************************************************)
(* The sums of SolventUpToDust, each over all vaults: what an open vault   *)
(* gets back, and the payout an exited vault no longer covers.             *)
(***************************************************************************)
DueOf(m, v) ==
  IF Holds(v, m) /\ Open(v) THEN vault[v].collateral_amount - VaultPayout(v) ELSE 0

LostOf(m, v) ==
  IF Holds(v, m) /\ closed_by[v] = "emergency_withdraw_vault" THEN VaultPayout(v) ELSE 0

\* Rounding costs nothing where it does not happen.
DustOf(s) == IF Exact(s) THEN 0 ELSE Dust(s)

Dues(m)   == [v \in VaultKey |-> DueOf(m, v)]
Losses(m) == [v \in VaultKey |-> LostOf(m, v)]
DustMap   == [s \in Series |-> DustOf(s)]
ClaimMap  == [s \in Series |-> Claims(s)]

DueTotal(m)   == Total(Dues(m), VaultKey)
LostTotal(m)  == Total(Losses(m), VaultKey)
DustTotal(m)  == Total(DustMap, SeriesOf(m))
ClaimTotal(m) == Total(ClaimMap, SeriesOf(m))

SolventAt(m) == PoolTotal(m) + LostTotal(m) + DustTotal(m) >= DueTotal(m) + ClaimTotal(m)

\* What makes the sums sums of naturals: vaults are backed, and no series has
\* more oTokens than its vaults wrote.
SupplyWithin == \A s \in Series : Supply(s) <= WrittenOf(s)

Booked == TypeOK /\ Collateralised /\ SupplyWithin

\* A vault that wrote s has a computable requirement.
LEMMA ShortScales ==
  ASSUME TypeOK, Collateralised, NEW v \in VaultKey, Short(v)
  PROVE  LET s == vault[v].otoken_mint
             n == vault[v].short_amount
         IN /\ vault[v] \in Vault /\ s \in Series /\ n \in Nat /\ Scalable(s)
            /\ RequiredCollateral(Terms[s], n) \in Nat
            /\ RequiredCollateral(Terms[s], n) <= vault[v].collateral_amount
            /\ Terms[s].collateral_mint = vault[v].collateral_mint
            /\ expiry_price[s] # NoAccount
<1> DEFINE s == vault[v].otoken_mint
           n == vault[v].short_amount
<1>1. vault[v] \in Vault
  BY VaultNotNoAccount DEF Short
<1>2. n \in Nat /\ vault[v].collateral_amount \in Nat
  BY <1>1, AmountType DEF Vault
<1>3. /\ s \in Series /\ expiry_price[s] # NoAccount
      /\ Terms[s].collateral_mint = vault[v].collateral_mint
      /\ CollateralComputable(Terms[s], n)
      /\ vault[v].collateral_amount >= RequiredCollateral(Terms[s], n)
  BY DEF Collateralised, Backed
<1>4. Scalable(s)
  BY <1>3 DEF CollateralComputable, Scalable
<1>5. RequiredCollateral(Terms[s], n) \in Nat
  BY <1>2, <1>3, <1>4, RequiredIsNat
<1> QED
  BY <1>1, <1>2, <1>3, <1>4, <1>5

LEMMA VaultPayoutBound ==
  ASSUME TypeOK, Collateralised, NEW v \in VaultKey, Exists(v)
  PROVE  /\ VaultPayout(v) \in Nat
         /\ vault[v].collateral_amount \in Nat
         /\ VaultPayout(v) <= vault[v].collateral_amount
<1>1. vault[v].collateral_amount \in Nat
  BY VaultNotNoAccount, AmountType DEF Vault
<1>2. CASE Short(v) /\ Priced(vault[v].otoken_mint)
  <2>1. PICK r : r = RequiredCollateral(Terms[vault[v].otoken_mint], vault[v].short_amount)
    OBVIOUS
  <2>2. r \in Nat /\ r <= vault[v].collateral_amount
    BY <1>2, <2>1, ShortScales
  <2>3. VaultPayout(v) \in {0, r}
    BY <1>2, <2>1 DEF VaultPayout, PayoutOf, Payout
  <2> QED
    BY <1>1, <2>2, <2>3
<1>3. CASE ~(Short(v) /\ Priced(vault[v].otoken_mint))
  BY <1>1, <1>3 DEF VaultPayout
<1> QED
  BY <1>2, <1>3

LEMMA DuesTyped ==
  ASSUME TypeOK, Collateralised, NEW m, NEW v \in VaultKey
  PROVE  DueOf(m, v) \in Nat /\ LostOf(m, v) \in Nat
<1>1. CASE Exists(v)
  BY <1>1, VaultPayoutBound DEF DueOf, LostOf
<1>2. CASE ~Exists(v)
  BY <1>2 DEF DueOf, LostOf, Holds
<1> QED
  BY <1>1, <1>2

\* A series with oTokens in circulation was written by a vault.
LEMMA SupplyScales ==
  ASSUME Booked, NEW s \in Series, Supply(s) > 0
  PROVE  Scalable(s)
<1>1. Summable(Shorts, Writers(s)) /\ WrittenOf(s) > 0
  BY ShortsSummable, SupplyIsNat DEF Booked, SupplyWithin
<1>2. PICK v \in Writers(s) : Shorts[v] > 0
  BY <1>1, TotalPositive DEF WrittenOf
<1>3. v \in VaultKey /\ Short(v) /\ vault[v].otoken_mint = s
  BY <1>2 DEF Writers, Wrote, Shorts, Short
<1> QED
  BY <1>3, ShortScales DEF Booked

LEMMA ClaimsTyped ==
  ASSUME Booked, NEW s \in Series
  PROVE  Claims(s) \in Nat
<1>1. Supply(s) \in Nat
  BY SupplyIsNat DEF Booked
<1>2. CASE Priced(s) /\ Supply(s) > 0
  <2>1. Scalable(s)
    BY <1>2, SupplyScales
  <2>2. RequiredCollateral(Terms[s], Supply(s)) \in Nat
    BY <1>1, <2>1, RequiredSplits
  <2> QED
    BY <1>2, <2>2 DEF Claims, PayoutOf, Payout
<1>3. CASE ~(Priced(s) /\ Supply(s) > 0)
  BY <1>3 DEF Claims
<1> QED
  BY <1>2, <1>3

LEMMA WritersFinite == \A s : IsFiniteSet(Writers(s))
<1> SUFFICES ASSUME NEW s PROVE IsFiniteSet(Writers(s))
  OBVIOUS
<1>1. Writers(s) \in SUBSET VaultKey
  BY DEF Writers
<1> QED
  BY <1>1, VaultKeyFinite, FS_Subset

LEMMA DustTyped ==
  ASSUME NEW s
  PROVE  DustOf(s) \in Nat /\ Dust(s) \in Nat /\ DustOf(s) <= Dust(s)
<1>1. IsFiniteSet(Writers(s)) /\ Cardinality(Writers(s)) \in Nat
  BY WritersFinite, FS_CardinalityType
<1>2. Writers(s) # {} => Cardinality(Writers(s)) # 0
  BY <1>1, FS_EmptySet
<1>3. Dust(s) = IF Priced(s) /\ Writers(s) # {} THEN Cardinality(Writers(s)) - 1 ELSE 0
  BY DEF Dust, Writers
<1>4. Dust(s) \in Nat
  BY <1>1, <1>2, <1>3
<1> QED
  BY <1>4 DEF DustOf

LEMMA SolvencySummable ==
  ASSUME Booked, NEW m \in Mint
  PROVE  /\ Summable(Dues(m), VaultKey)
         /\ Summable(Losses(m), VaultKey)
         /\ Summable(DustMap, SeriesOf(m))
         /\ Summable(ClaimMap, SeriesOf(m))
<1>1. IsFiniteSet(VaultKey) /\ IsFiniteSet(SeriesOf(m))
  BY VaultKeyFinite, ControllerAssumption, FS_Subset DEF SeriesOf
<1>2. \A v \in VaultKey : Dues(m)[v] \in Nat /\ Losses(m)[v] \in Nat
  BY DuesTyped DEF Dues, Losses, Booked
<1>3. \A s \in SeriesOf(m) : DustMap[s] \in Nat /\ ClaimMap[s] \in Nat
  BY DustTyped, ClaimsTyped DEF DustMap, ClaimMap, SeriesOf
<1> QED
  BY <1>1, <1>2, <1>3 DEF Summable

\* The four sums and the pool are naturals, before a step and after it.
SolvencyNats(m) ==
  /\ PoolTotal(m) \in Nat
  /\ DueTotal(m) \in Nat /\ LostTotal(m) \in Nat
  /\ DustTotal(m) \in Nat /\ ClaimTotal(m) \in Nat
  /\ Summable(Dues(m), VaultKey) /\ Summable(Losses(m), VaultKey)
  /\ Summable(DustMap, SeriesOf(m)) /\ Summable(ClaimMap, SeriesOf(m))

LEMMA SolvencyTyped == Booked => \A m \in Mint : SolvencyNats(m)
<1> SUFFICES ASSUME Booked, NEW m \in Mint PROVE SolvencyNats(m)
  OBVIOUS
<1>1. /\ Summable(Dues(m), VaultKey) /\ Summable(Losses(m), VaultKey)
      /\ Summable(DustMap, SeriesOf(m)) /\ Summable(ClaimMap, SeriesOf(m))
  BY SolvencySummable
<1>2. Summable(balance[m], PoolAccountsOf(m))
  BY PoolSummable DEF Booked
<1>3. PoolTotal(m) \in Nat
  BY <1>2, TotalIsNat DEF PoolTotal
<1>4. /\ DueTotal(m) \in Nat /\ LostTotal(m) \in Nat
      /\ DustTotal(m) \in Nat /\ ClaimTotal(m) \in Nat
  BY <1>1, TotalIsNat DEF DueTotal, LostTotal, DustTotal, ClaimTotal
<1> QED
  BY <1>1, <1>3, <1>4 DEF SolvencyNats

LEMMA SolvencyTypedNext == Booked' => (\A m \in Mint : SolvencyNats(m))'
  BY SolvencyTyped, PTL

LEMMA SupplyTyped == TypeOK => \A s \in Series : Supply(s) \in Nat
  BY SupplyIsNat

LEMMA SupplyTypedNext == TypeOK' => (\A s \in Series : Supply(s) \in Nat)'
  BY SupplyTyped, PTL

LEMMA DustTypedAll == \A s : DustOf(s) \in Nat
  BY DustTyped

LEMMA DustTypedNext == (\A s : DustOf(s) \in Nat)'
  BY DustTypedAll, PTL

\* The bound of the property follows from the sums over all vaults.
LEMMA SolventNamed ==
  ASSUME Booked, NEW m \in Mint
  PROVE  /\ Returnable(m) = DueTotal(m)
         /\ Uncovered(m) = LostTotal(m)
         /\ ClaimTotal(m) = Total([s \in Series |-> Claims(s)], SeriesOf(m))
         /\ DustTotal(m) <= Total([s \in Series |-> Dust(s)], SeriesOf(m))
         /\ Total([s \in Series |-> Dust(s)], SeriesOf(m)) \in Nat
<1>1. Returnable(m) = DueTotal(m)
  <2> DEFINE T == {v \in VaultsOf(m) : Open(v)}
             f == [v \in VaultKey |-> vault[v].collateral_amount - VaultPayout(v)]
  <2>1. T \in SUBSET VaultKey
    BY DEF VaultsOf
  <2>2. \A v \in T : Dues(m)[v] = f[v]
    BY DEF VaultsOf, Dues, DueOf
  <2>3. \A v \in VaultKey \ T : Dues(m)[v] = 0
    BY DEF VaultsOf, Dues, DueOf
  <2>4. Total(Dues(m), VaultKey) = Total(f, T)
    BY <2>1, <2>2, <2>3, TotalMasked
  <2> QED
    BY <2>4 DEF Returnable, DueTotal
<1>2. Uncovered(m) = LostTotal(m)
  <2> DEFINE T == {v \in VaultsOf(m) : closed_by[v] = "emergency_withdraw_vault"}
             f == [v \in VaultKey |-> VaultPayout(v)]
  <2>1. T \in SUBSET VaultKey
    BY DEF VaultsOf
  <2>2. \A v \in T : Losses(m)[v] = f[v]
    BY DEF VaultsOf, Losses, LostOf
  <2>3. \A v \in VaultKey \ T : Losses(m)[v] = 0
    BY DEF VaultsOf, Losses, LostOf
  <2>4. Total(Losses(m), VaultKey) = Total(f, T)
    BY <2>1, <2>2, <2>3, TotalMasked
  <2> QED
    BY <2>4 DEF Uncovered, LostTotal
<1>3. ClaimTotal(m) = Total([s \in Series |-> Claims(s)], SeriesOf(m))
  BY DEF ClaimTotal, ClaimMap
<1>4. PICK dust : dust = [s \in Series |-> Dust(s)]
  OBVIOUS
<1>5. Summable(DustMap, SeriesOf(m)) /\ IsFiniteSet(SeriesOf(m))
  BY SolvencySummable DEF Summable
<1>6. \A s \in SeriesOf(m) : dust[s] \in Nat /\ DustMap[s] <= dust[s]
  BY <1>4, DustTyped DEF DustMap, SeriesOf
<1>7. Summable(dust, SeriesOf(m))
  BY <1>5, <1>6 DEF Summable
<1>8. Total(DustMap, SeriesOf(m)) <= Total(dust, SeriesOf(m))
  BY <1>5, <1>6, <1>7, TotalMonotone
<1>9. Total(dust, SeriesOf(m)) \in Nat
  BY <1>7, TotalIsNat
<1> QED
  BY <1>1, <1>2, <1>3, <1>4, <1>8, <1>9 DEF DustTotal

(***************************************************************************)
(* How the sums move.                                                      *)
(***************************************************************************)
\* One vault changes.
LEMMA VaultSums ==
  ASSUME NEW m \in Mint, SolvencyNats(m), SolvencyNats(m)', NEW w \in VaultKey,
         \A v \in VaultKey : v # w =>
           DueOf(m, v)' = DueOf(m, v) /\ LostOf(m, v)' = LostOf(m, v)
  PROVE  /\ DueOf(m, w) \in Nat /\ DueOf(m, w)' \in Nat
         /\ LostOf(m, w) \in Nat /\ LostOf(m, w)' \in Nat
         /\ DueTotal(m)' = DueTotal(m) - DueOf(m, w) + DueOf(m, w)'
         /\ LostTotal(m)' = LostTotal(m) - LostOf(m, w) + LostOf(m, w)'
<1>1. /\ Summable(Dues(m), VaultKey) /\ Summable(Losses(m), VaultKey)
      /\ Summable(Dues(m)', VaultKey) /\ Summable(Losses(m)', VaultKey)
  BY DEF SolvencyNats
<1>2. /\ Dues(m)[w] = DueOf(m, w) /\ Dues(m)'[w] = DueOf(m, w)'
      /\ Losses(m)[w] = LostOf(m, w) /\ Losses(m)'[w] = LostOf(m, w)'
  BY DEF Dues, Losses
<1>3. /\ Dues(m)[w] \in Nat /\ Dues(m)'[w] \in Nat
      /\ Losses(m)[w] \in Nat /\ Losses(m)'[w] \in Nat
  BY <1>1 DEF Summable
<1>4. \A v \in VaultKey \ {w} : Dues(m)'[v] = Dues(m)[v] /\ Losses(m)'[v] = Losses(m)[v]
  BY DEF Dues, Losses
<1>5. Total(Dues(m)', VaultKey) = Total(Dues(m), VaultKey) - Dues(m)[w] + Dues(m)'[w]
  BY <1>1, <1>3, <1>4, TotalChanged
<1>6. Total(Losses(m)', VaultKey) =
        Total(Losses(m), VaultKey) - Losses(m)[w] + Losses(m)'[w]
  BY <1>1, <1>3, <1>4, TotalChanged
<1> QED
  BY <1>2, <1>3, <1>5, <1>6 DEF DueTotal, LostTotal

\* No vault changes.
LEMMA VaultSumsSame ==
  ASSUME NEW m \in Mint,
         \A v \in VaultKey : DueOf(m, v)' = DueOf(m, v) /\ LostOf(m, v)' = LostOf(m, v)
  PROVE  DueTotal(m)' = DueTotal(m) /\ LostTotal(m)' = LostTotal(m)
<1>1. \A v \in VaultKey : Dues(m)[v] = Dues(m)'[v] /\ Losses(m)[v] = Losses(m)'[v]
  BY DEF Dues, Losses
<1>2. Total(Dues(m), VaultKey) = Total(Dues(m)', VaultKey)
  BY <1>1, TotalSame
<1>3. Total(Losses(m), VaultKey) = Total(Losses(m)', VaultKey)
  BY <1>1, TotalSame
<1> QED
  BY <1>2, <1>3 DEF DueTotal, LostTotal

\* No claim rises, no allowance for rounding falls.
LEMMA SeriesSums ==
  ASSUME NEW m \in Mint, SolvencyNats(m), SolvencyNats(m)',
         \A s \in SeriesOf(m) : Claims(s)' <= Claims(s) /\ DustOf(s) <= DustOf(s)'
  PROVE  ClaimTotal(m)' <= ClaimTotal(m) /\ DustTotal(m) <= DustTotal(m)'
<1>0. SeriesOf(m)' = SeriesOf(m)
  BY DEF SeriesOf
<1>1. /\ Summable(ClaimMap, SeriesOf(m)) /\ Summable(DustMap, SeriesOf(m))
      /\ Summable(ClaimMap', SeriesOf(m)) /\ Summable(DustMap', SeriesOf(m))
  BY <1>0 DEF SolvencyNats
<1>2. \A s \in SeriesOf(m) : ClaimMap'[s] <= ClaimMap[s] /\ DustMap[s] <= DustMap'[s]
  BY DEF ClaimMap, DustMap, SeriesOf
<1>3. Total(ClaimMap', SeriesOf(m)) <= Total(ClaimMap, SeriesOf(m))
  BY <1>1, <1>2, TotalMonotone
<1>4. Total(DustMap, SeriesOf(m)) <= Total(DustMap', SeriesOf(m))
  BY <1>1, <1>2, TotalMonotone
<1> QED
  BY <1>0, <1>3, <1>4 DEF ClaimTotal, DustTotal

LEMMA PayoutSplits ==
  ASSUME NEW s \in Series, Scalable(s), NEW a \in Nat, NEW b \in Nat
  PROVE  /\ PayoutOf(s, a) \in Nat
         /\ PayoutOf(s, a) + PayoutOf(s, b) <= PayoutOf(s, a + b)
  BY RequiredSplits DEF PayoutOf, Payout

\* Redeeming n of a priced series takes at least their payout off its claims.
LEMMA ClaimSpent ==
  ASSUME Booked, NEW s \in Series, Priced(s), expiry_price'[s] = expiry_price[s],
         NEW n \in Nat, Supply(s)' \in Nat, Supply(s) = Supply(s)' + n, Supply(s) > 0
  PROVE  PayoutOf(s, n) \in Nat /\ Claims(s)' + PayoutOf(s, n) <= Claims(s)
<1>1. PICK a : a = Supply(s)'
  OBVIOUS
<1>2. Scalable(s) /\ a \in Nat /\ Supply(s) = a + n
  BY <1>1, SupplyScales
<1>3. /\ PayoutOf(s, a) \in Nat /\ PayoutOf(s, n) \in Nat
      /\ PayoutOf(s, a) + PayoutOf(s, n) <= PayoutOf(s, a + n)
  BY <1>2, PayoutSplits
<1>4. Claims(s) = PayoutOf(s, a + n)
  BY <1>2 DEF Claims
<1>5. Priced(s)' /\ Payout(Terms[s], expiry_price'[s], a) = PayoutOf(s, a)
  BY DEF Priced, PayoutOf
<1>6. Claims(s)' = IF a > 0 THEN PayoutOf(s, a) ELSE 0
  BY <1>1, <1>5 DEF Claims, PayoutOf
<1>7. PayoutOf(s, a + n) \in Nat
  <2>1. a + n \in Nat
    BY <1>2
  <2> QED
    BY <1>2, <2>1, PayoutSplits
<1> QED
  BY <1>3, <1>4, <1>6, <1>7

LEMMA ClaimFalls ==
  ASSUME Booked, NEW s \in Series, expiry_price'[s] = expiry_price[s],
         Supply(s)' \in Nat, Priced(s) => Supply(s)' <= Supply(s)
  PROVE  Claims(s)' <= Claims(s)
<1>0. Supply(s) \in Nat /\ Claims(s) \in Nat
  BY SupplyIsNat, ClaimsTyped DEF Booked
<1>1. CASE Priced(s) /\ Supply(s) > 0
  <2>1. PICK n \in Nat : Supply(s) = Supply(s)' + n
    <3>1. Supply(s) - Supply(s)' \in Nat
      BY <1>0, <1>1
    <3>2. Supply(s) = Supply(s)' + (Supply(s) - Supply(s)')
      BY <1>0
    <3> QED
      BY <3>1, <3>2
  <2>2. PayoutOf(s, n) \in Nat /\ Claims(s)' + PayoutOf(s, n) <= Claims(s)
    BY <1>1, <2>1, ClaimSpent
  <2>3. PayoutOf(s, n) \in Nat /\ Claims(s)' \in Nat
    <3>1. CASE Supply(s)' > 0
      <4>1. Scalable(s)
        BY <1>1, SupplyScales
      <4>2. RequiredCollateral(Terms[s], Supply(s)') \in Nat
        BY <4>1, RequiredSplits
      <4> QED
        BY <2>2, <4>2 DEF Claims, PayoutOf, Payout
    <3>2. CASE ~(Supply(s)' > 0)
      BY <2>2, <3>2 DEF Claims
    <3> QED
      BY <3>1, <3>2
  <2> QED
    BY <1>0, <2>2, <2>3
<1>2. CASE ~(Priced(s) /\ Supply(s) > 0)
  <2>1. ~(Priced(s)' /\ Supply(s)' > 0)
    BY <1>0, <1>2 DEF Priced
  <2>2. Claims(s)' = 0
    BY <2>1 DEF Claims
  <2> QED
    BY <1>0, <2>2
<1> QED
  BY <1>1, <1>2

\* The writers of a priced series stay the same, so does the allowance.
LEMMA DustSame ==
  ASSUME NEW s \in Series, expiry_price'[s] = expiry_price[s],
         Priced(s) => Writers(s)' = Writers(s)
  PROVE  DustOf(s)' = DustOf(s)
<1>1. Dust(s) = IF Priced(s) /\ Writers(s) # {} THEN Cardinality(Writers(s)) - 1 ELSE 0
  BY DEF Dust, Writers
<1>2. Dust(s)' = IF Priced(s)' /\ Writers(s)' # {} THEN Cardinality(Writers(s)') - 1 ELSE 0
  BY DEF Dust, Writers
<1>3. Priced(s)' <=> Priced(s)
  BY DEF Priced
<1>4. Exact(s)' <=> Exact(s)
  BY DEF Exact
<1> QED
  BY <1>1, <1>2, <1>3, <1>4 DEF DustOf

(***************************************************************************)
(* The kinds of step a program takes, and that each keeps a mint solvent.  *)
(***************************************************************************)
\* No series is priced by the step, and no holder of a priced one gains.
ClaimsFall ==
  /\ expiry_price' = expiry_price
  /\ \A s \in Series : Priced(s) => Supply(s)' <= Supply(s) /\ Writers(s)' = Writers(s)

LEMMA ClaimsFallSums ==
  ASSUME Booked, Booked', ClaimsFall, NEW m \in Mint
  PROVE  ClaimTotal(m)' <= ClaimTotal(m) /\ DustTotal(m) <= DustTotal(m)'
<1>1. SolvencyNats(m) /\ SolvencyNats(m)'
  BY SolvencyTyped, SolvencyTypedNext
<1>2. ASSUME NEW s \in SeriesOf(m)
      PROVE  Claims(s)' <= Claims(s) /\ DustOf(s) <= DustOf(s)'
  <2>1. s \in Series /\ expiry_price'[s] = expiry_price[s]
    BY DEF SeriesOf, ClaimsFall
  <2>2. Supply(s)' \in Nat
    BY <2>1, SupplyTypedNext DEF Booked
  <2>3. Claims(s)' <= Claims(s)
    BY <2>1, <2>2, ClaimFalls DEF ClaimsFall
  <2>4. DustOf(s)' = DustOf(s)
    BY <2>1, DustSame DEF ClaimsFall
  <2>5. DustOf(s) \in Nat
    BY DustTyped
  <2> QED
    BY <2>3, <2>4, <2>5
<1> QED
  BY <1>1, <1>2, SeriesSums

\* A vault whose record, mark and series' price stay keeps its terms.
LEMMA TermsSame ==
  ASSUME NEW m, NEW v \in VaultKey, vault'[v] = vault[v], closed_by'[v] = closed_by[v],
         expiry_price' = expiry_price
  PROVE  DueOf(m, v)' = DueOf(m, v) /\ LostOf(m, v)' = LostOf(m, v)
<1>1. VaultPayout(v)' = VaultPayout(v)
  BY DEF VaultPayout, Short, Exists, Priced, PayoutOf
<1> QED
  BY <1>1 DEF DueOf, LostOf, Holds, Open, Exists

\* One vault changes, and the pool makes up for what that vault is due.
LEMMA OneVaultSolvent ==
  ASSUME Booked, Booked', ClaimsFall, NEW m \in Mint, SolventAt(m), NEW w \in VaultKey,
         \A v \in VaultKey : v # w => vault'[v] = vault[v] /\ closed_by'[v] = closed_by[v],
         PoolTotal(m)' + LostOf(m, w)' + DueOf(m, w) >=
           PoolTotal(m) + LostOf(m, w) + DueOf(m, w)'
  PROVE  SolventAt(m)'
<1>1. SolvencyNats(m) /\ SolvencyNats(m)'
  BY SolvencyTyped, SolvencyTypedNext
<1>2. \A v \in VaultKey : v # w =>
        DueOf(m, v)' = DueOf(m, v) /\ LostOf(m, v)' = LostOf(m, v)
  BY TermsSame DEF ClaimsFall
<1>3. /\ DueOf(m, w) \in Nat /\ DueOf(m, w)' \in Nat
      /\ LostOf(m, w) \in Nat /\ LostOf(m, w)' \in Nat
      /\ DueTotal(m)' = DueTotal(m) - DueOf(m, w) + DueOf(m, w)'
      /\ LostTotal(m)' = LostTotal(m) - LostOf(m, w) + LostOf(m, w)'
  BY <1>1, <1>2, VaultSums
<1>4. ClaimTotal(m)' <= ClaimTotal(m) /\ DustTotal(m) <= DustTotal(m)'
  BY ClaimsFallSums
<1>5. /\ PoolTotal(m) \in Nat /\ DueTotal(m) \in Nat /\ LostTotal(m) \in Nat
      /\ DustTotal(m) \in Nat /\ ClaimTotal(m) \in Nat
      /\ PoolTotal(m)' \in Nat /\ DustTotal(m)' \in Nat /\ ClaimTotal(m)' \in Nat
  BY <1>1 DEF SolvencyNats
<1>6. PoolTotal(m) + LostTotal(m) + DustTotal(m) >= DueTotal(m) + ClaimTotal(m)
  BY DEF SolventAt
<1>7. PoolTotal(m)' + LostTotal(m)' + DustTotal(m)' >= DueTotal(m)' + ClaimTotal(m)'
  BY <1>3, <1>4, <1>5, <1>6
<1> QED
  BY <1>7 DEF SolventAt

\* No vault changes and the pool does not shrink.
LEMMA QuietSolvent ==
  ASSUME Booked, Booked', ClaimsFall, NEW m \in Mint, SolventAt(m),
         vault' = vault, closed_by' = closed_by, PoolTotal(m)' >= PoolTotal(m)
  PROVE  SolventAt(m)'
<1>1. SolvencyNats(m) /\ SolvencyNats(m)'
  BY SolvencyTyped, SolvencyTypedNext
<1>2. DueTotal(m)' = DueTotal(m) /\ LostTotal(m)' = LostTotal(m)
  BY TermsSame, VaultSumsSame DEF ClaimsFall
<1>3. ClaimTotal(m)' <= ClaimTotal(m) /\ DustTotal(m) <= DustTotal(m)'
  BY ClaimsFallSums
<1>4. /\ PoolTotal(m) \in Nat /\ DueTotal(m) \in Nat /\ LostTotal(m) \in Nat
      /\ DustTotal(m) \in Nat /\ ClaimTotal(m) \in Nat
      /\ PoolTotal(m)' \in Nat /\ DustTotal(m)' \in Nat /\ ClaimTotal(m)' \in Nat
  BY <1>1 DEF SolvencyNats
<1>5. PoolTotal(m) + LostTotal(m) + DustTotal(m) >= DueTotal(m) + ClaimTotal(m)
  BY DEF SolventAt
<1>6. PoolTotal(m)' + LostTotal(m)' + DustTotal(m)' >= DueTotal(m)' + ClaimTotal(m)'
  BY <1>2, <1>3, <1>4, <1>5
<1> QED
  BY <1>6 DEF SolventAt

\* n of a priced series are redeemed out of its mint's pool.
LEMMA RedeemSolvent ==
  ASSUME Booked, Booked', NEW m \in Mint, SolventAt(m),
         vault' = vault, closed_by' = closed_by, expiry_price' = expiry_price,
         NEW s \in Series, Priced(s), NEW n \in Nat, n > 0,
         Supply(s)' \in Nat, Supply(s) = Supply(s)' + n,
         \A r \in Series : r # s => Supply(r)' = Supply(r),
         PoolTotal(m)' + (IF Terms[s].collateral_mint = m THEN PayoutOf(s, n) ELSE 0)
           >= PoolTotal(m)
  PROVE  SolventAt(m)'
<1>0. Supply(s) \in Nat /\ \A r \in Series : Supply(r) \in Nat
  BY SupplyIsNat DEF Booked
<1>1. PayoutOf(s, n) \in Nat /\ Claims(s)' + PayoutOf(s, n) <= Claims(s)
  BY <1>0, ClaimSpent
<1>2. \A r \in Series : Writers(r)' = Writers(r)
  BY DEF Writers, Wrote, Exists
<1>3. CASE Terms[s].collateral_mint # m
  <2>1. Supply(s)' <= Supply(s)
    BY <1>0
  <2>2. ClaimsFall
    BY <1>0, <1>2, <2>1 DEF ClaimsFall
  <2>3. PoolTotal(m) \in Nat /\ PoolTotal(m)' \in Nat
    BY SolvencyTyped, SolvencyTypedNext DEF SolvencyNats
  <2>4. PoolTotal(m)' >= PoolTotal(m)
    BY <1>3, <2>3
  <2> QED
    BY <2>2, <2>4, QuietSolvent
<1>4. CASE Terms[s].collateral_mint = m
  <2>1. SolvencyNats(m) /\ SolvencyNats(m)'
    BY SolvencyTyped, SolvencyTypedNext
  <2>2. DueTotal(m)' = DueTotal(m) /\ LostTotal(m)' = LostTotal(m)
    BY TermsSame, VaultSumsSame
  <2>3. s \in SeriesOf(m) /\ SeriesOf(m)' = SeriesOf(m)
    BY <1>4 DEF SeriesOf
  <2>4. ASSUME NEW r \in SeriesOf(m) PROVE r # s => Claims(r)' = Claims(r)
    BY DEF SeriesOf, Claims, Priced, PayoutOf
  <2>5. ClaimTotal(m)' + PayoutOf(s, n) <= ClaimTotal(m)
    <3>1. /\ Summable(ClaimMap, SeriesOf(m)) /\ Summable(ClaimMap', SeriesOf(m))
      BY <2>1, <2>3 DEF SolvencyNats
    <3>2. \A r \in SeriesOf(m) \ {s} : ClaimMap'[r] = ClaimMap[r]
      BY <2>4 DEF ClaimMap, SeriesOf
    <3>3. ClaimMap[s] = Claims(s) /\ ClaimMap'[s] = Claims(s)'
      BY DEF ClaimMap
    <3>4. ClaimMap[s] \in Nat /\ ClaimMap'[s] \in Nat
      BY <2>3, <3>1 DEF Summable
    <3>5. Total(ClaimMap', SeriesOf(m)) =
            Total(ClaimMap, SeriesOf(m)) - ClaimMap[s] + ClaimMap'[s]
      BY <2>3, <3>1, <3>2, <3>4, TotalChanged
    <3>6. Total(ClaimMap, SeriesOf(m)) \in Nat
      BY <3>1, TotalIsNat
    <3>7. Total(ClaimMap', SeriesOf(m)) + PayoutOf(s, n) <= Total(ClaimMap, SeriesOf(m))
      BY <1>1, <3>3, <3>4, <3>5, <3>6
    <3> QED
      BY <2>3, <3>7 DEF ClaimTotal
  <2>6. DustTotal(m)' = DustTotal(m)
    <3>1. \A r \in SeriesOf(m) : DustMap[r] = DustMap'[r]
      BY <1>2, DustSame DEF DustMap, SeriesOf
    <3>2. Total(DustMap, SeriesOf(m)) = Total(DustMap', SeriesOf(m))
      BY <3>1, TotalSame
    <3> QED
      BY <2>3, <3>2 DEF DustTotal
  <2>7. /\ PoolTotal(m) \in Nat /\ DueTotal(m) \in Nat /\ LostTotal(m) \in Nat
        /\ DustTotal(m) \in Nat /\ ClaimTotal(m) \in Nat
        /\ PoolTotal(m)' \in Nat /\ ClaimTotal(m)' \in Nat
    BY <2>1 DEF SolvencyNats
  <2>8. PoolTotal(m) + LostTotal(m) + DustTotal(m) >= DueTotal(m) + ClaimTotal(m)
    BY DEF SolventAt
  <2>9. PoolTotal(m)' + PayoutOf(s, n) >= PoolTotal(m)
    BY <1>4
  <2>10. PoolTotal(m)' + LostTotal(m)' + DustTotal(m)' >= DueTotal(m)' + ClaimTotal(m)'
    BY <1>1, <2>2, <2>5, <2>6, <2>7, <2>8, <2>9
  <2> QED
    BY <2>10 DEF SolventAt
<1> QED
  BY <1>3, <1>4

\* Vaults that are settled say which instruction closed them.
Marked == \A v \in VaultKey : Exists(v) /\ vault[v].settled => closed_by[v] # "none"

LEMMA RequiredOfNothing ==
  ASSUME NEW s \in Series, Scalable(s)
  PROVE  RequiredCollateral(Terms[s], 0) = 0
<1>1. PICK z : z = RequiredCollateral(Terms[s], 0)
  OBVIOUS
<1>2. z \in Nat /\ z + z <= RequiredCollateral(Terms[s], 0 + 0)
  BY <1>1, RequiredSplits
<1>3. 0 + 0 = 0
  OBVIOUS
<1> QED
  BY <1>1, <1>2, <1>3

\* What a vault forfeits when s is priced.
Forfeits(s) ==
  [v \in VaultKey |->
     IF Wrote(v, s) /\ Short(v) THEN PayoutOf(s, vault[v].short_amount)' ELSE 0]

\* s gets its price, and nothing else happens.
PricingStep(s) ==
  /\ vault' = vault /\ closed_by' = closed_by
  /\ ~Priced(s) /\ Priced(s)'
  /\ \A r \in Series : r # s => expiry_price'[r] = expiry_price[r]
  /\ \A r \in Series : Supply(r)' = Supply(r)

\* All holders of s can claim at most what its vaults forfeit and the dust.
LEMMA ClaimsForfeited ==
  ASSUME Booked, Booked', NEW s \in Series, PricingStep(s)
  PROVE  /\ Summable(Forfeits(s), VaultKey)
         /\ Claims(s)' <= Total(Forfeits(s), VaultKey) + DustOf(s)'
<1> DEFINE n == Supply(s)
           F == Forfeits(s)
           W == Writers(s)
<1>1. ASSUME NEW v \in VaultKey, Wrote(v, s), Short(v)
      PROVE  /\ vault[v].short_amount \in Nat /\ Scalable(s)
             /\ RequiredCollateral(Terms[s], vault[v].short_amount) \in Nat
             /\ F[v] = Payout(Terms[s], expiry_price'[s], vault[v].short_amount)
  <2>1. vault[v].otoken_mint = s
    BY <1>1 DEF Wrote
  <2>2. /\ vault[v].short_amount \in Nat /\ Scalable(s)
        /\ RequiredCollateral(Terms[s], vault[v].short_amount) \in Nat
    BY <1>1, <2>1, ShortScales DEF Booked
  <2>3. F[v] = Payout(Terms[s], expiry_price'[s], vault[v].short_amount)
    BY <1>1 DEF Forfeits, PayoutOf, PricingStep
  <2> QED
    BY <2>2, <2>3
<1>2. Summable(F, VaultKey) /\ Total(F, VaultKey) \in Nat
  <2>1. ASSUME NEW v \in VaultKey PROVE F[v] \in Nat
    <3>1. CASE Wrote(v, s) /\ Short(v)
      BY <1>1, <3>1 DEF Payout
    <3>2. CASE ~(Wrote(v, s) /\ Short(v))
      BY <3>2 DEF Forfeits
    <3> QED
      BY <3>1, <3>2
  <2>2. Summable(F, VaultKey)
    BY <2>1, VaultKeyFinite DEF Summable
  <2> QED
    BY <2>2, TotalIsNat
<1>3. Claims(s)' = IF n > 0 THEN Payout(Terms[s], expiry_price'[s], n) ELSE 0
  BY DEF Claims, PayoutOf, PricingStep
<1>4. DustOf(s)' \in Nat
  <2>1. \A r : DustOf(r) \in Nat
    BY DustTyped
  <2>2. (\A r : DustOf(r) \in Nat)'
    BY DustTypedNext
  <2> QED
    BY <2>2
<1>5. CASE n > 0 /\ InTheMoney(Terms[s], expiry_price'[s])
  <2>1. Scalable(s) /\ n \in Nat
    BY <1>5, SupplyScales, SupplyIsNat DEF Booked
  <2>2. Summable(Shorts, W) /\ WrittenOf(s) \in Nat /\ n <= WrittenOf(s)
    BY ShortsSummable, SupplyIsNat DEF Booked, SupplyWithin
  <2>3. W # {}
    BY <1>5, <2>1, <2>2, TotalOfNothing DEF WrittenOf
  <2>4. PICK g : g = [v \in W |-> RequiredCollateral(Terms[s], Shorts[v])]
    OBVIOUS
  <2>5. RequiredCollateral(Terms[s], WrittenOf(s)) <=
          Total(g, W) + (IF Exact(s) THEN 0 ELSE Cardinality(W) - 1)
    BY <2>1, <2>2, <2>3, <2>4, RequiredOfTotal DEF WrittenOf
  <2>6. DustOf(s)' = IF Exact(s) THEN 0 ELSE Cardinality(W) - 1
    <3>1. W' = W
      BY DEF Writers, Wrote, Exists, PricingStep
    <3>2. Dust(s)' = Cardinality(W) - 1
      BY <2>3, <3>1 DEF Dust, Writers, PricingStep
    <3> QED
      BY <3>2 DEF DustOf, Exact
  <2>7. Total(F, VaultKey) = Total(g, W)
    <3>1. ASSUME NEW v \in W PROVE F[v] = g[v]
      <4>1. v \in VaultKey /\ Wrote(v, s) /\ Shorts[v] = vault[v].short_amount
            /\ Shorts[v] \in Nat
        BY <2>2 DEF Writers, Shorts, Summable
      <4>2. CASE Short(v)
        BY <1>1, <1>5, <2>4, <4>1, <4>2 DEF Payout
      <4>3. CASE ~Short(v)
        <5>1. Shorts[v] = 0
          BY <4>1, <4>3 DEF Short, Wrote
        <5>2. g[v] = 0
          BY <2>1, <2>4, <5>1, RequiredOfNothing
        <5> QED
          BY <4>1, <4>3, <5>2 DEF Forfeits
      <4> QED
        BY <4>2, <4>3
    <3>2. \A v \in VaultKey \ W : F[v] = 0
      BY DEF Forfeits, Writers
    <3>3. W \in SUBSET VaultKey
      BY DEF Writers
    <3> QED
      BY <3>1, <3>2, <3>3, TotalMasked
  <2>8. RequiredCollateral(Terms[s], n) <= RequiredCollateral(Terms[s], WrittenOf(s))
    <3>1. PICK k \in Nat : WrittenOf(s) = n + k
      <4>1. WrittenOf(s) - n \in Nat /\ WrittenOf(s) = n + (WrittenOf(s) - n)
        BY <2>1, <2>2
      <4> QED
        BY <4>1
    <3>2. /\ RequiredCollateral(Terms[s], n) \in Nat
          /\ RequiredCollateral(Terms[s], k) \in Nat
          /\ RequiredCollateral(Terms[s], n) + RequiredCollateral(Terms[s], k) <=
               RequiredCollateral(Terms[s], n + k)
          /\ RequiredCollateral(Terms[s], n + k) \in Nat
      <4>1. n + k \in Nat
        BY <2>1
      <4> QED
        BY <2>1, <4>1, RequiredSplits
    <3> HIDE DEF n
    <3> QED
      BY <3>1, <3>2
  <2>9. Claims(s)' = RequiredCollateral(Terms[s], n)
    BY <1>3, <1>5 DEF Payout
  <2>10. /\ RequiredCollateral(Terms[s], n) \in Nat
         /\ RequiredCollateral(Terms[s], WrittenOf(s)) \in Nat
    BY <2>1, <2>2, RequiredSplits
  <2> HIDE DEF n, F, W
  <2>11. Claims(s)' <= Total(F, VaultKey) + DustOf(s)'
    BY <1>2, <1>4, <2>5, <2>6, <2>7, <2>8, <2>9, <2>10
  <2> QED
    BY <1>2, <2>11 DEF F
<1>6. CASE ~(n > 0 /\ InTheMoney(Terms[s], expiry_price'[s]))
  <2>1. Claims(s)' = 0
    BY <1>3, <1>6 DEF Payout
  <2> QED
    BY <1>2, <1>4, <2>1
<1> QED
  BY <1>5, <1>6

\* Each vault's forfeit comes off what it is due, or is lost if it exited.
LEMMA VaultForfeits ==
  ASSUME Booked, ClosedRecorded, Marked, NEW s \in Series, PricingStep(s),
         NEW v \in VaultKey, NEW m, m = Terms[s].collateral_mint,
         DueOf(m, v) \in Nat, LostOf(m, v) \in Nat,
         DueOf(m, v)' \in Nat, LostOf(m, v)' \in Nat, Forfeits(s)[v] \in Nat
  PROVE  LostOf(m, v)' + DueOf(m, v) = LostOf(m, v) + DueOf(m, v)' + Forfeits(s)[v]
<1>1. vault'[v] = vault[v] /\ closed_by'[v] = closed_by[v]
  BY DEF PricingStep
<1>2. CASE Wrote(v, s) /\ Short(v)
  <2>1. PICK f : f = Forfeits(s)[v]
    OBVIOUS
  <2>2. vault[v].otoken_mint = s /\ Exists(v)
    BY <1>2 DEF Wrote
  <2>3. vault[v] \in Vault /\ Holds(v, m)
    BY <1>2, <2>2, ShortScales DEF Booked, Holds
  <2>4. VaultPayout(v) = 0
    BY <2>2 DEF VaultPayout, PricingStep
  <2>5. VaultPayout(v)' = f
    <3>1. f = PayoutOf(s, vault[v].short_amount)'
      BY <1>2, <2>1 DEF Forfeits
    <3>2. Short(v)' /\ vault'[v].otoken_mint = s
      BY <1>1, <1>2, <2>2 DEF Short, Exists
    <3> QED
      BY <1>1, <3>1, <3>2 DEF VaultPayout, PayoutOf, PricingStep
  <2>6. Holds(v, m)' /\ (Open(v)' <=> Open(v))
    BY <1>1, <2>3 DEF Holds, Open, Exists
  <2>7. vault[v].collateral_amount \in Nat /\ f \in Nat
    BY <2>1, <2>3, AmountType DEF Vault
  <2>8. CASE Open(v)
    <3>1. closed_by[v] = "none"
      BY <2>8 DEF ClosedRecorded, Open
    <3>2. LostOf(m, v) = 0 /\ LostOf(m, v)' = 0
      BY <1>1, <3>1 DEF LostOf
    <3>3. DueOf(m, v) = vault[v].collateral_amount
          /\ DueOf(m, v)' = vault[v].collateral_amount - f
      BY <1>1, <2>3, <2>4, <2>5, <2>6, <2>7, <2>8 DEF DueOf
    <3> QED
      BY <2>1, <2>7, <3>2, <3>3
  <2>9. CASE ~Open(v)
    <3>1. closed_by[v] # "none"
      BY <2>2, <2>9 DEF Marked, Open
    <3>2. closed_by[v] # "settle_vault"
      BY <2>2 DEF ClosedRecorded, PricingStep
    <3>3. closed_by[v] = "emergency_withdraw_vault"
      BY <3>1, <3>2 DEF Booked, TypeOK
    <3>4. LostOf(m, v) = 0 /\ LostOf(m, v)' = f
      BY <1>1, <2>3, <2>4, <2>5, <2>6, <3>3 DEF LostOf
    <3>5. DueOf(m, v) = 0 /\ DueOf(m, v)' = 0
      BY <2>6, <2>9 DEF DueOf
    <3> QED
      BY <2>1, <2>7, <3>4, <3>5
  <2> QED
    BY <2>8, <2>9
<1>3. CASE ~(Wrote(v, s) /\ Short(v))
  <2>1. Forfeits(s)[v] = 0
    BY <1>3 DEF Forfeits
  <2>2. VaultPayout(v)' = VaultPayout(v)
    <3>1. CASE Short(v)
      <4>1. vault[v].otoken_mint \in Series /\ vault[v].otoken_mint # s
        BY <1>3, <3>1, ShortScales DEF Wrote, Short, Booked
      <4>2. expiry_price'[vault[v].otoken_mint] = expiry_price[vault[v].otoken_mint]
        BY <4>1 DEF PricingStep
      <4> QED
        BY <1>1, <4>2 DEF VaultPayout, Short, Exists, Priced, PayoutOf
    <3>2. CASE ~Short(v)
      BY <1>1, <3>2 DEF VaultPayout, Short, Exists
    <3> QED
      BY <3>1, <3>2
  <2>3. DueOf(m, v)' = DueOf(m, v) /\ LostOf(m, v)' = LostOf(m, v)
    BY <1>1, <2>2 DEF DueOf, LostOf, Holds, Open, Exists
  <2> QED
    BY <2>1, <2>3
<1> QED
  BY <1>2, <1>3

\* The claims on a series that gets its price are what its vaults forfeit.
LEMMA PricingSolvent ==
  ASSUME Booked, Booked', ClosedRecorded, Marked, NEW s \in Series, PricingStep(s),
         NEW m \in Mint, m = Terms[s].collateral_mint, SolventAt(m),
         PoolTotal(m)' = PoolTotal(m)
  PROVE  SolventAt(m)'
<1>1. SolvencyNats(m) /\ SolvencyNats(m)'
  BY SolvencyTyped, SolvencyTypedNext
<1>2. /\ Summable(Dues(m), VaultKey) /\ Summable(Losses(m), VaultKey)
      /\ Summable(Dues(m)', VaultKey) /\ Summable(Losses(m)', VaultKey)
  BY <1>1 DEF SolvencyNats
<1>3. /\ Summable(Forfeits(s), VaultKey)
      /\ Claims(s)' <= Total(Forfeits(s), VaultKey) + DustOf(s)'
  BY ClaimsForfeited
<1>4. PICK f : f = Total(Forfeits(s), VaultKey)
  OBVIOUS
<1>5. f \in Nat
  BY <1>3, <1>4, TotalIsNat
<1>6. LostTotal(m)' + DueTotal(m) = LostTotal(m) + DueTotal(m)' + f
  <2>1. ASSUME NEW v \in VaultKey
        PROVE  Losses(m)'[v] + Dues(m)[v]
                 = Losses(m)[v] + Dues(m)'[v] + Forfeits(s)[v]
    <3>1. /\ Dues(m)[v] = DueOf(m, v) /\ Dues(m)'[v] = DueOf(m, v)'
          /\ Losses(m)[v] = LostOf(m, v) /\ Losses(m)'[v] = LostOf(m, v)'
      BY DEF Dues, Losses
    <3>2. /\ Dues(m)[v] \in Nat /\ Dues(m)'[v] \in Nat
          /\ Losses(m)[v] \in Nat /\ Losses(m)'[v] \in Nat /\ Forfeits(s)[v] \in Nat
      BY <1>2, <1>3 DEF Summable
    <3> QED
      BY <3>1, <3>2, VaultForfeits
  <2>2. Total(Losses(m)', VaultKey) + Total(Dues(m), VaultKey)
          = Total(Losses(m), VaultKey) + Total(Dues(m)', VaultKey)
              + Total(Forfeits(s), VaultKey)
    BY <1>2, <1>3, <2>1, VaultKeyFinite, BalancedSums
  <2> QED
    BY <1>4, <2>2 DEF LostTotal, DueTotal
<1>7. s \in SeriesOf(m) /\ SeriesOf(m)' = SeriesOf(m)
  BY DEF SeriesOf
<1>8. ASSUME NEW r \in SeriesOf(m) \ {s}
      PROVE  ClaimMap'[r] = ClaimMap[r] /\ DustMap'[r] = DustMap[r]
  <2>1. r \in Series /\ expiry_price'[r] = expiry_price[r] /\ Supply(r)' = Supply(r)
    BY DEF SeriesOf, PricingStep
  <2>2. Claims(r)' = Claims(r)
    BY <2>1 DEF Claims, Priced, PayoutOf
  <2>3. Writers(r)' = Writers(r)
    BY DEF Writers, Wrote, Exists, PricingStep
  <2>4. DustOf(r)' = DustOf(r)
    BY <2>1, <2>3, DustSame
  <2> QED
    BY <2>1, <2>2, <2>4 DEF ClaimMap, DustMap
<1>9. /\ Summable(ClaimMap, SeriesOf(m)) /\ Summable(ClaimMap', SeriesOf(m))
      /\ Summable(DustMap, SeriesOf(m)) /\ Summable(DustMap', SeriesOf(m))
  BY <1>1, <1>7 DEF SolvencyNats
<1>10. /\ ClaimMap[s] = 0 /\ ClaimMap'[s] = Claims(s)' /\ ClaimMap'[s] \in Nat
       /\ DustMap[s] = 0 /\ DustMap'[s] = DustOf(s)' /\ DustMap'[s] \in Nat
  <2>1. ClaimMap[s] = Claims(s) /\ DustMap[s] = DustOf(s)
        /\ ClaimMap'[s] = Claims(s)' /\ DustMap'[s] = DustOf(s)'
    BY DEF ClaimMap, DustMap
  <2>2. Claims(s) = 0 /\ DustOf(s) = 0
    BY DEF Claims, DustOf, Dust, PricingStep
  <2>3. ClaimMap'[s] \in Nat /\ DustMap'[s] \in Nat
    BY <1>7, <1>9 DEF Summable
  <2> QED
    BY <2>1, <2>2, <2>3
<1>11. ClaimTotal(m)' = ClaimTotal(m) + Claims(s)'
  <2>1. Total(ClaimMap', SeriesOf(m))
          = Total(ClaimMap, SeriesOf(m)) - ClaimMap[s] + ClaimMap'[s]
    BY <1>7, <1>8, <1>9, <1>10, TotalChanged
  <2>2. Total(ClaimMap, SeriesOf(m)) \in Nat
    BY <1>9, TotalIsNat
  <2> QED
    BY <1>7, <1>10, <2>1, <2>2 DEF ClaimTotal
<1>12. DustTotal(m)' = DustTotal(m) + DustOf(s)'
  <2>1. Total(DustMap', SeriesOf(m))
          = Total(DustMap, SeriesOf(m)) - DustMap[s] + DustMap'[s]
    BY <1>7, <1>8, <1>9, <1>10, TotalChanged
  <2>2. Total(DustMap, SeriesOf(m)) \in Nat
    BY <1>9, TotalIsNat
  <2> QED
    BY <1>7, <1>10, <2>1, <2>2 DEF DustTotal
<1>13. Claims(s)' \in Nat /\ DustOf(s)' \in Nat /\ Claims(s)' <= f + DustOf(s)'
  BY <1>3, <1>4, <1>10
<1>14. /\ PoolTotal(m) \in Nat /\ DueTotal(m) \in Nat /\ LostTotal(m) \in Nat
       /\ DustTotal(m) \in Nat /\ ClaimTotal(m) \in Nat
       /\ DueTotal(m)' \in Nat /\ LostTotal(m)' \in Nat
  BY <1>1 DEF SolvencyNats
<1>15. PoolTotal(m) + LostTotal(m) + DustTotal(m) >= DueTotal(m) + ClaimTotal(m)
  BY DEF SolventAt
<1>16. PoolTotal(m)' + LostTotal(m)' + DustTotal(m)' >= DueTotal(m)' + ClaimTotal(m)'
  BY <1>5, <1>6, <1>11, <1>12, <1>13, <1>14, <1>15
<1> QED
  BY <1>16 DEF SolventAt

\* A step that leaves a mint's vaults, pool and claims as they are.
LEMMA SameSolvent ==
  ASSUME Booked, Booked', NEW m \in Mint, SolventAt(m),
         \A v \in VaultKey : DueOf(m, v)' = DueOf(m, v) /\ LostOf(m, v)' = LostOf(m, v),
         \A s \in SeriesOf(m) : Claims(s)' = Claims(s) /\ DustOf(s)' = DustOf(s),
         PoolTotal(m)' = PoolTotal(m)
  PROVE  SolventAt(m)'
<1>1. SolvencyNats(m) /\ SolvencyNats(m)'
  BY SolvencyTyped, SolvencyTypedNext
<1>2. DueTotal(m)' = DueTotal(m) /\ LostTotal(m)' = LostTotal(m)
  BY VaultSumsSame
<1>3. \A s \in SeriesOf(m) : Claims(s) \in Nat /\ DustOf(s) \in Nat
  BY ClaimsTyped, DustTyped DEF SeriesOf
<1>4. ClaimTotal(m)' <= ClaimTotal(m) /\ DustTotal(m) <= DustTotal(m)'
  <2>1. \A s \in SeriesOf(m) : Claims(s)' <= Claims(s) /\ DustOf(s) <= DustOf(s)'
    BY <1>3
  <2> QED
    BY <1>1, <2>1, SeriesSums
<1>5. /\ PoolTotal(m) \in Nat /\ DueTotal(m) \in Nat /\ LostTotal(m) \in Nat
      /\ DustTotal(m) \in Nat /\ ClaimTotal(m) \in Nat
      /\ DustTotal(m)' \in Nat /\ ClaimTotal(m)' \in Nat
  BY <1>1 DEF SolvencyNats
<1>6. PoolTotal(m) + LostTotal(m) + DustTotal(m) >= DueTotal(m) + ClaimTotal(m)
  BY DEF SolventAt
<1>7. PoolTotal(m)' + LostTotal(m)' + DustTotal(m)' >= DueTotal(m)' + ClaimTotal(m)'
  BY <1>2, <1>4, <1>5, <1>6
<1> QED
  BY <1>7 DEF SolventAt

\* Pricing or registering a series leaves every vault that is not short of it,
\* and every other series, alone.
LEMMA OtherSeriesSolvent ==
  ASSUME Booked, Booked', NEW m \in Mint, SolventAt(m), NEW s \in Series,
         vault' = vault, closed_by' = closed_by, balance' = balance,
         \A r \in Series : r # s => expiry_price'[r] = expiry_price[r],
         ~Priced(s), ~Priced(s)' \/ Terms[s].collateral_mint # m
  PROVE  SolventAt(m)'
<1>1. ASSUME NEW v \in VaultKey
      PROVE  DueOf(m, v)' = DueOf(m, v) /\ LostOf(m, v)' = LostOf(m, v)
  <2>1. CASE Holds(v, m)
    <3>1. VaultPayout(v)' = VaultPayout(v)
      <4>1. CASE ~Short(v)
        BY <4>1 DEF VaultPayout, Short, Exists
      <4>2. CASE Short(v) /\ vault[v].otoken_mint = s
        <5>1. Terms[s].collateral_mint = m
          BY <2>1, <4>2, ShortScales DEF Holds, Booked
        <5> QED
          BY <4>2, <5>1 DEF VaultPayout
      <4>3. CASE Short(v) /\ vault[v].otoken_mint # s
        <5>1. vault[v].otoken_mint \in Series
          BY <4>3, ShortScales DEF Booked
        <5>2. expiry_price'[vault[v].otoken_mint] = expiry_price[vault[v].otoken_mint]
          BY <4>3, <5>1
        <5> QED
          BY <5>2 DEF VaultPayout, Short, Exists, Priced, PayoutOf
      <4> QED
        BY <4>1, <4>2, <4>3
    <3> QED
      BY <3>1 DEF DueOf, LostOf, Holds, Open, Exists
  <2>2. CASE ~Holds(v, m)
    BY <2>2 DEF DueOf, LostOf, Holds, Exists
  <2> QED
    BY <2>1, <2>2
<1>2. ASSUME NEW r \in SeriesOf(m)
      PROVE  Claims(r)' = Claims(r) /\ DustOf(r)' = DustOf(r)
  <2>0. r \in Series /\ Terms[r].collateral_mint = m
    BY DEF SeriesOf
  <2>1. Supply(r)' = Supply(r) /\ Writers(r)' = Writers(r)
    BY DEF Supply, Writers, Wrote, Exists
  <2>2. CASE r = s
    <3>1. ~Priced(r) /\ ~Priced(r)'
      BY <2>0, <2>2
    <3> QED
      BY <3>1 DEF Claims, DustOf, Dust, Exact
  <2>3. CASE r # s
    <3>1. expiry_price'[r] = expiry_price[r]
      BY <2>0, <2>3
    <3>2. Claims(r)' = Claims(r)
      BY <2>1, <3>1 DEF Claims, Priced, PayoutOf
    <3> QED
      BY <2>0, <2>1, <3>1, <3>2, DustSame
  <2> QED
    BY <2>2, <2>3
<1>3. PoolTotal(m)' = PoolTotal(m)
  BY PoolSame
<1> QED
  BY <1>1, <1>2, <1>3, SameSolvent

(***************************************************************************)
(* Each instruction keeps a mint solvent.                                  *)
(***************************************************************************)
\* The writers of a series are told by the series each vault is bound to.
LEMMA WritersKept ==
  ASSUME NEW s, NEW w \in VaultKey,
         \A v \in VaultKey : v # w => vault'[v] = vault[v],
         Wrote(w, s)' <=> Wrote(w, s)
  PROVE  Writers(s)' = Writers(s)
<1>1. \A v \in VaultKey : Wrote(v, s)' <=> Wrote(v, s)
  <2> SUFFICES ASSUME NEW v \in VaultKey PROVE Wrote(v, s)' <=> Wrote(v, s)
    OBVIOUS
  <2>1. CASE v = w
    BY <2>1
  <2>2. CASE v # w
    BY <2>2 DEF Wrote, Exists
  <2> QED
    BY <2>1, <2>2
<1> QED
  BY <1>1 DEF Writers

LEMMA SupplySame ==
  ASSUME NEW s, balance'[s] = balance[s]
  PROVE  Supply(s)' = Supply(s)
<1>1. Total(balance'[s], Account) = Total(balance[s], Account)
  OBVIOUS
<1> QED
  BY <1>1 DEF Supply

LEMMA OpenedRecord ==
  ASSUME TypeOK, NEW k \in Key, NEW c \in Mint, NEW b \in Key, OpenVault(k, c, b)
  PROVE  \E w \in VaultKey :
           /\ ~Exists(w) /\ Exists(w)'
           /\ vault'[w].collateral_mint = c /\ vault'[w].collateral_amount = 0
           /\ vault'[w].otoken_mint = Default /\ vault'[w].short_amount = 0
           /\ \A v \in VaultKey : v # w => vault'[v] = vault[v]
<1>0. PICK id : id = next_id[k]
  OBVIOUS
<1> DEFINE w == <<k, id>>
<1>1. next_id[k] \in 0..MaxVaultId /\ next_id[k] + 1 <= MaxVaultId
  BY DEF OpenVault, CanOpen, TypeOK
<1>2. w \in VaultKey
  BY <1>0, <1>1, ControllerAssumption DEF VaultKey, VaultId
<1>3. vault' = [vault EXCEPT ![w] = OpenedVault(c, b)] /\ ~Exists(w)
  BY <1>0 DEF OpenVault
<1>4. /\ vault'[w] = OpenedVault(c, b)
      /\ \A v \in VaultKey : v # w => vault'[v] = vault[v]
  BY <1>2, <1>3 DEF TypeOK
<1>5. OpenedVault(c, b) \in Vault
  BY AmountType DEF OpenedVault, Vault
<1>6. Exists(w)'
  BY <1>4, <1>5, VaultIsAccount DEF Exists
<1>7. /\ vault'[w].collateral_mint = c /\ vault'[w].collateral_amount = 0
      /\ vault'[w].otoken_mint = Default /\ vault'[w].short_amount = 0
  BY <1>4 DEF OpenedVault
<1> QED
  BY <1>2, <1>3, <1>4, <1>6, <1>7

LEMMA OpenVaultSolvent ==
  ASSUME Booked, Booked', ClosedRecorded, NEW m \in Mint, SolventAt(m),
         NEW k \in Key, NEW c \in Mint, NEW b \in Key, OpenVault(k, c, b)
  PROVE  SolventAt(m)'
<1>1. PICK w \in VaultKey :
         /\ ~Exists(w) /\ Exists(w)'
         /\ vault'[w].collateral_mint = c /\ vault'[w].collateral_amount = 0
         /\ vault'[w].otoken_mint = Default /\ vault'[w].short_amount = 0
         /\ \A v \in VaultKey : v # w => vault'[v] = vault[v]
  BY OpenedRecord DEF Booked
<1>2. balance' = balance /\ closed_by' = closed_by /\ expiry_price' = expiry_price
  BY DEF OpenVault, history
<1>3. closed_by[w] = "none"
  BY <1>1 DEF ClosedRecorded
<1>4. DueOf(m, w) = 0 /\ LostOf(m, w) = 0 /\ LostOf(m, w)' = 0
  BY <1>1, <1>2, <1>3 DEF DueOf, LostOf, Holds
<1>5. DueOf(m, w)' = 0
  <2>1. VaultPayout(w)' = 0
    BY <1>1 DEF VaultPayout, Short
  <2> QED
    BY <1>1, <2>1 DEF DueOf
<1>6. PoolTotal(m)' = PoolTotal(m) /\ PoolTotal(m) \in Nat
  BY <1>2, PoolSame, SolvencyTyped DEF SolvencyNats
<1>7. ASSUME NEW s \in Series
      PROVE  Supply(s)' <= Supply(s) /\ Writers(s)' = Writers(s)
  <2>1. Supply(s)' = Supply(s) /\ Supply(s) \in Nat
    BY <1>2, SupplySame, SupplyIsNat DEF Booked
  <2>2. ~Wrote(w, s) /\ ~Wrote(w, s)'
    BY <1>1, DefaultNotSeries DEF Wrote
  <2>3. Writers(s)' = Writers(s)
    BY <1>1, <2>2, WritersKept
  <2> QED
    BY <2>1, <2>3
<1>8. ClaimsFall
  BY <1>2, <1>7 DEF ClaimsFall
<1>9. PoolTotal(m)' + LostOf(m, w)' + DueOf(m, w) >=
        PoolTotal(m) + LostOf(m, w) + DueOf(m, w)'
  BY <1>4, <1>5, <1>6
<1>10. \A v \in VaultKey : v # w => vault'[v] = vault[v] /\ closed_by'[v] = closed_by[v]
  BY <1>1, <1>2
<1> QED
  BY <1>8, <1>9, <1>10, OneVaultSolvent

LEMMA DepositCollateralSolvent ==
  ASSUME Booked, Booked', NEW m \in Mint, SolventAt(m),
         NEW k \in Key, NEW id \in VaultId, NEW p \in PoolAccount,
         NEW n \in 1..MaxU64, DepositCollateral(k, id, p, n)
  PROVE  SolventAt(m)'
<1> DEFINE w == <<k, id>>
<1>0. TypeOK /\ n \in Nat
  BY AmountType DEF Booked
<1>1. PICK c : c = vault[w].collateral_mint
  OBVIOUS
<1>2. w \in VaultKey /\ Exists(w) /\ vault[w] \in Vault /\ c \in Mint
  BY <1>0, <1>1, VaultNotNoAccount DEF DepositCollateral, VaultKey, Vault
<1>3. /\ PoolMint[p] = c /\ ~vault[w].settled /\ Fee(c) = 0
      /\ vault[w].collateral_amount + n \in 0..MaxU64
  BY <1>1, <1>2, AmountType DEF DepositCollateral, CanDeposit, DepositFits, Vault
<1>4. vault'[w] = [vault[w] EXCEPT !.collateral_amount = @ + n]
  BY <1>0, <1>2 DEF DepositCollateral, WithCollateral, TypeOK
<1>5. /\ vault'[w] \in Vault /\ ~vault'[w].settled
      /\ vault'[w].collateral_mint = c
      /\ vault'[w].collateral_amount = vault[w].collateral_amount + n
      /\ vault'[w].otoken_mint = vault[w].otoken_mint
      /\ vault'[w].short_amount = vault[w].short_amount
  BY <1>1, <1>2, <1>3, <1>4 DEF Vault
<1>6. Exists(w)'
  BY <1>5, VaultIsAccount DEF Exists
<1>7. /\ balance' = [balance EXCEPT ![c] = TransferredLess(@, k, p, n, 0)]
      /\ closed_by' = closed_by /\ expiry_price' = expiry_price
      /\ \A v \in VaultKey : v # w => vault'[v] = vault[v]
  BY <1>0, <1>1, <1>3 DEF DepositCollateral, TypeOK, history
<1>8. VaultPayout(w)' = VaultPayout(w)
  BY <1>2, <1>5, <1>6, <1>7 DEF VaultPayout, Short, Priced, PayoutOf
<1>9. ASSUME NEW s \in Series
      PROVE  Supply(s)' <= Supply(s) /\ Writers(s)' = Writers(s)
  <2>1. balance'[s] = balance[s]
    BY <1>0, <1>2, <1>7, ControllerAssumption DEF TypeOK
  <2>2. Supply(s)' = Supply(s) /\ Supply(s) \in Nat
    BY <1>0, <2>1, SupplySame, SupplyIsNat
  <2>3. Wrote(w, s)' <=> Wrote(w, s)
    BY <1>2, <1>5, <1>6 DEF Wrote
  <2>4. Writers(s)' = Writers(s)
    BY <1>2, <1>7, <2>3, WritersKept
  <2> QED
    BY <2>2, <2>4
<1>10. ClaimsFall
  BY <1>7, <1>9 DEF ClaimsFall
<1>11. LostOf(m, w)' = LostOf(m, w) /\ (Holds(w, m)' <=> Holds(w, m))
       /\ (Open(w)' <=> Open(w))
  BY <1>1, <1>2, <1>3, <1>5, <1>6, <1>7, <1>8 DEF LostOf, Holds, Open
<1>12. PoolTotal(m) \in Nat /\ DueOf(m, w) \in Nat /\ LostOf(m, w) \in Nat
  BY <1>2, SolvencyTyped, DuesTyped DEF SolvencyNats, Booked
<1>13. CASE m = c
  <2>1. balance'[m] = TransferredLess(balance[m], k, p, n, 0)
    BY <1>0, <1>7, <1>13 DEF TypeOK
  <2>2. p \in PoolAccountsOf(m)
    BY <1>3, <1>13 DEF PoolAccountsOf
  <2>3. PoolTotal(m)' = PoolTotal(m) + (n - 0)
    BY <1>0, <2>1, <2>2, PoolReceives
  <2>4. DueOf(m, w)' = DueOf(m, w) + n
    <3>1. Holds(w, m) /\ Open(w)
      BY <1>1, <1>2, <1>3, <1>13 DEF Holds, Open
    <3>2. VaultPayout(w) \in Nat /\ vault[w].collateral_amount \in Nat
      BY <1>2, VaultPayoutBound DEF Booked
    <3>3. DueOf(m, w) = vault[w].collateral_amount - VaultPayout(w)
      BY <3>1 DEF DueOf
    <3>4. DueOf(m, w)' = vault'[w].collateral_amount - VaultPayout(w)
      BY <1>8, <1>11, <3>1 DEF DueOf
    <3> QED
      BY <1>0, <1>5, <3>2, <3>3, <3>4
  <2>5. PoolTotal(m)' + LostOf(m, w)' + DueOf(m, w) >=
          PoolTotal(m) + LostOf(m, w) + DueOf(m, w)'
    BY <1>0, <1>11, <1>12, <2>3, <2>4
  <2> QED
    BY <1>2, <1>7, <1>10, <2>5, OneVaultSolvent
<1>14. CASE m # c
  <2>1. balance'[m] = balance[m]
    BY <1>0, <1>7, <1>14 DEF TypeOK
  <2>2. PoolTotal(m)' = PoolTotal(m)
    BY <2>1, PoolSame
  <2>3. DueOf(m, w)' = 0 /\ DueOf(m, w) = 0
    BY <1>1, <1>11, <1>14 DEF DueOf, Holds
  <2>4. PoolTotal(m)' + LostOf(m, w)' + DueOf(m, w) >=
          PoolTotal(m) + LostOf(m, w) + DueOf(m, w)'
    BY <1>11, <1>12, <2>2, <2>3
  <2> QED
    BY <1>2, <1>7, <1>10, <2>4, OneVaultSolvent
<1> QED
  BY <1>13, <1>14

\* A series that may still be written has no price.
LEMMA MintOtokenSolvent ==
  ASSUME Booked, Booked', PricesAgree, NEW m \in Mint, SolventAt(m),
         NEW k \in Key, NEW id \in VaultId, NEW s \in Series, NEW d \in Key,
         NEW n \in 1..MaxU64, MintOtoken(k, id, s, d, n)
  PROVE  SolventAt(m)'
<1> DEFINE w == <<k, id>>
<1>0. TypeOK /\ Collateralised
  BY DEF Booked
<1>1. /\ w \in VaultKey /\ Exists(w) /\ vault'[w] \in Vault
      /\ vault[w].otoken_mint \in {Default, s}
      /\ vault'[w].otoken_mint = s
      /\ vault'[w].collateral_mint = vault[w].collateral_mint
      /\ vault'[w].collateral_amount = vault[w].collateral_amount
      /\ vault'[w].settled = vault[w].settled
      /\ \A v \in VaultKey : v # w => vault'[v] = vault[v]
  BY <1>0, MintedVault
<1>2. Exists(w)'
  BY <1>1, VaultIsAccount DEF Exists
<1>3. /\ balance' = [balance EXCEPT ![s] = Minted(@, d, n)]
      /\ closed_by' = closed_by /\ expiry_price' = expiry_price
  BY DEF MintOtoken, history
<1>4. ~Priced(s) /\ ~Priced(s)'
  <2>1. now < Terms[s].expiry
    BY DEF MintOtoken, CanMint
  <2>2. now \in Nat /\ Terms[s].expiry \in Nat
    BY <1>0, TermsType, ControllerAssumption DEF TypeOK, Time
  <2> QED
    BY <1>3, <2>1, <2>2 DEF PricesAgree, Priced
<1>5. VaultPayout(w) = 0 /\ VaultPayout(w)' = 0
  <2>1. Short(w) => vault[w].otoken_mint = s
    BY <1>0, <1>1, DefaultNotSeries DEF Collateralised, Backed
  <2> QED
    BY <1>1, <1>4, <2>1 DEF VaultPayout
<1>6. DueOf(m, w)' = DueOf(m, w) /\ LostOf(m, w)' = LostOf(m, w)
  BY <1>1, <1>2, <1>3, <1>5 DEF DueOf, LostOf, Holds, Open
<1>7. PoolTotal(m) \in Nat /\ DueOf(m, w) \in Nat /\ LostOf(m, w) \in Nat
  BY <1>0, <1>1, SolvencyTyped, DuesTyped DEF SolvencyNats
<1>8. PoolTotal(m)' = PoolTotal(m)
  <2>1. balance'[m] = balance[m]
    BY <1>0, <1>3, ControllerAssumption DEF TypeOK
  <2> QED
    BY <2>1, PoolSame
<1>9. ASSUME NEW r \in Series, Priced(r)
      PROVE  Supply(r)' <= Supply(r) /\ Writers(r)' = Writers(r)
  <2>1. r # s
    BY <1>4, <1>9
  <2>2. balance'[r] = balance[r]
    BY <1>0, <1>3, <2>1 DEF TypeOK
  <2>3. Supply(r)' = Supply(r) /\ Supply(r) \in Nat
    BY <1>0, <2>2, SupplySame, SupplyIsNat
  <2>4. ~Wrote(w, r) /\ ~Wrote(w, r)'
    BY <1>1, <2>1, DefaultNotSeries DEF Wrote
  <2>5. Writers(r)' = Writers(r)
    BY <1>1, <2>4, WritersKept
  <2> QED
    BY <2>3, <2>5
<1>10. ClaimsFall
  BY <1>3, <1>9 DEF ClaimsFall
<1>11. PoolTotal(m)' + LostOf(m, w)' + DueOf(m, w) >=
         PoolTotal(m) + LostOf(m, w) + DueOf(m, w)'
  BY <1>6, <1>7, <1>8
<1>12. \A v \in VaultKey : v # w => vault'[v] = vault[v] /\ closed_by'[v] = closed_by[v]
  BY <1>1, <1>3
<1> QED
  BY <1>1, <1>10, <1>11, <1>12, OneVaultSolvent

\* Closing a vault keeps its terms.
LEMMA ClosedTerms ==
  ASSUME Booked, NEW w \in VaultKey, vault[w] \in Vault, Exists(w),
         vault' = [vault EXCEPT ![w].settled = TRUE], expiry_price' = expiry_price
  PROVE  /\ Exists(w)' /\ vault'[w].settled
         /\ vault'[w].collateral_mint = vault[w].collateral_mint
         /\ VaultPayout(w)' = VaultPayout(w)
         /\ \A s \in Series : Writers(s)' = Writers(s)
         /\ \A v \in VaultKey : v # w => vault'[v] = vault[v]
<1>1. vault'[w] = [vault[w] EXCEPT !.settled = TRUE]
  BY DEF Booked, TypeOK
<1>2. /\ vault'[w] \in Vault /\ vault'[w].settled
      /\ vault'[w].collateral_mint = vault[w].collateral_mint
      /\ vault'[w].otoken_mint = vault[w].otoken_mint
      /\ vault'[w].short_amount = vault[w].short_amount
  BY <1>1, ClosedVault DEF Vault
<1>3. Exists(w)'
  BY <1>2, VaultIsAccount DEF Exists
<1>4. \A v \in VaultKey : v # w => vault'[v] = vault[v]
  BY DEF Booked, TypeOK
<1>5. VaultPayout(w)' = VaultPayout(w)
  BY <1>2, <1>3 DEF VaultPayout, Short, Priced, PayoutOf
<1>6. ASSUME NEW s \in Series PROVE Writers(s)' = Writers(s)
  <2>1. Wrote(w, s)' <=> Wrote(w, s)
    BY <1>2, <1>3 DEF Wrote
  <2> QED
    BY <1>4, <2>1, WritersKept
<1> QED
  BY <1>2, <1>3, <1>4, <1>5, <1>6

\* settle_vault pays a vault what it is due; its payout stays in the pool.
LEMMA SettleVaultSolvent ==
  ASSUME Booked, Booked', ClosedRecorded, NEW m \in Mint, SolventAt(m),
         NEW k \in Key, NEW w \in VaultKey, NEW p \in PoolAccount,
         SettleVault(k, w, p)
  PROVE  SolventAt(m)'
<1>0. TypeOK
  BY DEF Booked
<1>1. PICK c : c = vault[w].collateral_mint
  OBVIOUS
<1>2. PICK due : due = vault[w].collateral_amount
                         - PayoutOf(vault[w].otoken_mint, vault[w].short_amount)
  OBVIOUS
<1>3. /\ vault[w] \in Vault /\ Open(w)
      /\ vault[w].otoken_mint \in Series
      /\ vault[w].short_amount > 0 /\ Priced(vault[w].otoken_mint)
      /\ due \in Nat /\ expiry_price' = expiry_price
      /\ closed_by' = [closed_by EXCEPT ![w] = "settle_vault"]
  BY <1>0, <1>2, SettledVault
<1>4. c \in Mint /\ vault[w].beneficiary \in Key
  BY <1>1, <1>3 DEF Vault
<1>5. /\ Exists(w)' /\ vault'[w].settled /\ vault'[w].collateral_mint = c
      /\ \A s \in Series : Writers(s)' = Writers(s)
      /\ \A v \in VaultKey : v # w => vault'[v] = vault[v]
  <2>1. vault' = [vault EXCEPT ![w].settled = TRUE] /\ Exists(w)
    BY DEF SettleVault
  <2> QED
    BY <1>1, <1>3, <2>1, ClosedTerms
<1>6. \A v \in VaultKey : v # w => closed_by'[v] = closed_by[v]
  BY <1>0, <1>3 DEF TypeOK
<1>7. LostOf(m, w) = 0 /\ LostOf(m, w)' = 0
  <2>1. closed_by[w] = "none"
    BY <1>3 DEF ClosedRecorded, Open
  <2>2. closed_by'[w] = "settle_vault"
    BY <1>0, <1>3 DEF TypeOK
  <2> QED
    BY <2>1, <2>2 DEF LostOf
<1>8. DueOf(m, w)' = 0
  BY <1>5 DEF DueOf, Open
<1>9. VaultPayout(w) = PayoutOf(vault[w].otoken_mint, vault[w].short_amount)
  BY <1>3 DEF VaultPayout, Short, Open
<1>10. DueOf(m, w) = IF m = c THEN due ELSE 0
  BY <1>1, <1>2, <1>3, <1>9 DEF DueOf, Holds, Open
<1>11. balance' = [balance EXCEPT ![c] = PaidOut(c, p, vault[w].beneficiary, due)]
  BY <1>1, <1>2 DEF SettleVault
<1>12. ClaimsFall
  <2>1. ASSUME NEW s \in Series PROVE Supply(s)' <= Supply(s)
    <3>1. balance'[s] = balance[s]
      BY <1>0, <1>4, <1>11, ControllerAssumption DEF TypeOK
    <3> QED
      BY <1>0, <3>1, SupplySame, SupplyIsNat
  <2> QED
    BY <1>3, <1>5, <2>1 DEF ClaimsFall
<1>13. PoolTotal(m) \in Nat
  BY SolvencyTyped DEF SolvencyNats
<1>14. PoolTotal(m)' = PoolTotal(m) - (IF m = c THEN due ELSE 0)
  <2>1. CASE m = c
    <3>1. CanPayOut(m, p, due)
      BY <1>1, <1>2, <2>1 DEF SettleVault
    <3>2. balance'[m] = PaidOut(m, p, vault[w].beneficiary, due)
      BY <1>0, <1>11, <2>1 DEF TypeOK
    <3> QED
      BY <1>0, <1>3, <1>4, <2>1, <3>1, <3>2, PoolPaysOut
  <2>2. CASE m # c
    <3>1. balance'[m] = balance[m]
      BY <1>0, <1>11, <2>2 DEF TypeOK
    <3> QED
      BY <1>13, <2>2, <3>1, PoolSame
  <2> QED
    BY <2>1, <2>2
<1>15. PoolTotal(m)' + LostOf(m, w)' + DueOf(m, w) >=
         PoolTotal(m) + LostOf(m, w) + DueOf(m, w)'
  BY <1>3, <1>7, <1>8, <1>10, <1>13, <1>14
<1> QED
  BY <1>5, <1>6, <1>12, <1>15, OneVaultSolvent

\* The emergency exit takes the whole collateral: the payout is lost.
LEMMA EmergencyWithdrawSolvent ==
  ASSUME Booked, Booked', ClosedRecorded, NEW m \in Mint, SolventAt(m),
         NEW k \in Key, NEW id \in VaultId, NEW p \in PoolAccount,
         EmergencyWithdrawVault(k, id, p)
  PROVE  SolventAt(m)'
<1>0. TypeOK
  BY DEF Booked
<1> DEFINE w == <<k, id>>
<1>1. PICK c : c = vault[w].collateral_mint
  OBVIOUS
<1>2. PICK whole : whole = vault[w].collateral_amount
  OBVIOUS
<1>3. /\ w \in VaultKey /\ vault[w] \in Vault /\ Open(w)
      /\ closed_by' = [closed_by EXCEPT ![w] = "emergency_withdraw_vault"]
  BY <1>0, EmergencyVault
<1>4. c \in Mint /\ vault[w].beneficiary \in Key /\ expiry_price' = expiry_price
  BY <1>1, <1>3 DEF Vault, EmergencyWithdrawVault
<1>5. /\ Exists(w) /\ Exists(w)' /\ vault'[w].settled /\ vault'[w].collateral_mint = c
      /\ VaultPayout(w)' = VaultPayout(w)
      /\ \A s \in Series : Writers(s)' = Writers(s)
      /\ \A v \in VaultKey : v # w => vault'[v] = vault[v]
  <2>1. vault' = [vault EXCEPT ![w].settled = TRUE] /\ Exists(w)
    BY <1>3 DEF EmergencyWithdrawVault, Open
  <2> QED
    BY <1>1, <1>3, <1>4, <2>1, ClosedTerms
<1>6. \A v \in VaultKey : v # w => closed_by'[v] = closed_by[v]
  BY <1>0, <1>3 DEF TypeOK
<1>7. PICK lost : lost = VaultPayout(w)
  OBVIOUS
<1>8. lost \in Nat /\ whole \in Nat /\ lost <= whole
  BY <1>2, <1>3, <1>5, <1>7, VaultPayoutBound DEF Booked
<1>9. LostOf(m, w) = 0 /\ LostOf(m, w)' = IF m = c THEN lost ELSE 0
  <2>1. closed_by[w] = "none"
    BY <1>3 DEF ClosedRecorded, Open
  <2>2. closed_by'[w] = "emergency_withdraw_vault"
    BY <1>0, <1>3 DEF TypeOK
  <2> QED
    BY <1>5, <1>7, <2>1, <2>2 DEF LostOf, Holds
<1>10. DueOf(m, w)' = 0 /\ DueOf(m, w) = IF m = c THEN whole - lost ELSE 0
  BY <1>1, <1>2, <1>3, <1>5, <1>7 DEF DueOf, Holds, Open
<1>11. balance' = [balance EXCEPT ![c] = PaidOut(c, p, vault[w].beneficiary, whole)]
  BY <1>1, <1>2 DEF EmergencyWithdrawVault
<1>12. ClaimsFall
  <2>1. ASSUME NEW s \in Series PROVE Supply(s)' <= Supply(s)
    <3>1. balance'[s] = balance[s]
      BY <1>0, <1>4, <1>11, ControllerAssumption DEF TypeOK
    <3> QED
      BY <1>0, <3>1, SupplySame, SupplyIsNat
  <2> QED
    BY <1>4, <1>5, <2>1 DEF ClaimsFall
<1>13. PoolTotal(m) \in Nat
  BY SolvencyTyped DEF SolvencyNats
<1>14. PoolTotal(m)' = PoolTotal(m) - (IF m = c THEN whole ELSE 0)
  <2>1. CASE m = c
    <3>1. CanPayOut(m, p, whole)
      BY <1>1, <1>2, <2>1 DEF EmergencyWithdrawVault, CanEmergencyWithdraw
    <3>2. balance'[m] = PaidOut(m, p, vault[w].beneficiary, whole)
      BY <1>0, <1>11, <2>1 DEF TypeOK
    <3> QED
      BY <1>0, <1>4, <1>8, <2>1, <3>1, <3>2, PoolPaysOut
  <2>2. CASE m # c
    <3>1. balance'[m] = balance[m]
      BY <1>0, <1>11, <2>2 DEF TypeOK
    <3> QED
      BY <1>13, <2>2, <3>1, PoolSame
  <2> QED
    BY <2>1, <2>2
<1>15. PoolTotal(m)' + LostOf(m, w)' + DueOf(m, w) >=
         PoolTotal(m) + LostOf(m, w) + DueOf(m, w)'
  BY <1>8, <1>9, <1>10, <1>13, <1>14
<1> QED
  BY <1>3, <1>5, <1>6, <1>12, <1>15, OneVaultSolvent

LEMMA RedeemKeepsSolvent ==
  ASSUME Booked, Booked', NEW m \in Mint, SolventAt(m),
         NEW k \in Key, NEW s \in Series, NEW p \in PoolAccount,
         NEW n \in 1..MaxU64, Redeem(k, s, p, n)
  PROVE  SolventAt(m)'
<1>0. TypeOK /\ n \in Nat /\ n > 0
  BY AmountType DEF Booked
<1>1. PICK c : c = Terms[s].collateral_mint
  OBVIOUS
<1>2. PICK pay : pay = PayoutOf(s, n)
  OBVIOUS
<1>3. c \in Mint /\ c # s
  BY <1>1, TermsType, ControllerAssumption
<1>4. pay \in Nat
  BY <1>0, <1>2, PayoutIsNat DEF Redeem, CanRedeem
<1>5. vault' = vault /\ closed_by' = closed_by /\ expiry_price' = expiry_price
  BY DEF Redeem, accounts
<1>6. Priced(s)
  BY DEF Redeem, CanRedeem, CanSettleSeries
<1>7. /\ Supply(s)' = Supply(s) - n /\ Supply(s) \in Nat /\ Supply(s)' \in Nat
      /\ Supply(s) = Supply(s)' + n
  <2>1. Supply(s)' = Supply(s) - n /\ Supply(s) \in Nat
    BY <1>0, RedeemSupply, SupplyIsNat
  <2>2. Supply(s)' \in Nat
    BY SupplyTypedNext DEF Booked
  <2> QED
    BY <1>0, <2>1, <2>2
<1>8. \A r \in Series : r # s => Supply(r)' = Supply(r)
  <2> SUFFICES ASSUME NEW r \in Series, r # s PROVE Supply(r)' = Supply(r)
    OBVIOUS
  <2>1. r # c
    BY <1>3, ControllerAssumption
  <2>2. balance'[r] = balance[r]
    BY <1>0, <1>1, <2>1 DEF Redeem, TypeOK
  <2> QED
    BY <2>2, SupplySame
<1>9. PoolTotal(m) \in Nat
  BY SolvencyTyped DEF SolvencyNats
<1>10. PoolTotal(m)' + (IF Terms[s].collateral_mint = m THEN PayoutOf(s, n) ELSE 0)
         >= PoolTotal(m)
  <2>1. CASE m = c
    <3>1. CanPayOut(m, p, pay)
      BY <1>1, <1>2, <2>1 DEF Redeem, CanRedeem
    <3>2. balance'[m] = PaidOut(m, p, k, pay)
      BY <1>0, <1>1, <1>2, <1>3, <2>1 DEF Redeem, TypeOK
    <3>3. PoolTotal(m)' = PoolTotal(m) - pay
      BY <1>0, <1>4, <3>1, <3>2, PoolPaysOut
    <3> QED
      BY <1>1, <1>2, <1>4, <1>9, <2>1, <3>3
  <2>2. CASE m # c
    <3>1. m # s
      BY ControllerAssumption
    <3>2. balance'[m] = balance[m]
      BY <1>0, <1>1, <2>2, <3>1 DEF Redeem, TypeOK
    <3>3. PoolTotal(m)' = PoolTotal(m)
      BY <3>2, PoolSame
    <3> QED
      BY <1>1, <1>9, <2>2, <3>3
  <2> QED
    BY <2>1, <2>2
<1> QED
  BY <1>0, <1>5, <1>6, <1>7, <1>8, <1>10, RedeemSolvent

\* Wallets cannot take collateral out of the pool, nor create oTokens.
LEMMA TransferTokensSolvent ==
  ASSUME Booked, Booked', NEW m \in Mint, SolventAt(m),
         NEW t \in Transferable, NEW from \in Key, NEW to \in Account,
         NEW n \in 1..MaxU64, TransferTokens(t, from, to, n)
  PROVE  SolventAt(m)'
<1>0. TypeOK
  BY DEF Booked
<1>1. vault' = vault /\ closed_by' = closed_by /\ expiry_price' = expiry_price
  BY DEF TransferTokens, accounts, history
<1>2. ASSUME NEW s \in Series
      PROVE  Supply(s)' <= Supply(s) /\ Writers(s)' = Writers(s)
  <2>1. Writers(s)' = Writers(s)
    BY <1>1 DEF Writers, Wrote, Exists
  <2>2. Supply(s)' = Supply(s)
    <3>1. CASE t = s
      BY <1>0, <3>1, TransferTokensSupply
    <3>2. CASE t # s
      <4>1. balance'[s] = balance[s]
        BY <1>0, <3>2 DEF TransferTokens, TypeOK
      <4> QED
        BY <4>1, SupplySame
    <3> QED
      BY <3>1, <3>2
  <2> QED
    BY <1>0, <2>1, <2>2, SupplyIsNat
<1>3. ClaimsFall
  BY <1>1, <1>2 DEF ClaimsFall
<1>4. PoolTotal(m) \in Nat
  BY SolvencyTyped DEF SolvencyNats
<1>5. Fee(m) \in Nat /\ n \in Nat /\ n >= Fee(m)
  BY FeeType, AmountType
<1>6. PoolTotal(m)' >= PoolTotal(m)
  <2>1. CASE t # m
    <3>1. balance'[m] = balance[m]
      BY <1>0, <2>1 DEF TransferTokens, TypeOK
    <3> QED
      BY <1>4, <3>1, PoolSame
  <2>2. CASE t = m /\ to \in PoolAccountsOf(m)
    <3>1. balance'[m] = TransferredLess(balance[m], from, to, n, Fee(m))
      BY <1>0, <2>2 DEF TransferTokens, TypeOK
    <3>2. PoolTotal(m)' = PoolTotal(m) + (n - Fee(m))
      BY <1>0, <1>5, <2>2, <3>1, PoolReceives
    <3> QED
      BY <1>4, <1>5, <3>2
  <2>3. CASE t = m /\ to \notin PoolAccountsOf(m)
    <3>1. balance'[m] = TransferredLess(balance[m], from, to, n, Fee(m))
      BY <1>0, <2>3 DEF TransferTokens, TypeOK
    <3>2. from \notin PoolAccountsOf(m)
      BY ControllerAssumption DEF PoolAccountsOf
    <3>3. \A p \in PoolAccountsOf(m) : balance'[m][p] = balance[m][p]
      BY <1>0, <2>3, <3>1, <3>2, PoolSummable DEF TransferredLess
    <3> QED
      BY <1>4, <3>3, PoolSame
  <2> QED
    BY <2>1, <2>2, <2>3
<1> QED
  BY <1>1, <1>3, <1>6, QuietSolvent

LEMMA SetExpiryPriceSolvent ==
  ASSUME Booked, Booked', ClosedRecorded, Marked, NEW m \in Mint, SolventAt(m),
         NEW k \in Key, NEW s \in Series, SetExpiryPrice(k, s)
  PROVE  SolventAt(m)'
<1>1. /\ vault' = vault /\ closed_by' = closed_by /\ balance' = balance
      /\ \A r \in Series : r # s => expiry_price'[r] = expiry_price[r]
  BY DEF SetExpiryPrice, history, Booked, TypeOK
<1>2. ~Priced(s)
  BY DEF SetExpiryPrice, Priced
<1>3. CASE Terms[s].collateral_mint # m
  BY <1>1, <1>2, <1>3, OtherSeriesSolvent
<1>4. CASE Terms[s].collateral_mint = m
  <2>1. Priced(s)'
    <3>1. expiry_price'[s] = oracle_price[FixingOf(s)] /\ oracle_price[FixingOf(s)] > 0
          /\ oracle_price[FixingOf(s)] # NoAccount
      BY DEF SetExpiryPrice, Booked, TypeOK
    <3> QED
      BY <3>1 DEF Priced
  <2>2. PricingStep(s)
    BY <1>1, <1>2, <2>1, SupplySame DEF PricingStep
  <2>3. PoolTotal(m)' = PoolTotal(m)
    BY <1>1, PoolSame
  <2> QED
    BY <1>4, <2>2, <2>3, PricingSolvent
<1> QED
  BY <1>3, <1>4

LEMMA CreateOTokenInfoSolvent ==
  ASSUME Booked, Booked', NEW m \in Mint, SolventAt(m),
         NEW s \in Series, CreateOTokenInfo(s)
  PROVE  SolventAt(m)'
<1>1. /\ vault' = vault /\ closed_by' = closed_by /\ balance' = balance
      /\ \A r \in Series : r # s => expiry_price'[r] = expiry_price[r]
      /\ expiry_price[s] = NoAccount /\ expiry_price'[s] = 0
  BY DEF CreateOTokenInfo, history, Booked, TypeOK
<1>2. ~Priced(s) /\ ~Priced(s)'
  BY <1>1 DEF Priced
<1> QED
  BY <1>1, <1>2, OtherSeriesSolvent

(***************************************************************************)
(* Solvency.                                                               *)
(***************************************************************************)
Solvent == \A m \in Mint : SolventAt(m)

LEMMA NextSolvent ==
  /\ Booked /\ Booked' /\ PricesAgree /\ ClosedRecorded /\ Marked
  /\ Solvent /\ [Next]_vars
  => Solvent'
<1> SUFFICES ASSUME Booked, Booked', PricesAgree, ClosedRecorded, Marked, Solvent,
                    [Next]_vars, NEW m \in Mint
             PROVE  SolventAt(m)'
  BY DEF Solvent
<1>0. SolventAt(m)
  BY DEF Solvent
<1>1. ASSUME NEW k \in Key, NEW b \in Key, NEW c \in Mint, OpenVault(k, c, b)
      PROVE  SolventAt(m)'
  BY <1>0, <1>1, OpenVaultSolvent
<1>2. ASSUME NEW k \in Key, NEW id \in VaultId, NEW p \in PoolAccount,
             NEW n \in 1..MaxU64, DepositCollateral(k, id, p, n)
      PROVE  SolventAt(m)'
  BY <1>0, <1>2, DepositCollateralSolvent
<1>3. ASSUME NEW k \in Key, NEW d \in Key, NEW id \in VaultId, NEW s \in Series,
             NEW n \in 1..MaxU64, MintOtoken(k, id, s, d, n)
      PROVE  SolventAt(m)'
  BY <1>0, <1>3, MintOtokenSolvent
<1>4. ASSUME NEW k \in Key, NEW w \in VaultKey, NEW p \in PoolAccount,
             SettleVault(k, w, p)
      PROVE  SolventAt(m)'
  BY <1>0, <1>4, SettleVaultSolvent
<1>5. ASSUME NEW k \in Key, NEW id \in VaultId, NEW p \in PoolAccount,
             EmergencyWithdrawVault(k, id, p)
      PROVE  SolventAt(m)'
  BY <1>0, <1>5, EmergencyWithdrawSolvent
<1>6. ASSUME NEW k \in Key, NEW s \in Series, NEW p \in PoolAccount,
             NEW n \in 1..MaxU64, Redeem(k, s, p, n)
      PROVE  SolventAt(m)'
  BY <1>0, <1>6, RedeemKeepsSolvent
<1>7. ASSUME NEW t \in Transferable, NEW from \in Key, NEW to \in Account,
             NEW n \in 1..MaxU64, TransferTokens(t, from, to, n)
      PROVE  SolventAt(m)'
  BY <1>0, <1>7, TransferTokensSolvent
<1>8. ASSUME NEW k \in Key, NEW s \in Series, SetExpiryPrice(k, s)
      PROVE  SolventAt(m)'
  BY <1>0, <1>8, SetExpiryPriceSolvent
<1>9. ASSUME NEW s \in Series, CreateOTokenInfo(s)
      PROVE  SolventAt(m)'
  BY <1>0, <1>9, CreateOTokenInfoSolvent
<1>10. CASE /\ vault' = vault /\ balance' = balance /\ closed_by' = closed_by
            /\ expiry_price' = expiry_price
  <2>1. ASSUME NEW s \in Series
        PROVE  Supply(s)' <= Supply(s) /\ Writers(s)' = Writers(s)
    <3>1. Supply(s)' = Supply(s) /\ Supply(s) \in Nat
      BY <1>10, SupplySame, SupplyIsNat DEF Booked
    <3> QED
      BY <1>10, <3>1 DEF Writers, Wrote, Exists
  <2>2. ClaimsFall
    BY <1>10, <2>1 DEF ClaimsFall
  <2>3. PoolTotal(m)' = PoolTotal(m) /\ PoolTotal(m) \in Nat
    BY <1>10, PoolSame, SolvencyTyped DEF SolvencyNats
  <2>4. PoolTotal(m)' >= PoolTotal(m)
    BY <2>3
  <2> QED
    BY <1>0, <1>10, <2>2, <2>4, QuietSolvent
<1>11. \/ /\ vault' = vault /\ balance' = balance /\ closed_by' = closed_by
          /\ expiry_price' = expiry_price
       \/ \E k, b \in Key, c \in Mint : OpenVault(k, c, b)
       \/ \E k \in Key, id \in VaultId, p \in PoolAccount, n \in 1..MaxU64 :
            DepositCollateral(k, id, p, n)
       \/ \E k, d \in Key, id \in VaultId, s \in Series, n \in 1..MaxU64 :
            MintOtoken(k, id, s, d, n)
       \/ \E k \in Key, w \in VaultKey, p \in PoolAccount : SettleVault(k, w, p)
       \/ \E k \in Key, id \in VaultId, p \in PoolAccount :
            EmergencyWithdrawVault(k, id, p)
       \/ \E k \in Key, s \in Series, p \in PoolAccount, n \in 1..MaxU64 :
            Redeem(k, s, p, n)
       \/ \E t \in Transferable, from \in Key, to \in Account, n \in 1..MaxU64 :
            TransferTokens(t, from, to, n)
       \/ \E k \in Key, s \in Series : SetExpiryPrice(k, s)
       \/ \E s \in Series : CreateOTokenInfo(s)
  BY DEF Next, AdminNext, OwnerNext, MintNext, HolderNext, SeriesNext, ChainNext, vars,
     accounts, history, Initialize, InitializeCounter, SetPartialPauser,
     SetPartiallyPaused, SetFullyPaused, WhitelistOtoken, FinalizeOraclePrice,
     TurnFeeOn, Tick
<1> QED
  BY <1>1, <1>2, <1>3, <1>4, <1>5, <1>6, <1>7, <1>8, <1>9, <1>10, <1>11

LEMMA NextMarked == TypeOK /\ Marked /\ [Next]_vars => Marked'
<1> SUFFICES ASSUME TypeOK, Marked, [Next]_vars, NEW v \in VaultKey,
                    (Exists(v) /\ vault[v].settled)'
             PROVE  closed_by'[v] # "none"
  BY DEF Marked
<1>1. ASSUME NEW k \in Key, NEW w \in VaultKey, NEW p \in PoolAccount,
             SettleVault(k, w, p)
      PROVE  closed_by'[v] # "none"
  <2>1. /\ \A u \in VaultKey : u # w => vault'[u] = vault[u]
        /\ closed_by' = [closed_by EXCEPT ![w] = "settle_vault"]
    BY <1>1, SettledVault
  <2>2. CASE v = w
    BY <2>1, <2>2 DEF TypeOK
  <2>3. CASE v # w
    BY <2>1, <2>3 DEF TypeOK, Marked, Exists
  <2> QED
    BY <2>2, <2>3
<1>2. ASSUME NEW k \in Key, NEW id \in VaultId, NEW p \in PoolAccount,
             EmergencyWithdrawVault(k, id, p)
      PROVE  closed_by'[v] # "none"
  <2>0. PICK w : w = <<k, id>>
    OBVIOUS
  <2>1. /\ \A u \in VaultKey : u # w => vault'[u] = vault[u]
        /\ closed_by' = [closed_by EXCEPT ![w] = "emergency_withdraw_vault"]
    BY <1>2, <2>0, EmergencyVault
  <2>2. CASE v = w
    BY <2>1, <2>2 DEF TypeOK
  <2>3. CASE v # w
    BY <2>1, <2>3 DEF TypeOK, Marked, Exists
  <2> QED
    BY <2>2, <2>3
<1>3. ASSUME closed_by' = closed_by, Exists(v), vault[v].settled
      PROVE  closed_by'[v] # "none"
  BY <1>3 DEF Marked
<1>4. ASSUME NEW k \in Key, NEW b \in Key, NEW c \in Mint, OpenVault(k, c, b)
      PROVE  Exists(v) /\ vault[v].settled
  <2>0. PICK w : w = <<k, next_id[k]>>
    OBVIOUS
  <2>1. vault' = [vault EXCEPT ![w] = OpenedVault(c, b)]
    BY <1>4, <2>0 DEF OpenVault
  <2>2. CASE v = w
    <3>1. vault'[v] = OpenedVault(c, b)
      BY <2>1, <2>2 DEF TypeOK
    <3>2. OpenedVault(c, b).settled = FALSE
      BY DEF OpenedVault
    <3> QED
      BY <3>1, <3>2
  <2>3. CASE v # w
    BY <2>1, <2>3 DEF TypeOK, Exists
  <2> QED
    BY <2>2, <2>3
<1>5. ASSUME NEW k \in Key, NEW id \in VaultId, NEW p \in PoolAccount,
             NEW n \in 1..MaxU64, DepositCollateral(k, id, p, n)
      PROVE  Exists(v) /\ vault[v].settled
  <2>0. PICK w : w = <<k, id>>
    OBVIOUS
  <2>1. vault' = [vault EXCEPT ![w] = WithCollateral(@, n)] /\ Exists(w)
    BY <1>5, <2>0 DEF DepositCollateral
  <2>2. CASE v = w
    <3>1. vault[v] \in Vault
      BY <2>1, <2>2, VaultNotNoAccount
    <3>2. vault'[v] = [vault[v] EXCEPT !.collateral_amount = @ + n]
      BY <2>1, <2>2 DEF TypeOK, WithCollateral
    <3>3. vault'[v].settled = vault[v].settled
      BY <3>1, <3>2 DEF Vault
    <3> QED
      BY <2>1, <2>2, <3>3
  <2>3. CASE v # w
    BY <2>1, <2>3 DEF TypeOK, Exists
  <2> QED
    BY <2>2, <2>3
<1>6. ASSUME NEW k \in Key, NEW d \in Key, NEW id \in VaultId, NEW s \in Series,
             NEW n \in 1..MaxU64, MintOtoken(k, id, s, d, n)
      PROVE  Exists(v) /\ vault[v].settled
  <2>0. PICK w : w = <<k, id>>
    OBVIOUS
  <2>1. /\ Exists(w) /\ vault'[w].settled = vault[w].settled
        /\ \A u \in VaultKey : u # w => vault'[u] = vault[u]
    BY <1>6, <2>0, MintedVault
  <2>2. CASE v = w
    BY <2>1, <2>2
  <2>3. CASE v # w
    BY <2>1, <2>3 DEF Exists
  <2> QED
    BY <2>2, <2>3
<1>7. CASE vault' = vault /\ closed_by' = closed_by
  BY <1>3, <1>7 DEF Exists
<1>8. \/ vault' = vault
      \/ \E k, b \in Key, c \in Mint : OpenVault(k, c, b)
      \/ \E k \in Key, id \in VaultId, p \in PoolAccount, n \in 1..MaxU64 :
           DepositCollateral(k, id, p, n)
      \/ \E k, d \in Key, id \in VaultId, s \in Series, n \in 1..MaxU64 :
           MintOtoken(k, id, s, d, n)
      \/ \E k \in Key, w \in VaultKey, p \in PoolAccount : SettleVault(k, w, p)
      \/ \E k \in Key, id \in VaultId, p \in PoolAccount :
           EmergencyWithdrawVault(k, id, p)
  BY VaultWriters
<1>9. \/ closed_by' = closed_by
      \/ \E k \in Key, w \in VaultKey, p \in PoolAccount : SettleVault(k, w, p)
      \/ \E k \in Key, id \in VaultId, p \in PoolAccount :
           EmergencyWithdrawVault(k, id, p)
  BY Closers
<1> QED
  BY <1>1, <1>2, <1>3, <1>4, <1>5, <1>6, <1>7, <1>8, <1>9

LEMMA AccountedWithin == TypeOK /\ SupplyAccounted => SupplyWithin
<1> SUFFICES ASSUME TypeOK, SupplyAccounted, NEW s \in Series
             PROVE  Supply(s) <= WrittenOf(s)
  BY DEF SupplyWithin
<1>1. /\ Supply(s) + redeemed[s] = WrittenOf(s)
      /\ Supply(s) \in Nat /\ redeemed[s] \in Nat /\ WrittenOf(s) \in Nat
  BY AccountedByParts, SupplyIsNat DEF SupplyOf
<1> QED
  BY <1>1

LEMMA InitSolvent ==
  Init /\ Booked => Marked /\ Solvent
<1> SUFFICES ASSUME Init, Booked PROVE Marked /\ Solvent
  OBVIOUS
<1>1. Marked
  BY DEF Marked, Init, Exists
<1>2. ASSUME NEW m \in Mint PROVE SolventAt(m)
  <2>1. PoolTotal(m) \in Nat /\ LostTotal(m) \in Nat /\ DustTotal(m) \in Nat
    BY SolvencyTyped DEF SolvencyNats
  <2>2. Units(Dues(m), VaultKey) = {}
    BY DEF Units, Dues, DueOf, Holds, Exists, Init
  <2>3. Units(ClaimMap, SeriesOf(m)) = {}
    <3>1. \A s \in SeriesOf(m) : ClaimMap[s] = 0
      BY DEF ClaimMap, Claims, Priced, SeriesOf, Init
    <3> QED
      BY <3>1 DEF Units
  <2>4. DueTotal(m) = 0 /\ ClaimTotal(m) = 0
    BY <2>2, <2>3, FS_EmptySet DEF DueTotal, ClaimTotal, Total
  <2> QED
    BY <2>1, <2>4 DEF SolventAt
<1> QED
  BY <1>1, <1>2 DEF Solvent

LEMMA SolventImplies ==
  Booked /\ Solvent => SolventUpToDust
<1> SUFFICES ASSUME Booked, Solvent, NEW m \in Mint
             PROVE  PoolTotal(m) + Uncovered(m)
                      + Total([s \in Series |-> Dust(s)], SeriesOf(m))
                    >= Returnable(m) + Total([s \in Series |-> Claims(s)], SeriesOf(m))
  BY DEF SolventUpToDust
<1>1. PICK dust : dust = Total([s \in Series |-> Dust(s)], SeriesOf(m))
  OBVIOUS
<1>2. PICK claims : claims = Total([s \in Series |-> Claims(s)], SeriesOf(m))
  OBVIOUS
<1>3. /\ Returnable(m) = DueTotal(m) /\ Uncovered(m) = LostTotal(m)
      /\ ClaimTotal(m) = claims /\ DustTotal(m) <= dust /\ dust \in Nat
  BY <1>1, <1>2, SolventNamed
<1>4. /\ PoolTotal(m) \in Nat /\ DueTotal(m) \in Nat /\ LostTotal(m) \in Nat
      /\ DustTotal(m) \in Nat /\ ClaimTotal(m) \in Nat
  BY SolvencyTyped DEF SolvencyNats
<1>5. PoolTotal(m) + LostTotal(m) + DustTotal(m) >= DueTotal(m) + ClaimTotal(m)
  BY DEF Solvent, SolventAt
<1> QED
  BY <1>1, <1>2, <1>3, <1>4, <1>5

\* The solvency invariant and what it rests on.
LEMMA SolvencyInvariant ==
  Spec => [](Booked /\ ClosedRecorded /\ Marked /\ PricesAgree /\ Solvent)
<1>1. Init /\ Booked => Marked /\ Solvent
  BY InitSolvent
<1>2. Init => ClosedRecorded
  BY InitBacks
<1>3. TypeOK /\ Collateralised /\ SupplyAccounted => Booked
  BY AccountedWithin DEF Booked
<1>4. TypeOK /\ ClosedRecorded /\ Marked /\ [Next]_vars => ClosedRecorded' /\ Marked'
  BY NextClosedRecorded, NextMarked
<1>5. /\ Booked /\ Booked' /\ PricesAgree /\ ClosedRecorded /\ Marked
      /\ Solvent /\ [Next]_vars
      => Solvent'
  BY NextSolvent
<1> QED
  BY <1>1, <1>2, <1>3, <1>4, <1>5, Typing, CollateralTheorem, SupplyTheorem,
     PriceTheorem, PTL DEF Spec

\* In whatever order vaults settle and holders redeem, the pool can pay every
\* remaining holder and every remaining vault, up to what emergency exits left
\* uncovered and one unit per vault beyond the first of a series.
THEOREM SolvencyTheorem == Spec => []SolventUpToDust
  BY SolvencyInvariant, SolventImplies, PTL

(***************************************************************************)
(* Series whose amounts collateralize without rounding.                    *)
(***************************************************************************)
NothingRounded == \A s \in Series : Exact(s)

LEMMA ExactImplies ==
  NothingRounded /\ Booked /\ Solvent => FullyCollateralized
<1> SUFFICES ASSUME NothingRounded, Booked, Solvent, NoEmergencyExit, NEW m \in Mint
             PROVE  PoolTotal(m) >=
                      Returnable(m) + Total([s \in Series |-> Claims(s)], SeriesOf(m))
  BY DEF FullyCollateralized
<1>1. PICK claims : claims = Total([s \in Series |-> Claims(s)], SeriesOf(m))
  OBVIOUS
<1>2. Returnable(m) = DueTotal(m) /\ ClaimTotal(m) = claims
  BY <1>1, SolventNamed
<1>3. PoolTotal(m) \in Nat /\ DueTotal(m) \in Nat /\ ClaimTotal(m) \in Nat
  BY SolvencyTyped DEF SolvencyNats
<1>4. LostTotal(m) = 0
  <2>1. Units(Losses(m), VaultKey) = {}
    BY DEF Units, Losses, LostOf, NoEmergencyExit
  <2> QED
    BY <2>1, FS_EmptySet DEF LostTotal, Total
<1>5. DustTotal(m) = 0
  <2>1. Units(DustMap, SeriesOf(m)) = {}
    BY DEF Units, DustMap, DustOf, NothingRounded, SeriesOf
  <2> QED
    BY <2>1, FS_EmptySet DEF DustTotal, Total
<1>6. PoolTotal(m) + LostTotal(m) + DustTotal(m) >= DueTotal(m) + ClaimTotal(m)
  BY DEF Solvent, SolventAt
<1> QED
  BY <1>1, <1>2, <1>3, <1>4, <1>5, <1>6

\* If no amount of a series needs rounding and no vault took the emergency
\* exit, the pool pays every holder and every vault in full.
THEOREM ExactTheorem == NothingRounded => (Spec => []FullyCollateralized)
<1> SUFFICES ASSUME NothingRounded PROVE Spec => []FullyCollateralized
  OBVIOUS
<1>1. Booked /\ Solvent => FullyCollateralized
  BY ExactImplies
<1> QED
  BY <1>1, SolvencyInvariant, PTL

(***************************************************************************)
(* The full pause.  Of the instructions that write a vault or a ledger,    *)
(* only the emergency exit and the token program's transfers pass it.      *)
(***************************************************************************)
FullyPaused == Initialized /\ config.fully_paused

LEMMA PausedWriters ==
  ASSUME [Next]_vars, FullyPaused
  PROVE  \/ vault' = vault /\ balance' = balance
         \/ \E k \in Key, id \in VaultId, p \in PoolAccount :
              EmergencyWithdrawVault(k, id, p)
         \/ /\ vault' = vault
            /\ \E t \in Transferable, from \in Key, to \in Account, n \in 1..MaxU64 :
                 TransferTokens(t, from, to, n)
<1>0. ~FullyUnpaused /\ ~Unpaused
  BY DEF FullyPaused, FullyUnpaused, Unpaused
<1>1. ASSUME NEW k \in Key, NEW b \in Key, NEW m \in Mint, OpenVault(k, m, b)
      PROVE  FALSE
  BY <1>0, <1>1 DEF OpenVault, CanOpen
<1>2. ASSUME NEW k \in Key, NEW id \in VaultId, NEW p \in PoolAccount,
             NEW n \in 1..MaxU64, DepositCollateral(k, id, p, n)
      PROVE  FALSE
  BY <1>0, <1>2 DEF DepositCollateral, CanDeposit, DepositFits
<1>3. ASSUME NEW k \in Key, NEW d \in Key, NEW id \in VaultId, NEW s \in Series,
             NEW n \in 1..MaxU64, MintOtoken(k, id, s, d, n)
      PROVE  FALSE
  BY <1>0, <1>3 DEF MintOtoken, CanMint, MintFits
<1>4. ASSUME NEW k \in Key, NEW w \in VaultKey, NEW p \in PoolAccount,
             SettleVault(k, w, p)
      PROVE  FALSE
  BY <1>0, <1>4 DEF SettleVault, CanSettleSeries
<1>5. ASSUME NEW k \in Key, NEW s \in Series, NEW p \in PoolAccount,
             NEW n \in 1..MaxU64, Redeem(k, s, p, n)
      PROVE  FALSE
  BY <1>0, <1>5 DEF Redeem, CanRedeem, CanSettleSeries
<1>6. ASSUME NEW t \in Transferable, NEW from \in Key, NEW to \in Account,
             NEW n \in 1..MaxU64, TransferTokens(t, from, to, n)
      PROVE  vault' = vault
  BY <1>6 DEF TransferTokens, accounts
<1>7. \/ vault' = vault /\ balance' = balance
      \/ \E k, b \in Key, c \in Mint : OpenVault(k, c, b)
      \/ \E k \in Key, id \in VaultId, p \in PoolAccount, n \in 1..MaxU64 :
           DepositCollateral(k, id, p, n)
      \/ \E k, d \in Key, id \in VaultId, s \in Series, n \in 1..MaxU64 :
           MintOtoken(k, id, s, d, n)
      \/ \E k \in Key, w \in VaultKey, p \in PoolAccount : SettleVault(k, w, p)
      \/ \E k \in Key, id \in VaultId, p \in PoolAccount :
           EmergencyWithdrawVault(k, id, p)
      \/ \E k \in Key, s \in Series, p \in PoolAccount, n \in 1..MaxU64 :
           Redeem(k, s, p, n)
      \/ \E t \in Transferable, from \in Key, to \in Account, n \in 1..MaxU64 :
           TransferTokens(t, from, to, n)
  BY DEF Next, AdminNext, OwnerNext, MintNext, HolderNext, SeriesNext, ChainNext, vars,
     accounts, Initialize, InitializeCounter, SetPartialPauser,
     SetPartiallyPaused, SetFullyPaused, CreateOTokenInfo, SetExpiryPrice,
     WhitelistOtoken, FinalizeOraclePrice, TurnFeeOn, Tick
<1> QED
  BY <1>1, <1>2, <1>3, <1>4, <1>5, <1>6, <1>7

\* The pool of m gives up a vault's collateral, to that vault's beneficiary.
Exits(m, v) ==
  /\ Open(v)
  /\ vault'[v].settled
  /\ PoolTotal(m) - PoolTotal(m)' = vault[v].collateral_amount
  /\ balance'[m][vault[v].beneficiary] + Fee(m) =
       balance[m][vault[v].beneficiary] + vault[v].collateral_amount

\* What a full pause lets a step do.
PauseKept ==
  /\ \A s \in Series : Supply(s)' = Supply(s)
  /\ \A v \in VaultKey :
       vault'[v] # vault[v] => vault'[v] = [vault[v] EXCEPT !.settled = TRUE]
  /\ \A m \in Mint : PoolTotal(m)' < PoolTotal(m) => \E v \in VaultsOf(m) : Exits(m, v)

\* A payout to a wallet arrives there, less the fee.
LEMMA PaidOutArrives ==
  ASSUME TypeOK, NEW m \in Mint, NEW p \in PoolAccount, NEW to \in Key,
         NEW n \in Nat, n > 0, balance'[m] = PaidOut(m, p, to, n)
  PROVE  balance'[m][to] + Fee(m) = balance[m][to] + n
<1>1. balance[m] \in [Account -> Nat] /\ p \in Account /\ to \in Account /\ p # to
  BY ControllerAssumption DEF TypeOK, Account
<1>2. Fee(m) \in {0, 1}
  BY FeeType
<1>3. balance'[m][to] = balance[m][to] + (n - Fee(m))
  BY <1>1, <1>2 DEF PaidOut, TransferredLess
<1> QED
  BY <1>1, <1>2, <1>3

LEMMA EmergencyKeepsPause ==
  ASSUME TypeOK, NEW k \in Key, NEW id \in VaultId, NEW p \in PoolAccount,
         EmergencyWithdrawVault(k, id, p)
  PROVE  PauseKept
<1> DEFINE w == <<k, id>>
<1>1. PICK c : c = vault[w].collateral_mint
  OBVIOUS
<1>2. PICK whole : whole = vault[w].collateral_amount
  OBVIOUS
<1>3. /\ w \in VaultKey /\ vault[w] \in Vault /\ Open(w)
      /\ vault'[w].settled
      /\ \A v \in VaultKey : v # w => vault'[v] = vault[v]
  BY EmergencyVault
<1>4. c \in Mint /\ whole \in Nat /\ vault[w].beneficiary \in Key
  BY <1>1, <1>2, <1>3, AmountType DEF Vault
<1>5. balance' = [balance EXCEPT ![c] = PaidOut(c, p, vault[w].beneficiary, whole)]
  BY <1>1, <1>2 DEF EmergencyWithdrawVault
<1>6. ASSUME NEW s \in Series PROVE Supply(s)' = Supply(s)
  <2>1. balance'[s] = balance[s]
    BY <1>4, <1>5, ControllerAssumption DEF TypeOK
  <2> QED
    BY <2>1, SupplySame
<1>7. ASSUME NEW v \in VaultKey, vault'[v] # vault[v]
      PROVE  vault'[v] = [vault[v] EXCEPT !.settled = TRUE]
  <2>1. v = w
    BY <1>3, <1>7
  <2>2. vault'[w] = [vault[w] EXCEPT !.settled = TRUE]
    BY <1>3 DEF EmergencyWithdrawVault, TypeOK
  <2> QED
    BY <2>1, <2>2
<1>8. ASSUME NEW m \in Mint, PoolTotal(m)' < PoolTotal(m)
      PROVE  \E v \in VaultsOf(m) : Exits(m, v)
  <2>0. PoolTotal(m) \in Nat
    BY PoolSummable, TotalIsNat DEF PoolTotal
  <2>1. CASE m # c
    <3>1. balance'[m] = balance[m]
      BY <1>5, <2>1 DEF TypeOK
    <3>2. PoolTotal(m)' = PoolTotal(m)
      BY <3>1, PoolSame
    <3> QED
      BY <1>8, <2>0, <3>2
  <2>2. CASE m = c
    <3>1. CanPayOut(m, p, whole)
      BY <1>1, <1>2, <2>2 DEF EmergencyWithdrawVault, CanEmergencyWithdraw
    <3>2. balance'[m] = PaidOut(m, p, vault[w].beneficiary, whole)
      BY <1>5, <2>2 DEF TypeOK
    <3>3. PoolTotal(m)' = PoolTotal(m) - whole
      BY <1>4, <3>1, <3>2, PoolPaysOut
    <3>4. whole > 0
      BY <1>4, <1>8, <2>0, <3>3
    <3>5. balance'[m][vault[w].beneficiary] + Fee(m)
            = balance[m][vault[w].beneficiary] + whole
      BY <1>4, <3>2, <3>4, PaidOutArrives
    <3>6. PoolTotal(m) - PoolTotal(m)' = whole
      BY <1>4, <2>0, <3>3
    <3>7. w \in VaultsOf(m)
      BY <1>1, <1>3, <2>2 DEF VaultsOf, Holds, Open
    <3>8. Exits(m, w)
      BY <1>2, <1>3, <3>5, <3>6 DEF Exits
    <3> QED
      BY <3>7, <3>8
  <2> QED
    BY <2>1, <2>2
<1> QED
  BY <1>6, <1>7, <1>8 DEF PauseKept

\* A wallet's transfer takes nothing from a pool and leaves every supply.
LEMMA TransferKeepsPause ==
  ASSUME TypeOK, NEW t \in Transferable, NEW from \in Key, NEW to \in Account,
         NEW n \in 1..MaxU64, TransferTokens(t, from, to, n)
  PROVE  PauseKept
<1>1. vault' = vault
  BY DEF TransferTokens, accounts
<1>2. ASSUME NEW s \in Series PROVE Supply(s)' = Supply(s)
  <2>1. CASE t = s
    BY <2>1, TransferTokensSupply
  <2>2. CASE t # s
    <3>1. balance'[s] = balance[s]
      BY <2>2 DEF TransferTokens, TypeOK
    <3> QED
      BY <3>1, SupplySame
  <2> QED
    BY <2>1, <2>2
<1>3. ASSUME NEW m \in Mint PROVE ~(PoolTotal(m)' < PoolTotal(m))
  <2>0. PoolTotal(m) \in Nat /\ Fee(m) \in Nat /\ n \in Nat /\ n >= Fee(m)
    BY PoolSummable, TotalIsNat, FeeType, AmountType DEF PoolTotal
  <2>1. CASE t # m
    <3>1. balance'[m] = balance[m]
      BY <2>1 DEF TransferTokens, TypeOK
    <3>2. PoolTotal(m)' = PoolTotal(m)
      BY <3>1, PoolSame
    <3> QED
      BY <2>0, <3>2
  <2>2. CASE t = m /\ to \in PoolAccountsOf(m)
    <3>1. balance'[m] = TransferredLess(balance[m], from, to, n, Fee(m))
      BY <2>2 DEF TransferTokens, TypeOK
    <3>2. PoolTotal(m)' = PoolTotal(m) + (n - Fee(m))
      BY <2>0, <2>2, <3>1, PoolReceives
    <3> QED
      BY <2>0, <3>2
  <2>3. CASE t = m /\ to \notin PoolAccountsOf(m)
    <3>1. balance'[m] = TransferredLess(balance[m], from, to, n, Fee(m))
      BY <2>3 DEF TransferTokens, TypeOK
    <3>2. from \notin PoolAccountsOf(m)
      BY ControllerAssumption DEF PoolAccountsOf
    <3>3. \A p \in PoolAccountsOf(m) : balance'[m][p] = balance[m][p]
      BY <2>3, <3>1, <3>2, PoolSummable DEF TransferredLess
    <3>4. PoolTotal(m)' = PoolTotal(m)
      BY <3>3, PoolSame
    <3> QED
      BY <2>0, <3>4
  <2> QED
    BY <2>1, <2>2, <2>3
<1> QED
  BY <1>1, <1>2, <1>3 DEF PauseKept

LEMMA NextKeepsPause ==
  ASSUME TypeOK, [Next]_vars, FullyPaused
  PROVE  PauseKept
<1>1. CASE vault' = vault /\ balance' = balance
  <2>1. ASSUME NEW s \in Series PROVE Supply(s)' = Supply(s)
    BY <1>1, SupplySame
  <2>2. ASSUME NEW m \in Mint PROVE ~(PoolTotal(m)' < PoolTotal(m))
    <3>1. PoolTotal(m)' = PoolTotal(m)
      BY <1>1, PoolSame
    <3>2. PoolTotal(m) \in Nat
      BY PoolSummable, TotalIsNat DEF PoolTotal
    <3> QED
      BY <3>1, <3>2
  <2> QED
    BY <1>1, <2>1, <2>2 DEF PauseKept
<1>2. ASSUME NEW k \in Key, NEW id \in VaultId, NEW p \in PoolAccount,
             EmergencyWithdrawVault(k, id, p)
      PROVE  PauseKept
  BY <1>2, EmergencyKeepsPause
<1>3. ASSUME NEW t \in Transferable, NEW from \in Key, NEW to \in Account,
             NEW n \in 1..MaxU64, TransferTokens(t, from, to, n)
      PROVE  PauseKept
  BY <1>3, TransferKeepsPause
<1> QED
  BY <1>1, <1>2, <1>3, PausedWriters

\* Under a full pause nothing is minted or burned, vaults only close, and each
\* collateral that leaves a pool is a closing vault's own, on its way to the
\* vault's beneficiary.
THEOREM PauseTheorem == Spec => FullPauseHolds
<1>1. TypeOK /\ [Next]_vars => (FullyPaused => PauseKept)
  BY NextKeepsPause
<1>2. (FullyPaused => PauseKept) =>
        (Initialized /\ config.fully_paused =>
           /\ \A s \in Series : Supply(s)' = Supply(s)
           /\ \A v \in VaultKey :
                vault'[v] # vault[v] => vault'[v] = [vault[v] EXCEPT !.settled = TRUE]
           /\ \A m \in Mint : PoolTotal(m)' < PoolTotal(m) =>
                \E v \in VaultsOf(m) :
                  /\ Open(v)
                  /\ vault'[v].settled
                  /\ PoolTotal(m) - PoolTotal(m)' = vault[v].collateral_amount
                  /\ balance'[m][vault[v].beneficiary] + Fee(m) =
                       balance[m][vault[v].beneficiary] + vault[v].collateral_amount)
  BY DEF FullyPaused, PauseKept, Exits
<1> QED
  BY <1>1, <1>2, Typing, PTL DEF Spec, FullPauseHolds
=============================================================================
