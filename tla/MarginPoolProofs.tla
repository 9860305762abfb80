-------------------------- MODULE MarginPoolProofs --------------------------
(***************************************************************************)
(* What holds of the margin pool for all keys, mints, accounts and bounds: *)
(* the types of its accounts, the agreement of its two books, and that no  *)
(* withdrawal reaches what is in the account beyond them.                  *)
(***************************************************************************)
EXTENDS MarginPool, TLAPS

\* A transfer the token program accepts leaves a ledger of naturals: it moves
\* at least as much as the fee takes.
LEMMA MovedTyped ==
  ASSUME TypeOK, NEW m \in Mint, NEW from \in Account, NEW to \in Account,
         NEW n \in Nat, n > 0, balance[m][from] >= n
  PROVE  Moved(m, from, to, n) \in [Account -> Nat]
<1>1. balance[m] \in [Account -> Nat]
  BY DEF TypeOK
<1>2. Fee(m) \in {0, 1}
  BY DEF Fee
<1>3. CASE from = to
  BY <1>1, <1>3 DEF Moved
<1>4. CASE from # to
  BY <1>1, <1>2, <1>4 DEF Moved, TransferredLess
<1> QED BY <1>3, <1>4

\* What a transfer does to one account of the ledger.
LEMMA MovedEffect ==
  ASSUME TypeOK, NEW m \in Mint, NEW from \in Account, NEW to \in Account,
         NEW n \in Nat, n > 0, balance[m][from] >= n, NEW acct \in Account
  PROVE  /\ acct # from => Moved(m, from, to, n)[acct] >= balance[m][acct]
         /\ acct = from => Moved(m, from, to, n)[acct] >= balance[m][acct] - n
         /\ acct = to /\ acct # from =>
              Moved(m, from, to, n)[acct] = balance[m][acct] + n - Fee(m)
<1>1. balance[m] \in [Account -> Nat]
  BY DEF TypeOK
<1>2. Fee(m) \in {0, 1}
  BY DEF Fee
<1>3. CASE from = to
  BY <1>1, <1>3 DEF Moved
<1>4. CASE from # to
  BY <1>1, <1>2, <1>4 DEF Moved, TransferredLess
<1> QED BY <1>3, <1>4

\* A pool vault that exists is a record of the right type.
LEMMA PoolVaultTyped ==
  ASSUME TypeOK, NEW m \in Mint, pool_vault[m] # NoAccount
  PROVE  /\ pool_vault[m] \in PoolVault
         /\ pool_vault[m].token_account \in Account
         /\ Deposited(m) \in 0..MaxU64
         /\ PoolBalance(m) \in Nat
BY DEF TypeOK, PoolVault, Account, Deposited, PoolBalance

(***************************************************************************)
(* Types.                                                                  *)
(***************************************************************************)
LEMMA BoundTyped == \A n \in 1..MaxU64 : n \in Nat /\ n > 0
  BY MarginPoolAssumption

LEMMA InitTyped == Init => TypeOK
<1> SUFFICES ASSUME Init PROVE TypeOK
  OBVIOUS
<1>1. balance \in [Mint -> [Account -> Nat]]
  BY MarginPoolAssumption DEF Init, Account
<1> QED BY <1>1 DEF Init, TypeOK

\* The offices of the config.
LEMMA ConfigTyped ==
  ASSUME TypeOK, NEW k \in Key, NEW c \in Appointees, NEW o \in Appointees,
         NEW y \in Appointees,
         \/ Initialize(k, c, o, y)
         \/ SetController(k, c) \/ SetOperator(k, c) \/ SetYieldRecipient(k, c)
  PROVE  TypeOK'
<1> USE MarginPoolAssumption DEF TypeOK
<1>1. CASE Initialize(k, c, o, y)
  BY <1>1 DEF Initialize, Config
<1>2. CASE SetController(k, c)
  BY <1>2 DEF SetController, IsAdmin, Initialized, Config
<1>3. CASE SetOperator(k, c)
  BY <1>3 DEF SetOperator, IsAdmin, Initialized, Config
<1>4. CASE SetYieldRecipient(k, c)
  BY <1>4 DEF SetYieldRecipient, IsAdmin, Initialized, Config
<1> QED BY <1>1, <1>2, <1>3, <1>4

LEMMA CreatePoolVaultTyped ==
  ASSUME TypeOK, NEW k \in Key, NEW p \in PoolAccount,
         CreatePoolVault(k, PoolMint[p], p)
  PROVE  TypeOK'
BY MarginPoolAssumption DEF TypeOK, CreatePoolVault, PoolVault

\* The counter is raised within its width, and lowered by no more than it is.
LEMMA TransferToPoolTyped ==
  ASSUME TypeOK, NEW k \in Key, NEW m \in Mint, NEW n \in 1..MaxU64,
         TransferToPool(k, m, n)
  PROVE  TypeOK'
<1>1. n \in Nat /\ n > 0
  BY BoundTyped
<1>2. /\ pool_vault[m] \in PoolVault
      /\ pool_vault[m].token_account \in Account
      /\ Deposited(m) \in 0..MaxU64
  BY PoolVaultTyped DEF TransferToPool
<1>3. Moved(m, k, pool_vault[m].token_account, n) \in [Account -> Nat]
  BY <1>1, <1>2, MovedTyped DEF TransferToPool, CanTransfer, Account
<1>4. balance' \in [Mint -> [Account -> Nat]]
  BY <1>3 DEF TypeOK, TransferToPool
<1>5. Deposited(m) + n \in 0..MaxU64
  BY <1>1, <1>2, MarginPoolAssumption DEF TransferToPool
<1>6. pool_vault' \in [Mint -> PoolVault \cup {NoAccount}]
  BY <1>2, <1>5 DEF TypeOK, TransferToPool, Credited, PoolVault
<1>7. fees_lost' \in [Mint -> Nat]
  BY DEF TypeOK, TransferToPool, Fee
<1> QED BY <1>4, <1>6, <1>7 DEF TypeOK, TransferToPool

LEMMA TransferToUserTyped ==
  ASSUME TypeOK, NEW k \in Key, NEW m \in Mint, NEW to \in Account,
         NEW n \in 1..MaxU64, TransferToUser(k, m, to, n)
  PROVE  TypeOK'
<1>1. n \in Nat /\ n > 0
  BY BoundTyped
<1>2. /\ pool_vault[m] \in PoolVault
      /\ pool_vault[m].token_account \in Account
      /\ Deposited(m) \in 0..MaxU64
  BY PoolVaultTyped DEF TransferToUser
<1>3. Moved(m, pool_vault[m].token_account, to, n) \in [Account -> Nat]
  BY <1>1, <1>2, MovedTyped DEF TransferToUser, CanTransfer
<1>4. balance' \in [Mint -> [Account -> Nat]]
  BY <1>3 DEF TypeOK, TransferToUser
<1>5. Deposited(m) - n \in 0..MaxU64
  BY <1>1, <1>2, MarginPoolAssumption DEF TransferToUser
<1>6. pool_vault' \in [Mint -> PoolVault \cup {NoAccount}]
  BY <1>2, <1>5 DEF TypeOK, TransferToUser, Withdrawn, PoolVault
<1> QED BY <1>4, <1>6 DEF TypeOK, TransferToUser

LEMMA TransferTokensTyped ==
  ASSUME TypeOK, NEW m \in Mint, NEW from \in Key, NEW to \in Account,
         NEW n \in 1..MaxU64, TransferTokens(m, from, to, n)
  PROVE  TypeOK'
<1>1. Moved(m, from, to, n) \in [Account -> Nat]
  BY BoundTyped, MovedTyped DEF TransferTokens, CanTransfer, Account
<1>2. balance' \in [Mint -> [Account -> Nat]]
  BY <1>1 DEF TypeOK, TransferTokens
<1> QED BY <1>2 DEF TypeOK, TransferTokens

LEMMA NextTyped == TypeOK /\ [Next]_vars => TypeOK'
<1> SUFFICES ASSUME TypeOK, [Next]_vars PROVE TypeOK'
  OBVIOUS
<1>1. CASE \E k \in Key, c, o, y \in Appointees : Initialize(k, c, o, y)
  BY <1>1, ConfigTyped
<1>2. CASE \E k \in Key, a \in Appointees :
             SetController(k, a) \/ SetOperator(k, a) \/ SetYieldRecipient(k, a)
  BY <1>2, ConfigTyped
<1>3. CASE \E k \in Key, p \in PoolAccount : CreatePoolVault(k, PoolMint[p], p)
  BY <1>3, CreatePoolVaultTyped
<1>4. CASE \E k \in Key, m \in Mint, n \in 1..MaxU64 : TransferToPool(k, m, n)
  BY <1>4, TransferToPoolTyped
<1>5. CASE \E k \in Key, m \in Mint, to \in Account, n \in 1..MaxU64 :
             TransferToUser(k, m, to, n)
  BY <1>5, TransferToUserTyped
<1>6. CASE \E m \in Mint, from \in Key, to \in Account, n \in 1..MaxU64 :
             TransferTokens(m, from, to, n)
  BY <1>6, TransferTokensTyped
<1>7. CASE \E m \in FeeCapable : TurnFeeOn(m)
  BY <1>7, MarginPoolAssumption DEF TypeOK, TurnFeeOn
<1>8. CASE UNCHANGED vars
  BY <1>8 DEF TypeOK, vars
<1> QED BY <1>1, <1>2, <1>3, <1>4, <1>5, <1>6, <1>7, <1>8 DEF Next

\* The accounts of the margin pool keep their types and widths, whoever signs
\* what in which order.
THEOREM PoolTyping == Spec => []TypeOK
BY InitTyped, NextTyped, PTL DEF Spec

(***************************************************************************)
(* The two books.                                                          *)
(***************************************************************************)

\* What one mint's books say of each other.
Backs(m) ==
  pool_vault[m] # NoAccount => PoolBalance(m) + fees_lost[m] >= Deposited(m)

LEMMA BacksIsCounterBacked == CounterBacked <=> \A m \in Mint : Backs(m)
BY DEF CounterBacked, Backs

LEMMA RecordIsAccount == \A r \in PoolVault : r # NoAccount
BY PoolVaultAssumption

\* A deposit raises the counter by n, the account by n less the fee, and the
\* lost fees by the fee.
LEMMA TransferToPoolBacks ==
  ASSUME TypeOK, NEW k \in Key, NEW m \in Mint, NEW n \in 1..MaxU64,
         TransferToPool(k, m, n), NEW x \in Mint, Backs(x)
  PROVE  Backs(x)'
<1> DEFINE acct == pool_vault[m].token_account
<1>1. n \in Nat /\ n > 0
  BY BoundTyped
<1>2. /\ pool_vault[m] \in PoolVault /\ pool_vault[m] # NoAccount
      /\ acct \in Account /\ acct \in PoolAccount
      /\ Deposited(m) \in Nat /\ PoolBalance(m) \in Nat
      /\ fees_lost[m] \in Nat
  BY PoolVaultTyped DEF TransferToPool, PoolVault, TypeOK
<1>3. k \in Account /\ acct # k
  BY <1>2, MarginPoolAssumption DEF Account
<1>4. Moved(m, k, acct, n)[acct] = PoolBalance(m) + n - Fee(m)
  BY <1>1, <1>2, <1>3, MovedEffect DEF TransferToPool, CanTransfer, PoolBalance
<1>5. CASE x = m
  <2>1. /\ pool_vault'[m].token_account = acct
        /\ Deposited(m)' = Deposited(m) + n
    BY <1>2 DEF TransferToPool, Credited, Deposited, TypeOK, PoolVault
  <2>2. PoolBalance(m)' = PoolBalance(m) + n - Fee(m)
    BY <1>4, <2>1 DEF TransferToPool, PoolBalance, TypeOK
  <2>3. fees_lost'[m] = fees_lost[m] + Fee(m)
    BY DEF TransferToPool, TypeOK
  <2>4. Fee(m) \in {0, 1}
    BY DEF Fee
  <2> QED BY <1>1, <1>2, <1>5, <2>1, <2>2, <2>3, <2>4 DEF Backs
<1>6. CASE x # m
  <2>1. /\ pool_vault'[x] = pool_vault[x] /\ balance'[x] = balance[x]
        /\ fees_lost'[x] = fees_lost[x]
    BY <1>6 DEF TransferToPool, TypeOK
  <2> QED BY <2>1 DEF Backs, PoolBalance, Deposited
<1> QED BY <1>5, <1>6

\* A withdrawal lowers the counter by n and the account by no more.
LEMMA TransferToUserBacks ==
  ASSUME TypeOK, NEW k \in Key, NEW m \in Mint, NEW to \in Account,
         NEW n \in 1..MaxU64, TransferToUser(k, m, to, n), NEW x \in Mint, Backs(x)
  PROVE  Backs(x)'
<1> DEFINE acct == pool_vault[m].token_account
<1>1. n \in Nat /\ n > 0
  BY BoundTyped
<1>2. /\ pool_vault[m] \in PoolVault /\ pool_vault[m] # NoAccount
      /\ acct \in Account /\ Deposited(m) \in Nat /\ PoolBalance(m) \in Nat
      /\ fees_lost[m] \in Nat
  BY PoolVaultTyped DEF TransferToUser, PoolVault, TypeOK
<1>3. /\ Moved(m, acct, to, n)[acct] >= PoolBalance(m) - n
      /\ Moved(m, acct, to, n)[acct] \in Nat
  BY <1>1, <1>2, MovedEffect, MovedTyped
     DEF TransferToUser, CanTransfer, PoolBalance
<1>5. CASE x = m
  <2>1. /\ pool_vault'[m].token_account = acct
        /\ Deposited(m)' = Deposited(m) - n
    BY <1>2 DEF TransferToUser, Withdrawn, Deposited, TypeOK, PoolVault
  <2>2. PoolBalance(m)' >= PoolBalance(m) - n /\ PoolBalance(m)' \in Nat
    BY <1>3, <2>1 DEF TransferToUser, PoolBalance, TypeOK
  <2>3. fees_lost'[m] = fees_lost[m]
    BY DEF TransferToUser
  <2> QED BY <1>1, <1>2, <1>5, <2>1, <2>2, <2>3 DEF Backs
<1>6. CASE x # m
  <2>1. /\ pool_vault'[x] = pool_vault[x] /\ balance'[x] = balance[x]
        /\ fees_lost'[x] = fees_lost[x]
    BY <1>6 DEF TransferToUser, TypeOK
  <2> QED BY <2>1 DEF Backs, PoolBalance, Deposited
<1> QED BY <1>5, <1>6

\* A donation only adds to a pool account, whose key is no wallet.
LEMMA TransferTokensBacks ==
  ASSUME TypeOK, NEW m \in Mint, NEW from \in Key, NEW to \in Account,
         NEW n \in 1..MaxU64, TransferTokens(m, from, to, n),
         NEW x \in Mint, Backs(x)
  PROVE  Backs(x)'
<1> SUFFICES ASSUME pool_vault[x] # NoAccount PROVE Backs(x)'
  BY DEF Backs, TransferTokens
<1> DEFINE acct == pool_vault[x].token_account
<1>1. n \in Nat /\ n > 0
  BY BoundTyped
<1>2. /\ acct \in Account /\ acct \in PoolAccount
      /\ Deposited(x) \in Nat /\ PoolBalance(x) \in Nat /\ fees_lost[x] \in Nat
  BY PoolVaultTyped DEF PoolVault, TypeOK
<1>3. from \in Account /\ acct # from
  BY <1>2, MarginPoolAssumption DEF Account
<1>4. balance'[x][acct] >= balance[x][acct] /\ balance'[x][acct] \in Nat
  <2>1. CASE x = m
    <3>1. balance'[x] = Moved(m, from, to, n)
      BY <2>1 DEF TransferTokens, TypeOK
    <3> QED BY <1>1, <1>2, <1>3, <2>1, <3>1, MovedEffect, MovedTyped
            DEF TransferTokens, CanTransfer
  <2>2. CASE x # m
    BY <1>2, <2>2 DEF TransferTokens, TypeOK, PoolBalance
  <2> QED BY <2>1, <2>2
<1>5. /\ PoolBalance(x)' = balance'[x][acct] /\ Deposited(x)' = Deposited(x)
      /\ fees_lost'[x] = fees_lost[x]
  BY DEF TransferTokens, PoolBalance, Deposited
<1> QED BY <1>2, <1>4, <1>5 DEF Backs, PoolBalance

\* A new pool vault counts nothing yet.
LEMMA CreatePoolVaultBacks ==
  ASSUME TypeOK, NEW k \in Key, NEW p \in PoolAccount,
         CreatePoolVault(k, PoolMint[p], p), NEW x \in Mint, Backs(x)
  PROVE  Backs(x)'
<1>1. CASE x = PoolMint[p]
  <2>1. pool_vault'[x] = [token_account |-> p, total_deposited |-> 0]
    BY <1>1 DEF CreatePoolVault, TypeOK
  <2>2. balance'[x][p] \in Nat /\ fees_lost'[x] \in Nat
    BY DEF CreatePoolVault, TypeOK, Account
  <2> QED BY <2>1, <2>2 DEF Backs, PoolBalance, Deposited
<1>2. CASE x # PoolMint[p]
  BY <1>2 DEF CreatePoolVault, TypeOK, Backs, PoolBalance, Deposited
<1> QED BY <1>1, <1>2

LEMMA NextBacks ==
  ASSUME TypeOK, [Next]_vars, NEW x \in Mint, Backs(x)
  PROVE  Backs(x)'
<1>1. CASE UNCHANGED <<pool_vault, balance, fees_lost>>
  BY <1>1 DEF Backs, PoolBalance, Deposited
<1>2. CASE \E k \in Key, c, o, y \in Appointees : Initialize(k, c, o, y)
  BY <1>1, <1>2 DEF Initialize
<1>3. CASE \E k \in Key, a \in Appointees :
             SetController(k, a) \/ SetOperator(k, a) \/ SetYieldRecipient(k, a)
  BY <1>1, <1>3 DEF SetController, SetOperator, SetYieldRecipient
<1>4. CASE \E k \in Key, p \in PoolAccount : CreatePoolVault(k, PoolMint[p], p)
  BY <1>4, CreatePoolVaultBacks
<1>5. CASE \E k \in Key, m \in Mint, n \in 1..MaxU64 : TransferToPool(k, m, n)
  BY <1>5, TransferToPoolBacks
<1>6. CASE \E k \in Key, m \in Mint, to \in Account, n \in 1..MaxU64 :
             TransferToUser(k, m, to, n)
  BY <1>6, TransferToUserBacks
<1>7. CASE \E m \in Mint, from \in Key, to \in Account, n \in 1..MaxU64 :
             TransferTokens(m, from, to, n)
  BY <1>7, TransferTokensBacks
<1>8. CASE \E m \in FeeCapable : TurnFeeOn(m)
  BY <1>1, <1>8 DEF TurnFeeOn
<1>9. CASE UNCHANGED vars
  BY <1>1, <1>9 DEF vars
<1> QED BY <1>2, <1>3, <1>4, <1>5, <1>6, <1>7, <1>8, <1>9 DEF Next

\* The token account always covers the counter, up to the fees deposits paid.
THEOREM CounterTheorem == Spec => []CounterBacked
<1>1. Init => CounterBacked
  BY DEF Init, CounterBacked
<1>2. TypeOK /\ CounterBacked /\ [Next]_vars => CounterBacked'
  <2> SUFFICES ASSUME TypeOK, CounterBacked, [Next]_vars,
                      NEW x \in Mint
               PROVE  Backs(x)'
    BY DEF CounterBacked, Backs
  <2> QED BY NextBacks, BacksIsCounterBacked
<1> QED BY <1>1, <1>2, PoolTyping, PTL DEF Spec
(***************************************************************************)
(* The surplus.                                                            *)
(***************************************************************************)

\* What the pool's account holds beyond the counter.
Surplus(m) == PoolBalance(m) - Deposited(m)

\* A step leaves the surplus of mint x, but for the fee of a deposit.
Stays(x) == pool_vault[x] # NoAccount => Surplus(x)' + Fee(x) >= Surplus(x)

\* Where neither the vault nor the ledger changes the surplus does not.
LEMMA UntouchedStays ==
  ASSUME TypeOK, NEW x \in Mint, pool_vault'[x] = pool_vault[x],
         balance'[x] = balance[x]
  PROVE  Stays(x)
<1> SUFFICES ASSUME pool_vault[x] # NoAccount
             PROVE  Surplus(x)' + Fee(x) >= Surplus(x)
  BY DEF Stays
<1>1. PoolBalance(x) \in Nat /\ Deposited(x) \in Nat
  BY PoolVaultTyped, MarginPoolAssumption
<1>2. PoolBalance(x)' = PoolBalance(x) /\ Deposited(x)' = Deposited(x)
  BY DEF PoolBalance, Deposited
<1>3. Fee(x) \in {0, 1}
  BY DEF Fee
<1> QED BY <1>1, <1>2, <1>3 DEF Surplus

\* A deposit brings the account and the counter the same amount, less the fee.
LEMMA TransferToPoolStays ==
  ASSUME TypeOK, NEW k \in Key, NEW m \in Mint, NEW n \in 1..MaxU64,
         TransferToPool(k, m, n), NEW x \in Mint
  PROVE  Stays(x)
<1> DEFINE acct == pool_vault[m].token_account
<1>1. n \in Nat /\ n > 0
  BY BoundTyped
<1>2. /\ pool_vault[m] \in PoolVault /\ acct \in Account /\ acct \in PoolAccount
      /\ Deposited(m) \in Nat /\ PoolBalance(m) \in Nat
  BY PoolVaultTyped DEF TransferToPool, PoolVault, TypeOK
<1>3. k \in Account /\ acct # k
  BY <1>2, MarginPoolAssumption DEF Account
<1>4. Moved(m, k, acct, n)[acct] = PoolBalance(m) + n - Fee(m)
  BY <1>1, <1>2, <1>3, MovedEffect DEF TransferToPool, CanTransfer, PoolBalance
<1>5. CASE x = m
  <2>1. /\ pool_vault'[m].token_account = acct
        /\ Deposited(m)' = Deposited(m) + n
    BY <1>2 DEF TransferToPool, Credited, Deposited, TypeOK, PoolVault
  <2>2. PoolBalance(m)' = PoolBalance(m) + n - Fee(m)
    BY <1>4, <2>1 DEF TransferToPool, PoolBalance, TypeOK
  <2>3. Fee(m) \in {0, 1}
    BY DEF Fee
  <2> QED BY <1>1, <1>2, <1>5, <2>1, <2>2, <2>3 DEF Stays, Surplus
<1>6. CASE x # m
  <2>1. pool_vault'[x] = pool_vault[x] /\ balance'[x] = balance[x]
    BY <1>6 DEF TransferToPool, TypeOK
  <2> QED BY <2>1, UntouchedStays
<1> QED BY <1>5, <1>6

\* A withdrawal takes no more from the account than from the counter.
LEMMA TransferToUserStays ==
  ASSUME TypeOK, NEW k \in Key, NEW m \in Mint, NEW to \in Account,
         NEW n \in 1..MaxU64, TransferToUser(k, m, to, n), NEW x \in Mint
  PROVE  Stays(x)
<1> DEFINE acct == pool_vault[m].token_account
<1>1. n \in Nat /\ n > 0
  BY BoundTyped
<1>2. /\ pool_vault[m] \in PoolVault /\ acct \in Account
      /\ Deposited(m) \in Nat /\ PoolBalance(m) \in Nat
  BY PoolVaultTyped DEF TransferToUser, PoolVault, TypeOK
<1>3. /\ Moved(m, acct, to, n)[acct] >= PoolBalance(m) - n
      /\ Moved(m, acct, to, n)[acct] \in Nat
  BY <1>1, <1>2, MovedEffect, MovedTyped
     DEF TransferToUser, CanTransfer, PoolBalance
<1>4. CASE x = m
  <2>1. /\ pool_vault'[m].token_account = acct
        /\ Deposited(m)' = Deposited(m) - n
    BY <1>2 DEF TransferToUser, Withdrawn, Deposited, TypeOK, PoolVault
  <2>2. PoolBalance(m)' >= PoolBalance(m) - n /\ PoolBalance(m)' \in Nat
    BY <1>3, <2>1 DEF TransferToUser, PoolBalance, TypeOK
  <2>3. Fee(m) \in {0, 1}
    BY DEF Fee
  <2> QED BY <1>1, <1>2, <1>4, <2>1, <2>2, <2>3 DEF Stays, Surplus
<1>5. CASE x # m
  <2>1. pool_vault'[x] = pool_vault[x] /\ balance'[x] = balance[x]
    BY <1>5 DEF TransferToUser, TypeOK
  <2> QED BY <2>1, UntouchedStays
<1> QED BY <1>4, <1>5

\* Nobody but the program signs for a pool account, so a payment between
\* wallets, or into the account, takes nothing from it.
LEMMA TransferTokensStays ==
  ASSUME TypeOK, NEW m \in Mint, NEW from \in Key, NEW to \in Account,
         NEW n \in 1..MaxU64, TransferTokens(m, from, to, n), NEW x \in Mint
  PROVE  Stays(x)
<1> SUFFICES ASSUME pool_vault[x] # NoAccount
             PROVE  Surplus(x)' + Fee(x) >= Surplus(x)
  BY DEF Stays
<1> DEFINE acct == pool_vault[x].token_account
<1>1. n \in Nat /\ n > 0
  BY BoundTyped
<1>2. /\ acct \in Account /\ acct \in PoolAccount
      /\ Deposited(x) \in Nat /\ PoolBalance(x) \in Nat
  BY PoolVaultTyped DEF PoolVault, TypeOK
<1>3. from \in Account /\ acct # from
  BY <1>2, MarginPoolAssumption DEF Account
<1>4. balance'[x][acct] >= balance[x][acct] /\ balance'[x][acct] \in Nat
  <2>1. CASE x = m
    <3>1. balance'[x] = Moved(m, from, to, n)
      BY <2>1 DEF TransferTokens, TypeOK
    <3> QED BY <1>1, <1>2, <1>3, <2>1, <3>1, MovedEffect, MovedTyped
            DEF TransferTokens, CanTransfer
  <2>2. CASE x # m
    BY <1>2, <2>2 DEF TransferTokens, TypeOK, PoolBalance
  <2> QED BY <2>1, <2>2
<1>5. PoolBalance(x)' = balance'[x][acct] /\ Deposited(x)' = Deposited(x)
  BY DEF TransferTokens, PoolBalance, Deposited
<1>6. Fee(x) \in {0, 1}
  BY DEF Fee
<1> QED BY <1>2, <1>4, <1>5, <1>6 DEF Surplus, PoolBalance

\* A mint whose vault exists keeps it: another is made only for another mint.
LEMMA CreatePoolVaultStays ==
  ASSUME TypeOK, NEW k \in Key, NEW p \in PoolAccount,
         CreatePoolVault(k, PoolMint[p], p), NEW x \in Mint
  PROVE  Stays(x)
<1> SUFFICES ASSUME pool_vault[x] # NoAccount PROVE Stays(x)
  BY DEF Stays
<1>1. pool_vault'[x] = pool_vault[x] /\ balance'[x] = balance[x]
  BY DEF CreatePoolVault, TypeOK
<1> QED BY <1>1, UntouchedStays

LEMMA NextStays ==
  ASSUME TypeOK, [Next]_vars, NEW x \in Mint
  PROVE  Stays(x)
<1>1. CASE UNCHANGED <<pool_vault, balance>>
  BY <1>1, UntouchedStays
<1>2. CASE \E k \in Key, c, o, y \in Appointees : Initialize(k, c, o, y)
  BY <1>1, <1>2 DEF Initialize
<1>3. CASE \E k \in Key, a \in Appointees :
             SetController(k, a) \/ SetOperator(k, a) \/ SetYieldRecipient(k, a)
  BY <1>1, <1>3 DEF SetController, SetOperator, SetYieldRecipient
<1>4. CASE \E k \in Key, p \in PoolAccount : CreatePoolVault(k, PoolMint[p], p)
  BY <1>4, CreatePoolVaultStays
<1>5. CASE \E k \in Key, m \in Mint, n \in 1..MaxU64 : TransferToPool(k, m, n)
  BY <1>5, TransferToPoolStays
<1>6. CASE \E k \in Key, m \in Mint, to \in Account, n \in 1..MaxU64 :
             TransferToUser(k, m, to, n)
  BY <1>6, TransferToUserStays
<1>7. CASE \E m \in Mint, from \in Key, to \in Account, n \in 1..MaxU64 :
             TransferTokens(m, from, to, n)
  BY <1>7, TransferTokensStays
<1>8. CASE \E m \in FeeCapable : TurnFeeOn(m)
  BY <1>1, <1>8 DEF TurnFeeOn
<1>9. CASE UNCHANGED vars
  BY <1>1, <1>9 DEF vars
<1> QED BY <1>2, <1>3, <1>4, <1>5, <1>6, <1>7, <1>8, <1>9 DEF Next

\* No step of the pool, not even the admin's, draws on what was given to the
\* account outside the deposits.
THEOREM SurplusTheorem == Spec => SurplusStays
<1>1. TypeOK /\ [Next]_vars => \A x \in Mint : Stays(x)
  BY NextStays
<1>2. (\A x \in Mint : Stays(x)) =>
        \A m \in Mint : pool_vault[m] # NoAccount =>
          PoolBalance(m)' - Deposited(m)' + Fee(m) >= PoolBalance(m) - Deposited(m)
  BY DEF Stays, Surplus
<1> QED BY <1>1, <1>2, PoolTyping, PTL DEF Spec, SurplusStays
=============================================================================
