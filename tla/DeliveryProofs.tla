--------------------------- MODULE DeliveryProofs ---------------------------
(***************************************************************************)
(* Theorems about physical delivery on top of the settler, for every value *)
(* of their constants and whatever the swap does within its checks: the    *)
(* settler's invariants go on, no vault delivers more than it wrote, each  *)
(* delivery is made in full, and the books and the escape survive it.      *)
(***************************************************************************)
EXTENDS PhysicalDelivery, SettlerProofs

(***************************************************************************)
(* The ledgers of a delivery.                                              *)
(***************************************************************************)
\* A transfer takes at most its amount from the sender, and nothing from
\* anyone else.
LEMMA MoveBounds ==
  ASSUME NEW l \in Ledgers, NEW t \in Mint \cup Series, NEW from \in Account,
         NEW to \in Account, NEW n \in Nat
  PROVE  /\ Move(l, t, from, to, n)[t][from] >= l[t][from] - n
         /\ \A r \in Mint \cup Series, a \in Account :
              r # t \/ a # from => Move(l, t, from, to, n)[r][a] >= l[r][a]
<1>1. Fee(t) \in {0, 1}
  BY FeeType
<1>2. \A r \in Mint \cup Series, a \in Account : l[r][a] \in Nat
  BY DEF Ledgers
<1>3. CASE n = 0
  BY <1>2, <1>3 DEF Move
<1>4. CASE n # 0
  <2>1. Move(l, t, from, to, n)[t] = TransferredLess(l[t], from, to, n, Fee(t))
    BY <1>4 DEF Move, Ledgers
  <2>2. \A r \in Mint \cup Series : r # t => Move(l, t, from, to, n)[r] = l[r]
    BY MoveElsewhere
  <2>3. l[t] \in [Account -> Nat] /\ n - Fee(t) \in Nat
    BY <1>1, <1>4 DEF Ledgers
  <2>4. /\ TransferredLess(l[t], from, to, n, Fee(t))[from] >= l[t][from] - n
        /\ \A a \in Account : a # from =>
             TransferredLess(l[t], from, to, n, Fee(t))[a] >= l[t][a]
    BY <2>3 DEF TransferredLess
  <2> QED
    BY <1>2, <2>1, <2>2, <2>4
<1> QED
  BY <1>3, <1>4

\* The swap: whatever the route spends and pays out, ledgers stay ledgers and
\* oTokens stay where they are.
LEMMA SwapType ==
  ASSUME TypeOK, NEW l \in Ledgers, NEW c \in Mint, NEW x \in Mint,
         NEW in_reserve \in Account, NEW to \in Account, NEW also_to \in Account,
         NEW input \in Nat, NEW output \in Nat, NEW more \in Nat,
         CanSwapSplit(l, c, input, x, output, more), NEW w,
         w = SwapSplit(l, c, input, in_reserve, x, to, output, also_to, more)
  PROVE  /\ w \in Ledgers
         /\ \A r \in Series : w[r] = l[r]
         /\ NoMore(w, l)
<1> DEFINE l1 == Move(l, c, Settler, in_reserve, input)
           l2 == Move(l1, x, Venue, to, output)
           l3 == Move(l2, x, Venue, also_to, more)
<1>1. /\ Settler \in Account /\ Venue \in Account /\ Venue # Settler
  BY DeliveryAssumption, SettlerAssumption DEF Account
<1>2. CanMove(l, c, Settler, input) /\ l[x][Venue] >= output + more
  BY DEF CanSwapSplit
<1>3. l1 \in Ledgers
  BY <1>1, <1>2, MoveType
<1>4. l1[x][Venue] >= l[x][Venue]
  BY <1>1, MoveBounds
<1>5. \A r \in Series : l1[r] = l[r]
  BY MoveKeepsSeries
<1>6. l[x][Venue] \in Nat /\ l1[x][Venue] \in Nat
  BY <1>1, <1>3 DEF Ledgers
<1>7. w = l3
  BY DEF SwapSplit, Swap
<1> HIDE DEF l1
<1>8. CanMove(l1, x, Venue, output)
  BY <1>2, <1>4, <1>6 DEF CanMove, CanTransfer
<1>9. l2 \in Ledgers
  BY <1>1, <1>3, <1>8, MoveType
<1>10. l2[x][Venue] >= l1[x][Venue] - output
  BY <1>1, <1>3, MoveBounds
<1>11. \A r \in Series : l2[r] = l1[r]
  BY <1>3, MoveKeepsSeries
<1>12. l2[x][Venue] \in Nat
  BY <1>1, <1>9 DEF Ledgers
<1> HIDE DEF l2
<1>13. CanMove(l2, x, Venue, more)
  BY <1>2, <1>4, <1>6, <1>10, <1>12 DEF CanMove, CanTransfer
<1>14. l3 \in Ledgers
  BY <1>1, <1>9, <1>13, MoveType
<1>15. \A r \in Series : l3[r] = l2[r]
  BY <1>9, MoveKeepsSeries
<1>16. c \in Mint \cup Series /\ x \in Mint \cup Series
  OBVIOUS
<1>17. NoMore(l1, l)
  BY <1>1, <1>2, <1>16, MoveShrinks DEF l1
<1>18. NoMore(l2, l1)
  BY <1>1, <1>3, <1>8, <1>16, MoveShrinks DEF l2
<1>19. NoMore(l3, l2)
  BY <1>1, <1>9, <1>13, <1>16, MoveShrinks
<1> HIDE DEF l3
<1>20. NoMore(l2, l)
  BY <1>3, <1>9, <1>17, <1>18, NoMoreChain
<1>21. NoMore(l3, l)
  BY <1>9, <1>14, <1>19, <1>20, NoMoreChain
<1> QED
  BY <1>5, <1>7, <1>11, <1>14, <1>15, <1>21

\* What the settler passes on, it gained.
LEMMA PaidOnType ==
  ASSUME TypeOK, NEW l \in Ledgers, NEW s \in Series, NEW user \in Account,
         NEW m \in Account, NEW owed \in Nat, NEW received \in Int, NEW spent \in Int,
         NEW to_settler \in Int, NEW to_user,
         Accepted(s, owed, received, spent, to_user, to_settler),
         l[Terms[s].collateral_mint][Settler] >= received - spent,
         l[ContraMint(s)][Settler] >= to_settler
  PROVE  /\ PaidOn(l, s, user, m, owed, received, spent, to_settler) \in Ledgers
         /\ \A r \in Series :
              PaidOn(l, s, user, m, owed, received, spent, to_settler)[r] = l[r]
         /\ NoMore(PaidOn(l, s, user, m, owed, received, spent, to_settler), l)
<1>1. PICK c : c = Terms[s].collateral_mint
  OBVIOUS
<1>2. PICK x : x = ContraMint(s)
  OBVIOUS
<1>3. /\ c \in Mint /\ x \in Mint /\ Settler \in Account
      /\ c \in Mint \cup Series /\ x \in Mint \cup Series
  BY <1>1, <1>2, TermsType, DeliveryAssumption, WalletType
<1>4. l[c][Settler] \in Nat /\ l[x][Settler] \in Nat
  BY <1>3 DEF Ledgers
<1>5. CASE Terms[s].is_put
  <2>1. PICK rest : rest = received - spent
    OBVIOUS
  <2>2. rest \in Nat /\ l[c][Settler] >= rest
    BY <1>1, <1>5, <2>1 DEF Accepted
  <2>3. PaidOn(l, s, user, m, owed, received, spent, to_settler)
          = Move(l, c, Settler, m, rest)
    BY <1>1, <1>5, <2>1 DEF PaidOn
  <2>4. CanMove(l, c, Settler, rest)
    BY <2>2 DEF CanMove, CanTransfer
  <2>5. Move(l, c, Settler, m, rest) \in Ledgers
    BY <1>3, <2>2, <2>4, MoveType
  <2>6. \A r \in Series : Move(l, c, Settler, m, rest)[r] = l[r]
    BY <1>3, MoveKeepsSeries
  <2>7. NoMore(Move(l, c, Settler, m, rest), l)
    BY <1>3, <2>2, <2>4, MoveShrinks
  <2> QED
    BY <2>3, <2>5, <2>6, <2>7
<1>6. CASE ~Terms[s].is_put
  <2>1. PICK rest : rest = to_settler - owed
    OBVIOUS
  <2>2. rest \in Nat /\ l[x][Settler] >= owed + rest
    BY <1>2, <1>6, <2>1 DEF Accepted
  <2>3. PICK l1 : l1 = Move(l, x, Settler, user, owed)
    OBVIOUS
  <2>4. PaidOn(l, s, user, m, owed, received, spent, to_settler)
          = Move(l1, x, Settler, m, rest)
    BY <1>2, <1>6, <2>1, <2>3 DEF PaidOn
  <2>5. CanMove(l, x, Settler, owed)
    BY <1>4, <2>2 DEF CanMove, CanTransfer
  <2>6. l1 \in Ledgers
    BY <1>3, <2>3, <2>5, MoveType
  <2>7. l1[x][Settler] >= l[x][Settler] - owed /\ l1[x][Settler] \in Nat
    <3>1. Move(l, x, Settler, user, owed)[x][Settler] >= l[x][Settler] - owed
      BY <1>3, MoveBounds
    <3>2. l1[x][Settler] \in Nat
      BY <1>3, <2>6 DEF Ledgers
    <3> QED
      BY <2>3, <3>1, <3>2
  <2>8. CanMove(l1, x, Settler, rest)
    BY <1>4, <2>2, <2>7 DEF CanMove, CanTransfer
  <2>9. Move(l1, x, Settler, m, rest) \in Ledgers
    BY <1>3, <2>2, <2>6, <2>8, MoveType
  <2>10. \A r \in Series : Move(l1, x, Settler, m, rest)[r] = l1[r]
    BY <1>3, <2>6, MoveKeepsSeries
  <2>11. \A r \in Series : l1[r] = l[r]
    BY <1>3, <2>3, MoveKeepsSeries
  <2>12. NoMore(l1, l)
    BY <1>3, <2>3, <2>5, MoveShrinks
  <2>13. NoMore(Move(l1, x, Settler, m, rest), l1)
    BY <1>3, <2>2, <2>6, <2>8, MoveShrinks
  <2>14. NoMore(Move(l1, x, Settler, m, rest), l)
    BY <2>6, <2>9, <2>12, <2>13, NoMoreChain
  <2> QED
    BY <2>4, <2>9, <2>10, <2>11, <2>14
<1> QED
  BY <1>5, <1>6

\* The collateral a redemption brings into the settler's account.
LEMMA FundedType ==
  ASSUME TypeOK, NEW s \in Series, NEW p \in PoolAccount, NEW n \in 1..MaxU64,
         CanRedeem(Settler, s, p, n)
  PROVE  LET c      == Terms[s].collateral_mint
             burnt  == [balance EXCEPT ![s] = Burned(@, Settler, n)]
             funded == Move(burnt, c, p, Settler, PayoutOf(s, n))
         IN /\ PayoutOf(s, n) \in Nat
            /\ funded \in Ledgers
            /\ funded[s] = Burned(balance[s], Settler, n)
            /\ \A r \in Series : r # s => funded[r] = balance[r]
            /\ NoMore(funded, balance)
<1> DEFINE c == Terms[s].collateral_mint
           payout == PayoutOf(s, n)
           l1 == [balance EXCEPT ![s] = Burned(@, Settler, n)]
           l2 == Move(l1, c, p, Settler, payout)
<1>1. /\ c \in Mint /\ c # s /\ n \in Nat /\ Settler \in Account /\ p \in Account
      /\ c \in Mint \cup Series /\ balance \in Ledgers
  BY TermsType, AmountType, WalletType, ControllerAssumption DEF Account, TypeOK, Ledgers
<1>2. payout \in Nat
  BY <1>1, PayoutIsNat DEF CanRedeem
<1>3. CanBurn(balance[s], Settler, n) /\ balance[c][p] >= payout
  BY DEF CanRedeem, CanPayOut, CanTransfer
<1> HIDE DEF payout, l1
<1>4. l1 \in Ledgers /\ l1[s] = Burned(balance[s], Settler, n)
      /\ \A t \in Mint \cup Series : t # s => l1[t] = balance[t]
  BY <1>1, <1>3, BurnedType DEF l1
<1>5. CanMove(l1, c, p, payout)
  BY <1>1, <1>3, <1>4 DEF CanMove, CanTransfer
<1>6. l2 \in Ledgers
  BY <1>1, <1>2, <1>4, <1>5, MoveType
<1>7. \A r \in Series : l2[r] = l1[r]
  BY <1>1, <1>4, MoveKeepsSeries
<1>8. NoMore(l1, balance)
  BY <1>1, <1>3, BurnedNoMore DEF l1
<1>9. NoMore(l2, l1)
  BY <1>1, <1>2, <1>4, <1>5, MoveShrinks
<1>10. NoMore(l2, balance)
  BY <1>1, <1>4, <1>6, <1>8, <1>9, NoMoreChain
<1> QED
  BY <1>2, <1>4, <1>6, <1>7, <1>10 DEF payout, l1

(***************************************************************************)
(* One delivery.                                                           *)
(***************************************************************************)
LEMMA Deliverable ==
  ASSUME Typed, NEW k, NEW v \in VaultKey, NEW p \in PoolAccount,
         NEW n \in 1..MaxU64, PhysicalRedeem(k, v, p, n)
  PROVE  LET m == vault_mm[v].maker
             s == vault_mm[v].otoken_mint
         IN /\ vault_mm[v] # NoAccount /\ vault_mm[v] \in VaultMM
            /\ m \in Wallet /\ s \in Series /\ n \in Nat
            /\ mm_balance[m][s] \in Nat /\ n <= mm_balance[m][s]
            /\ vault_mm[v].remaining_amount \in 0..MaxU64
            /\ vault_mm[v].remaining_amount \in Nat
            /\ n <= vault_mm[v].remaining_amount
            /\ Exists(v) /\ vault[v].beneficiary \in Key
            /\ ContraAmount(s, n) \in Nat
            /\ CanRedeem(Settler, s, p, n)
<1> DEFINE m == vault_mm[v].maker
           s == vault_mm[v].otoken_mint
<1>1. /\ vault_mm[v] # NoAccount /\ Exists(v)
      /\ mm_balance[m][s] # NoAccount /\ mm_balance[m][s] >= n
      /\ vault_mm[v].remaining_amount >= n
      /\ ContraComputable(s, n) /\ CanRedeem(Settler, s, p, n)
  BY DEF PhysicalRedeem, CanDeliver
<1>2. vault_mm[v] \in VaultMM
  BY <1>1 DEF Typed, SettlerTypeOK
<1>3. /\ m \in Wallet /\ s \in Series /\ vault_mm[v].remaining_amount \in 0..MaxU64
      /\ vault_mm[v].remaining_amount \in Nat /\ n \in Nat
  BY <1>2, AmountType DEF VaultMM
<1>4. mm_balance[m][s] \in Nat
  BY <1>1, <1>3, AmountType DEF Typed, SettlerTypeOK
<1>5. vault[v].beneficiary \in Key
  BY <1>1, VaultNotNoAccount DEF Typed, Vault
<1>6. ContraAmount(s, n) \in Nat
  BY <1>1, AmountType DEF ContraComputable
<1> QED
  BY <1>1, <1>2, <1>3, <1>4, <1>5, <1>6

\* Of the oTokens, a delivery burns its amount of custody and nothing else.
LEMMA DeliveryLedgers ==
  ASSUME Typed, NEW k, NEW v \in VaultKey, NEW p \in PoolAccount,
         NEW n \in 1..MaxU64, PhysicalRedeem(k, v, p, n)
  PROVE  LET s == vault_mm[v].otoken_mint
         IN /\ balance' \in Ledgers
            /\ balance'[s] = Burned(balance[s], Settler, n)
            /\ \A r \in Series : r # s => balance'[r] = balance[r]
            /\ PayoutOf(s, n) \in Nat
            /\ NoMore(balance', balance)
<1>0. PICK m : m = vault_mm[v].maker
  OBVIOUS
<1>1. PICK s : s = vault_mm[v].otoken_mint
  OBVIOUS
<1>2. PICK c : c = Terms[s].collateral_mint
  OBVIOUS
<1>3. PICK x : x = ContraMint(s)
  OBVIOUS
<1>4. PICK user : user = vault[v].beneficiary
  OBVIOUS
<1>5. PICK l : l = Move([balance EXCEPT ![s] = Burned(@, Settler, n)], c, p, Settler,
                        PayoutOf(s, n))
  OBVIOUS
<1>6. PICK received : received = Change(l, balance, c, Settler)
  OBVIOUS
<1>7. PICK owed : owed = ContraAmount(s, n)
  OBVIOUS
<1>8. /\ m \in Account /\ s \in Series /\ user \in Account /\ owed \in Nat
      /\ CanRedeem(Settler, s, p, n) /\ Settler \in Account
      /\ c \in Mint /\ x \in Mint
  BY <1>0, <1>1, <1>2, <1>3, <1>4, <1>7, Deliverable, WalletType, TermsType,
     DeliveryAssumption DEF Account
<1>9. /\ PayoutOf(s, n) \in Nat /\ l \in Ledgers
      /\ l[s] = Burned(balance[s], Settler, n)
      /\ \A r \in Series : r # s => l[r] = balance[r]
      /\ NoMore(l, balance)
  BY <1>2, <1>5, <1>8, FundedType DEF Typed
<1>10. PICK input \in 0..MaxU64, output \in 0..MaxU64, more \in 0..MaxU64,
             in_reserve \in RouteAccountsOf(c) \ {Settler},
             to \in RouteAccountsOf(x) \ {Venue}, also_to \in RouteAccountsOf(x) \ {Venue} :
         /\ CanSwapSplit(l, c, input, x, output, more)
         /\ Routed(l, v, n, received, input, in_reserve, to, output, also_to, more)
  <2>1. SomeRoute(l, v, n, received)
    BY <1>1, <1>2, <1>5, <1>6 DEF PhysicalRedeem
  <2> QED
    BY <1>1, <1>2, <1>3, <2>1 DEF SomeRoute
<1>11. /\ input \in Nat /\ output \in Nat /\ more \in Nat
      /\ in_reserve \in Account \ {Settler}
      /\ to \in Account \ {Venue} /\ also_to \in Account \ {Venue}
  BY <1>10, AmountType, DeliveryAssumption DEF RouteAccountsOf
<1>12. PICK w : w = SwapSplit(l, c, input, in_reserve, x, to, output, also_to, more)
  OBVIOUS
<1>13. PICK spent : spent = -Change(w, l, c, Settler)
  OBVIOUS
<1>14. PICK to_settler : to_settler = Change(w, balance, x, Settler)
  OBVIOUS
<1>15. PICK to_user : to_user = ReachedUser(w, x, user)
  OBVIOUS
<1>16. /\ CanSwapSplit(l, c, input, x, output, more)
       /\ Accepted(s, owed, received, spent, to_user, to_settler)
       /\ balance' = PaidOn(w, s, user, m, owed, received, spent, to_settler)
  BY <1>0, <1>1, <1>2, <1>3, <1>4, <1>7, <1>10, <1>12, <1>13, <1>14, <1>15 DEF Routed
<1>17. w \in Ledgers /\ NoMore(w, l) /\ \A r \in Series : w[r] = l[r]
  <2>1. /\ TypeOK /\ l \in Ledgers /\ c \in Mint /\ x \in Mint
        /\ in_reserve \in Account /\ to \in Account /\ also_to \in Account
        /\ input \in Nat /\ output \in Nat /\ more \in Nat
        /\ CanSwapSplit(l, c, input, x, output, more)
    BY <1>8, <1>9, <1>11, <1>16 DEF Typed
  <2> QED
    BY <1>12, <2>1, SwapType
<1>18. balance \in Ledgers
  BY DEF Typed, TypeOK, Ledgers
<1>19. /\ balance[c][Settler] \in Nat /\ l[c][Settler] \in Nat /\ w[c][Settler] \in Nat
       /\ balance[x][Settler] \in Nat /\ w[x][Settler] \in Nat
  BY <1>8, <1>9, <1>17, <1>18 DEF Ledgers
<1>20. /\ received \in Int /\ spent \in Int /\ to_settler \in Int
       /\ w[c][Settler] >= received - spent /\ w[x][Settler] >= to_settler
  BY <1>6, <1>13, <1>14, <1>19 DEF Change
<1>21. /\ balance' \in Ledgers
       /\ \A r \in Series : balance'[r] = w[r]
       /\ NoMore(balance', w)
  BY <1>2, <1>3, <1>8, <1>16, <1>17, <1>20, PaidOnType DEF Typed
<1>22. NoMore(w, balance)
  BY <1>9, <1>17, <1>18, NoMoreChain
<1>23. NoMore(balance', balance)
  BY <1>17, <1>18, <1>21, <1>22, NoMoreChain
<1> QED
  BY <1>1, <1>8, <1>9, <1>17, <1>21, <1>23

LEMMA PhysicalRedeemTyped ==
  ASSUME Typed, NEW k, NEW v \in VaultKey, NEW p \in PoolAccount,
         NEW n \in 1..MaxU64, PhysicalRedeem(k, v, p, n)
  PROVE  Typed'
<1>0. PICK m : m = vault_mm[v].maker
  OBVIOUS
<1>1. PICK s : s = vault_mm[v].otoken_mint
  OBVIOUS
<1>2. /\ vault_mm[v] # NoAccount /\ vault_mm[v] \in VaultMM
      /\ m \in Wallet /\ s \in Series /\ n \in Nat
      /\ mm_balance[m][s] \in Nat /\ n <= mm_balance[m][s]
      /\ vault_mm[v].remaining_amount \in 0..MaxU64
      /\ vault_mm[v].remaining_amount \in Nat
      /\ n <= vault_mm[v].remaining_amount
  BY <1>0, <1>1, Deliverable
<1>3. balance' \in [Mint \cup Series -> [Account -> Nat]] /\ PayoutOf(s, n) \in Nat
  BY <1>1, DeliveryLedgers DEF Ledgers
<1>4. UNCHANGED <<accounts, outside, closed_by, settler_config, trading, burned>>
  BY DEF PhysicalRedeem
<1>5. redeemed' \in [Series -> Nat] /\ paid' \in [Series -> Nat]
  BY <1>1, <1>2, <1>3 DEF PhysicalRedeem, Typed, TypeOK
<1>6. TypeOK'
  BY <1>3, <1>4, <1>5 DEF Typed, TypeOK, accounts, outside
<1>7. mm_balance' = [mm_balance EXCEPT ![m][s] = @ - n]
  BY <1>0, <1>1 DEF PhysicalRedeem, CustodyAfter
<1>8. mm_balance[m][s] - n \in 0..MaxU64 /\ NoAccount \notin Nat
  <2>1. mm_balance[m][s] \in 0..MaxU64
    BY <1>2, WalletType DEF Typed, SettlerTypeOK
  <2> QED
    BY <1>2, <2>1, AmountType, WalletType
<1>9. mm_balance' \in [Wallet -> [Series -> (0..MaxU64) \cup {NoAccount}]]
  BY <1>2, <1>7, <1>8 DEF Typed, SettlerTypeOK
<1>10. PICK left : left = vault_mm[v].remaining_amount - n
  OBVIOUS
<1>11. left \in 0..MaxU64
  BY <1>2, <1>10, AmountType
<1>12. vault_mm' = [vault_mm EXCEPT ![v].remaining_amount = left]
  <2>1. RemainingAfter(vault_mm[v], n) = [vault_mm[v] EXCEPT !.remaining_amount = left]
    BY <1>2, <1>10 DEF RemainingAfter, VaultMM
  <2>2. vault_mm' = [vault_mm EXCEPT ![v] = RemainingAfter(@, n)]
    BY DEF PhysicalRedeem
  <2> QED
    BY <2>1, <2>2
<1>13. /\ [vault_mm[v] EXCEPT !.remaining_amount = left] \in VaultMM
       /\ [vault_mm[v] EXCEPT !.remaining_amount = left].maker = m
       /\ [vault_mm[v] EXCEPT !.remaining_amount = left].otoken_mint = s
  BY <1>0, <1>1, <1>2, <1>11 DEF VaultMM
<1>14. vault_mm' \in [VaultKey -> VaultMM \cup {NoAccount}]
  BY <1>12, <1>13 DEF Typed, SettlerTypeOK
<1>15. SettlerTypeOK'
  BY <1>4, <1>9, <1>14 DEF Typed, SettlerTypeOK, trading
<1>16. CustodyOpened'
  <2>1. mm_balance'[m][s] # NoAccount
    BY <1>2, <1>7, <1>8, AmountType DEF Typed, SettlerTypeOK
  <2>2. \A w \in Wallet, r \in Series :
          mm_balance[w][r] # NoAccount => mm_balance'[w][r] # NoAccount
    BY <1>7, <2>1 DEF Typed, SettlerTypeOK
  <2>3. ASSUME NEW w \in VaultKey, vault_mm'[w] # NoAccount
        PROVE  /\ vault_mm[w] # NoAccount
               /\ vault_mm'[w].maker = vault_mm[w].maker
               /\ vault_mm'[w].otoken_mint = vault_mm[w].otoken_mint
    <3>1. CASE w = v
      BY <1>0, <1>1, <1>2, <1>12, <1>13, <3>1 DEF Typed, SettlerTypeOK
    <3>2. CASE w # v
      BY <1>12, <2>3, <3>2 DEF Typed, SettlerTypeOK
    <3> QED
      BY <3>1, <3>2
  <2>4. ASSUME NEW w \in VaultKey, vault_mm[w] # NoAccount
        PROVE  vault_mm[w].maker \in Wallet /\ vault_mm[w].otoken_mint \in Series
    BY <2>4 DEF Typed, SettlerTypeOK, VaultMM
  <2> QED
    BY <2>2, <2>3, <2>4 DEF Typed, CustodyOpened
<1> QED
  BY <1>6, <1>15, <1>16 DEF Typed

LEMMA PhysicalRedeemCovers ==
  ASSUME Typed, NEW r \in Series, Covered(r), NEW k, NEW v \in VaultKey,
         NEW p \in PoolAccount, NEW n \in 1..MaxU64, PhysicalRedeem(k, v, p, n)
  PROVE  Covered(r)'
<1>0. PICK m : m = vault_mm[v].maker
  OBVIOUS
<1>1. PICK s : s = vault_mm[v].otoken_mint
  OBVIOUS
<1>2. /\ m \in Wallet /\ s \in Series /\ n \in Nat
      /\ mm_balance[m][s] \in Nat /\ n <= mm_balance[m][s]
  BY <1>0, <1>1, Deliverable
<1>3. mm_balance' = [mm_balance EXCEPT ![m][s] = @ - n]
  BY <1>0, <1>1 DEF PhysicalRedeem, CustodyAfter
<1>4. /\ balance'[s] = Burned(balance[s], Settler, n)
      /\ \A x \in Series : x # s => balance'[x] = balance[x]
  BY <1>1, DeliveryLedgers
<1> QED
  BY <1>2, <1>3, <1>4, BurnCovers

\* The amount comes off the vault's remainder and off the maker's balance.
LEMMA PhysicalRedeemWithin ==
  ASSUME Typed, NEW m \in Wallet, NEW s \in Series, Within(m, s), NEW k,
         NEW v \in VaultKey, NEW p \in PoolAccount, NEW n \in 1..MaxU64,
         PhysicalRedeem(k, v, p, n)
  PROVE  Within(m, s)'
<1>0. PICK w : w = vault_mm[v].maker
  OBVIOUS
<1>1. PICK r : r = vault_mm[v].otoken_mint
  OBVIOUS
<1>2. PICK left : left = vault_mm[v].remaining_amount - n
  OBVIOUS
<1>3. /\ vault_mm[v] # NoAccount /\ vault_mm[v] \in VaultMM
      /\ w \in Wallet /\ r \in Series /\ n \in Nat
      /\ mm_balance[w][r] \in Nat /\ n <= mm_balance[w][r]
      /\ vault_mm[v].remaining_amount \in 0..MaxU64
      /\ vault_mm[v].remaining_amount \in Nat
      /\ n <= vault_mm[v].remaining_amount
  BY <1>0, <1>1, Deliverable
<1>4. left \in 0..MaxU64 /\ left \in Nat
  BY <1>2, <1>3, AmountType
<1>5. vault_mm' = [vault_mm EXCEPT ![v].remaining_amount = left]
  <2>1. RemainingAfter(vault_mm[v], n) = [vault_mm[v] EXCEPT !.remaining_amount = left]
    BY <1>2, <1>3 DEF RemainingAfter, VaultMM
  <2>2. vault_mm' = [vault_mm EXCEPT ![v] = RemainingAfter(@, n)]
    BY DEF PhysicalRedeem
  <2> QED
    BY <2>1, <2>2
<1>6. mm_balance' = [mm_balance EXCEPT ![w][r] = @ - n]
  BY <1>0, <1>1 DEF PhysicalRedeem, CustodyAfter
<1>7. RemainderOf(m, s)' =
        IF w = m /\ r = s
        THEN RemainderOf(m, s) - vault_mm[v].remaining_amount + left
        ELSE RemainderOf(m, s)
  BY <1>0, <1>1, <1>3, <1>4, <1>5, RemainderLowered
<1>8. /\ NoAccount \notin Nat /\ Custodied(m, s) \in Nat /\ RemainderOf(m, s) \in Nat
      /\ Custodied(m, s) <= RemainderOf(m, s)
  BY WalletType, CustodySummable, RemainderSummable DEF Within
<1>9. CASE w = m /\ r = s
  <2>1. mm_balance'[m][s] = mm_balance[m][s] - n
    BY <1>6, <1>9 DEF Typed, SettlerTypeOK
  <2>2. Custodied(m, s)' = mm_balance[m][s] - n /\ Custodied(m, s) = mm_balance[m][s]
    BY <1>3, <1>8, <1>9, <2>1 DEF Custodied
  <2>3. Custodied(m, s)' <= RemainderOf(m, s)'
    BY <1>2, <1>3, <1>4, <1>7, <1>8, <1>9, <2>2
  <2> QED
    BY <2>3, RemainderNamed
<1>10. CASE ~(w = m /\ r = s)
  <2>1. mm_balance'[m][s] = mm_balance[m][s]
    BY <1>3, <1>6, <1>10 DEF Typed, SettlerTypeOK
  <2>2. Custodied(m, s)' = Custodied(m, s)
    BY <2>1 DEF Custodied
  <2> QED
    BY <1>7, <1>8, <1>10, <2>2, RemainderNamed
<1> QED
  BY <1>9, <1>10

(***************************************************************************)
(* A vault once opened stays, for the same beneficiary, and never writes   *)
(* less.                                                                   *)
(***************************************************************************)
Grows(v) ==
  Exists(v) => /\ Exists(v)'
               /\ vault'[v].beneficiary = vault[v].beneficiary
               /\ vault'[v].short_amount >= vault[v].short_amount

LEMMA SameGrows ==
  ASSUME Typed, NEW v \in VaultKey, vault'[v] = vault[v]
  PROVE  Grows(v)
<1>1. Exists(v) => vault[v].short_amount \in Nat
  BY VaultNotNoAccount, AmountType DEF Typed, Vault
<1> QED
  BY <1>1 DEF Grows, Exists

LEMMA ClosingGrows ==
  ASSUME Typed, NEW v \in VaultKey, NEW w \in VaultKey, Exists(w),
         vault' = [vault EXCEPT ![w].settled = TRUE]
  PROVE  Grows(v)
<1>1. CASE v # w
  BY <1>1, SameGrows DEF Typed, TypeOK
<1>2. CASE v = w
  <2>1. vault[w] \in Vault
    BY VaultNotNoAccount DEF Typed
  <2>2. vault'[w] = [vault[w] EXCEPT !.settled = TRUE]
    BY DEF Typed, TypeOK
  <2>3. /\ vault'[w] \in Vault
        /\ vault'[w].short_amount = vault[w].short_amount
        /\ vault'[w].beneficiary = vault[w].beneficiary
        /\ vault[w].short_amount \in Nat
    BY <2>1, <2>2, ClosedVault, AmountType DEF Vault
  <2>4. vault'[w] # NoAccount
    BY <2>3, VaultIsAccount
  <2> QED
    BY <1>2, <2>3, <2>4 DEF Grows, Exists
<1> QED
  BY <1>1, <1>2

LEMMA DepositGrows ==
  ASSUME Typed, NEW v \in VaultKey, NEW k \in Key, NEW id \in VaultId,
         NEW p \in PoolAccount, NEW n \in 1..MaxU64, DepositCollateral(k, id, p, n)
  PROVE  Grows(v)
<1>0. PICK w : w = <<k, id>>
  OBVIOUS
<1>1. w \in VaultKey /\ Exists(w) /\ vault[w] \in Vault
  BY <1>0, VaultNotNoAccount DEF DepositCollateral, VaultKey, Typed
<1>2. vault' = [vault EXCEPT ![w] = WithCollateral(@, n)]
  BY <1>0 DEF DepositCollateral
<1>3. CASE v # w
  BY <1>2, <1>3, SameGrows DEF Typed, TypeOK
<1>4. CASE v = w
  <2>1. vault'[w] = WithCollateral(vault[w], n) /\ vault' \in [VaultKey -> Vault \cup {NoAccount}]
    <3>1. TypeOK'
      BY DepositCollateralTypeOK DEF Typed
    <3> QED
      BY <1>1, <1>2, <3>1 DEF Typed, TypeOK
  <2>2. /\ WithCollateral(vault[w], n).short_amount = vault[w].short_amount
        /\ WithCollateral(vault[w], n).beneficiary = vault[w].beneficiary
        /\ vault[w].short_amount \in Nat
    BY <1>1, AmountType DEF WithCollateral, Vault
  <2>3. vault'[w] # NoAccount
    <3>1. vault[w].collateral_amount + n \in 0..MaxU64
      BY <1>0, <1>1, AmountType DEF DepositCollateral, CanDeposit, DepositFits, Vault
    <3>2. WithCollateral(vault[w], n) \in Vault
      BY <1>1, <3>1 DEF WithCollateral, Vault
    <3> QED
      BY <2>1, <3>2, VaultIsAccount
  <2> QED
    BY <1>4, <2>1, <2>2, <2>3 DEF Grows, Exists
<1> QED
  BY <1>3, <1>4

LEMMA MintGrows ==
  ASSUME Typed, NEW v \in VaultKey, NEW k \in Key, NEW id \in VaultId, NEW s \in Series,
         NEW d \in Key, NEW n \in 1..MaxU64, MintOtoken(k, id, s, d, n)
  PROVE  Grows(v)
<1>0. PICK w : w = <<k, id>>
  OBVIOUS
<1>1. /\ w \in VaultKey /\ vault[w] \in Vault /\ vault'[w] \in Vault
      /\ vault'[w].short_amount = vault[w].short_amount + n
      /\ vault'[w].beneficiary = vault[w].beneficiary
      /\ \A u \in VaultKey : u # w => vault'[u] = vault[u]
  BY <1>0, MintedVault DEF Typed
<1>2. CASE v # w
  BY <1>1, <1>2, SameGrows
<1>3. CASE v = w
  <2>1. vault[w].short_amount \in Nat /\ n \in Nat
    BY <1>1, AmountType DEF Vault
  <2>2. vault'[w] # NoAccount
    BY <1>1, VaultIsAccount
  <2> QED
    BY <1>1, <1>3, <2>1, <2>2 DEF Grows, Exists
<1> QED
  BY <1>2, <1>3

LEMMA ControllerGrows ==
  ASSUME Typed, [Next]_vars, NEW v \in VaultKey
  PROVE  Grows(v)
<1>1. CASE vault' = vault
  BY <1>1, SameGrows
<1>2. ASSUME NEW k \in Key, NEW b \in Key, NEW m \in Mint, OpenVault(k, m, b)
      PROVE  Grows(v)
  <2>1. PICK w : w = <<k, next_id[k]>>
    OBVIOUS
  <2>2. ~Exists(w) /\ vault' = [vault EXCEPT ![w] = OpenedVault(m, b)]
    BY <1>2, <2>1 DEF OpenVault
  <2>3. CASE v = w
    BY <2>2, <2>3 DEF Grows
  <2>4. CASE v # w
    BY <2>2, <2>4, SameGrows DEF Typed, TypeOK
  <2> QED
    BY <2>3, <2>4
<1>3. ASSUME NEW k \in Key, NEW w \in VaultKey, NEW p \in PoolAccount,
             SettleVault(k, w, p)
      PROVE  Grows(v)
  BY <1>3, ClosingGrows DEF SettleVault
<1>4. ASSUME NEW k \in Key, NEW id \in VaultId, NEW p \in PoolAccount,
             EmergencyWithdrawVault(k, id, p)
      PROVE  Grows(v)
  <2>1. PICK w : w = <<k, id>>
    OBVIOUS
  <2>2. w \in VaultKey /\ Exists(w) /\ vault' = [vault EXCEPT ![w].settled = TRUE]
    BY <1>4, <2>1 DEF EmergencyWithdrawVault, CanEmergencyWithdraw, VaultKey
  <2> QED
    BY <2>2, ClosingGrows
<1> QED
  BY <1>1, <1>2, <1>3, <1>4, DepositGrows, MintGrows, VaultWriters

(***************************************************************************)
(* What was delivered for a vault, within what it wrote.                   *)
(***************************************************************************)
\* A vault nobody bought from has delivered nothing; one that was bought from
\* exists, and is the vault of a wallet.
DeliveryKept(v) ==
  /\ vault_mm[v] = NoAccount => delivered[v] = 0
  /\ vault_mm[v] # NoAccount =>
       /\ Exists(v)
       /\ vault[v].beneficiary \in Wallet
       /\ delivered[v] + vault_mm[v].remaining_amount <= vault[v].short_amount

DeliveryTyped ==
  /\ delivered \in [VaultKey -> Nat]
  /\ \A v \in VaultKey : DeliveryKept(v)

LEMMA DeliveredByParts == DeliveryTyped => DeliveredWithinShort
  BY DEF DeliveryTyped, DeliveryKept, DeliveredWithinShort

LEMMA KeepsDelivery ==
  ASSUME Typed, Typed', NEW v \in VaultKey, DeliveryKept(v), Grows(v),
         delivered' = delivered, delivered[v] \in Nat, vault_mm'[v] = vault_mm[v]
  PROVE  DeliveryKept(v)'
<1>1. CASE vault_mm[v] = NoAccount
  BY <1>1 DEF DeliveryKept
<1>2. CASE vault_mm[v] # NoAccount
  <2>1. /\ Exists(v) /\ Exists(v)' /\ vault'[v].short_amount >= vault[v].short_amount
        /\ vault'[v].beneficiary \in Wallet
    BY <1>2 DEF DeliveryKept, Grows
  <2>2. vault[v] \in Vault /\ vault_mm[v] \in VaultMM
    BY <1>2, <2>1, VaultNotNoAccount DEF Typed, SettlerTypeOK
  <2>3. vault'[v] \in Vault
    BY <2>1 DEF Typed, TypeOK, Exists
  <2>4. /\ vault[v].short_amount \in Nat /\ vault'[v].short_amount \in Nat
        /\ vault_mm[v].remaining_amount \in Nat
    BY <2>2, <2>3, AmountType DEF Vault, VaultMM
  <2>5. delivered[v] + vault_mm[v].remaining_amount <= vault[v].short_amount
    BY <1>2 DEF DeliveryKept
  <2>6. delivered'[v] + vault_mm'[v].remaining_amount <= vault'[v].short_amount
    BY <2>1, <2>4, <2>5
  <2> QED
    BY <1>2, <2>1, <2>6 DEF DeliveryKept
<1> QED
  BY <1>1, <1>2

LEMMA OrderDelivery ==
  ASSUME Typed, Typed', NEW v \in VaultKey, DeliveryKept(v), delivered' = delivered,
         delivered[v] \in Nat, NEW user \in Wallet, NEW q \in Quotes,
         NEW p \in PoolAccount, NEW n \in 1..MaxU64, NEW c \in 1..MaxU64,
         ExecuteOrder(user, q, p, n, c)
  PROVE  DeliveryKept(v)'
<1>0. PICK w : w = <<Settler, next_id[Settler]>>
  OBVIOUS
<1>1. PICK s : s = q.otoken_mint
  OBVIOUS
<1>2. PICK m : m = Terms[s].collateral_mint
  OBVIOUS
<1>3. PICK mm : mm = [maker |-> q.maker, otoken_mint |-> s, remaining_amount |-> n]
  OBVIOUS
<1>4. /\ ~Exists(w) /\ vault_mm[w] = NoAccount
      /\ vault' = [vault EXCEPT ![w] = OrderVault(m, user, c, s, n)]
      /\ vault_mm' = [vault_mm EXCEPT ![w] = mm]
  BY <1>0, <1>1, <1>2, <1>3 DEF ExecuteOrder, OrderVault
<1>5. /\ s \in Series /\ m \in Mint /\ user \in Key /\ q.maker \in Wallet
      /\ n \in 0..MaxU64 /\ c \in 0..MaxU64 /\ n \in Nat
  BY <1>1, <1>2, QuoteType, TermsType, WalletType, AmountType
<1>6. CASE v # w
  <2>1. vault'[v] = vault[v] /\ vault_mm'[v] = vault_mm[v]
    BY <1>4, <1>6 DEF Typed, TypeOK, SettlerTypeOK
  <2> QED
    BY <2>1, SameGrows, KeepsDelivery
<1>7. CASE v = w
  <2>1. vault'[v] = OrderVault(m, user, c, s, n) /\ vault_mm'[v] = mm
    BY <1>4, <1>7 DEF Typed, TypeOK, SettlerTypeOK
  <2>2. /\ vault'[v] \in Vault /\ vault'[v].short_amount = n
        /\ vault'[v].beneficiary = user
    BY <1>5, <2>1, OrderVaultType
  <2>3. mm \in VaultMM /\ mm.remaining_amount = n
    BY <1>3, <1>5 DEF VaultMM
  <2>4. vault'[v] # NoAccount /\ vault_mm'[v] # NoAccount
    BY <2>1, <2>2, <2>3, VaultIsAccount, SettlerAccountAssumption
  <2>5. delivered'[v] = 0
    BY <1>4, <1>7 DEF DeliveryKept
  <2>6. delivered'[v] + vault_mm'[v].remaining_amount <= vault'[v].short_amount
    BY <1>5, <2>1, <2>2, <2>3, <2>5
  <2> QED
    BY <2>2, <2>4, <2>6 DEF DeliveryKept, Exists
<1> QED
  BY <1>6, <1>7

LEMMA ExitDelivery ==
  ASSUME Typed, Typed', NEW v \in VaultKey, DeliveryKept(v), delivered' = delivered,
         delivered[v] \in Nat, NEW u \in Wallet, NEW w \in VaultKey,
         NEW p \in PoolAccount, EmergencyWithdraw(u, w, p)
  PROVE  DeliveryKept(v)'
<1>1. /\ Exists(w) /\ vault_mm[w] # NoAccount
      /\ vault' = [vault EXCEPT ![w].settled = TRUE]
      /\ vault_mm' = [vault_mm EXCEPT ![w].remaining_amount = 0]
  BY DEF EmergencyWithdraw
<1>2. Grows(v)
  BY <1>1, ClosingGrows
<1>3. CASE v # w
  <2>1. vault_mm'[v] = vault_mm[v]
    BY <1>1, <1>3 DEF Typed, SettlerTypeOK
  <2> QED
    BY <1>2, <2>1, KeepsDelivery
<1>4. CASE v = w
  <2>1. vault_mm[v] \in VaultMM /\ vault[v] \in Vault
    BY <1>1, <1>4, VaultNotNoAccount DEF Typed, SettlerTypeOK
  <2>2. /\ Exists(v)' /\ vault'[v].short_amount >= vault[v].short_amount
        /\ vault'[v].beneficiary = vault[v].beneficiary
    BY <1>1, <1>2, <1>4 DEF Grows
  <2>3. vault'[v] \in Vault
    BY <2>2 DEF Typed, TypeOK, Exists
  <2>4. vault_mm'[v] = [vault_mm[v] EXCEPT !.remaining_amount = 0]
    BY <1>1, <1>4 DEF Typed, SettlerTypeOK
  <2>5. vault_mm'[v].remaining_amount = 0
    BY <2>1, <2>4 DEF VaultMM
  <2>6. vault_mm'[v] # NoAccount
    <3>1. [vault_mm[v] EXCEPT !.remaining_amount = 0] \in VaultMM
      BY <2>1, AmountType DEF VaultMM
    <3> QED
      BY <2>4, <3>1, SettlerAccountAssumption
  <2>7. /\ vault[v].short_amount \in Nat /\ vault'[v].short_amount \in Nat
        /\ vault_mm[v].remaining_amount \in Nat
    BY <2>1, <2>3, AmountType DEF Vault, VaultMM
  <2>8. /\ delivered[v] + vault_mm[v].remaining_amount <= vault[v].short_amount
        /\ vault[v].beneficiary \in Wallet
    BY <1>1, <1>4 DEF DeliveryKept
  <2>9. delivered'[v] + vault_mm'[v].remaining_amount <= vault'[v].short_amount
    BY <2>2, <2>5, <2>7, <2>8
  <2> QED
    BY <2>2, <2>6, <2>8, <2>9 DEF DeliveryKept
<1> QED
  BY <1>3, <1>4

LEMMA RedeemDelivery ==
  ASSUME Typed, Typed', DeliveryTyped, NEW k, NEW w \in VaultKey,
         NEW p \in PoolAccount, NEW n \in 1..MaxU64, PhysicalRedeem(k, w, p, n)
  PROVE  DeliveryTyped'
<1>1. PICK left : left = vault_mm[w].remaining_amount - n
  OBVIOUS
<1>2. /\ vault_mm[w] # NoAccount /\ vault_mm[w] \in VaultMM /\ n \in Nat
      /\ vault_mm[w].remaining_amount \in 0..MaxU64
      /\ vault_mm[w].remaining_amount \in Nat
      /\ n <= vault_mm[w].remaining_amount
  BY Deliverable
<1>3. /\ vault' = vault /\ delivered' = [delivered EXCEPT ![w] = @ + n]
      /\ vault_mm' = [vault_mm EXCEPT ![w] = RemainingAfter(@, n)]
  BY DEF PhysicalRedeem, accounts
<1>4. /\ vault_mm'[w] = [vault_mm[w] EXCEPT !.remaining_amount = left]
      /\ \A v \in VaultKey \ {w} : vault_mm'[v] = vault_mm[v]
  BY <1>1, <1>2, <1>3 DEF RemainingAfter, VaultMM, Typed, SettlerTypeOK
<1>5. vault_mm'[w] \in VaultMM /\ vault_mm'[w].remaining_amount = left /\ left \in Nat
  BY <1>1, <1>2, <1>4, AmountType DEF VaultMM
<1>6. delivered' \in [VaultKey -> Nat]
  BY <1>2, <1>3 DEF DeliveryTyped
<1>7. ASSUME NEW v \in VaultKey PROVE DeliveryKept(v)'
  <2>1. DeliveryKept(v) /\ delivered[v] \in Nat
    BY DEF DeliveryTyped
  <2>2. CASE v # w
    <3>1. delivered'[v] = delivered[v] /\ vault_mm'[v] = vault_mm[v]
      BY <1>3, <1>4, <2>2 DEF DeliveryTyped
    <3> QED
      BY <1>3, <2>1, <3>1 DEF DeliveryKept, Exists
  <2>3. CASE v = w
    <3>1. delivered'[v] = delivered[v] + n
      BY <1>3, <2>3 DEF DeliveryTyped
    <3>2. /\ Exists(v) /\ vault[v].beneficiary \in Wallet
          /\ delivered[v] + vault_mm[v].remaining_amount <= vault[v].short_amount
      BY <1>2, <2>1, <2>3 DEF DeliveryKept
    <3>3. delivered'[v] + vault_mm'[v].remaining_amount
            = delivered[v] + vault_mm[v].remaining_amount
      BY <1>1, <1>2, <1>5, <2>1, <2>3, <3>1
    <3>4. vault_mm'[v] # NoAccount
      BY <1>5, <2>3, SettlerAccountAssumption
    <3> QED
      BY <1>3, <3>2, <3>3, <3>4 DEF DeliveryKept, Exists
  <2> QED
    BY <2>2, <2>3
<1> QED
  BY <1>6, <1>7 DEF DeliveryTyped

LEMMA BatchDelivery ==
  ASSUME Typed, Typed', DeliveryTyped, [BatchNext]_all_vars, delivered' = delivered
  PROVE  DeliveryTyped'
<1>1. ASSUME NEW v \in VaultKey PROVE DeliveryKept(v)'
  <2>1. DeliveryKept(v) /\ delivered[v] \in Nat
    BY DEF DeliveryTyped
  <2>2. CASE [Next]_vars /\ UNCHANGED custody
    BY <2>1, <2>2, ControllerGrows, KeepsDelivery DEF custody
  <2>3. ASSUME NEW m \in Wallet, NEW s \in Series, NEW p \in PoolAccount,
               NEW n \in 1..MaxU64, RedeemCustody(m, s, p, n)
        PROVE  DeliveryKept(v)'
    <3>1. vault' = vault /\ vault_mm' = vault_mm
      BY <2>3 DEF RedeemCustody, accounts
    <3> QED
      BY <2>1, <3>1, SameGrows, KeepsDelivery
  <2> QED
    BY <2>1, <2>2, <2>3, OrderDelivery, ExitDelivery, CustodyWriters
<1> QED
  BY <1>1 DEF DeliveryTyped

(***************************************************************************)
(* The specification.                                                      *)
(***************************************************************************)
DeliveryInv ==
  Typed /\ CustodyCovers /\ BalanceWithinVaults /\ DeliveryTyped

LEMMA DeliverySteps ==
  ASSUME [DeliveryNext]_delivery_vars
  PROVE  \/ [BatchNext]_all_vars /\ delivered' = delivered
         \/ \E k \in Wallet, v \in VaultKey, p \in PoolAccount, n \in 1..MaxU64 :
              PhysicalRedeem(k, v, p, n)
<1>1. CASE UNCHANGED delivery_vars
  BY <1>1 DEF delivery_vars
<1>2. CASE BatchNext /\ UNCHANGED delivered
  BY <1>2
<1>3. CASE \E k \in {w \in Wallet : IsOperator(w)},
              v \in {w \in VaultKey : Exists(w)}, p \in PoolAccount, n \in 1..MaxU64 :
             PhysicalRedeem(k, v, p, n)
  <2>1. PICK k \in Wallet, v \in VaultKey, p \in PoolAccount, n \in 1..MaxU64 :
               PhysicalRedeem(k, v, p, n)
    BY <1>3
  <2> QED
    BY <2>1
<1> QED
  BY <1>1, <1>2, <1>3 DEF DeliveryNext

LEMMA DeliveryInvNext == DeliveryInv /\ [DeliveryNext]_delivery_vars => DeliveryInv'
<1> SUFFICES ASSUME DeliveryInv, [DeliveryNext]_delivery_vars PROVE DeliveryInv'
  OBVIOUS
<1>1. Typed /\ CustodyCovers /\ BalanceWithinVaults /\ DeliveryTyped
  BY DEF DeliveryInv
<1>2. CASE [BatchNext]_all_vars /\ delivered' = delivered
  <2>1. Typed' /\ CustodyCovers' /\ BalanceWithinVaults'
    BY <1>1, <1>2, NextTyped, NextCovered, NextWithin
  <2> QED
    BY <1>1, <1>2, <2>1, BatchDelivery DEF DeliveryInv
<1>3. ASSUME NEW k \in Wallet, NEW v \in VaultKey, NEW p \in PoolAccount,
             NEW n \in 1..MaxU64, PhysicalRedeem(k, v, p, n)
      PROVE  DeliveryInv'
  <2>1. Typed'
    BY <1>1, <1>3, PhysicalRedeemTyped
  <2>2. CustodyCovers'
    <3>1. ASSUME NEW s \in Series PROVE Covered(s)'
      <4>1. Covered(s)
        BY <1>1 DEF CustodyCovers, Covered
      <4> QED
        BY <1>1, <1>3, <4>1, PhysicalRedeemCovers
    <3> QED
      BY <3>1 DEF CustodyCovers, Covered
  <2>3. BalanceWithinVaults'
    <3>1. ASSUME NEW m \in Wallet, NEW s \in Series PROVE Within(m, s)'
      <4>1. Within(m, s)
        BY <1>1, WithinByParts
      <4> QED
        BY <1>1, <1>3, <4>1, PhysicalRedeemWithin
    <3> QED
      BY <3>1 DEF BalanceWithinVaults, Within, RemainderOf, RemainderMap
  <2>4. DeliveryTyped'
    BY <1>1, <1>3, <2>1, RedeemDelivery
  <2> QED
    BY <2>1, <2>2, <2>3, <2>4 DEF DeliveryInv
<1> QED
  BY <1>2, <1>3, DeliverySteps

LEMMA DeliveryInvInit == DeliveryInit => DeliveryInv
<1> SUFFICES ASSUME DeliveryInit PROVE DeliveryInv
  OBVIOUS
<1>1. Typed /\ CustodyCovers /\ BalanceWithinVaults
  BY InitTyped, InitCovered, InitWithin DEF DeliveryInit
<1>2. DeliveryTyped
  BY DEF DeliveryInit, BatchInit, SettlerInit, DeliveryTyped, DeliveryKept
<1> QED
  BY <1>1, <1>2 DEF DeliveryInv

LEMMA DeliveryInvHolds == DeliverySpec => []DeliveryInv
  BY DeliveryInvInit, DeliveryInvNext, PTL DEF DeliverySpec

\* Types, custody and the makers' balances stay right with physical delivery
\* among the operator's instructions.
THEOREM DeliveryKeepsCustody ==
  DeliverySpec => [](SettlerTypeOK /\ CustodyCovers /\ BalanceWithinVaults)
<1>1. DeliveryInv => SettlerTypeOK /\ CustodyCovers /\ BalanceWithinVaults
  BY DEF DeliveryInv, Typed
<1> QED
  BY <1>1, DeliveryInvHolds, PTL

\* A vault's beneficiary is never paid for more than the vault wrote, in
\* however many parts the operator delivers and whatever routes it takes, and
\* for nothing more once the vault took the emergency exit.
THEOREM DeliveryTheorem == DeliverySpec => []DeliveredWithinShort
<1>1. DeliveryInv => DeliveredWithinShort
  BY DeliveredByParts DEF DeliveryInv
<1> QED
  BY <1>1, DeliveryInvHolds, PTL

(***************************************************************************)
(* What a delivery moves.                                                  *)
(***************************************************************************)
\* Between two accounts, the sender pays the amount, and the receiver gets it
\* less the fee.
LEMMA MoveApart ==
  ASSUME NEW l \in Ledgers, NEW t \in Mint, NEW from \in Account,
         NEW to \in Account, from # to, NEW n \in Nat
  PROVE  /\ Move(l, t, from, to, n)[t][from] = l[t][from] - n
         /\ Move(l, t, from, to, n)[t][to] >= l[t][to] + n - Fee(t)
<1>1. l[t] \in [Account -> Nat] /\ l \in [Mint \cup Series -> [Account -> Nat]]
  BY DEF Ledgers
<1>2. Fee(t) \in {0, 1}
  BY FeeType
<1>3. CASE n = 0
  BY <1>1, <1>2, <1>3 DEF Move
<1>4. CASE n # 0
  <2>1. Move(l, t, from, to, n)[t] = TransferredLess(l[t], from, to, n, Fee(t))
    BY <1>1, <1>4 DEF Move
  <2> QED
    BY <1>1, <1>2, <2>1 DEF TransferredLess
<1> QED
  BY <1>3, <1>4

\* Wherever the route goes, only the settler and the swap's venue pay.
LEMMA SwapMoves ==
  ASSUME TypeOK, NEW l \in Ledgers, NEW c \in Mint, NEW x \in Mint,
         NEW in_reserve \in Account, NEW to \in Account, NEW also_to \in Account,
         NEW input \in Nat, NEW output \in Nat, NEW more \in Nat,
         CanSwapSplit(l, c, input, x, output, more), NEW w,
         w = SwapSplit(l, c, input, in_reserve, x, to, output, also_to, more),
         NEW t \in Mint
  PROVE  \A k \in Account \ {Settler, Venue} : w[t][k] >= l[t][k]
<1> DEFINE l1 == Move(l, c, Settler, in_reserve, input)
           l2 == Move(l1, x, Venue, to, output)
           l3 == Move(l2, x, Venue, also_to, more)
<1>1. /\ Settler \in Account /\ Venue \in Account /\ Venue # Settler
      /\ t \in Mint \cup Series
  BY DeliveryAssumption, SettlerAssumption DEF Account
<1>2. CanMove(l, c, Settler, input) /\ l[x][Venue] >= output + more
  BY DEF CanSwapSplit
<1>3. l1 \in Ledgers
  BY <1>1, <1>2, MoveType
<1>4. l1[x][Venue] >= l[x][Venue]
  BY <1>1, MoveBounds
<1>5. \A k \in Account \ {Settler, Venue} : l1[t][k] >= l[t][k]
  BY <1>1, MoveBounds
<1>6. l[x][Venue] \in Nat /\ l1[x][Venue] \in Nat
  BY <1>1, <1>3 DEF Ledgers
<1>7. w = l3
  BY DEF SwapSplit, Swap
<1> HIDE DEF l1
<1>8. CanMove(l1, x, Venue, output)
  BY <1>2, <1>4, <1>6 DEF CanMove, CanTransfer
<1>9. l2 \in Ledgers
  BY <1>1, <1>3, <1>8, MoveType
<1>10. l2[x][Venue] >= l1[x][Venue] - output
  BY <1>1, <1>3, MoveBounds
<1>11. \A k \in Account \ {Settler, Venue} : l2[t][k] >= l1[t][k]
  BY <1>1, <1>3, MoveBounds
<1>12. l2[x][Venue] \in Nat
  BY <1>1, <1>9 DEF Ledgers
<1> HIDE DEF l2
<1>13. l3 \in Ledgers
  <2>1. CanMove(l2, x, Venue, more)
    BY <1>2, <1>4, <1>6, <1>10, <1>12 DEF CanMove, CanTransfer
  <2> QED
    BY <1>1, <1>9, <2>1, MoveType
<1>14. \A k \in Account \ {Settler, Venue} : l3[t][k] >= l2[t][k]
  BY <1>1, <1>9, MoveBounds
<1> HIDE DEF l3
<1>15. \A k \in Account : /\ l[t][k] \in Nat /\ l1[t][k] \in Nat
                          /\ l2[t][k] \in Nat /\ l3[t][k] \in Nat
  BY <1>1, <1>3, <1>9, <1>13 DEF Ledgers
<1> QED
  BY <1>5, <1>7, <1>11, <1>14, <1>15

\* What the settler passes on leaves its accounts: the collateral of a put
\* that was not spent, all the contra of a call.
PassedOn(s, t, received, spent, to_settler) ==
  IF Terms[s].is_put
  THEN IF t = Terms[s].collateral_mint THEN received - spent ELSE 0
  ELSE IF t = ContraMint(s) THEN to_settler ELSE 0

LEMMA PaidOnMoves ==
  ASSUME TypeOK, NEW l \in Ledgers, NEW s \in Series, NEW u \in Key, u # Settler,
         NEW m \in Key, m # Settler, NEW owed \in Nat, NEW received \in Int,
         NEW spent \in Int, NEW to_settler \in Int, NEW to_user,
         Accepted(s, owed, received, spent, to_user, to_settler),
         l[Terms[s].collateral_mint][Settler] >= received - spent,
         l[ContraMint(s)][Settler] >= to_settler, NEW after,
         after = PaidOn(l, s, u, m, owed, received, spent, to_settler), NEW t \in Mint
  PROVE  /\ \A k \in Account \ {Settler} : after[t][k] >= l[t][k]
         /\ ~Terms[s].is_put => after[ContraMint(s)][u]
                                  >= l[ContraMint(s)][u] + owed - Fee(ContraMint(s))
         /\ after[t][Settler] = l[t][Settler] - PassedOn(s, t, received, spent, to_settler)
<1>1. PICK c : c = Terms[s].collateral_mint
  OBVIOUS
<1>2. PICK x : x = ContraMint(s)
  OBVIOUS
<1>3. /\ c \in Mint /\ x \in Mint /\ Settler \in Account /\ u \in Account /\ m \in Account
      /\ t \in Mint \cup Series /\ x \in Mint \cup Series /\ c \in Mint \cup Series
      /\ Fee(x) \in {0, 1}
  BY <1>1, <1>2, TermsType, DeliveryAssumption, WalletType, FeeType DEF Account
<1>4. /\ l[c][Settler] \in Nat /\ l[x][Settler] \in Nat
      /\ l[t][Settler] \in Nat /\ l[x][u] \in Nat
      /\ \A k \in Account : l[t][k] \in Nat
  BY <1>3 DEF Ledgers
<1>5. CASE Terms[s].is_put
  <2>1. PICK rest : rest = received - spent
    OBVIOUS
  <2>2. rest \in Nat /\ l[c][Settler] >= rest
    BY <1>1, <1>5, <2>1 DEF Accepted
  <2>3. after = Move(l, c, Settler, m, rest)
    BY <1>1, <1>5, <2>1 DEF PaidOn
  <2>4. \A k \in Account \ {Settler} : after[t][k] >= l[t][k]
    BY <1>3, <2>2, <2>3, MoveBounds
  <2>5. t # c => after[t] = l[t]
    BY <1>3, <2>2, <2>3, MoveElsewhere
  <2>6. after[c][Settler] = l[c][Settler] - rest
    BY <1>3, <2>2, <2>3, MoveApart
  <2>7. after[t][Settler] = l[t][Settler] - (IF t = c THEN rest ELSE 0)
    BY <1>4, <2>5, <2>6
  <2>8. PassedOn(s, t, received, spent, to_settler) = IF t = c THEN rest ELSE 0
    BY <1>1, <1>5, <2>1 DEF PassedOn
  <2> QED
    BY <1>5, <2>4, <2>7, <2>8
<1>6. CASE ~Terms[s].is_put
  <2>1. PICK rest : rest = to_settler - owed
    OBVIOUS
  <2>2. rest \in Nat /\ l[x][Settler] >= owed + rest
    BY <1>2, <1>6, <2>1 DEF Accepted
  <2>3. PICK l1 : l1 = Move(l, x, Settler, u, owed)
    OBVIOUS
  <2>4. after = Move(l1, x, Settler, m, rest)
    BY <1>2, <1>6, <2>1, <2>3 DEF PaidOn
  <2>5. CanMove(l, x, Settler, owed)
    BY <1>4, <2>2 DEF CanMove, CanTransfer
  <2>6. l1 \in Ledgers
    BY <1>3, <2>3, <2>5, MoveType
  <2>7. /\ l1[x][Settler] = l[x][Settler] - owed
        /\ l1[x][u] >= l[x][u] + owed - Fee(x)
    BY <1>3, <2>3, MoveApart
  <2>8. \A k \in Account \ {Settler} : l1[t][k] >= l[t][k]
    BY <1>3, <2>3, MoveBounds
  <2>9. t # x => l1[t] = l[t]
    BY <1>3, <2>3, MoveElsewhere
  <2>10. after[x][Settler] = l1[x][Settler] - rest
    BY <1>3, <2>2, <2>4, <2>6, MoveApart
  <2>11. /\ \A k \in Account \ {Settler} : after[t][k] >= l1[t][k]
         /\ after[x][u] >= l1[x][u]
    BY <1>3, <2>2, <2>4, <2>6, MoveBounds
  <2>12. t # x => after[t] = l1[t]
    BY <1>3, <2>2, <2>4, <2>6, MoveElsewhere
  <2>13. after \in Ledgers
    <3>1. CanMove(l1, x, Settler, rest)
      BY <1>4, <2>2, <2>7 DEF CanMove, CanTransfer
    <3> QED
      BY <1>3, <2>2, <2>4, <2>6, <3>1, MoveType
  <2>14. /\ l1[x][u] \in Nat /\ after[x][u] \in Nat
         /\ \A k \in Account : l1[t][k] \in Nat /\ after[t][k] \in Nat
    BY <1>3, <2>6, <2>13 DEF Ledgers
  <2>15. after[x][u] >= l[x][u] + owed - Fee(x)
    BY <1>3, <1>4, <2>7, <2>11, <2>14
  <2>16. \A k \in Account \ {Settler} : after[t][k] >= l[t][k]
    BY <1>4, <2>8, <2>11, <2>14
  <2>17. after[t][Settler] = l[t][Settler] - (IF t = x THEN to_settler ELSE 0)
    BY <1>4, <2>1, <2>7, <2>9, <2>10, <2>12
  <2>18. PassedOn(s, t, received, spent, to_settler) = IF t = x THEN to_settler ELSE 0
    BY <1>2, <1>6 DEF PassedOn
  <2> QED
    BY <1>2, <2>15, <2>16, <2>17, <2>18
<1> QED
  BY <1>5, <1>6

\* What a delivery of n for vault v leaves of the balances of mint t.
HandedOver(v, n, t) ==
  LET m    == vault_mm[v].maker
      s    == vault_mm[v].otoken_mint
      user == vault[v].beneficiary
      c    == Terms[s].collateral_mint
      x    == ContraMint(s)
  IN /\ PoolTotal(t)' \in Nat
     /\ PoolTotal(t)' >= PoolTotal(t) - (IF t = c THEN PayoutOf(s, n) ELSE 0)
     /\ balance'[x][user] - balance[x][user]
          >= ContraAmount(s, n) - (IF Terms[s].is_put THEN 0 ELSE Fee(x))
     /\ balance'[t][Settler] = balance[t][Settler]
     /\ \A k \in Key \ {Venue} : balance'[t][k] >= balance[t][k]

LEMMA DeliveryHandsOver ==
  ASSUME Typed, NEW k, NEW v \in VaultKey, NEW p \in PoolAccount,
         NEW n \in 1..MaxU64, PhysicalRedeem(k, v, p, n),
         vault[v].beneficiary \in Wallet, NEW t \in Mint
  PROVE  HandedOver(v, n, t)
<1>0. PICK m : m = vault_mm[v].maker
  OBVIOUS
<1>1. PICK s : s = vault_mm[v].otoken_mint
  OBVIOUS
<1>2. PICK c : c = Terms[s].collateral_mint
  OBVIOUS
<1>3. PICK x : x = ContraMint(s)
  OBVIOUS
<1>4. PICK user : user = vault[v].beneficiary
  OBVIOUS
<1>5. PICK l : l = Move([balance EXCEPT ![s] = Burned(@, Settler, n)], c, p, Settler,
                        PayoutOf(s, n))
  OBVIOUS
<1>6. PICK received : received = Change(l, balance, c, Settler)
  OBVIOUS
<1>7. PICK owed : owed = ContraAmount(s, n)
  OBVIOUS
<1>8. /\ m \in Wallet /\ s \in Series /\ user \in Wallet /\ owed \in Nat /\ owed >= 1
      /\ CanRedeem(Settler, s, p, n) /\ Settler \in Account /\ Settler \in Key
      /\ c \in Mint /\ x \in Mint /\ n \in Nat
  <2>1. ContraAmount(s, n) \in 1..MaxU64
    BY <1>1 DEF PhysicalRedeem, CanDeliver, ContraComputable
  <2>2. owed >= 1
    BY <1>7, <2>1, AmountType
  <2> QED
    BY <1>0, <1>1, <1>2, <1>3, <1>4, <1>7, <2>2, Deliverable, WalletType, TermsType,
       DeliveryAssumption
<1>9. /\ m \in Key /\ user \in Key /\ Venue \in Key /\ m \in Account /\ user \in Account
      /\ m # Settler /\ m # Venue /\ user # Settler /\ user # Venue /\ Venue \in Account
      /\ p \in Account /\ p # Settler /\ p # user /\ p # m
      /\ \A j \in Key : j \in Account /\ j # p
      /\ \A a \in PoolAccount : a \in Account \ {user, m, Settler, Venue}
  BY <1>8, WalletType, PoolApart, SettlerAssumption, DeliveryAssumption DEF Account, Wallet
<1>10. /\ PayoutOf(s, n) \in Nat /\ l \in Ledgers
  BY <1>2, <1>5, <1>8, FundedType DEF Typed
<1>11. PICK input \in 0..MaxU64, output \in 0..MaxU64, more \in 0..MaxU64,
             in_reserve \in RouteAccountsOf(c) \ {Settler},
             to \in RouteAccountsOf(x) \ {Venue}, also_to \in RouteAccountsOf(x) \ {Venue} :
         /\ CanSwapSplit(l, c, input, x, output, more)
         /\ Routed(l, v, n, received, input, in_reserve, to, output, also_to, more)
  <2>1. SomeRoute(l, v, n, received)
    BY <1>1, <1>2, <1>5, <1>6 DEF PhysicalRedeem
  <2> QED
    BY <1>1, <1>2, <1>3, <2>1 DEF SomeRoute
<1>12. /\ input \in Nat /\ output \in Nat /\ more \in Nat
      /\ in_reserve \in Account \ {Settler}
      /\ to \in Account \ {Venue} /\ also_to \in Account \ {Venue}
  BY <1>11, AmountType, DeliveryAssumption DEF RouteAccountsOf
<1>13. PICK w : w = SwapSplit(l, c, input, in_reserve, x, to, output, also_to, more)
  OBVIOUS
<1>14. PICK spent : spent = -Change(w, l, c, Settler)
  OBVIOUS
<1>15. PICK to_settler : to_settler = Change(w, balance, x, Settler)
  OBVIOUS
<1>16. PICK to_user : to_user = ReachedUser(w, x, user)
  OBVIOUS
<1>17. /\ CanSwapSplit(l, c, input, x, output, more)
       /\ Accepted(s, owed, received, spent, to_user, to_settler)
       /\ balance' = PaidOn(w, s, user, m, owed, received, spent, to_settler)
  BY <1>0, <1>1, <1>2, <1>3, <1>4, <1>7, <1>11, <1>13, <1>14, <1>15, <1>16 DEF Routed
<1>18. w \in Ledgers
  <2>1. /\ TypeOK /\ l \in Ledgers /\ c \in Mint /\ x \in Mint
        /\ in_reserve \in Account /\ to \in Account /\ also_to \in Account
        /\ input \in Nat /\ output \in Nat /\ more \in Nat
        /\ CanSwapSplit(l, c, input, x, output, more)
    BY <1>8, <1>10, <1>12, <1>17 DEF Typed
  <2> QED
    BY <1>13, <2>1, SwapType
<1>19. balance \in Ledgers /\ TypeOK
  BY DEF Typed, TypeOK, Ledgers
<1>20. /\ balance[c][Settler] \in Nat /\ l[c][Settler] \in Nat /\ w[c][Settler] \in Nat
       /\ balance[x][Settler] \in Nat /\ w[x][Settler] \in Nat /\ w[t][Settler] \in Nat
       /\ balance[t][Settler] \in Nat /\ balance[x][user] \in Nat
       /\ w[x][user] \in Nat /\ l[x][user] \in Nat
  BY <1>8, <1>9, <1>10, <1>18, <1>19 DEF Ledgers
<1>21. /\ received \in Int /\ spent \in Int /\ to_settler \in Int /\ to_user \in Int
       /\ w[c][Settler] >= received - spent /\ w[x][Settler] >= to_settler
  BY <1>6, <1>14, <1>15, <1>16, <1>20 DEF Change, ReachedUser
<1>22. Fee(x) \in {0, 1}
  BY FeeType
<1>23. PICK l0 : l0 = [balance EXCEPT ![s] = Burned(@, Settler, n)]
  OBVIOUS
<1>24. l0 \in Ledgers /\ \A r \in Mint : l0[r] = balance[r]
  <2>1. CanBurn(balance[s], Settler, n)
    BY <1>8 DEF CanRedeem
  <2>2. \A r \in Mint : r # s
    BY <1>8, ControllerAssumption
  <2>3. s \in Series /\ Settler \in Account /\ n \in Nat /\ balance \in Ledgers
    BY <1>8, <1>9, <1>19
  <2>4. l0 \in Ledgers
    BY <1>19, <1>23, <2>1, <2>3, BurnedType
  <2>5. \A r \in Mint : l0[r] = balance[r]
    BY <1>19, <1>23, <2>2 DEF Ledgers
  <2> QED
    BY <2>4, <2>5
<1>25. PICK payout : payout = PayoutOf(s, n)
  OBVIOUS
<1>26. l = Move(l0, c, p, Settler, payout) /\ payout \in Nat
  BY <1>5, <1>10, <1>23, <1>25
<1>27. /\ \A r \in Mint \cup Series : r # c => l[r] = l0[r]
       /\ \A j \in Account \ {p, Settler} : l[c][j] = l0[c][j]
  <2>1. /\ c \in Mint \cup Series /\ l0 \in Ledgers /\ p \in Account /\ Settler \in Account
        /\ payout \in Nat
    BY <1>8, <1>9, <1>24, <1>26
  <2>2. /\ \A r \in Mint \cup Series : r # c => Move(l0, c, p, Settler, payout)[r] = l0[r]
        /\ \A j \in Account \ {p, Settler} : Move(l0, c, p, Settler, payout)[c][j] = l0[c][j]
    BY <2>1, MoveElsewhere
  <2> QED
    BY <1>26, <2>2
<1>28. /\ \A r \in Mint, j \in Key : j # Settler => l[r][j] = balance[r][j]
       /\ t # c => l[t] = balance[t]
  BY <1>8, <1>9, <1>24, <1>27
<1>29. /\ \A j \in Account \ {Settler, Venue} : w[t][j] >= l[t][j]
       /\ t # c /\ t # x => w[t] = l[t]
  <2>1. /\ TypeOK /\ l \in Ledgers /\ c \in Mint /\ x \in Mint
        /\ in_reserve \in Account /\ to \in Account /\ also_to \in Account
        /\ input \in Nat /\ output \in Nat /\ more \in Nat
        /\ CanSwapSplit(l, c, input, x, output, more)
    BY <1>8, <1>10, <1>12, <1>17, <1>19
  <2>2. w = SwapSplit(l, c, input, in_reserve, x, to, output, also_to, more)
    BY <1>13
  <2>3. t # c /\ t # x => w[t] = l[t]
    BY <2>1, <2>2 DEF SwapSplit, Swap, Move, Ledgers
  <2>4. \A j \in Account \ {Settler, Venue} : w[t][j] >= l[t][j]
    BY <2>1, <2>2, SwapMoves
  <2> QED
    BY <2>3, <2>4
<1>30. /\ \A j \in Account \ {Settler} : balance'[t][j] >= w[t][j]
       /\ balance'[t][Settler] = w[t][Settler] - PassedOn(s, t, received, spent, to_settler)
       /\ ~Terms[s].is_put => balance'[x][user] >= w[x][user] + owed - Fee(x)
  BY <1>2, <1>3, <1>8, <1>9, <1>17, <1>18, <1>19, <1>21, PaidOnMoves
<1>31. /\ balance' \in Ledgers
       /\ \A j \in Account : /\ balance'[t][j] \in Nat /\ w[t][j] \in Nat
                             /\ l[t][j] \in Nat /\ balance[t][j] \in Nat
  <2>1. balance' \in Ledgers
    BY DeliveryLedgers
  <2> QED
    BY <1>10, <1>18, <1>19, <2>1 DEF Ledgers
<1>32. \A j \in Account \ {Settler, Venue} : balance'[t][j] >= l[t][j]
  BY <1>29, <1>30, <1>31
<1>33. /\ PoolTotal(t)' \in Nat
       /\ PoolTotal(t)' >= PoolTotal(t) - (IF t = c THEN PayoutOf(s, n) ELSE 0)
  <2>1. PICK P : P = PoolAccountsOf(t)
    OBVIOUS
  <2>2. P \subseteq PoolAccount /\ IsFiniteSet(P)
    BY <2>1, ControllerAssumption, FS_Subset DEF PoolAccountsOf
  <2>3. \A a \in P : /\ balance'[t][a] \in Nat /\ l[t][a] \in Nat
                      /\ l[t][a] <= balance'[t][a]
    BY <1>9, <1>31, <1>32, <2>2
  <2>4. Total(l[t], P) <= Total(balance'[t], P)
    BY <2>2, <2>3, TotalMonotone DEF Summable
  <2>5. Total(l[t], P) \in Nat /\ Total(balance'[t], P) \in Nat
    BY <2>2, <2>3, TotalIsNat DEF Summable
  <2>6. PoolMint[p] = c /\ balance[c][p] >= payout
    BY <1>2, <1>8, <1>25 DEF CanRedeem, CanPayOut, CanTransfer
  <2>7. l0[t] = balance[t]
    BY <1>24
  <2>8. Total(l[t], P) = PoolTotal(t) - (IF t = c THEN payout ELSE 0)
    BY <1>8, <1>19, <1>24, <1>26, <2>1, <2>6, <2>7, MoveDrawsPool
  <2>9. PoolTotal(t)' = Total(balance'[t], P)
    <3>1. PoolAccountsOf(t)' = P
      BY <2>1 DEF PoolAccountsOf
    <3> QED
      BY <3>1 DEF PoolTotal
  <2> QED
    BY <1>25, <2>4, <2>5, <2>8, <2>9
<1>34. balance'[x][user] - balance[x][user]
         >= owed - (IF Terms[s].is_put THEN 0 ELSE Fee(x))
  <2>1. to_user = w[x][user] - balance[x][user]
    BY <1>16 DEF ReachedUser, Change
  <2>2. balance'[x][user] \in Nat
    BY <1>8, <1>9, <1>31 DEF Ledgers
  <2>3. CASE Terms[s].is_put
    <3>1. to_user >= owed
      BY <1>17, <2>3 DEF Accepted
    <3>2. balance'[x][user] >= w[x][user]
      BY <1>2, <1>3, <1>8, <1>9, <1>17, <1>18, <1>19, <1>21, PaidOnMoves
    <3> QED
      BY <1>8, <1>20, <1>21, <2>1, <2>2, <2>3, <3>1, <3>2
  <2>4. CASE ~Terms[s].is_put
    <3>1. to_user = 0
      BY <1>17, <2>4 DEF Accepted
    <3> QED
      BY <1>8, <1>20, <1>21, <1>22, <1>30, <2>1, <2>2, <2>4, <3>1
  <2> QED
    BY <2>3, <2>4
<1>35. balance'[t][Settler] = balance[t][Settler]
  <2>1. /\ w[c][Settler] - balance[c][Settler] = received - spent
        /\ w[x][Settler] - balance[x][Settler] = to_settler
    BY <1>6, <1>14, <1>15, <1>20 DEF Change
  <2>2. t # c /\ t # x => w[t][Settler] = balance[t][Settler]
    BY <1>28, <1>29
  <2>3. CASE Terms[s].is_put
    <3>1. PassedOn(s, t, received, spent, to_settler) = IF t = c THEN received - spent ELSE 0
      BY <1>2, <2>3 DEF PassedOn
    <3>2. to_settler = 0
      BY <1>17, <2>3 DEF Accepted
    <3> QED
      BY <1>20, <1>21, <1>30, <2>1, <2>2, <3>1, <3>2
  <2>4. CASE ~Terms[s].is_put
    <3>1. PassedOn(s, t, received, spent, to_settler) = IF t = x THEN to_settler ELSE 0
      BY <1>3, <2>4 DEF PassedOn
    <3>2. spent = received
      BY <1>17, <2>4 DEF Accepted
    <3> QED
      BY <1>20, <1>21, <1>30, <2>1, <2>2, <3>1, <3>2
  <2> QED
    BY <2>3, <2>4
<1>36. \A j \in Key \ {Venue} : balance'[t][j] >= balance[t][j]
  <2> SUFFICES ASSUME NEW j \in Key \ {Venue} PROVE balance'[t][j] >= balance[t][j]
    OBVIOUS
  <2>1. CASE j = Settler
    BY <1>20, <1>35, <2>1
  <2>2. CASE j # Settler
    BY <1>8, <1>9, <1>28, <1>32, <2>2
  <2> QED
    BY <2>1, <2>2
<1> QED
  BY <1>0, <1>1, <1>2, <1>3, <1>4, <1>7, <1>34, <1>33, <1>35, <1>36 DEF HandedOver

LEMMA DeliveryCustody ==
  ASSUME Typed, NEW k, NEW v \in VaultKey, NEW p \in PoolAccount,
         NEW n \in 1..MaxU64, PhysicalRedeem(k, v, p, n)
  PROVE  LET m == vault_mm[v].maker
             s == vault_mm[v].otoken_mint
         IN Custodied(m, s)' = Custodied(m, s) - n
<1>0. PICK m : m = vault_mm[v].maker
  OBVIOUS
<1>1. PICK s : s = vault_mm[v].otoken_mint
  OBVIOUS
<1>2. /\ m \in Wallet /\ s \in Series /\ n \in Nat /\ NoAccount \notin Nat
      /\ mm_balance[m][s] \in Nat /\ n <= mm_balance[m][s]
  BY <1>0, <1>1, Deliverable, WalletType
<1>3. mm_balance'[m][s] = mm_balance[m][s] - n
  BY <1>0, <1>1, <1>2 DEF PhysicalRedeem, CustodyAfter, Typed, SettlerTypeOK
<1>4. Custodied(m, s)' = Custodied(m, s) - n
  BY <1>2, <1>3 DEF Custodied
<1>5. Custodied(vault_mm[v].maker, vault_mm[v].otoken_mint)'
        = IF mm_balance'[vault_mm'[v].maker][vault_mm'[v].otoken_mint] = NoAccount THEN 0
          ELSE mm_balance'[vault_mm'[v].maker][vault_mm'[v].otoken_mint]
  BY DEF Custodied
<1>6. vault_mm'[v].maker = m /\ vault_mm'[v].otoken_mint = s
  <2>1. vault_mm[v] \in VaultMM
    BY Deliverable
  <2>2. vault_mm'[v] = RemainingAfter(vault_mm[v], n)
    BY DEF PhysicalRedeem, Typed, SettlerTypeOK
  <2> QED
    BY <1>0, <1>1, <2>1, <2>2 DEF RemainingAfter, VaultMM
<1> QED
  BY <1>0, <1>1, <1>4, <1>5, <1>6 DEF Custodied

\* DeliveredInFull of one vault.
InFull(v) ==
  delivered'[v] > delivered[v] =>
    LET m == vault_mm[v].maker
        s == vault_mm[v].otoken_mint
        u == vault[v].beneficiary
        n == delivered'[v] - delivered[v]
        x == ContraMint(s)
        c == Terms[s].collateral_mint
        lost == IF Terms[s].is_put THEN 0 ELSE Fee(x)
    IN /\ Custodied(m, s)' = Custodied(m, s) - n
       /\ PoolTotal(c) - PoolTotal(c)' <= PayoutOf(s, n)
       /\ \A t \in Mint \ {c} : PoolTotal(t)' >= PoolTotal(t)
       /\ balance'[x][u] - balance[x][u] >= ContraAmount(s, n) - lost
       /\ \A t \in Mint, k \in Key \ {Venue} : balance'[t][k] >= balance[t][k]

LEMMA DeliveryInFull ==
  ASSUME DeliveryInv, NEW k, NEW w \in VaultKey, NEW p \in PoolAccount,
         NEW d \in 1..MaxU64, PhysicalRedeem(k, w, p, d), NEW v \in VaultKey
  PROVE  InFull(v)
<1>1. Typed /\ delivered \in [VaultKey -> Nat] /\ DeliveryKept(w)
  BY DEF DeliveryInv, DeliveryTyped
<1>2. delivered' = [delivered EXCEPT ![w] = @ + d] /\ d \in Nat
  BY AmountType DEF PhysicalRedeem
<1>3. CASE v # w
  BY <1>1, <1>2, <1>3 DEF InFull
<1>4. CASE v = w
  <2>1. PICK m : m = vault_mm[v].maker
    OBVIOUS
  <2>2. PICK s : s = vault_mm[v].otoken_mint
    OBVIOUS
  <2>3. PICK u : u = vault[v].beneficiary
    OBVIOUS
  <2>4. PICK c : c = Terms[s].collateral_mint
    OBVIOUS
  <2>5. PICK n : n = delivered'[v] - delivered[v]
    OBVIOUS
  <2>6. n = d
    BY <1>1, <1>2, <1>4, <2>5
  <2>7. /\ vault_mm[v] # NoAccount /\ vault_mm[v] \in VaultMM
        /\ m \in Wallet /\ s \in Series /\ c \in Mint /\ n \in Nat
    BY <1>1, <1>2, <1>4, <2>1, <2>2, <2>4, <2>6, Deliverable, TermsType
  <2>8. u \in Wallet /\ u # Settler /\ m # Settler
    BY <1>1, <1>4, <2>3, <2>7, WalletType DEF DeliveryKept
  <2>9. vault_mm'[v].maker = m /\ vault_mm'[v].otoken_mint = s
    <3>1. vault_mm'[v] = RemainingAfter(vault_mm[v], d)
      BY <1>1, <1>4 DEF PhysicalRedeem, Typed, SettlerTypeOK
    <3> QED
      BY <2>1, <2>2, <2>7, <3>1 DEF RemainingAfter, VaultMM
  <2>10. Custodied(m, s)' = Custodied(m, s) - n
    <3>1. Custodied(vault_mm[v].maker, vault_mm[v].otoken_mint)'
            = Custodied(vault_mm[v].maker, vault_mm[v].otoken_mint) - d
      BY <1>1, <1>4, DeliveryCustody
    <3>2. Custodied(vault_mm[v].maker, vault_mm[v].otoken_mint)' = Custodied(m, s)'
      BY <2>9 DEF Custodied
    <3>3. Custodied(vault_mm[v].maker, vault_mm[v].otoken_mint) = Custodied(m, s)
      BY <2>1, <2>2
    <3> QED
      BY <2>6, <3>1, <3>2, <3>3
  <2>11. ASSUME NEW t \in Mint PROVE HandedOver(v, n, t)
    BY <1>1, <1>4, <2>3, <2>6, <2>8, DeliveryHandsOver
  <2>12. \A r \in Mint : PoolTotal(r) \in Nat
    BY <1>1, PoolSummable, TotalIsNat DEF PoolTotal, Typed
  <2>13. /\ PoolTotal(c) - PoolTotal(c)' <= PayoutOf(s, n)
         /\ \A r \in Mint \ {c} : PoolTotal(r)' >= PoolTotal(r)
    <3>1. PayoutOf(s, n) \in Nat
      BY <1>1, <1>4, <2>2, <2>6, DeliveryLedgers
    <3>2. \A r \in Mint :
            /\ PoolTotal(r)' \in Nat
            /\ PoolTotal(r)' >= PoolTotal(r) - (IF r = c THEN PayoutOf(s, n) ELSE 0)
      BY <2>2, <2>4, <2>11 DEF HandedOver
    <3> QED
      BY <2>7, <2>12, <3>1, <3>2
  <2>14. /\ balance'[ContraMint(s)][u] - balance[ContraMint(s)][u]
              >= ContraAmount(s, n) - (IF Terms[s].is_put THEN 0 ELSE Fee(ContraMint(s)))
         /\ \A r \in Mint, j \in Key \ {Venue} : balance'[r][j] >= balance[r][j]
    BY <2>2, <2>3, <2>7, <2>11 DEF HandedOver
  <2>15. InFull(v)
           <=> (n > 0 =>
                  /\ Custodied(vault_mm[v].maker, vault_mm[v].otoken_mint)'
                       = Custodied(m, s) - n
                  /\ PoolTotal(c) - PoolTotal(Terms[vault_mm[v].otoken_mint].collateral_mint)'
                       <= PayoutOf(s, n)
                  /\ \A r \in Mint \ {c} : PoolTotal(r)' >= PoolTotal(r)
                  /\ balance'[ContraMint(s)][u] - balance[ContraMint(s)][u]
                       >= ContraAmount(s, n)
                            - (IF Terms[s].is_put THEN 0 ELSE Fee(ContraMint(s)))
                  /\ \A r \in Mint, j \in Key \ {Venue} : balance'[r][j] >= balance[r][j])
    <3>1. delivered[v] \in Nat /\ delivered'[v] = delivered[v] + n
      BY <1>1, <1>2, <1>4, <2>6
    <3>2. delivered'[v] > delivered[v] <=> n > 0
      BY <2>7, <3>1
    <3> QED
      BY <2>1, <2>2, <2>3, <2>4, <2>5, <3>2 DEF InFull
  <2>16. Custodied(vault_mm[v].maker, vault_mm[v].otoken_mint)' = Custodied(m, s)'
    BY <2>9 DEF Custodied
  <2>17. PoolTotal(Terms[vault_mm[v].otoken_mint].collateral_mint)' = PoolTotal(c)'
    BY <2>4, <2>9 DEF PoolTotal, PoolAccountsOf
  <2> QED
    BY <2>10, <2>13, <2>14, <2>15, <2>16, <2>17
<1> QED
  BY <1>3, <1>4

\* Whichever accounts a route names and whatever amounts it moves, a delivery
\* that passes the settler's checks costs the pools at most the payout of the
\* part, costs the maker exactly that much custody, brings the beneficiary the
\* contra it is owed (less the token's own fee if the settler passes it on), and
\* takes from nobody but the swap's venue.
THEOREM DeliveredInFullTheorem == DeliverySpec => DeliveredInFull
<1>1. DeliveryInv /\ [DeliveryNext]_delivery_vars => \A v \in VaultKey : InFull(v)
  <2> SUFFICES ASSUME DeliveryInv, [DeliveryNext]_delivery_vars,
                      NEW v \in VaultKey
               PROVE  InFull(v)
    OBVIOUS
  <2>1. CASE [BatchNext]_all_vars /\ delivered' = delivered
    <3>1. delivered[v] \in Nat
      BY DEF DeliveryInv, DeliveryTyped
    <3>2. ~(delivered'[v] > delivered[v])
      BY <2>1, <3>1
    <3> QED
      BY <3>2 DEF InFull
  <2> QED
    BY <2>1, DeliveryInFull, DeliverySteps
<1>2. (\A v \in VaultKey : InFull(v)) =>
        \A v \in VaultKey : delivered'[v] > delivered[v] =>
          LET m == vault_mm[v].maker
              s == vault_mm[v].otoken_mint
              u == vault[v].beneficiary
              n == delivered'[v] - delivered[v]
              x == ContraMint(s)
              c == Terms[s].collateral_mint
              lost == IF Terms[s].is_put THEN 0 ELSE Fee(x)
          IN /\ Custodied(m, s)' = Custodied(m, s) - n
             /\ PoolTotal(c) - PoolTotal(c)' <= PayoutOf(s, n)
             /\ \A t \in Mint \ {c} : PoolTotal(t)' >= PoolTotal(t)
             /\ balance'[x][u] - balance[x][u] >= ContraAmount(s, n) - lost
             /\ \A t \in Mint, k \in Key \ {Venue} : balance'[t][k] >= balance[t][k]
  BY DEF InFull
<1> QED
  BY <1>1, <1>2, DeliveryInvHolds, PTL DEF DeliverySpec, DeliveredInFull

\* With physical delivery among its instructions too, the settler neither
\* keeps what it passes on nor spends what lies in its accounts.
THEOREM DeliveryPassThrough == DeliverySpec => SettlerKeepsNothing
<1>1. DeliveryInv /\ [DeliveryNext]_delivery_vars
        => \A m \in Mint : SparedOrPaid(m)
  <2> SUFFICES ASSUME DeliveryInv, [DeliveryNext]_delivery_vars, NEW m \in Mint
               PROVE  SparedOrPaid(m)
    OBVIOUS
  <2>1. CASE [BatchNext]_all_vars /\ delivered' = delivered
    BY <2>1, BatchSpares DEF DeliveryInv
  <2>2. ASSUME NEW k \in Wallet, NEW v \in VaultKey, NEW p \in PoolAccount,
               NEW n \in 1..MaxU64, PhysicalRedeem(k, v, p, n)
        PROVE  SparedOrPaid(m)
    <3>1. Typed /\ DeliveryKept(v) /\ vault_mm[v] # NoAccount
      BY <2>2, Deliverable DEF DeliveryInv, DeliveryTyped
    <3>2. HandedOver(v, n, m)
      BY <2>2, <3>1, DeliveryHandsOver DEF DeliveryKept
    <3> QED
      BY <3>2 DEF HandedOver, SparedOrPaid
  <2> QED
    BY <2>1, <2>2, DeliverySteps
<1>2. (\A m \in Mint : SparedOrPaid(m)) =>
        [\A m \in Mint :
          \/ balance'[m][Settler] = balance[m][Settler]
          \/ /\ balance'[m][Settler] > balance[m][Settler]
             /\ UNCHANGED settler_vars]_all_vars
  BY DEF SparedOrPaid
<1> QED
  BY <1>1, <1>2, DeliveryInvHolds, PTL DEF DeliverySpec, SettlerKeepsNothing

(***************************************************************************)
(* The books of the controller under physical delivery: a delivery draws   *)
(* on the pool and burns as a redemption of the same custody would.        *)
(***************************************************************************)
LEMMA DeliveryWithdraws ==
  ASSUME Typed, NEW k, NEW v \in VaultKey, NEW p \in PoolAccount,
         NEW n \in 1..MaxU64, PhysicalRedeem(k, v, p, n), vault[v].beneficiary \in Wallet
  PROVE  \E s \in Series : Withdrawn(s, n)
<1>1. PICK s : s = vault_mm[v].otoken_mint
  OBVIOUS
<1>2. TypeOK /\ s \in Series /\ n \in Nat /\ n > 0 /\ Settler \in Account
  BY <1>1, AmountType, WalletType, Deliverable DEF Typed
<1>3. /\ balance'[s] = Burned(balance[s], Settler, n)
      /\ \A r \in Series : r # s => balance'[r] = balance[r]
      /\ PayoutOf(s, n) \in Nat
  BY <1>1, DeliveryLedgers
<1>4. Priced(s) /\ balance[s][Settler] >= n
  BY <1>1 DEF PhysicalRedeem, CanDeliver, Exercisable, CanRedeem, CanBurn
<1>5. Supply(s) = Supply(s)' + n /\ Supply(s)' \in Nat
  BY <1>2, <1>3, <1>4, SupplyBurned
<1>6. \A r \in Series : r # s => Supply(r)' = Supply(r)
  BY <1>3, SupplySame
<1>7. ASSUME NEW m \in Mint
      PROVE  /\ PoolTotal(m)' \in Nat
             /\ PoolTotal(m)' >= PoolTotal(m)
                  - (IF m = Terms[s].collateral_mint THEN PayoutOf(s, n) ELSE 0)
  BY <1>1, DeliveryHandsOver DEF HandedOver
<1>8. /\ UNCHANGED <<accounts, outside, closed_by, burned>>
      /\ redeemed' = [redeemed EXCEPT ![s] = @ + n]
      /\ paid' = [paid EXCEPT ![s] = @ + PayoutOf(s, n)]
  BY <1>1 DEF PhysicalRedeem
<1> QED
  BY <1>2, <1>3, <1>4, <1>5, <1>6, <1>7, <1>8 DEF Withdrawn

\* BatchBooked in the next state.
LEMMA BookedNext == BooksInv' => Booked'
<1>1. BooksInv => Booked
  BY BatchBooked DEF BooksInv
<1> QED
  BY <1>1, PTL

LEMMA WithdrawnKeepsBooks ==
  ASSUME BooksInv, PoolBacksVaults, Solvent, Typed', NEW s \in Series,
         NEW n \in 1..MaxU64, Withdrawn(s, n)
  PROVE  BooksInv' /\ PoolBacksVaults' /\ Solvent'
<1>1. /\ Typed /\ TypeOK /\ Collateralised /\ PricesAgree /\ Closings
      /\ SupplyAccountedWithBurns /\ Booked /\ n \in Nat
  BY BatchBooked, AmountType DEF BooksInv, Typed
<1>2. Collateralised' /\ Closings'
  BY <1>1, CustodyCollateralised, CustodyClosings
<1>3. PricesAgree'
  BY <1>1 DEF Withdrawn, accounts, outside, PricesAgree, Priced
<1>4. SupplyAccountedWithBurns'
  <2> SUFFICES ASSUME NEW r \in Series PROVE Burnt(r)'
    BY BurntByPartsNext
  <2>1. Burnt(r)
    BY <1>1, BurntByParts
  <2> QED
    BY <1>1, <2>1, CustodyBurnt
<1>5. BooksInv'
  BY <1>2, <1>3, <1>4 DEF BooksInv
<1>6. Booked'
  BY <1>5, BookedNext
<1>7. PoolBacksVaults'
  <2>1. ASSUME NEW m \in Mint PROVE Backs(m)'
    <3>1. Backs(m)
      BY DEF PoolBacksVaults, Backs, PaidTotal
    <3> QED
      BY <1>1, <3>1, CustodyBacks
  <2> QED
    BY <2>1 DEF PoolBacksVaults, Backs, PaidTotal
<1>8. Solvent'
  <2>1. ASSUME NEW m \in Mint PROVE SolventAt(m)'
    <3>1. SolventAt(m)
      BY DEF Solvent
    <3> QED
      BY <1>1, <1>6, <3>1, CustodySolvent
  <2> QED
    BY <2>1 DEF Solvent
<1> QED
  BY <1>5, <1>7, <1>8

LEMMA DeliveryBooks ==
  ASSUME DeliveryInv, BooksInv, PoolBacksVaults, Solvent, Typed',
         [DeliveryNext]_delivery_vars
  PROVE  BooksInv' /\ PoolBacksVaults' /\ Solvent'
<1>1. CASE [BatchNext]_all_vars
  <2>1. Typed /\ Collateralised /\ PricesAgree /\ Closings /\ SupplyAccountedWithBurns
    BY DEF BooksInv
  <2>2. BooksInv'
    BY <1>1, <2>1, BatchCollateralised, BatchPrices, BatchClosings, NextBurnt DEF BooksInv
  <2>3. Booked /\ Booked'
    BY <2>1, <2>2, BatchBooked, BookedNext
  <2> QED
    BY <1>1, <2>1, <2>2, <2>3, BatchBacks, BatchSolvent
<1>2. ASSUME NEW k \in Wallet, NEW v \in VaultKey, NEW p \in PoolAccount,
             NEW n \in 1..MaxU64, PhysicalRedeem(k, v, p, n)
      PROVE  BooksInv' /\ PoolBacksVaults' /\ Solvent'
  <2>1. Typed /\ DeliveryKept(v) /\ vault_mm[v] # NoAccount
    BY <1>2, Deliverable DEF DeliveryInv, DeliveryTyped
  <2>2. \E s \in Series : Withdrawn(s, n)
    BY <1>2, <2>1, DeliveryWithdraws DEF DeliveryKept
  <2> QED
    BY <2>2, WithdrawnKeepsBooks
<1> QED
  BY <1>1, <1>2, DeliverySteps

LEMMA DeliveryBooksInvariant ==
  DeliverySpec => [](BooksInv /\ PoolBacksVaults /\ Solvent)
<1>1. DeliveryInv => Typed
  BY DEF DeliveryInv
<1>2. DeliveryInv /\ BooksInv /\ PoolBacksVaults /\ Solvent /\ Typed'
        /\ [DeliveryNext]_delivery_vars
        => BooksInv' /\ PoolBacksVaults' /\ Solvent'
  BY DeliveryBooks
<1>3. DeliveryInit => BooksInv /\ PoolBacksVaults /\ Solvent
  BY InitBooksInv DEF DeliveryInit
<1> QED
  BY <1>1, <1>2, <1>3, DeliveryInvHolds, PTL DEF DeliverySpec

\* The controller's books and its solvency survive physical delivery, whatever
\* the swap does: circulating, redeemed and burned oTokens add up to what the
\* vaults wrote, the pool holds the deposits of the open vaults and what settled
\* ones left, and covers every claim up to the dust.
THEOREM DeliverySolvencyTheorem ==
  DeliverySpec => [](SupplyAccountedWithBurns /\ PoolBacksVaults /\ SolventUpToDust)
<1>1. BooksInv /\ Solvent => SupplyAccountedWithBurns /\ SolventUpToDust
  BY BatchBooked, SolventImplies DEF BooksInv
<1> QED
  BY <1>1, DeliveryBooksInvariant, PTL

\* Deliveries do not take a maker's escape: what is left of the custody can be
\* redeemed to the last unit, whatever the swap did with the rest.
THEOREM DeliveryEscape ==
  EndowmentFits /\ SinglePool /\ NothingRounded => (DeliverySpec => []EscapeAvailable)
<1> SUFFICES ASSUME EndowmentFits, SinglePool, NothingRounded
             PROVE  DeliverySpec => []EscapeAvailable
  OBVIOUS
<1>1. DeliveryInit => CollateralFits
  BY InitFits DEF DeliveryInit, BatchInit
<1>2. Typed /\ Typed' /\ CollateralFits /\ [DeliveryNext]_delivery_vars => CollateralFits'
  <2> SUFFICES ASSUME Typed, Typed', CollateralFits, [DeliveryNext]_delivery_vars
               PROVE  CollateralFits'
    OBVIOUS
  <2>1. CASE [BatchNext]_all_vars
    BY <2>1, BatchNoMore, NoMoreFits DEF Typed
  <2>2. ASSUME NEW k \in Wallet, NEW v \in VaultKey, NEW p \in PoolAccount,
               NEW n \in 1..MaxU64, PhysicalRedeem(k, v, p, n)
        PROVE  CollateralFits'
    BY <2>2, DeliveryLedgers, NoMoreFits DEF Typed
  <2> QED
    BY <2>1, <2>2, DeliverySteps
<1>3. DeliveryInv => Typed /\ CustodyCovers
  BY DEF DeliveryInv
<1>4. BooksInv => Booked
  BY BatchBooked DEF BooksInv
<1>5. Typed /\ Booked /\ Solvent /\ CustodyCovers /\ CollateralFits => EscapeAvailable
  BY EscapeHolds
<1> QED
  BY <1>1, <1>2, <1>3, <1>4, <1>5, DeliveryInvHolds, DeliveryBooksInvariant, PTL
  DEF DeliverySpec
=============================================================================
