-------------------------- MODULE PhysicalDelivery ---------------------------
(***************************************************************************)
(* Physical delivery (physical_redeem of programs/batch_settler/src/lib.rs) *)
(* on top of the settler.  The operator redeems part of a maker's custody   *)
(* of an in-the-money series and has a swap program turn the proceeds into  *)
(* the contra asset, which the vault's beneficiary is owed at the strike.   *)
(* The maker gets the surplus: of collateral for a put, of contra for a     *)
(* call.                                                                    *)
(*                                                                          *)
(* The swap program is configured by the owner and its route is supplied    *)
(* by the operator.  It is modelled as the program the repository tests     *)
(* with (programs/mock_jupiter/src/lib.rs), which has no price and does not *)
(* look at the accounts it is given: any amount goes to any account, for    *)
(* any amount to any two accounts, so only the settler's checks bound a     *)
(* route.                                                                   *)
(***************************************************************************)
EXTENDS BatchSettler

CONSTANTS
  Venue,         \* the mock_jupiter_auth PDA, which owns what the swap pays out
  RouteAccounts, \* the accounts that routes name; any account in the code
  MintDecimals   \* [Mint -> decimals]

ContraMint(s) ==
  IF Terms[s].is_put THEN Terms[s].underlying ELSE Terms[s].strike_asset

ASSUME DeliveryAssumption ==
  /\ Venue \in Programs \ {Settler}
  /\ MintDecimals \in [Mint -> Nat]
  /\ RouteAccounts \subseteq Account
  /\ \A s \in Series :
       ContraMint(s) \in Mint /\ ContraMint(s) # Terms[s].collateral_mint

VARIABLES
  \* history, read by no action
  delivered     \* [VaultKey -> oTokens of the vault's series it was paid for]

delivery_vars == <<all_vars, delivered>>

DeliveryInit ==
  /\ BatchInit
  /\ delivered = [v \in VaultKey |-> 0]

-----------------------------------------------------------------------------
(* What the beneficiary is owed.                                           *)

\* The decimals compute_contra_amount accepts: 8 to 18 for a put, 6 to 16
\* for a call.
ContraSupported(s) ==
  LET d == MintDecimals[ContraMint(s)]
  IN IF Terms[s].is_put
     THEN d >= OTokenDecimals /\ d <= 2 * OTokenDecimals + 2
     ELSE d >= OTokenDecimals - 2 /\ d <= 2 * OTokenDecimals

\* compute_contra_amount: oTokens of a put are units of the underlying, those
\* of a call are paid at the strike, rounded down.
ContraAmount(s, amount) ==
  LET d == MintDecimals[ContraMint(s)]
  IN IF Terms[s].is_put
     THEN amount * Radix ^ (d - OTokenDecimals)
     ELSE (amount * Terms[s].strike_price) \div Radix ^ (2 * OTokenDecimals - d)

ContraComputable(s, amount) ==
  ContraSupported(s) /\ ContraAmount(s, amount) \in 1..MaxU64

\* validate_itm
Exercisable(s) ==
  /\ now >= Terms[s].expiry
  /\ Priced(s)
  /\ InTheMoney(Terms[s], expiry_price[s])

-----------------------------------------------------------------------------
(* The swap.  Its one source is the settler's collateral, whose authority  *)
(* signs the CPI: the settler's checks refuse a route that spends none, or *)
(* brings the contra to neither the user nor the settler.                  *)

\* The token accounts of mint t that a route may name.
RouteAccountsOf(t) == {a \in RouteAccounts : a \in PoolAccount => PoolMint[a] = t}

\* `input` of mint c from the settler, whoever the reserve belongs to, for
\* `output` of mint x.
Swap(ledgers, c, input, in_reserve, x, to, output) ==
  Move(Move(ledgers, c, Settler, in_reserve, input), x, Venue, to, output)

\* swap_split pays a second account as well.
SwapSplit(ledgers, c, input, in_reserve, x, to, output, also_to, more) ==
  Move(Swap(ledgers, c, input, in_reserve, x, to, output), x, Venue, also_to, more)

CanSwapSplit(ledgers, c, input, x, output, more) ==
  /\ CanMove(ledgers, c, Settler, input)
  /\ ledgers[x][Venue] >= output + more

-----------------------------------------------------------------------------
(* physical_redeem                                                         *)

\* Mutants of RemainingAfter and CustodyAfter: the amount stays on the
\* vault's account; it stays on the maker's.
RemainingKept(mm, amount) == mm

RemainingAfter(mm, amount) == [mm EXCEPT !.remaining_amount = @ - amount]

CustodyKept(owned, amount) == owned

CustodyAfter(owned, amount) == owned - amount

\* Accounts are compared with their snapshots, the settler's collateral with
\* the one after the redemption.
Change(after, before, t, account) == after[t][account] - before[t][account]

\* Mutant of ReachedUser: what the user had before counts.
ReachedUserInAll(after, x, user) == after[x][user]

ReachedUser(after, x, user) == Change(after, balance, x, user)

\* Mutant of Accepted: a put's route may leave some of its output with the
\* settler.
AcceptedUndirected(s, owed, received, spent, to_user, to_settler) ==
  IF Terms[s].is_put
  THEN to_user >= owed /\ spent > 0 /\ spent <= received
  ELSE spent = received /\ to_settler >= owed /\ to_user = 0

\* The checks on what the route did: a put's output goes straight to the
\* user, for at most what was redeemed; a call's goes to the settler, for
\* all of it.
Accepted(s, owed, received, spent, to_user, to_settler) ==
  IF Terms[s].is_put
  THEN to_user >= owed /\ to_settler = 0 /\ spent > 0 /\ spent <= received
  ELSE spent = received /\ to_settler >= owed /\ to_user = 0

\* What the settler still passes on.
PaidOn(ledgers, s, user, maker, owed, received, spent, to_settler) ==
  IF Terms[s].is_put
  THEN Move(ledgers, Terms[s].collateral_mint, Settler, maker, received - spent)
  ELSE Move(Move(ledgers, ContraMint(s), Settler, user, owed),
            ContraMint(s), Settler, maker, to_settler - owed)

\* The vault may be settled already, or not yet.
CanDeliver(v, pool, amount) ==
  LET m == vault_mm[v].maker
      s == vault_mm[v].otoken_mint
  IN /\ Exists(v)
     /\ vault_mm[v] # NoAccount
     /\ vault[v].otoken_mint = s
     /\ Exercisable(s)
     /\ ContraComputable(s, amount)
     /\ mm_balance[m][s] # NoAccount
     /\ mm_balance[m][s] >= amount
     /\ vault_mm[v].remaining_amount >= amount
     /\ CanRedeem(Settler, s, pool, amount)

\* The checks on one swap of the route's choice, and what follows them.
\* max_collateral_spent only narrows the operator's own choice.
Routed(ledgers, v, amount, received, input, in_reserve, to, output, also_to, more) ==
  LET m    == vault_mm[v].maker
      s    == vault_mm[v].otoken_mint
      user == vault[v].beneficiary
      c    == Terms[s].collateral_mint
      x    == ContraMint(s)
      owed == ContraAmount(s, amount)
      swapped    == SwapSplit(ledgers, c, input, in_reserve, x, to, output, also_to, more)
      spent      == -Change(swapped, ledgers, c, Settler)
      to_user    == ReachedUser(swapped, x, user)
      to_settler == Change(swapped, balance, x, Settler)
  IN /\ Accepted(s, owed, received, spent, to_user, to_settler)
     /\ balance' = PaidOn(swapped, s, user, m, owed, received, spent, to_settler)

\* Some route passes.  A payment to the account it comes from is none.
SomeRoute(ledgers, v, amount, received) ==
  LET c == Terms[vault_mm[v].otoken_mint].collateral_mint
      x == ContraMint(vault_mm[v].otoken_mint)
  IN \E input, output, more \in 0..MaxU64 :
       /\ CanSwapSplit(ledgers, c, input, x, output, more)
       /\ \E in_reserve \in RouteAccountsOf(c) \ {Settler},
             to, also_to \in RouteAccountsOf(x) \ {Venue} :
            Routed(ledgers, v, amount, received,
                   input, in_reserve, to, output, also_to, more)

\* An unset swap program is the system program, which moves no tokens.
PhysicalRedeem(operator, v, pool, amount) ==
  LET m        == vault_mm[v].maker
      s        == vault_mm[v].otoken_mint
      c        == Terms[s].collateral_mint
      payout   == PayoutOf(s, amount)
      burnt    == [balance EXCEPT ![s] = Burned(@, Settler, amount)]
      funded   == Move(burnt, c, pool, Settler, payout)
      received == Change(funded, balance, c, Settler)
  IN /\ IsOperator(operator)
     /\ ~settler_config.paused
     /\ settler_config.jupiter_program # Default
     /\ CanDeliver(v, pool, amount)
     /\ received > 0
     /\ SomeRoute(funded, v, amount, received)
     /\ vault_mm' = [vault_mm EXCEPT ![v] = RemainingAfter(@, amount)]
     /\ mm_balance' = [mm_balance EXCEPT ![m][s] = CustodyAfter(@, amount)]
     /\ redeemed' = [redeemed EXCEPT ![s] = @ + amount]
     /\ paid' = [paid EXCEPT ![s] = @ + payout]
     /\ delivered' = [delivered EXCEPT ![v] = @ + amount]
     /\ UNCHANGED <<accounts, outside, closed_by, settler_config, trading, burned>>

DeliveryNext ==
  \/ \E k \in {w \in Wallet : IsOperator(w)},
        v \in {w \in VaultKey : Exists(w)}, p \in PoolAccount, n \in 1..MaxU64 :
       PhysicalRedeem(k, v, p, n)
  \/ BatchNext /\ UNCHANGED delivered

DeliverySpec == DeliveryInit /\ [][DeliveryNext]_delivery_vars

-----------------------------------------------------------------------------
(* Properties.                                                             *)

\* A vault's beneficiary is paid for at most what the vault wrote, in any
\* number of parts and whatever else the maker's custody of the series was
\* redeemed for, and nothing is delivered for a vault once it took the exit.
DeliveredWithinShort ==
  \A v \in VaultKey : vault_mm[v] # NoAccount =>
    delivered[v] + vault_mm[v].remaining_amount <= vault[v].short_amount

\* Wherever a route sends what it spends and pays out, delivery for a vault
\* costs the pools at most the payout of the delivered part, and the maker who
\* bought from that vault exactly that much custody; the vault's beneficiary
\* gains the contra it is owed, less the token's own fee where it is the
\* settler who passes it on; and nobody but the swap's venue has less of any
\* mint than before.
DeliveredInFull ==
  [][\A v \in VaultKey : delivered'[v] > delivered[v] =>
       LET m == vault_mm[v].maker
           s == vault_mm[v].otoken_mint
           u == vault[v].beneficiary
           n == delivered'[v] - delivered[v]
           x == ContraMint(s)
           c == Terms[s].collateral_mint
           lost == IF Terms[s].is_put THEN 0 ELSE Fee(x)
       IN /\ Custodied(m, s)' = Custodied(m, s) - n
          /\ PoolTotal(c) - PoolTotal(c)' <= PayoutOf(s, n)
          /\ \A t \in Mint \ {c} : PoolTotal(t)' >= PoolTotal(t)
          /\ balance'[x][u] - balance[x][u] >= ContraAmount(s, n) - lost
          /\ \A t \in Mint, k \in Key \ {Venue} : balance'[t][k] >= balance[t][k]]_delivery_vars
=============================================================================
