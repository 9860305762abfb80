----------------------------- MODULE MarginPool -----------------------------
(***************************************************************************)
(* The margin pool program (programs/margin_pool/src/lib.rs): a pool of    *)
(* direct deposits for each collateral mint, apart from the controller's   *)
(* vaults.  It keeps its books twice, as the counter total_deposited and   *)
(* as the balance of a token account, and never compares the two.          *)
(*                                                                         *)
(* One action is one successful instruction, as in Controller.             *)
(***************************************************************************)
EXTENDS TokenLedger

CONSTANTS
  Key,          \* wallets
  Default,      \* Pubkey::default(), no wallet
  NoAccount,    \* an account address holding no account
  Mint,         \* collateral mints
  PoolAccount,  \* token accounts whose owner is a lending_vault_auth PDA
  PoolMint,     \* [PoolAccount -> Mint]
  FeeCapable,   \* mints whose authority may turn a transfer fee on
  Endowment,    \* [Mint -> [Key -> Nat]], collateral in the wallets at first
  Appointees,   \* keys the admin appoints to the offices of the config
  MaxU64        \* the largest value a u64 holds

Account == Key \cup PoolAccount

Config ==
  [admin : Key, controller : Key, operator : Key \cup {Default},
   yield_recipient : Key \cup {Default}]

PoolVault == [token_account : PoolAccount, total_deposited : 0..MaxU64]

ASSUME MarginPoolAssumption ==
  /\ Key \cap PoolAccount = {}
  /\ Default \notin Key
  /\ MaxU64 \in Nat
  /\ PoolMint \in [PoolAccount -> Mint]
  /\ FeeCapable \subseteq Mint
  /\ Endowment \in [Mint -> [Key -> Nat]]
  /\ Appointees \subseteq Key \cup {Default}

ASSUME PoolVaultAssumption == NoAccount \notin Config \cup PoolVault

VARIABLES
  config,       \* MarginPoolConfig, or NoAccount before initialize
  pool_vault,   \* [Mint -> PoolVault, or NoAccount]
  balance,      \* [Mint -> its ledger], the SPL token accounts
  fee_bearing,  \* mints that charge a transfer fee
  \* history, read by no action
  fees_lost     \* [Mint -> fees that deposits were charged]

vars == <<config, pool_vault, balance, fee_bearing, fees_lost>>

Init ==
  /\ config = NoAccount
  /\ pool_vault = [m \in Mint |-> NoAccount]
  /\ balance = [m \in Mint |->
                 [a \in Account |-> IF a \in Key THEN Endowment[m][a] ELSE 0]]
  /\ fee_bearing = {}
  /\ fees_lost = [m \in Mint |-> 0]

-----------------------------------------------------------------------------
(* Configuration.                                                          *)

Initialized == config # NoAccount

IsAdmin(signer) == Initialized /\ signer = config.admin

\* Only the controller must be a real key.
Initialize(admin, controller, operator, yield_recipient) ==
  /\ ~Initialized
  /\ controller # Default
  /\ config' = [admin |-> admin, controller |-> controller,
                operator |-> operator, yield_recipient |-> yield_recipient]
  /\ UNCHANGED <<pool_vault, balance, fee_bearing, fees_lost>>

\* Mutant of SetController: the zero key is accepted.
SetControllerUnchecked(admin, new_controller) ==
  /\ IsAdmin(admin)
  /\ config' = [config EXCEPT !.controller = new_controller]
  /\ UNCHANGED <<pool_vault, balance, fee_bearing, fees_lost>>

SetController(admin, new_controller) ==
  /\ IsAdmin(admin)
  /\ new_controller # Default
  /\ config' = [config EXCEPT !.controller = new_controller]
  /\ UNCHANGED <<pool_vault, balance, fee_bearing, fees_lost>>

SetOperator(admin, operator) ==
  /\ IsAdmin(admin)
  /\ operator # Default
  /\ config' = [config EXCEPT !.operator = operator]
  /\ UNCHANGED <<pool_vault, balance, fee_bearing, fees_lost>>

SetYieldRecipient(admin, recipient) ==
  /\ IsAdmin(admin)
  /\ recipient # Default
  /\ config' = [config EXCEPT !.yield_recipient = recipient]
  /\ UNCHANGED <<pool_vault, balance, fee_bearing, fees_lost>>

\* The admin picks the token account, once for each mint.  It may hold
\* tokens already; the counter starts at zero all the same.
CreatePoolVault(admin, m, account) ==
  /\ IsAdmin(admin)
  /\ pool_vault[m] = NoAccount
  /\ PoolMint[account] = m
  /\ pool_vault' = [pool_vault EXCEPT ![m] =
                     [token_account |-> account, total_deposited |-> 0]]
  /\ UNCHANGED <<config, balance, fee_bearing, fees_lost>>

-----------------------------------------------------------------------------
(* Deposits and withdrawals.                                               *)

Fee(m) == IF m \in fee_bearing THEN 1 ELSE 0

\* The token program moves nothing, and charges nothing, when source and
\* destination are the same account.
Moved(m, from, to, amount) ==
  IF from = to THEN balance[m]
  ELSE TransferredLess(balance[m], from, to, amount, Fee(m))

Deposited(m) == pool_vault[m].total_deposited

PoolBalance(m) == balance[m][pool_vault[m].token_account]

\* The counter grows by the amount that was sent, whatever arrived.
Credited(m, amount) == Deposited(m) + amount

TransferToPool(user, m, amount) ==
  /\ Initialized
  /\ amount > 0
  /\ pool_vault[m] # NoAccount
  /\ CanTransfer(balance[m], user, amount)
  /\ Deposited(m) + amount <= MaxU64
  /\ balance' = [balance EXCEPT ![m] =
                  Moved(m, user, pool_vault[m].token_account, amount)]
  /\ pool_vault' = [pool_vault EXCEPT ![m].total_deposited = Credited(m, amount)]
  /\ fees_lost' = [fees_lost EXCEPT ![m] = @ + Fee(m)]
  /\ UNCHANGED <<config, fee_bearing>>

\* Mutant of Withdrawn: the counter is not reduced.
NotWithdrawn(m, amount) == Deposited(m)

Withdrawn(m, amount) == Deposited(m) - amount

\* Mutant of TransferToUser: the account limits the withdrawal, and the counter
\* saturates at zero.
TransferToUserSaturating(admin, m, to, amount) ==
  /\ IsAdmin(admin)
  /\ amount > 0
  /\ pool_vault[m] # NoAccount
  /\ CanTransfer(balance[m], pool_vault[m].token_account, amount)
  /\ balance' = [balance EXCEPT ![m] =
                  Moved(m, pool_vault[m].token_account, to, amount)]
  /\ pool_vault' = [pool_vault EXCEPT ![m].total_deposited =
                     IF amount <= Deposited(m) THEN Withdrawn(m, amount) ELSE 0]
  /\ UNCHANGED <<config, fee_bearing, fees_lost>>

\* The admin pays any token account of the mint, the pool's own included.
TransferToUser(admin, m, to, amount) ==
  /\ IsAdmin(admin)
  /\ amount > 0
  /\ pool_vault[m] # NoAccount
  /\ Deposited(m) >= amount
  /\ CanTransfer(balance[m], pool_vault[m].token_account, amount)
  /\ balance' = [balance EXCEPT ![m] =
                  Moved(m, pool_vault[m].token_account, to, amount)]
  /\ pool_vault' = [pool_vault EXCEPT ![m].total_deposited = Withdrawn(m, amount)]
  /\ UNCHANGED <<config, fee_bearing, fees_lost>>

-----------------------------------------------------------------------------
(* The token program.                                                      *)

TransferTokens(m, from, to, amount) ==
  /\ from # to
  /\ to \in PoolAccount => PoolMint[to] = m
  /\ CanTransfer(balance[m], from, amount)
  /\ balance' = [balance EXCEPT ![m] = Moved(m, from, to, amount)]
  /\ UNCHANGED <<config, pool_vault, fee_bearing, fees_lost>>

TurnFeeOn(m) ==
  /\ m \notin fee_bearing
  /\ fee_bearing' = fee_bearing \cup {m}
  /\ UNCHANGED <<config, pool_vault, balance, fees_lost>>

Next ==
  \/ \E k \in Key, c, o, y \in Appointees : Initialize(k, c, o, y)
  \/ \E k \in Key, a \in Appointees :
       SetController(k, a) \/ SetOperator(k, a) \/ SetYieldRecipient(k, a)
  \/ \E k \in Key, p \in PoolAccount : CreatePoolVault(k, PoolMint[p], p)
  \/ \E k \in Key, m \in Mint, n \in 1..MaxU64 : TransferToPool(k, m, n)
  \/ \E k \in Key, m \in Mint, to \in Account, n \in 1..MaxU64 :
       /\ to \in PoolAccount => PoolMint[to] = m
       /\ TransferToUser(k, m, to, n)
  \/ \E m \in Mint, from \in Key, to \in Account, n \in 1..MaxU64 :
       TransferTokens(m, from, to, n)
  \/ \E m \in FeeCapable : TurnFeeOn(m)

Spec == Init /\ [][Next]_vars

-----------------------------------------------------------------------------
(* Properties.                                                             *)

\* Every account of the program keeps its type and width: the controller is
\* never the zero key, the counter never wraps, and no balance goes below
\* zero.
TypeOK ==
  /\ config \in Config \cup {NoAccount}
  /\ pool_vault \in [Mint -> PoolVault \cup {NoAccount}]
  /\ balance \in [Mint -> [Account -> Nat]]
  /\ fee_bearing \subseteq Mint
  /\ fees_lost \in [Mint -> Nat]

\* The token account holds what the counter says, less the fees deposits were
\* charged: transfer_to_user never fails for lack of funds while the mint
\* bears no fee, and when it does bear one the last withdrawals can miss at
\* most those fees.  It relates the two books over any history of deposits,
\* withdrawals, payments to the pool's own accounts and donations.
CounterBacked ==
  \A m \in Mint : pool_vault[m] # NoAccount =>
    PoolBalance(m) + fees_lost[m] >= Deposited(m)

\* What was given to the pool's account outside transfer_to_pool cannot be
\* taken out: no step brings the account closer to the counter, except for
\* the fee of a deposit.
SurplusStays ==
  [][\A m \in Mint : pool_vault[m] # NoAccount =>
       PoolBalance(m)' - Deposited(m)' + Fee(m) >= PoolBalance(m) - Deposited(m)]_vars
=============================================================================
