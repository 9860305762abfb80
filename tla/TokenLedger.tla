---------------------------- MODULE TokenLedger ----------------------------
(***************************************************************************)
(* What the programs rely on the SPL Token programs for.  A ledger is the  *)
(* balances of one mint, a function from token accounts to naturals.       *)
(* External: modelled from the calls transfer_checked, mint_to and         *)
(* burn_checked that the programs make.                                    *)
(***************************************************************************)
EXTENDS Integers

\* transfer_checked fails on insufficient funds.  A Token-2022 mint with a
\* transfer fee credits the destination with less than is debited.
CanTransfer(ledger, from, amount) == ledger[from] >= amount

TransferredLess(ledger, from, to, amount, fee) ==
  [ledger EXCEPT ![from] = @ - amount, ![to] = @ + (amount - fee)]

Minted(ledger, to, amount) == [ledger EXCEPT ![to] = @ + amount]

CanBurn(ledger, from, amount) == ledger[from] >= amount

Burned(ledger, from, amount) == [ledger EXCEPT ![from] = @ - amount]
=============================================================================
