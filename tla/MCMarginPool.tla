---------------------------- MODULE MCMarginPool ----------------------------
(* A small instance of the margin pool for TLC. *)
EXTENDS MarginPool, TLC

CONSTANTS a, b, usdc, sol, main, side, other

ThreeAccounts == main :> usdc @@ side :> usdc @@ other :> sol
TwoPurses     == usdc :> (a :> 2 @@ b :> 1) @@ sol :> (a :> 1 @@ b :> 0)
=============================================================================
