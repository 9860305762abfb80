SPECIFICATION Spec
CONSTANTS
  a = a
  b = b
  usdc = usdc
  sol = sol
  put = put
  call = call
  main = main
  side = side
  Radix = 2
  OTokenDecimals = 1
  MaxDecimals = 4
  MaxU64 = 3
  Key = {a}
  Default = Default
  NoAccount = NoAccount
  Mint = {usdc}
  Series = {put, call}
  Terms <- TwoSeries
  PoolAccount = {main, side}
  PoolMint <- TwoPools
  FeeCapable = {usdc}
  Transferable = {}
  Endowment <- Purse2
  Pausers = {a}
  Prices = {1, 3}
  MaxVaultId = 2
  MaxTime = 1
CHECK_DEADLOCK FALSE
INVARIANTS
  PricesAgree
  PoolBacksVaults
  SolventUpToDust
