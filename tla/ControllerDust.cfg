SPECIFICATION Spec
CONSTANTS
  a = a
  b = b
  usdc = usdc
  sol = sol
  put = put
  call = call
  main = main
  side = side
  Radix = 2
  OTokenDecimals = 1
  MaxDecimals = 4
  MaxU64 = 4
  Key = {a, b}
  Default = Default
  NoAccount = NoAccount
  Mint = {usdc}
  Series = {put}
  Terms <- OneSeries
  PoolAccount = {main}
  PoolMint <- OnePool
  FeeCapable = {}
  Transferable = {}
  Endowment <- Purse3and1
  Pausers = {b}
  Prices = {1, 3}
  MaxVaultId = 1
  MaxTime = 1
CHECK_DEADLOCK FALSE
INVARIANTS
  FullyCollateralized
