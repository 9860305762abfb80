SPECIFICATION DeployedSpec
CONSTANTS
  op = op
  usr = usr
  dealer = dealer
  pda = pda
  usdc = usdc
  put = put
  main = main
  jupiter = jupiter
  router = router
  Radix = 2
  OTokenDecimals = 1
  MaxDecimals = 4
  MaxU64 = 4
  Key = {op, usr, dealer, pda}
  Default = Default
  NoAccount = NoAccount
  Mint = {usdc}
  Series = {put}
  Terms <- RoundedSeries
  PoolAccount = {main}
  PoolMint <- OnePool
  FeeCapable = {}
  Transferable = {}
  Endowment <- Purse
  Pausers = {}
  Prices = {1, 3}
  MaxVaultId = 1
  MaxTime = 1
  Settler = pda
  Programs = {pda}
  DirectUsers = {usr}
  Makers = {}
  Quotes <- OneQuote
  Routers = {jupiter, router}
  Settings <- Running
  MaxNonce = 0
  MinExecuteAmount = 1
  PriceScale = 2
  BpsDenominator = 2
  MaxFeeBps = 1
  MinEscapeDelay = 1
  RentReserve = 8
  RentWithdrawals = {}
CHECK_DEADLOCK FALSE
INVARIANTS
  PoolBacksVaults
  SolventUpToDust
