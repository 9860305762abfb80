SPECIFICATION DeployedSpec
CONSTANTS
  op = op
  usr = usr
  dealer = dealer
  pda = pda
  usdc = usdc
  put = put
  call = call
  sol = sol
  venue = venue
  vaults = vaults
  main = main
  jupiter = jupiter
  router = router
  Radix = 2
  OTokenDecimals = 1
  MaxDecimals = 4
  MaxU64 = 4
  Key = {op, usr, dealer, pda, venue}
  Default = Default
  NoAccount = NoAccount
  Mint = {usdc, sol}
  Series = {put, call}
  Terms <- BothSeries
  PoolAccount = {main, vaults}
  PoolMint <- Pools
  FeeCapable = {usdc}
  Transferable = {}
  Endowment <- Purse
  Pausers = {}
  Prices = {1, 4}
  MaxVaultId = 2
  MaxTime = 1
  Settler = pda
  Programs = {pda, venue}
  Venue = venue
  RouteAccounts = {venue, usr, pda, op, main}
  MintDecimals <- Decimals
  DirectUsers = {}
  Makers = {}
  Quotes <- TwoQuotes
  Routers = {jupiter, router}
  Settings <- Running
  MaxNonce = 0
  MinExecuteAmount = 1
  PriceScale = 2
  BpsDenominator = 2
  MaxFeeBps = 1
  MinEscapeDelay = 1
  RentReserve = 7
  RentWithdrawals = {}
CHECK_DEADLOCK FALSE
INVARIANTS
  DeliveredWithinShort
  CustodyCovers
  BalanceWithinVaults
PROPERTIES
  SettlerKeepsNothing
  DeliveredInFull
