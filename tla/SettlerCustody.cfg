SPECIFICATION DeployedSpec
CONSTANTS
  op = op
  usr = usr
  dealer = dealer
  pda = pda
  usdc = usdc
  put = put
  main = main
  jupiter = jupiter
  router = router
  Radix = 2
  OTokenDecimals = 1
  MaxDecimals = 4
  MaxU64 = 6
  Key = {op, usr, dealer, pda}
  Default = Default
  NoAccount = NoAccount
  Mint = {usdc}
  Series = {put}
  Terms <- EvenSeries
  PoolAccount = {main}
  PoolMint <- OnePool
  FeeCapable = {usdc}
  Transferable = {}
  Endowment <- Purse
  Pausers = {}
  Prices = {1}
  MaxVaultId = 2
  MaxTime = 2
  Settler = pda
  Programs = {pda}
  DirectUsers = {}
  Makers = {}
  Quotes <- TwoMakers
  Routers = {jupiter, router}
  Settings <- Running
  MaxNonce = 0
  MinExecuteAmount = 1
  PriceScale = 2
  BpsDenominator = 2
  MaxFeeBps = 1
  MinEscapeDelay = 1
  RentReserve = 8
  RentWithdrawals = {}
CHECK_DEADLOCK FALSE
INVARIANTS
  CustodyCovers
  SupplyAccountedWithBurns
  ExitBurnsShort
  EscapeAvailable
PROPERTIES
  SettlerKeepsNothing
  MakersPaid
