SPECIFICATION ListingFairSpec
CONSTANTS
  a = a
  usdc = usdc
  dai = dai
  put = put
  dud = dud
  main = main
  pda = pda
  wallet = wallet
  fadmin = fadmin
  wadmin = wadmin
  bot = bot
  bot2 = bot2
  fkey = fkey
  Radix = 2
  OTokenDecimals = 1
  MaxDecimals = 5
  MaxU64 = 2
  Key = {a}
  Default = Default
  NoAccount = NoAccount
  Mint = {usdc, dai}
  Series = {put, dud}
  Terms <- TwoSeries
  PoolAccount = {main}
  PoolMint <- OnePool
  FeeCapable = {}
  Transferable = {}
  Endowment <- Purse
  Pausers = {}
  Prices = {1}
  MaxVaultId = 1
  MaxTime = 2
  ControllerPDA = pda
  Authorities = {pda, wallet}
  FactoryAdmins = {fadmin}
  WhitelistAdmins = {wadmin}
  Operators = {bot, bot2}
  FactoryKeys = {fkey}
  MaxIssued = 1
  MinLifetime = 1
CHECK_DEADLOCK FALSE
INVARIANTS
  Vouched
PROPERTIES
  ListingCompletes
