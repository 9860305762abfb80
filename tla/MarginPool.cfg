SPECIFICATION Spec
CONSTANTS
  a = a
  b = b
  usdc = usdc
  sol = sol
  main = main
  side = side
  other = other
  Key = {a, b}
  Default = Default
  NoAccount = NoAccount
  Mint = {usdc, sol}
  PoolAccount = {main, side, other}
  PoolMint <- ThreeAccounts
  FeeCapable = {usdc}
  Endowment <- TwoPurses
  Appointees = {a, Default}
  MaxU64 = 3
CHECK_DEADLOCK FALSE
INVARIANTS
  TypeOK
  CounterBacked
PROPERTIES
  SurplusStays
