SPECIFICATION Spec
CONSTANTS
  a = a
  b = b
  sol = sol
  Radix = 2
  PriceDecimals = 1
  Bps = 10
  MaxU64 = 60
  Key = {a, b}
  Default = Default
  NoAccount = NoAccount
  Underlying = {sol}
  Market <- SolMarket
  Expiries = {1}
  SubmittedPrices = {2, 4, 5, 6}
  Thresholds = {0, 2}
  Stalenesses = {0, 1}
  Confidences = {0, 3}
  MaxTime = 2
SYMMETRY KeySymmetry
CHECK_DEADLOCK FALSE
INVARIANTS
  TypeOK
  FinalizedNearMarket
PROPERTIES
  ImplementsBoard
