SPECIFICATION Spec
CONSTANTS
  Procs = {p1}
  Symbols = {eth}
  NoSymbol = NoSymbol
  BrapTokens = {eth}
  PendlePts = {}
  HlSpots = {}
  RateMarkets = {eth}
  Full = 2
  FillerMost = 2
  Unrelated = 1
  RateLock = TRUE
  Faults = {}
INVARIANTS LotIsolation
