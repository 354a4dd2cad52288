SPECIFICATION Spec
CONSTANTS
  Procs = {p1}
  Symbols = {eth, btc}
  NoSymbol = NoSymbol
  BrapTokens = {eth}
  PendlePts = {}
  HlSpots = {btc}
  RateMarkets = {eth}
  Full = 2
  FillerMost = 2
  Unrelated = 0
  RateLock = TRUE
  Faults = {"crash"}
INVARIANTS TypeOK ExposureIsRecorded OpenPairIsHedged ReferenceMatchesBook NeverOpenedTwice
PROPERTIES HedgeOutlivesSpot RecoveryOnlyShrinks HaltedOpensNothing
