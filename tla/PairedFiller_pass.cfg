SPECIFICATION Spec
CONSTANTS
  Total = 6
  MaxChunk = 3
  MinUnits = 2
  MaxLoops = 8
  Funds = 9
  CanRaise = TRUE
INVARIANTS TypeOK TotalsAreTraded DeltaIsImbalance CompletedIsFilled NakedPerpIsAChunk UnpairedIsAChunk
CHECK_DEADLOCK FALSE
