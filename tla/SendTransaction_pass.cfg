SPECIFICATION LiveSpec
CONSTANTS
  Calls = {a, b, s}
  Solana = {s}
  Remote = {a, s}
  Waits = {a, s}
  Confirmations = 2
  Faults = {"stale", "lost"}
INVARIANTS TypeOK OneEffect ReturnedIsMined
PROPERTIES CallsEnd
CHECK_DEADLOCK FALSE
