SPECIFICATION Spec
CONSTANTS
  Procs = {p1}
  Symbols = {eth}
  Targets <- SignalTargets
  MinSize = 2
  BarTicks = 2
  MaxTime = 4
  Interval = 2
  Prompt = TRUE
  Faults = {"crash", "liquidate"}
INVARIANTS TypeOK FillsAreExplained
PROPERTIES TowardTarget OpensOnlyItsSide ReconcileThrottled
