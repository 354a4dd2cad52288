SPECIFICATION Spec
CONSTANTS
  Tick = Tick
  NoThread = NoThread
  MaxJobs = 3
  JobName <- DistinctNames
  MaxRuns = 2
  Ctl = {c1}
  Locks = {1,2,3,4}
  MaxWorkers = 1
  MaxFaults = 0
  MaxFailures = 1
  Unlimited = {1, 2, 3}
  BadPayload = {3}
  Schedules = {"fires"}
  Calls = {"add", "run_once"}
  CanCrash = FALSE
  AtomicLockTable = TRUE
CONSTRAINTS
  NoFailedJob
INVARIANTS
  CapacityBound
