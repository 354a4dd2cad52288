SPECIFICATION Spec
CONSTANTS
  Tick = Tick
  NoThread = NoThread
  MaxJobs = 1
  JobName <- OneName
  MaxRuns = 2
  Ctl = {c1, c2}
  Locks = {1, 2, 3}
  MaxWorkers = 1
  MaxFaults = 1
  MaxFailures = 2
  Unlimited = {}
  BadPayload = {}
  Schedules = {"fires"}
  Calls = {"add", "run_once", "stop", "delete", "shutdown"}
  CanCrash = TRUE
  AtomicLockTable = TRUE
INVARIANTS
  SingleFlight
  NoLeakedClaim
  RunningRowIsOwned
  RegisteredRowIsRunning
PROPERTIES
  ImplementsJobRuns
