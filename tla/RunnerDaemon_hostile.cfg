SPECIFICATION Spec
CONSTANTS
  Tick = Tick
  NoThread = NoThread
  MaxJobs = 1
  JobName <- DistinctNames
  MaxRuns = 2
  Ctl = {c1}
  Locks = {1,2,3,4}
  MaxWorkers = 1
  MaxFaults = 1
  MaxFailures = 2
  Unlimited = {}
  BadPayload = {}
  Schedules = {"never_fires"}
  Calls = {"add", "run_once", "delete", "update"}
  CanCrash = TRUE
  AtomicLockTable = FALSE
INVARIANTS
  TypeOK
  LiveWorkerNotRecordedAsEnded
PROPERTIES
  OutcomeIsFinal
