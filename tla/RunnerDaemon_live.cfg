SPECIFICATION FairSpec
CONSTANTS
  Tick = Tick
  NoThread = NoThread
  MaxJobs = 1
  JobName <- OneName
  MaxRuns = 2
  Ctl = {c1}
  Locks = {1, 2, 3}
  MaxWorkers = 1
  MaxFaults = 1
  MaxFailures = 2
  Unlimited = {}
  BadPayload = {}
  Schedules = {"fires"}
  Calls = {"add", "run_once", "delete", "pause", "resume", "shutdown"}
  CanCrash = TRUE
  AtomicLockTable = TRUE
PROPERTIES
  RunsEnd
  DueJobsStart
