SPECIFICATION FairSpec
CONSTANTS
  Launchers = {l1, l2}
  Daemons = {d1, d2, d3}
  NoDaemon = NoDaemon
  CanStop = FALSE
  CanCrash = FALSE
  CanTimeout = FALSE
  PromptExit = TRUE
CHECK_DEADLOCK FALSE
PROPERTIES
  ContendedStartsSucceed
