SPECIFICATION Spec
CONSTANTS
  Launchers = {l1}
  Daemons = {d1, d2, d3, d4}
  NoDaemon = NoDaemon
  CanStop = TRUE
  CanCrash = TRUE
  CanTimeout = FALSE
  PromptExit = TRUE
SYMMETRY Symmetry
INVARIANTS
  OneDaemonUp
  ServingIsReachable
  AbortedRunWasLost
