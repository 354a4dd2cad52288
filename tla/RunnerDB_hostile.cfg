SPECIFICATION Spec
CONSTANTS
  Threads = {t1, t2, t3}
  NoThread = NoThread
  Jobs = {j1, j2}
  MaxRuns = 2
  CanCrash = TRUE
  StatementsFail = TRUE
SYMMETRY Symmetry
INVARIANTS
  ReservationIsAtomic
  NoTransactionIsLost
