CONSTANTS
  d1 = d1  d2 = d2  j1 = j1  j2 = j2  NoJob = NoJob
  Target = 1
  MaxGen = 3
  Fds = {d1, d2}
  Jobs = {j1, j2}
  QueueLimit = 2
  MaxPreReady = 2
  MaxFaults = 2
  Closes = TRUE
  Recoveries = 1
SPECIFICATION Spec
INVARIANTS TypeOK CoreAsserts NothingToDispatch TablesAgree JobsAccounted SeenIsCurrent
PROPERTIES OnlyFailedSlotsLost
SYMMETRY Symmetry
CHECK_DEADLOCK FALSE
