CONSTANTS
  d1 = d1  d2 = d2  j1 = j1  j2 = j2  NoJob = NoJob
  Target = 1
  MaxGen = 4
  Fds = {d1, d2}
  Jobs = {j1}
  QueueLimit = 2
  MaxPreReady = 2
  MaxFaults = 3
  Closes = FALSE
  Recoveries = 1
SPECIFICATION Spec
INVARIANTS NoImpossibleSlots
CHECK_DEADLOCK FALSE
