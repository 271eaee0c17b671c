CONSTANTS
  d1 = d1  d2 = d2  d3 = d3  j1 = j1  NoJob = NoJob
  Target = 1
  MaxGen = 3
  Fds = {d1, d2}
  Jobs = {j1}
  QueueLimit = 2
  MaxPreReady = 2
  MaxFaults = 1
  Closes = TRUE
  Recoveries = 1
SPECIFICATION EitherSpec
PROPERTIES CloseReturns NothingLeft CapacityRestored JobsSettle
CHECK_DEADLOCK FALSE
