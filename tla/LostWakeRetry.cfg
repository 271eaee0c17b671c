CONSTANTS
  r = r  a = a  b = b  c = c
  w1 = w1  w2 = w2  w3 = w3  m1 = m1  m2 = m2
  Ids <- Trio
  Root <- TrioRoot
  Children <- TrioChildren
  MayAwait <- TrioAwait
  Timers = {}
  External = {r}
  Workers = {w1, w2}
  Sweepers = {}
  MaxFailures = 2
  Outcomes <- AllOutcomes
  Expiring = {}
  Collectable = {}
SPECIFICATION Spec
INVARIANTS NoLostWake
CHECK_DEADLOCK FALSE
