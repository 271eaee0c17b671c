CONSTANTS
  r = r  a = a  b = b  c = c
  w1 = w1  w2 = w2  w3 = w3  m1 = m1  m2 = m2
  Ids <- Trio
  Root <- TrioRoot
  Children <- TrioChildren
  MayAwait <- TrioAwait
  Timers = {b}
  External = {r}
  Workers = {w1, w2}
  Sweepers = {m1, m2}
  MaxFailures = 2
  Outcomes <- AllOutcomes
  Expiring = {a, b}
  Collectable = {r}
SPECIFICATION Spec
INVARIANTS TypeOK NeverResumedEarly WaitsCovered ClaimKeepsTask CallsHaveTasks
PROPERTIES SettledIsFinal PendingNeverDeleted ImplementsDurablePromises
SYMMETRY SessionSymmetry
CHECK_DEADLOCK FALSE
