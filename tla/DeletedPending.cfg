CONSTANTS
  r = r  a = a  b = b  c = c
  w1 = w1  w2 = w2  w3 = w3  m1 = m1  m2 = m2
  Ids <- Trio
  Root <- TrioRoot
  Children <- TrioChildren
  MayAwait <- TrioAwait
  Timers = {b}
  External = {r, a}
  Workers = {w1}
  Sweepers = {m1}
  MaxFailures = 2
  Outcomes <- NoRetry
  Expiring = {r, a, b}
  Collectable = {r}
SPECIFICATION Spec
PROPERTIES PendingNeverDeleted
CHECK_DEADLOCK FALSE
