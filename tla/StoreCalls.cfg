CONSTANTS
  r = r  a = a  b = b  c = c
  w1 = w1  w2 = w2  w3 = w3  m1 = m1  m2 = m2
  Ids <- Quartet
  Root <- QuartetRoot
  Children <- QuartetChildren
  MayAwait <- QuartetAwait
  Timers = {}
  External = {r}
  Workers = {w1, w2, w3}
  Sweepers = {}
  MaxFailures = 2
  Outcomes <- NoRetry
  Expiring = {}
  Collectable = {}
SPECIFICATION Spec
INVARIANTS ExactWaitCount
SYMMETRY SessionSymmetry
CHECK_DEADLOCK FALSE
