SPECIFICATION Spec
CONSTANTS
  c1 = c1
  c2 = c2
  t1 = t1
  t2 = t2
  Idle = Idle
  Callbacks = {c1, c2}
  Timers = {t1}
  Periodic = {t1}
  Reentrant = {c1, c2}
  MaxQueue = 3
  MaxDepth = 4
INVARIANTS
  QueueIsArmed
  RunningMeansInsideRun
CHECK_DEADLOCK FALSE
