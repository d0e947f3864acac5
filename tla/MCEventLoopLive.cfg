SPECIFICATION FairSpec
CONSTANTS
  c1 = c1
  c2 = c2
  t1 = t1
  t2 = t2
  Idle = Idle
  Callbacks = {c1, c2}
  Timers = {t1, t2}
  Periodic = {t2}
  Reentrant = {}
  MaxQueue = 2
  MaxDepth = 3
PROPERTIES
  CallbackIsCalled
  TimerFires
  LoopEnds
  LoopCloses
CHECK_DEADLOCK FALSE
