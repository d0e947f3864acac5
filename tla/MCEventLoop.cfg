SPECIFICATION Spec
CONSTANTS
  c1 = c1
  c2 = c2
  t1 = t1
  t2 = t2
  Idle = Idle
  Callbacks = {c1, c2}
  Timers = {t1, t2}
  Periodic = {t2}
  Reentrant = {}
  MaxQueue = 3
  MaxDepth = 4
INVARIANTS
  TypeOK
  NoCallbackWhileClosing
  ClosedAtTheEnd
PROPERTIES
  RunDoesAllWork
  ImplementsQueue
CHECK_DEADLOCK FALSE
