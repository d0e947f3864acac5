SPECIFICATION Spec
CONSTANTS
  o1 = o1
  o2 = o2
  t1 = t1
  r1 = r1
  Objects = {o1, o2, t1}
  TimerObjects = {t1}
  Periodic = {t1}
  Roots = {r1}
  Null = Null
  SizeOf <- MCSizeOf
  Limit = 4
  MaxReferences = 1
  MaxDepth = 1
PROPERTIES
  GarbageIsFreed
CHECK_DEADLOCK FALSE
