SPECIFICATION Spec
CONSTANTS
  p1 = p1
  p2 = p2
  p3 = p3
  p4 = p4
  v1 = v1
  v2 = v2
  Unset = Unset
  Promises = {p1, p2}
  Values = {v1, v2}
  Pairs <- MCPairs
  MaxJoins = 1
PROPERTIES
  RejectIsIgnored
CHECK_DEADLOCK FALSE
