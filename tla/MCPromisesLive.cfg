SPECIFICATION FairSpec
CONSTANTS
  p1 = p1
  p2 = p2
  p3 = p3
  p4 = p4
  v1 = v1
  v2 = v2
  Unset = Unset
  Promises = {p1, p2, p3}
  Values = {v1}
  Pairs <- MCWidePairs
  MaxJoins = 1
PROPERTIES
  ReactionRuns
  ChainSettles
CHECK_DEADLOCK FALSE
