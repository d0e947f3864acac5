SPECIFICATION Spec
CONSTANTS
  p1 = p1
  p2 = p2
  p3 = p3
  p4 = p4
  v1 = v1
  v2 = v2
  Unset = Unset
  Promises = {p1, p2, p3, p4}
  Values = {v1}
  Pairs <- MCWidePairs
  MaxJoins = 1
SYMMETRY MCSymmetry
INVARIANTS
  NoReactionIsLost
  ReactionsInOrder
  JoinedFollow
  RootedWhileNeeded
CHECK_DEADLOCK FALSE
