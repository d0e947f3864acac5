SPECIFICATION MCSpec
CONSTANTS
  Main = "m"
  MaxDepth = 3
  Families <- MCFamilies
  Counts <- MCCounts
  Places <- MCPlaces
INVARIANTS
  FollowsProgram
  KindsAreKept
PROPERTY ArgumentsStayInParameters
CHECK_DEADLOCK FALSE
