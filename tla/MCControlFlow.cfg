SPECIFICATION MCSpec
CONSTANTS
  Families <- MCFamilies
  Modulus = 2
  Variables = {"x", "y"}
  Optionals = {"u", "v"}
  Properties = {"o.p"}
  OptionalProperties = {"o.q"}
  Elements = {"a.0"}
  Rank <- MCRank
  PlaceSets <- MCPlaces
  undefined = undefined
INVARIANTS
  FollowsSource
  RejectionIsExplained
  AliveInScope
  NothingStaysHeld
PROPERTIES
  ValuesAreKept
  CopiesAreIndependent
CHECK_DEADLOCK FALSE
