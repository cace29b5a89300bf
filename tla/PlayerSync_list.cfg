SPECIFICATION FairSpec
CONSTANTS
  p1 = p1
  p2 = p2
  p3 = p3
  Players <- Three
  Uuids <- Three
  Uuid <- OwnUuids
  FixedPoint = {}
  ByName = {}
  Wanderers = {}
  Fragile = {}
  MaxMoves = 0
INVARIANTS
  NoGhosts
  MutualSight
PROPERTIES
  ImplementsListSafety
  ImplementsListLiveness
CHECK_DEADLOCK FALSE
