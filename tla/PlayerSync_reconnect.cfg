SPECIFICATION Spec
CONSTANTS
  p1 = p1
  p2 = p2
  p3 = p3
  Players <- Three
  Uuids <- Three
  Uuid <- SharedUuids
  FixedPoint = {}
  ByName = {}
  Wanderers = {}
  Fragile = {}
  MaxMoves = 0
INVARIANT ShownAreListed
CHECK_DEADLOCK FALSE
