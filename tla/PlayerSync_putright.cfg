SPECIFICATION Spec
CONSTANTS
  p1 = p1
  p2 = p2
  p3 = p3
  Players <- Two
  Uuids <- Two
  Uuid <- OwnUuids
  FixedPoint = {}
  ByName = {}
  Wanderers = {}
  Fragile = {}
  MaxMoves = 2
INVARIANT NextMovePutsRight
CHECK_DEADLOCK FALSE
