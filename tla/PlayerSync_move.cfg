SPECIFICATION Spec
CONSTANTS
  p1 = p1
  p2 = p2
  p3 = p3
  Players <- Two
  Uuids <- Two
  Uuid <- OwnUuids
  FixedPoint = {p1}
  ByName = {p1}
  Wanderers = {p2}
  Fragile = {p2}
  MaxMoves = 2
INVARIANTS
  TypeOK
  PositionPutRight
  WorldFollowsRecord
PROPERTIES
  NeverBackwards
  RelaysFollowRecord
CHECK_DEADLOCK FALSE
