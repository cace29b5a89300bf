CONSTANTS
  GroupBits = 2
  Width = 5
  Bodies <- MCBodies
  Spoken <- MCSpoken
  Thresholds = {0, 2}
  MaxPacketSize = 8
  maxPrePlayPacketSize = 7
  MaxWrites = 2
  MaxSays = 3
  ReadSize = 4
SPECIFICATION Spec
INVARIANTS
  VarIntsReadBack BothWaysAsMeant DroppedForCause NoFrameWaits
CHECK_DEADLOCK FALSE
