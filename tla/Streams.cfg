SPECIFICATION FairSpec
CONSTANTS
  Length = 7
  Writes = 4
  Cuts = {0, 3, 7}
  BlockSize = 2
  BufferSize = 3
  ReadSize = 2
INVARIANTS
  TypeOK
  DeliveredInOrder
  NoByteStranded
  WrittenAsMeant
PROPERTY EverythingRead
CHECK_DEADLOCK FALSE
