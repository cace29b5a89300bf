SPECIFICATION Spec
CONSTANTS
  c1 = c1
  c2 = c2
  f1 = f1
  f2 = f2
  Clients = {c1, c2}
  Fds = {f1, f2}
  Pipes = {}
  Garbled = {c1}
  Frames <- ThreeAndOne
  ReadSize = 3
  MaxAsks = 1
INVARIANTS TypeOK DescriptorsHonest HandledInOrder CountedOutOnce
SYMMETRY Symmetry
CHECK_DEADLOCK FALSE
