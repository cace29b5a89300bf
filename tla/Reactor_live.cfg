SPECIFICATION FairSpec
CONSTANTS
  c1 = c1
  c2 = c2
  f1 = f1
  f2 = f2
  Clients = {c1}
  Fds = {f1}
  Pipes = {c1}
  Garbled = {}
  Frames <- ThreeAndOne
  ReadSize = 3
  MaxAsks = 2
PROPERTIES FramesServed EndsAreSeen
CHECK_DEADLOCK FALSE
