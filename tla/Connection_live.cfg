SPECIFICATION FairSpec
CONSTANTS
  Window = 20
  Prompt = TRUE
  Reactor = TRUE
PROPERTIES
  LoginsArrive
  StoppedPeersEnd
CHECK_DEADLOCK FALSE
