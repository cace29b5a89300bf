SPECIFICATION FairSpec
CONSTANTS
  Window = 3
  Prompt = TRUE
  Reactor = TRUE
PROPERTY StoppedPeersEnd
CHECK_DEADLOCK FALSE
