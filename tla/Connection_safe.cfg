SPECIFICATION Spec
CONSTANTS
  Window = 3
  Prompt = FALSE
  Reactor = TRUE
INVARIANTS
  TypeOK
  BothUnderstand
  SettledByWhomItAsks
  EndsUncounted
  AnswersMatch
CHECK_DEADLOCK FALSE
