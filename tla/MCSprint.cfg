SPECIFICATION Spec
CONSTANTS
  Callers = {c1, c2}
  MaxVersions = 3
  MaxTokens = 3
INVARIANTS
  
  TokenIsLive
  PhaseIsBacked
CHECK_DEADLOCK FALSE
