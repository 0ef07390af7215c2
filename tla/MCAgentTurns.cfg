SPECIFICATION Spec
CONSTANTS
  t1 = t1
  t2 = t2
  Turns = {t1, t2}
  Sessions = {s1}
  NoSession = NoSession
  MaxCalls <- MCMaxCalls
  MaxClears = 1
INVARIANTS
  SessionsAreWhole
  AnsweredIsCarriedOut
PROPERTY
  TurnsEnd
CHECK_DEADLOCK FALSE
