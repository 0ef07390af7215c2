SPECIFICATION FairSpec
CONSTANTS
  i1 = i1
  Calls = {c1, c2}
  Ids = {i1}
  Id <- MCId
  NoCall = NoCall
  auto_restart = TRUE
  max_restart_attempts = 1
  failure_threshold = 1
  StdinCapacity = 1
INVARIANTS
  NoOrphanCaller
  EntriesAreOwed
  BreakerCoherent
  RestartsBounded
PROPERTY
  CallsReturn
CHECK_DEADLOCK FALSE
