SPECIFICATION DaemonSpec
CONSTANTS
  Ids = {i1}
  NoId = NoId
  Workers = 2
  TxCapacity = 1
  MaxFrames = 3
INVARIANTS
  OrphanOnlyByOverlap
PROPERTIES
  FramesAreAnswered
CHECK_DEADLOCK FALSE
