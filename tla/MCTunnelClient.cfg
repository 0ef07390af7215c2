SPECIFICATION FairSpec
CONSTANTS
  Capacity = 1
  NoLimit = NoLimit
  MaxAttempts = 3
  InitialDelay = 2
  MaxDelay = 3
  BackoffNum = 3
  BackoffDen = 2
  AttemptCap = 3
  MaxFrames = 2
  MaxHeartbeats = 1
  MaxWaits = 1
INVARIANTS
  HandedInOrder
  NoLostWakeup
  ConnectedWhileServing
  BackoffTracksAttempts
PROPERTIES
  FramesAreKept
  
  QueueDrains
CHECK_DEADLOCK FALSE
