SPECIFICATION FairSpec
CONSTANTS
  Callers = {k1}
  Capacity = 2
  Backlog = 1
  MaxBytes = 3
INVARIANTS
  
  ForwardedWithoutGaps
  HistoryIsSuffix
  
PROPERTY
  ExitIsNoticed
CHECK_DEADLOCK FALSE
