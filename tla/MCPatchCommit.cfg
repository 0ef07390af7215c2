SPECIFICATION MCSpec
CONSTANTS
  Tasks = {t1, t2, t3}
  Gone = Gone
  Torn = Torn
  AnyHash = AnyHash
  Asked <- MCAsked
  Names = {"a", "b", "o", "w"}
  MaxLinks = 3
  MaxSteps = 13
  Root <- MCRoot
  Allowed <- MCAllowed
  Trees <- SmallTrees
  Paths <- SmallPaths
  Letters = {"a", "b"}
  MaxLines = 4
  MaxHunk = 2
SYMMETRY Symmetry
INVARIANTS
  LostOnlyByOverlap
  
  
  JailHolds
PROPERTIES
  AtomicReplacement
CHECK_DEADLOCK FALSE
