CONSTANTS
  MaxNodes = 4
  MaxDepth = 2
  MaxSteps = 2
  MaxChildren = 2
  MaxParallel = 2
  MaxInvalid = 1
  MaxToolCalls = 1
  MaxSubtasks = 2

SPECIFICATION FairSpec

INVARIANTS
  ParentsOutliveChildren
  ResultsMatchTree
  NothingLeftRunning

PROPERTIES
  TreeSpec
  RunEnds

CHECK_DEADLOCK FALSE
