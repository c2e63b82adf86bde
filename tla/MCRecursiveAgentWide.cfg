CONSTANTS
  MaxNodes = 4
  MaxDepth = 1
  MaxSteps = 2
  MaxChildren = 2
  MaxParallel = 3
  MaxInvalid = 2
  MaxToolCalls = 1
  MaxSubtasks = 3

SPECIFICATION Spec

INVARIANTS
  WithinLimits

PROPERTIES
  RootLaunchesOnce

CHECK_DEADLOCK FALSE
