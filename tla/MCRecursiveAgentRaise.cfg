CONSTANTS
  MaxNodes = 2
  MaxDepth = 1
  MaxSteps = 2
  MaxChildren = 2
  MaxParallel = 1
  MaxInvalid = 1
  MaxToolCalls = 1
  MaxSubtasks = 1

SPECIFICATION Spec

INVARIANTS
  FailureIsData

CHECK_DEADLOCK FALSE
