CONSTANTS
  Training <- TwoTrainings
  Condition <- FourConditions
  TrainingOf <- MatrixTraining
  ConfigOf <- MatrixConfig
  Base = "base"
  Periodic = "dense_weighted"
  Controls <- ProfileAndSource
  FullControls = "full"
  Binding <- ConfigOfControls
  FullRounds = 2
  FullTasks = 2
  MaxFaults = 2
  MaxOther = 2

SPECIFICATION FairSpec

INVARIANTS
  AcceptedIsComplete

PROPERTIES
  AcceptedInTheEnd

CHECK_DEADLOCK FALSE
