CONSTANTS
  MaxRounds = 3
  Interval = 2
  MaxAttempts = 2
  Batches <- EnoughBatches
  Damageable <- OptimizerDamage
  MaxFaults = 2

SPECIFICATION FairSpec

INVARIANTS
  NeverBehind
  TrainedMeansPublished
  EvaluatedPolicy

PROPERTIES
  EvaluationsKept
  AllEvaluated
