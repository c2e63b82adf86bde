CONSTANTS
  MaxRounds = 3
  Targets <- AnyTarget
  MaxAttempts = 2
  Batches <- EnoughBatches
  Damageable <- AnyDamage
  MaxFaults = 3

SPECIFICATION Spec

INVARIANTS
  TypeOK
  IndexedComplete
  OneStepPerRound
  TrainedFromPublication
  ProgressRecorded
  RefusalMeansDamage

PROPERTIES
  IndexedRoundsKept
  ChainSpec

CHECK_DEADLOCK FALSE
