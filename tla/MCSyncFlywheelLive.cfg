CONSTANTS
  MaxRounds = 2
  Targets <- LastTarget
  MaxAttempts = 2
  Batches <- EnoughBatches
  Damageable <- NoDamage
  MaxFaults = 3

SPECIFICATION FairSpec

PROPERTIES
  AllRoundsPublished
