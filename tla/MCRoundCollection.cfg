CONSTANTS
  Tasks = 2
  GroupSize = 2
  Slots = 2
  MaxConcurrentGroups = 2
  MaxAttempts = 2
  Branches = 2
  MaxTurns <- OneRolloutBranches

SPECIFICATION FairSpec

INVARIANTS
  SlotExclusive
  TrainsOnWholeGroups

PROPERTIES
  NoWriteAfterCancel
  RoundEnds

CHECK_DEADLOCK FALSE
