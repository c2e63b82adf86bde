CONSTANTS
  g1 = g1
  g2 = g2
  g3 = g3
  g4 = g4
  Group = {g1, g2, g3, g4}
  QueueSize = 2
  MaxStaleness = 0
  MaxVersion = 1
  Closed = Closed

SPECIFICATION FairSpec

INVARIANTS
  NothingLost

PROPERTIES
  Drained

CHECK_DEADLOCK FALSE
