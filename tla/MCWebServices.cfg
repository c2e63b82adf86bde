CONSTANTS
  c1 = c1
  c2 = c2
  c3 = c3
  Caller = {c1, c2, c3}
  KeyOf <- TwoAlike
  Search = {c1, c2}
  LongQuery = {c1, c2}
  Candidates = 1
  MaxConcurrency = 2
  MaxRetries = 1

SPECIFICATION FairSpec

INVARIANTS
  ConcurrencyBound
  PlacesDiffer
  CountersAddUp

PROPERTIES
  CallsEnd
