SPECIFICATION FairSpec
CONSTANTS
  Events <- TwoEvents
  Workers = {w1, w2}
  None = None
  BatchSize = 2
  LeaseDuration = 5
  CallTimeout = 1
  Rounding = 1
  FirstDelay = 1
  MaxDelay = 1
INVARIANTS
  LeaseCoversBatch
PROPERTIES
  LeaseFences
  EveryEventPublished
