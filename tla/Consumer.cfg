SPECIFICATION FairSpec
CONSTANTS
  Members = {m1, m2}
  None = None
  Events = {paid, foreign}
  Refused = {foreign}
  Malformed = malformed
  MaxAttempts = 2
  MaxLog = 2
  MaxDisruptions = 2
INVARIANTS
  SkippedWasAbandoned
PROPERTIES
  EveryMessageResolved
CHECK_DEADLOCK FALSE
