SPECIFICATION Spec
CONSTANTS
  Events <- TwoEvents
  Gateways = {g1, g2}
  None = None
  BatchSize = 1
INVARIANT
  MarksSuccessOrRetry
