CONSTANTS
  v1 = v1
  v2 = v2
  bad = bad
  r1 = r1
  r2 = r2
  i1 = i1
  i2 = i2
  m1 = m1
  Contents = {v1, v2, bad}
  Splittable = {v1, v2}
  Requests = {r1, r2}
  IngestConsumers = {i1, i2}
  EmbedConsumers = {m1}
  MaxAttempts = 2
  None = None
  MaxRetries = 1
  MaxCopies = 2
  MaxFaults = 0
SPECIFICATION
  FairSpec
INVARIANTS
  Visibility
  ObjectsKept
PROPERTIES
  ImplementsKnowledgeStore
  DocumentsSettle
CHECK_DEADLOCK FALSE
