SPECIFICATION CacheSpec
CONSTANTS
  product = product
  q1 = q1
  e1 = e1
  i1 = i1
  None = None
  SKUs = {product}
  CacheKeys = {product}
  CacheReaders = {q1}
  KeyOf <- ReadsProduct
  Updates = {e1}
  KeysOf <- ClearsAll
  ExpiryReleases = {e1}
  CacheWorkers = {i1}
  Delay = 2
  ReadTime = 1
  TxTime = 0
  TaskBatch = 2
  TaskRetries = 2
  RetryBase = 1
  RetryMax = 1
INVARIANT ReleaseIsDeletedLater
CHECK_DEADLOCK FALSE
