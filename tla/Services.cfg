SPECIFICATION ServicesSpec
CONSTANTS
  None = None
  k1 = k1
  k2 = k2
  SKUs = {k1, k2}

  r1 = r1
  session = session
  Runs = {r1}
  Sessions = {session}
  SessionOf <- OneSession
  Answers <- ModelAnswers
  MaxCandidates = 2
  MaxSteps = 2
  RunTimeoutFirst = TRUE
  Readers = {q1}

  c1 = c1
  c2 = c2
  a1 = a1
  a2 = a2
  a3 = a3
  h1 = h1
  h2 = h2
  OrderCalls = {c1, c2}
  RequestOf <- OneRequest
  AddressOf <- TwoAddresses
  AddCalls = {a1, a2, a3}
  SkuOf <- AddedSku
  QuantityOf <- AddedQuantity
  MaxQuantity = 2
  MaxMoney = 20
  Offers <- SomeOffers
  Promotions <- SomePromotions
  MaxChanges = 1

  o1 = o1
  p1 = p1
  v1 = v1
  v2 = v2
  v3 = v3
  b1 = b1
  w1 = w1
  w2 = w2
  w3 = w3
  Submissions = {v1, v2, v3}
  ReviewOf <- SomeReviews
  ReviewedOrders = {o1}
  Ordered <- AllOrdered
  Products = {p1}
  ProductOf <- OneProduct
  BehaviorEvents = {b1}
  Consumers = {w1, w2, w3}
  KindOf <- TwoGroups
  Garbage = garbage
  MaxMessages = 2
  MaxRestarts = 1

  product = product
  q1 = q1
  u1 = u1
  e1 = e1
  i1 = i1
  CacheKeys = {product}
  CacheReaders = {q1}
  KeyOf <- ReadsProduct
  Updates = {u1, e1}
  KeysOf <- ClearsAll
  ExpiryReleases = {e1}
  CacheWorkers = {i1}
  Delay = 2
  ReadTime = 0
  TxTime = 0
  TaskBatch = 2
  TaskRetries = 1
  RetryBase = 1
  RetryMax = 1

  Owners = {d1}
  AddressCalls = {d2, d3}
  MaxAddressId = 2
  MaxProfile = 2

  TargetChars = 5
  MaxChars = 6
  LineSizes = {1, 2, 5, 14}
  MaxLines = 5

  g1 = g1
  g2 = g2
  g3 = g3
  t1 = t1
  t2 = t2
  DocTypes = {t1, t2}
  KnowledgeDocuments = {g1, g2, g3}
  TypeOf <- TwoTypes
  ChunkCount <- SomeChunks
  Searches = {s1}
  TopKs = {0, 1, 2}
  DefaultTopK = 3
  MaxTopK = 2

  HttpRequests = {x1}

  MaxOrders = 2

  MaxFileBytes = 2
  MaxRetryCalls = 1

  MaxInt = 31
  Sizes = {0, 1, 2, 3, 6, 7, 15, 16, 31}
INVARIANTS
  ServicesTypeOK
  TraceComplete
  RecommendationsVerified
  RunAnswersTruthful
  RunsAreClosed
  TimelineTruthful
  NoAddIsLost
  OneOrderPerRequest
  OrdersAddUp
  StatsMatchReviews
  PassedIsRecorded
  StaleIsDue
  DefaultsFollowTheRules
  ChunksKeepTheText
  AnswersAreHonest
  WorkersHoldWhatTheyUse
  BatchesAreBounded
  OrdersCanBeRead
  EventsAreAccepted
PROPERTIES
  SearchShowsTheCurrent
CHECK_DEADLOCK FALSE
