SPECIFICATION Spec
CONSTANTS
  r1 = r1
  r2 = r2
  r3 = r3
  Request <- Few
  Writer <- Few
  Key = {"k1", "k2"}
  KeyOf <- FewKeyOf
  RateLimited = TRUE
  Queued = TRUE
  Throttled = TRUE
  MaxConcurrent = 1
  MaxQueued = 1
  QueueTimeout = 1
  MaxBuckets = 1
  BucketTTL = 3
  PruneEvery = 1
  Lag = 1
  AgeBound = 5
  ByteRate = 1
  BurstBytes = 2
  BodySize = 3
  ErrorSize = 1
INVARIANTS
  SlotsAccounted
  WaitersAccounted
  ThrottleRespected
PROPERTIES
  EverybodyLeaves
