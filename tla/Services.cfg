SPECIFICATION OneService
CONSTANTS
  Key = {"k1", "k2", "k3"}
  MaxBuckets = 2
  BucketTTL = 3
  PruneEvery = 1
  Lag = 1
  AgeBound = 5
  RequestRate = 1
  RequestCost = 2
  Burst = 1
  Call = {c1, c2}
  Nothing = Nothing
  ChildFaults = {"garbled"}
  Binding <- Bindings
  Client = {"c1", "c2"}
  Address = {"a"}
  User = {"u", "v"}
  AddressOf <- OneAddress
  UserOf <- TwoUsers
  NoUser = "none"
  MaxTime = 3
  MaxChallenges = 2
  MaxVerified = 2
  MaxFailed = 2
  ChallengeTTL = 1
  VerificationTTL = 2
  MaxIds = 3
  Fetch = {"f1", "f2"}
  Url = {"x", "y"}
  MaxEntries = 1
  StoreTTL = 2
  Second = 3
  Wrap = 8
  Lifetimes = {1, 2, 3}
  CacheHorizon = 3
  OwnName <- Names
  MaxRules = 3
  MaxRoutes = 3
  Trusted = {"p", "q"}
  Untrusted = {"u", "v"}
  Malformed = "?"
  MaxForwarded = 3
  MaxForged = 2
  MaxHops = 2
INVARIANTS
  ServicesTypeOK
  RecencyKept
  QuotaRespected
  PipesOwned
  ListsAgree
  AnswersRationed
  VerifiedEarned
  HitFresh
  RulesKept
  FirstMatchDecides
  ResolvesLikeLegacy
  AddressVouched
PROPERTIES
  WorkerPromiseKept
  EveryCallReturns
  GateEarned
  WithdrawnNotServed
CHECK_DEADLOCK FALSE
