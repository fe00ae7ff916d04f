SPECIFICATION Spec
CONSTANTS
  Target <- TwoTargets
  Check = {"http"}
  Workers = 1
  Configs <- OneMonitored
  MaxSyncs = 0
  MaxFlips = 0
  Request <- Two
  Route = {"route"}
  RouteOf <- OneRoute
  Pool <- TwoPool
  SafeMethod = {"get", "body"}
  WithBody = {"body"}
  Hints = TRUE
  Metered = TRUE
INVARIANTS
  FailsOver
