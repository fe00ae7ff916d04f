SPECIFICATION Spec
CONSTANTS
  Target <- TwoTargets
  Check = {"http", "tcp"}
  Workers = 2
  Configs <- AllConfigs
  MaxSyncs = 2
  MaxFlips = 2
INVARIANTS
  TrackedExactly
  VerdictFresh
PROPERTIES
  HealthConverges
