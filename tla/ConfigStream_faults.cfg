SPECIFICATION Spec
CONSTANTS
  Key <- MCKey
  Target <- MCTarget
  NoRoute = "none"
  InvalidTarget <- MCInvalidTarget
  UnloadableKey <- MCUnloadableKey
  Rule <- MCRule
  InvalidRule <- MCInvalidRule
  AgentSettings <- MCAgentSettings
  ZeroSettings = "zero"
  LocalRoutes <- AppLocally
  LocalConfigured = TRUE
  SeedRoutes <- SeededRoutes
  SeedRules <- SeededRules
  Payload <- FaultPayloads
  NoPayload = NoPayload
  Clock <- SlowClock
  ListenerCap = 2
  Faults <- AllFaults
  MaxPublishes = 3
  MaxCrashes = 1
INVARIANTS
  TypeOK
  VersionsInStep
  DigestIsHeld
  PendingInOrder
  NewestReachesApplier
