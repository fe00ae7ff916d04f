SPECIFICATION FairSpec
CONSTANTS
  Key <- MCKey
  Target <- MCTarget
  NoRoute = "none"
  InvalidTarget <- MCInvalidTarget
  UnloadableKey <- MCUnloadableKey
  Rule <- MCRule
  InvalidRule <- MCInvalidRule
  AgentSettings <- MCAgentSettings
  ZeroSettings = "zero"
  LocalRoutes <- NoLocalRoutes
  LocalConfigured = FALSE
  SeedRoutes <- SeededRoutes
  SeedRules <- SeededRules
  Payload <- RejectedPayloads
  NoPayload = NoPayload
  Clock <- SlowClock
  ListenerCap = 2
  Faults <- NoFaults
  MaxPublishes = 3
  MaxCrashes = 1
INVARIANTS
  CaughtUp
  LayersAgree
PROPERTIES
  ServedNeverRollsBack
  Convergence
