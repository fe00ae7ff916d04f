SPECIFICATION FairSpec
CONSTANTS
  Key <- MCKey
  Target <- MCTarget
  NoRoute = "none"
  InvalidTarget <- MCInvalidTarget
  UnloadableKey <- MCUnloadableKey
  Rule <- MCRule
  InvalidRule <- MCInvalidRule
  AgentSettings <- MCAgentSettings
  ZeroSettings = "zero"
  LocalRoutes <- AppLocally
  LocalConfigured = TRUE
  SeedRoutes <- SeededRoutes
  SeedRules <- SeededRules
  Payload <- NoAgentPayloads
  NoPayload = NoPayload
  Clock <- SlowClock
  ListenerCap = 2
  Faults <- NoFaults
  MaxPublishes = 1
  MaxCrashes = 1
INVARIANTS
  EmptyAgentConfigKeepsLocal
