CONSTANTS
  Workers = {"w1", "w2"}
  Routed = "claude"
  Decisions = "openrouter"
  Threshold = 2
  MaxSwitches = 1
  Jobs = {1, 2}
  Slots = {1, 2}
  Planners = {"tick"}
  Hooks = {}
  MaxAttempts = 1
  Batch = 1
SPECIFICATION PartsSpec
INVARIANTS
  LeaseHasHolder
PROPERTIES
  ClosedByItsOperation
  HealthyProviderResumes
  EveryJobServed
