CONSTANTS
  Jobs = {1}
  Slots = {1, 2}
  Planners = {"tick", "click", "hook"}
  Hooks = {"hook"}
  MaxAttempts = 1
  Batch = 1
  MaxUsed <- RaceUses
SPECIFICATION Spec
CONSTRAINT FewBesides
INVARIANTS
  AttemptsAccounted
  OnePerPlanner
PROPERTIES
  ScoredOnce
  FloorNeverReplaces
CHECK_DEADLOCK FALSE
