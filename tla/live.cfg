CONSTANTS
  Keys = {"board"}
  Outcomes = {"succeeded", "cancelled"}
  MaxWrites = 2
  MaxGen = 2
  MaxMounts = 2
  QueueMax = 1
  RebuildAfter = 3
SPECIFICATION FairSpec
INVARIANTS
  ViewsAccounted
PROPERTIES
  EndsLive
CHECK_DEADLOCK FALSE
