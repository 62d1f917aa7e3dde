CONSTANTS
  Saves = {1, 2, 3}
  Patch <- PatchOf
  Thresholds <- InThresholds
  MaxScores = 1
  MaxScans = 1
  MaxRestarts = 1
  Jobs = {1, 2, 3}
  PageSize = 1
  MaxChanges = 2
  MaxSaves = 2
  MaxPages = 2
  Ops = {1, 2}
  Syncs = {2}
  Sends = {1}
  MaxReads = 1
  MaxWire = 1
  MaxGaps = 1
SPECIFICATION PageSpec
INVARIANTS
  FieldsKept
  RunnerHasSavedCap
  ListIsFeed
  PanelIsTrue
CHECK_DEADLOCK FALSE
