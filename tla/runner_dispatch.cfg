CONSTANTS
  Ops = {"sc","s1","s2"}
  KindOf <- MCKindOf
  ByOf <- MCByOf
  Kinds <- MCKinds
  GroupLimits <- MCGroupLimits
  MaxWorkers = 2
  ScanLimit = 10
  SavedLimits = {0}
  Modes <- BothModes
  Batches <- ScorePair
  MaxBoots = 2
  MaxSettings = 1
  MaxFaults = 1
SPECIFICATION Spec
INVARIANTS
  NothingStranded
  ClickHasThread
CHECK_DEADLOCK FALSE
