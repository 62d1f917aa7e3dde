CONSTANTS
  Ops = {"s1", "d1", "vw"}
  KindOf <- MCKindOf
  ByOf <- MCByOf
  Kinds <- MCKinds
  GroupLimits <- MCGroupLimits
  MaxWorkers = 2
  ScanLimit = 10
  SavedLimits = {1}
  Modes <- PerKind
  Batches <- NoBatches
  MaxBoots = 2
  MaxSettings = 0
  MaxFaults = 0
SPECIFICATION FairSpec
INVARIANTS
  RunningRowsOwned
  AtMostOneCall
  NoClashInFlight
PROPERTIES
  ImplementsLedger
  AcceptedIsHonoured
CHECK_DEADLOCK FALSE
