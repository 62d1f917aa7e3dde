CONSTANTS
  MaxDeaths = 2
  MaxBreaks = 1
  MaxSpawns = 3
  MaxBoots = 2
  MaxFaults = 2
  MaxFailures = 2
  BusyTolerance = 2
  DegradedAfter = 2
  HistoryLen = 2
SPECIFICATION PartsSpec
INVARIANTS
  OncePerSidecar
  NobodySpendsUnwatched
PROPERTIES
  ShellKeepsOne
  DeathIsSettled
CHECK_DEADLOCK FALSE
