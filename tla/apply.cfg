CONSTANTS
  Runs = {1}
  Starters = {"a", "b"}
  MaxAsks = 2
  MaxBoots = 2
  None = None
  r1 = r1
  r2 = r2
  p1 = p1
  p2 = p2
  p3 = p3
  w1 = w1
  w2 = w2
  Run = {r1, r2}
  Page = {p1, p2}
  Win = {w1, w2}
  Closer = Closer
  MaxFaults = 1
  MaxFired = 1
  MaxUser = 1
  linkedin = linkedin
  worker1 = worker1
  s1 = s1
  s2 = s2
  Slug = {linkedin}
  Caller = {worker1}
  Surf = {s1, s2}
  Reaper = Reaper
  MaxSurfaces = 1
  MaxQuits = 1
SPECIFICATION PartsSpec
INVARIANTS
  CardFollowsRun
  ClicksAsked
  ActiveRunOwned
  LedgerTellsRun
PROPERTIES
  TakenUpRunEnds
  IdleWindowCloses
  IdleIsReclaimed
CHECK_DEADLOCK FALSE
