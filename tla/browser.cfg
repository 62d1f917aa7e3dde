CONSTANTS
  linkedin = linkedin
  default = default
  page = page
  worker = worker
  s1 = s1
  s2 = s2
  r1 = r1
  r2 = r2
  p1 = p1
  p2 = p2
  p3 = p3
  p4 = p4
  w1 = w1
  w2 = w2
  Slug = {linkedin, default}
  Caller = {page, worker}
  Surf = {s1, s2}
  Reaper = Reaper
  None = None
  MaxSurfaces = 1
  MaxFaults = 1
  MaxQuits = 1
  Run = {r1, r2}
  Page = {p1, p2, p3}
  Win = {w1, w2}
  Closer = Closer
  MaxFailures = 1
  MaxFired = 2
  MaxUser = 1
SPECIFICATION PartsSpec
SYMMETRY Symmetry
INVARIANTS
  OneChromePerProfile
  ReaperSparesHands
  WindowIsWhole
PROPERTIES
  CrashedIsReplaced
CHECK_DEADLOCK FALSE
