CONSTANTS
  Sent = {"dms"}
  SendCap = 1
  ViewCap = 1
  Page = 2
  MaxProbes = 1
  MaxQueue = 2
  MaxDue = 1
  c1 = c1
  c2 = c2
  t1 = t1
  t2 = t2
  Contacts = {c1, c2}
  Threads = {t1, t2}
  MaxClicks = 2
  Card = {c1}
SPECIFICATION OutreachSpec
INVARIANTS
  LedgerIsTrue
  BatchIsAccounted
PROPERTIES
  PauseOutlivesOthers
  BoardKept
CHECK_DEADLOCK FALSE
