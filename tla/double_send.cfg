CONSTANTS
  Contacts = {"c1"}
  Threads = {"t1", "t2"}
  MaxClicks = 2
SPECIFICATION Spec
INVARIANTS
  OneSendPerContact
CHECK_DEADLOCK FALSE
