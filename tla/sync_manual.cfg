CONSTANT Contacts = {c1}
SPECIFICATION Spec
PROPERTY
  ManualWins
CHECK_DEADLOCK FALSE
