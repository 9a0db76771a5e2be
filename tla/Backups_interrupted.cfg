CONSTANTS
  m1 = m1
  m2 = m2
  s1 = s1
  s2 = s2
  x1 = x1
  None = None
  Manual = {m1}
  Runs = {}
  Deletes = {}
  Keep <- TwoRetentions
  Telegram = {}
  MaxRows = 1
  MaxCrashes = 1
  SameSecond = FALSE
SPECIFICATION Spec
INVARIANTS
  CreatingOwned
CHECK_DEADLOCK FALSE
