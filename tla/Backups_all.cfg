CONSTANTS
  m1 = m1
  m2 = m2
  s1 = s1
  s2 = s2
  x1 = x1
  None = None
  Manual = {m1}
  Runs = {s1, s2}
  Deletes = {x1}
  Keep <- TwoRetentions
  Telegram = {s2}
  MaxRows = 3
  MaxCrashes = 1
  SameSecond = FALSE
SPECIFICATION Spec
INVARIANTS
  TypeOK
  CompletedRestorable
  RetentionKeeps
  ArchivesOwned
CHECK_DEADLOCK FALSE
