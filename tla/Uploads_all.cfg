CONSTANTS
  a = a
  b = b
  c = c
  None = None
  Existing = a
  New = {b, c}
  MaxXhrs = 2
  MaxPosts = 1
SPECIFICATION FairSpec
INVARIANTS
  TypeOK
  UploadingIsReal
  OutcomeTruthful
  BusyExplained
PROPERTY OutcomeShown
