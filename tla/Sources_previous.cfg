CONSTANTS
  u1 = u1
  u2 = u2
  r1 = r1
  r2 = r2
  w1 = w1
  d1 = d1
  b1 = b1
  Original = Original
  Missing = Missing
  Edit = Edit
  Scraps = Scraps
  Uploads = {u1}
  Restores = {}
  Saves = {}
  Deploys = {}
  Builds = {}
  Archives = {}
  RenameMayFail = FALSE
  MaxCrashes = 0
SPECIFICATION Spec
INVARIANTS
  PreviousKept
CHECK_DEADLOCK FALSE
