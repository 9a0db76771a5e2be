CONSTANTS
  u1 = u1
  u2 = u2
  r1 = r1
  r2 = r2
  w1 = w1
  d1 = d1
  b1 = b1
  Original = Original
  Missing = Missing
  Edit = Edit
  Scraps = Scraps
  Uploads = {u1, u2}
  Restores = {}
  Saves = {w1}
  Deploys = {d1}
  Builds = {d1}
  Archives = {b1}
  RenameMayFail = TRUE
  MaxCrashes = 1
SPECIFICATION FairSpec
INVARIANTS
  TypeOK
  OneLiveUpload
PROPERTY UploadsEnd
CHECK_DEADLOCK FALSE
