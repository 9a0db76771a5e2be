CONSTANTS
  d = d
  f = f
  g = g
  Root = Root
  Dirs = {Root, d}
  Files = {f, g}
  Zips = {f}
  Parent <- MCParent
  MaxFlying = 2
  MaxOps = 1
  MaxHistory = 3
SPECIFICATION Spec
INVARIANTS
  TypeOK
  SelectedListed
  EffectsListed
  HistoryFollows
